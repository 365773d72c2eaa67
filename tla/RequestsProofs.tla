--------------------------- MODULE RequestsProofs ---------------------------
(***************************************************************************)
(* Theorems about commands and the connections that serve them, for any    *)
(* number of connections and sessions, any scenarios and any output.       *)
(***************************************************************************)
EXTENDS Requests, FiniteSetTheorems, WellFoundedInduction, TLAPS

CliFields == {"at", "n", "exit", "printed"}
SrvFields == {"at", "caps", "did", "n", "id"}
ChildFields == {"run", "out", "sent", "code"}
Shape ==
    /\ plan \in Scenarios
    /\ DOMAIN cli = Conns /\ DOMAIN srv = Conns /\ DOMAIN up = Conns /\ DOMAIN down = Conns
    /\ DOMAIN link = Conns /\ DOMAIN child = Conns
    /\ \A c \in Conns : /\ DOMAIN cli[c] = CliFields /\ DOMAIN srv[c] = SrvFields
                        /\ DOMAIN child[c] = ChildFields

\* A step is one connection's, or the users'.
Same(d) ==
    /\ cli'[d] = cli[d] /\ srv'[d] = srv[d] /\ up'[d] = up[d] /\ down'[d] = down[d]
    /\ link'[d] = link[d] /\ child'[d] = child[d]
Acts(c) ==
    \/ ClientStep(c) \/ ClipStep(c) \/ ServerStep(c) \/ StreamAbort(c) \/ LoopEnds(c)
    \/ OperationTimeout(c) \/ LeaveShell(c) \/ LinkLost(c) \/ JobExits(c)
    \/ KeysAdd(c) \/ KeysRemove(c)

\* Who is at a session.
Holders(id) == {c \in Conns : srv[c].at = "shell" /\ srv[c].id = id}
CountInv ==
    /\ sessions \in [next : 1 .. MaxSessions + 1, count : [1 .. MaxSessions -> Int]]
    /\ \A c \in Conns : srv[c].at = "shell" => srv[c].id \in 1 .. MaxSessions /\ srv[c].id < sessions.next
    /\ \A id \in 1 .. MaxSessions : sessions.count[id] >= 0 => id < sessions.next
    /\ CountsAreTrue

-----------------------------------------------------------------------------
(* The shape of the state, and what a step leaves alone. *)

LEMMA ShapeStart == Init => Shape
<1> SUFFICES ASSUME Init PROVE Shape
  OBVIOUS
<1> QED
  BY DEF Init, Shape, NoChild, CliFields, SrvFields, ChildFields

LEMMA FinishShape ==
    ASSUME Shape, NEW c \in Conns, NEW e
    PROVE  /\ DOMAIN Finish(c, e) = Conns /\ \A d \in Conns : DOMAIN Finish(c, e)[d] = CliFields
           /\ \A d \in Conns \ {c} : Finish(c, e)[d] = cli[d]
  BY DEF Shape, Finish, CliFields

LEMMA NextCallShape ==
    ASSUME Shape, NEW c \in Conns, NEW good, NEW code
    PROVE  /\ DOMAIN NextCall(c, good, code) = Conns
           /\ \A d \in Conns : DOMAIN NextCall(c, good, code)[d] = CliFields
           /\ \A d \in Conns \ {c} : NextCall(c, good, code)[d] = cli[d]
<1>1. \A e : /\ DOMAIN Finish(c, e) = Conns /\ \A d \in Conns : DOMAIN Finish(c, e)[d] = CliFields
             /\ \A d \in Conns \ {c} : Finish(c, e)[d] = cli[d]
  BY FinishShape
<1>2. ASSUME NEW a PROVE
        LET f == [cli EXCEPT ![c].at = a] IN
        /\ DOMAIN f = Conns /\ \A d \in Conns : DOMAIN f[d] = CliFields
        /\ \A d \in Conns \ {c} : f[d] = cli[d]
  BY DEF Shape, CliFields
<1> QED
  BY <1>1, <1>2 DEF NextCall

\* What the server makes of its own record.
LEMMA AtShape ==
    ASSUME Shape, NEW c \in Conns, NEW a
    PROVE  /\ DOMAIN At(c, a) = Conns /\ \A d \in Conns : DOMAIN At(c, a)[d] = SrvFields
           /\ At(c, a)[c].at = a /\ At(c, a)[c].did = srv[c].did /\ At(c, a)[c].id = srv[c].id
           /\ \A d \in Conns \ {c} : At(c, a)[d] = srv[d]
  BY DEF Shape, SrvFields, At

DidWell(c, n, a) == Did(c, n, TRUE, a)
DidBadly(c, n, a) == Did(c, n, FALSE, a)

LEMMA DidShape ==
    ASSUME Shape, NEW c \in Conns, NEW n, NEW a
    PROVE  /\ \A f \in {DidWell(c, n, a), DidBadly(c, n, a)} :
                /\ DOMAIN f = Conns /\ \A d \in Conns : DOMAIN f[d] = SrvFields
                /\ f[c].at = a /\ \A d \in Conns \ {c} : f[d] = srv[d]
           /\ DidWell(c, n, a)[c].did = srv[c].did \cup {n}
           /\ DidBadly(c, n, a)[c].did = srv[c].did
  BY DEF Shape, SrvFields, Did, DidWell, DidBadly

LEMMA DidEither ==
    ASSUME NEW c, NEW n, NEW ok \in BOOLEAN, NEW a
    PROVE  \/ ok /\ Did(c, n, ok, a) = DidWell(c, n, a)
           \/ ~ok /\ Did(c, n, ok, a) = DidBadly(c, n, a)
<1>1. CASE ok
  <2>1. ok = TRUE
    BY <1>1
  <2> QED
    BY <2>1 DEF DidWell, DidBadly
<1>2. CASE ~ok
  <2>1. ok = FALSE
    BY <1>2
  <2> QED
    BY <2>1 DEF DidWell, DidBadly
<1> QED
  BY <1>1, <1>2

\* All the ways a step changes a client's record, a server's, a channel and a child.
CliMove(c) ==
    \/ cli' = cli
    \/ \E a : cli' = [cli EXCEPT ![c].at = a]
    \/ \E a, n : cli' = [cli EXCEPT ![c].at = a, ![c].n = n]
    \/ \E p : cli' = [cli EXCEPT ![c].printed = p]
    \/ \E e : cli' = Finish(c, e)
    \/ \E g, e : cli' = NextCall(c, g, e)
SrvMove(c) ==
    \/ srv' = srv
    \/ \E a : srv' = At(c, a)
    \/ \E a, s : srv' = [srv EXCEPT ![c].at = a, ![c].caps = s]
    \/ \E n, a : srv' = DidWell(c, n, a) \/ srv' = DidBadly(c, n, a)
    \/ \E a, n : srv' = [At(c, a) EXCEPT ![c].n = n]
    \/ \E n, a, id : srv' = [DidWell(c, n, a) EXCEPT ![c].id = id]
ChildMove(c) ==
    \/ child' = child
    \/ \E x : child' = [child EXCEPT ![c].run = x]
    \/ \E x : child' = [child EXCEPT ![c].sent = x]
    \/ \E r : child' = [child EXCEPT ![c] = Spawned(r)]
Moves(c) ==
    /\ CliMove(c) /\ SrvMove(c) /\ ChildMove(c)
    /\ up' = up \/ \E x : up' = [up EXCEPT ![c] = x]
    /\ down' = down \/ \E x : down' = [down EXCEPT ![c] = x]
    /\ link' = link \/ \E x : link' = [link EXCEPT ![c] = x]

LEMMA MovesFrame ==
    ASSUME Shape, NEW c \in Conns, Moves(c), plan' = plan
    PROVE  Shape' /\ \A d \in Conns \ {c} : Same(d)
<1>1. /\ DOMAIN cli' = Conns /\ \A d \in Conns : DOMAIN cli'[d] = CliFields
      /\ \A d \in Conns \ {c} : cli'[d] = cli[d]
  <2>1. CASE \E e : cli' = Finish(c, e)
    BY <2>1, FinishShape
  <2>2. CASE \E g, e : cli' = NextCall(c, g, e)
    BY <2>2, NextCallShape
  <2>3. CASE \/ cli' = cli
             \/ \E a : cli' = [cli EXCEPT ![c].at = a]
             \/ \E a, n : cli' = [cli EXCEPT ![c].at = a, ![c].n = n]
             \/ \E p : cli' = [cli EXCEPT ![c].printed = p]
    BY <2>3 DEF Shape, CliFields
  <2> QED
    BY <2>1, <2>2, <2>3 DEF Moves, CliMove
<1>2. /\ DOMAIN srv' = Conns /\ \A d \in Conns : DOMAIN srv'[d] = SrvFields
      /\ \A d \in Conns \ {c} : srv'[d] = srv[d]
  <2>1. CASE \E a : srv' = At(c, a)
    BY <2>1, AtShape
  <2>2. CASE \E n, a : srv' = DidWell(c, n, a) \/ srv' = DidBadly(c, n, a)
    BY <2>2, DidShape
  <2>3. CASE srv' = srv \/ \E a, s : srv' = [srv EXCEPT ![c].at = a, ![c].caps = s]
    BY <2>3 DEF Shape, SrvFields
  <2>4. CASE \E a, n : srv' = [At(c, a) EXCEPT ![c].n = n]
    <3>1. PICK a, n : srv' = [At(c, a) EXCEPT ![c].n = n]
      BY <2>4
    <3>2. /\ DOMAIN At(c, a) = Conns /\ \A d \in Conns : DOMAIN At(c, a)[d] = SrvFields
          /\ \A d \in Conns \ {c} : At(c, a)[d] = srv[d]
      BY AtShape
    <3> QED
      BY <3>1, <3>2 DEF SrvFields
  <2>5. CASE \E n, a, id : srv' = [DidWell(c, n, a) EXCEPT ![c].id = id]
    <3>1. PICK n, a, id : srv' = [DidWell(c, n, a) EXCEPT ![c].id = id]
      BY <2>5
    <3>2. /\ DOMAIN DidWell(c, n, a) = Conns /\ \A d \in Conns : DOMAIN DidWell(c, n, a)[d] = SrvFields
          /\ \A d \in Conns \ {c} : DidWell(c, n, a)[d] = srv[d]
      BY DidShape
    <3> QED
      BY <3>1, <3>2 DEF SrvFields
  <2> QED
    BY <2>1, <2>2, <2>3, <2>4, <2>5 DEF Moves, SrvMove
<1>3. /\ DOMAIN child' = Conns /\ \A d \in Conns : DOMAIN child'[d] = ChildFields
      /\ \A d \in Conns \ {c} : child'[d] = child[d]
  BY DEF Moves, ChildMove, Shape, ChildFields, Spawned
<1>4. /\ DOMAIN up' = Conns /\ DOMAIN down' = Conns /\ DOMAIN link' = Conns
      /\ \A d \in Conns \ {c} : up'[d] = up[d] /\ down'[d] = down[d] /\ link'[d] = link[d]
  BY DEF Moves, Shape
<1> QED
  BY <1>1, <1>2, <1>3, <1>4 DEF Shape, Same

LEMMA ExecMoves ==
    ASSUME NEW c, NEW m, NEW a, ServeExec(c, m, a)
    PROVE  SrvMove(c) /\ ChildMove(c) /\ (down' = down \/ \E x : down' = Send(down, c, x))
<1>1. PICK r \in Commands(c, m.x) :
         \/ /\ child' = [child EXCEPT ![c] = Spawned(r)]
            /\ srv' = [At(c, a) EXCEPT ![c].n = m.n] /\ UNCHANGED down
         \/ /\ srv' = DidBadly(c, m.n, "loop")
            /\ \E x : down' = Send(down, c, x)
            /\ UNCHANGED child
  BY DEF ServeExec, DidBadly
<1> QED
  BY <1>1 DEF SrvMove, ChildMove

LEMMA JsonMoves ==
    ASSUME NEW c, NEW m, ServeJson(c, m)
    PROVE  SrvMove(c) /\ ChildMove(c) /\ (down' = down \/ \E x : down' = Send(down, c, x))
<1>1. CASE ServeExec(c, [m EXCEPT !.x = CurrentCall(c)], "json-exec")
  BY <1>1, ExecMoves
<1>2. CASE \/ ServeClip(c, m) \/ ServeSession(c, m) \/ ServeOther(c, m)
           \/ /\ srv' = Did(c, m.n, FALSE, "loop") /\ down' = Send(down, c, Msg("RESPONSE", m.n, FALSE))
              /\ UNCHANGED <<sessions, clip, child>>
  <2>1. UNCHANGED child /\ \E x : down' = Send(down, c, x)
    BY <1>2 DEF ServeClip, ServeSession, ServeOther
  <2>2. \E ok \in BOOLEAN : srv' = Did(c, m.n, ok, "loop")
    <3>1. CASE ServeSession(c, m)
      BY <3>1 DEF ServeSession, has_session
    <3>2. CASE ServeOther(c, m)
      BY <3>2 DEF ServeOther, MayAnswer
    <3> QED
      BY <1>2, <3>1, <3>2 DEF ServeClip
  <2>3. \E n, a : srv' = DidWell(c, n, a) \/ srv' = DidBadly(c, n, a)
    BY <2>2, DidEither
  <2> QED
    BY <2>1, <2>3 DEF SrvMove, ChildMove
<1>3. CASE ServeShell(c, m)
  <2>1. UNCHANGED child /\ \E x, id : srv' = [DidWell(c, m.n, "shell") EXCEPT ![c].id = id] /\ down' = Send(down, c, x)
    BY <1>3 DEF ServeShell, DidWell
  <2> QED
    BY <2>1 DEF SrvMove, ChildMove
<1> QED
  BY <1>1, <1>2, <1>3 DEF ServeJson

LEMMA ServeMoves ==
    ASSUME Shape, NEW c \in Conns, Serve(c)
    PROVE  Moves(c)
<1> DEFINE m == Head(up[c])
<1>1. /\ up' = Take(up, c) /\ UNCHANGED <<plan, cli, link>>
      /\ \/ \E x : srv' = DidWell(c, m.n, "loop") /\ down' = Send(down, c, x) /\ UNCHANGED child
         \/ \E a : ServeExec(c, m, a)
         \/ ServeLog(c, m) /\ UNCHANGED child
         \/ ServeJson(c, m)
  BY DEF Serve, DidWell
<1> HIDE DEF m
<1>2. SrvMove(c) /\ ChildMove(c) /\ (down' = down \/ \E x : down' = [down EXCEPT ![c] = x])
  <2>1. CASE \E x : srv' = DidWell(c, m.n, "loop") /\ down' = Send(down, c, x) /\ UNCHANGED child
    BY <2>1 DEF SrvMove, ChildMove, Send
  <2>2. CASE \E a : ServeExec(c, m, a)
    BY <2>2, ExecMoves DEF Send
  <2>3. CASE ServeLog(c, m) /\ UNCHANGED child
    BY <2>3 DEF ServeLog, SrvMove, ChildMove, Send, DidWell, DidBadly
  <2>4. CASE ServeJson(c, m)
    BY <2>4, JsonMoves DEF Send
  <2> QED
    BY <1>1, <2>1, <2>2, <2>3, <2>4
<1>3. UNCHANGED link /\ \E x : up' = [up EXCEPT ![c] = x]
  BY <1>1 DEF Take
<1> QED
  BY <1>1, <1>2, <1>3 DEF Moves, CliMove

LEMMA ActsMoves ==
    ASSUME Shape, NEW c \in Conns, Acts(c)
    PROVE  Moves(c) /\ plan' = plan
<1> USE DEF Moves, CliMove, SrvMove, ChildMove, Send, Take
<1>1. CASE Hello(c)
  BY <1>1 DEF Hello
<1>2. CASE TakeAuth(c)
  BY <1>2 DEF TakeAuth
<1>3. CASE StartCall(c)
  BY <1>3 DEF StartCall
<1>4. CASE Answer(c)
  BY <1>4 DEF Answer, ExecResult
<1>5. CASE AnswerLost(c)
  BY <1>5 DEF AnswerLost
<1>6. CASE PollClipboard(c)
  BY <1>6 DEF PollClipboard
<1>7. CASE ClipAnswer(c)
  BY <1>7 DEF ClipAnswer
<1>8. CASE AuthRequest(c)
  BY <1>8 DEF AuthRequest, LookUp, Reject, At
<1>9. CASE AuthResponse(c)
  <2>1. /\ UNCHANGED <<plan, cli, link, child>> /\ up' = Take(up, c)
        /\ \/ Reject(c) \/ Welcome(c)
           \/ /\ \E x : down' = Send(down, c, x)
              /\ \E a : srv' = [srv EXCEPT ![c].at = a]
    BY <1>9 DEF AuthResponse
  <2> QED
    BY <2>1 DEF Welcome, Reject, At
<1>10. CASE AuthTotp(c)
  BY <1>10 DEF AuthTotp, Welcome, Reject, At
<1>11. CASE AuthEnds(c)
  BY <1>11 DEF AuthEnds, At
<1>12. CASE Serve(c)
  BY <1>12, ServeMoves DEF Serve
<1>13. CASE ExecDone(c)
  <2>1. \E n, a : srv' = DidWell(c, n, a) \/ srv' = DidBadly(c, n, a)
    <3>1. PICK ok \in BOOLEAN : ok = (child[c].code = 0)
      BY Zenon
    <3>2. srv' = Did(c, srv[c].n, ok, "loop")
      BY <1>13, <3>1 DEF ExecDone
    <3> QED
      BY <3>2, DidEither
  <2> QED
    BY <1>13, <2>1 DEF ExecDone
<1>14. CASE StreamChunk(c)
  BY <1>14 DEF StreamChunk
<1>15. CASE StreamExit(c)
  <2>1. \E n, a : srv' = DidWell(c, n, a) \/ srv' = DidBadly(c, n, a)
    <3>1. PICK ok \in BOOLEAN : ok = (child[c].code = 0)
      BY Zenon
    <3>2. srv' = Did(c, srv[c].n, ok, "loop")
      BY <1>15, <3>1 DEF StreamExit
    <3> QED
      BY <3>2, DidEither
  <2> QED
    BY <1>15, <2>1 DEF StreamExit
<1>16. CASE ShellEnds(c)
  BY <1>16 DEF ShellEnds
<1>17. CASE StreamAbort(c)
  BY <1>17 DEF StreamAbort
<1>18. CASE LoopEnds(c)
  BY <1>18 DEF LoopEnds
<1>19. CASE OperationTimeout(c) \/ LeaveShell(c)
  BY <1>19 DEF OperationTimeout, LeaveShell
<1>20. CASE LinkLost(c) \/ JobExits(c) \/ KeysAdd(c) \/ KeysRemove(c)
  BY <1>20 DEF LinkLost, JobExits, KeysAdd, KeysRemove
<1> QED
  BY <1>1, <1>2, <1>3, <1>4, <1>5, <1>6, <1>7, <1>8, <1>9, <1>10, <1>11, <1>12, <1>13, <1>14, <1>15,
     <1>16, <1>17, <1>18, <1>19, <1>20 DEF Acts, ClientStep, ClipStep, ServerStep

\* A step is one connection's, or only of the clipboards.
LEMMA Frame ==
    ASSUME Shape, [Next]_vars
    PROVE  /\ Shape' /\ plan' = plan
           /\ \/ \E c \in Conns : Acts(c) /\ \A d \in Conns \ {c} : Same(d)
              \/ UNCHANGED <<cli, srv, up, down, link, child, sessions>>
<1>1. CASE \E c \in Conns : Acts(c)
  BY <1>1, ActsMoves, MovesFrame
<1>2. CASE \E side \in {"local", "remote"} : Copy(side)
  BY <1>2 DEF Copy, Shape
<1>3. CASE UNCHANGED vars
  BY <1>3 DEF vars, Shape
<1> QED
  BY <1>1, <1>2, <1>3 DEF Next, Acts

-----------------------------------------------------------------------------
(* Sessions. *)

\* The connection is at a session before and after the step, or neither.
Stays(c) ==
    /\ (srv'[c].at = "shell") = (srv[c].at = "shell")
    /\ srv[c].at = "shell" => srv'[c].id = srv[c].id
Entered(c) ==
    \E id \in Int :
       /\ IF has_session(id) THEN sessions' = attach(id) ELSE sessions' = create /\ sessions.next <= MaxSessions
       /\ has_session(id) => id \in 1 .. MaxSessions
       /\ srv[c].at # "shell" /\ srv'[c].at = "shell"
       /\ srv'[c].id = IF has_session(id) THEN id ELSE sessions.next
Left(c) == srv[c].at = "shell" /\ srv'[c].at # "shell" /\ sessions' = detach(srv[c].id)

LEMMA WantKnown ==
    ASSUME Shape, NEW c \in Conns
    PROVE  plan[c].want \in Int /\ (has_session(plan[c].want) => plan[c].want \in 1 .. MaxSessions)
  BY PlanAssumption, RequestsAssumption DEF Shape, has_session

LEMMA AtLoop ==
    ASSUME Shape, NEW c \in Conns, srv[c].at # "shell", NEW n, NEW a, a # "shell",
           \/ srv' = At(c, a) \/ srv' = DidWell(c, n, a) \/ srv' = DidBadly(c, n, a)
           \/ srv' = [At(c, a) EXCEPT ![c].n = n] \/ srv' = [srv EXCEPT ![c].at = a, ![c].caps = n]
    PROVE  Stays(c)
<1>1. CASE srv' = At(c, a)
  BY <1>1, AtShape DEF Stays
<1>2. CASE srv' = DidWell(c, n, a) \/ srv' = DidBadly(c, n, a)
  BY <1>2, DidShape DEF Stays
<1>3. CASE srv' = [At(c, a) EXCEPT ![c].n = n]
  <2>1. /\ DOMAIN At(c, a) = Conns /\ DOMAIN At(c, a)[c] = SrvFields /\ At(c, a)[c].at = a
    BY AtShape
  <2> QED
    BY <1>3, <2>1 DEF Stays, SrvFields
<1>4. CASE srv' = [srv EXCEPT ![c].at = a, ![c].caps = n]
  BY <1>4 DEF Stays, Shape, SrvFields
<1> QED
  BY <1>1, <1>2, <1>3, <1>4

LEMMA ExecStays ==
    ASSUME Shape, NEW c \in Conns, NEW m, NEW a, ServeExec(c, m, a), srv[c].at = "loop", a # "shell"
    PROVE  Stays(c)
<1>1. PICK r \in Commands(c, m.x) : \/ srv' = [At(c, a) EXCEPT ![c].n = m.n]
                                    \/ srv' = DidBadly(c, m.n, "loop")
  BY DEF ServeExec, DidBadly
<1> QED
  BY <1>1, AtLoop

LEMMA JsonSessions ==
    ASSUME Shape, NEW c \in Conns, NEW m, ServeJson(c, m), srv[c].at = "loop"
    PROVE  \/ Stays(c) /\ (sessions' = sessions \/ \E id \in 1 .. MaxSessions : sessions' = kill(id))
           \/ Entered(c)
<1>1. CASE ServeExec(c, [m EXCEPT !.x = CurrentCall(c)], "json-exec") /\ UNCHANGED sessions
  BY <1>1, ExecStays
<1>2. CASE \/ ServeClip(c, m) \/ ServeSession(c, m) \/ ServeOther(c, m)
           \/ /\ srv' = Did(c, m.n, FALSE, "loop") /\ down' = Send(down, c, Msg("RESPONSE", m.n, FALSE))
              /\ UNCHANGED <<sessions, clip, child>>
  <2>1. sessions' = sessions \/ \E id \in 1 .. MaxSessions : sessions' = kill(id)
    BY <1>2, WantKnown DEF ServeClip, ServeSession, ServeOther
  <2>2. \E ok \in BOOLEAN : srv' = Did(c, m.n, ok, "loop")
    <3>1. CASE ServeSession(c, m)
      BY <3>1 DEF ServeSession, has_session
    <3>2. CASE ServeOther(c, m)
      BY <3>2 DEF ServeOther, MayAnswer
    <3> QED
      BY <1>2, <3>1, <3>2 DEF ServeClip
  <2>3. srv' = DidWell(c, m.n, "loop") \/ srv' = DidBadly(c, m.n, "loop")
    BY <2>2, DidEither
  <2> QED
    BY <2>1, <2>3, AtLoop
<1>3. CASE ServeShell(c, m)
  <2> DEFINE id == plan[c].want
  <2>1. id \in Int /\ (has_session(id) => id \in 1 .. MaxSessions)
    BY WantKnown
  <2>2. /\ has_session(id) \/ sessions.next <= MaxSessions
        /\ sessions' = IF has_session(id) THEN attach(id) ELSE create
        /\ srv' = [DidWell(c, m.n, "shell") EXCEPT ![c].id = IF has_session(id) THEN id ELSE sessions.next]
    BY <1>3 DEF ServeShell, DidWell
  <2>3. /\ DOMAIN DidWell(c, m.n, "shell") = Conns /\ DOMAIN DidWell(c, m.n, "shell")[c] = SrvFields
        /\ DidWell(c, m.n, "shell")[c].at = "shell"
    BY DidShape
  <2>4. srv'[c].at = "shell" /\ srv'[c].id = IF has_session(id) THEN id ELSE sessions.next
    BY <2>2, <2>3 DEF SrvFields
  <2> QED
    BY <2>1, <2>2, <2>4 DEF Entered
<1> QED
  BY <1>1, <1>2, <1>3 DEF ServeJson

LEMMA Sessions ==
    ASSUME Shape, NEW c \in Conns, Acts(c)
    PROVE  \/ Stays(c) /\ (sessions' = sessions \/ \E id \in 1 .. MaxSessions : sessions' = kill(id))
           \/ Entered(c) \/ Left(c)
<1>0. srv' = srv => Stays(c)
  BY DEF Stays
<1>1. CASE \/ ClientStep(c) \/ ClipStep(c) \/ OperationTimeout(c) \/ LeaveShell(c) \/ LinkLost(c) \/ JobExits(c)
           \/ KeysAdd(c) \/ KeysRemove(c) \/ StreamChunk(c)
  <2>1. UNCHANGED <<srv, sessions>>
    BY <1>1 DEF ClientStep, ClipStep, OperationTimeout, LeaveShell, LinkLost, JobExits, KeysAdd, KeysRemove,
                StreamChunk, Hello, TakeAuth, StartCall, Answer, AnswerLost, PollClipboard, ClipAnswer
  <2> QED
    BY <1>0, <2>1
<1>2. CASE AuthRequest(c) \/ AuthResponse(c) \/ AuthTotp(c) \/ AuthEnds(c)
  <2>1. /\ UNCHANGED sessions /\ srv[c].at # "shell"
        /\ \/ \E a \in {"closed", "challenged", "totp"} : srv' = At(c, a)
           \/ \E s : srv' = [srv EXCEPT ![c].at = "loop", ![c].caps = s]
    <3>1. CASE AuthRequest(c)
      BY <3>1 DEF AuthRequest, LookUp, Reject, At
    <3>2. CASE AuthResponse(c)
      BY <3>2 DEF AuthResponse, Welcome, Reject, At
    <3>3. CASE AuthTotp(c)
      BY <3>3 DEF AuthTotp, Welcome, Reject, At
    <3>4. CASE AuthEnds(c)
      BY <3>4 DEF AuthEnds, At
    <3> QED
      BY <1>2, <3>1, <3>2, <3>3, <3>4
  <2> QED
    BY <2>1, AtLoop
<1>3. CASE Serve(c)
  <2> DEFINE m == Head(up[c])
  <2>1. /\ srv[c].at = "loop"
        /\ \/ UNCHANGED sessions /\ srv' = DidWell(c, m.n, "loop")
           \/ UNCHANGED sessions /\ \E a \in {"exec", "stream"} : ServeExec(c, m, a)
           \/ ServeLog(c, m) /\ UNCHANGED sessions
           \/ ServeJson(c, m)
    BY <1>3 DEF Serve, DidWell
  <2> HIDE DEF m
  <2>2. ServeLog(c, m) => \/ srv' = DidWell(c, m.n, "loop") \/ srv' = DidBadly(c, m.n, "loop")
                          \/ srv' = At(c, "closed")
    BY DEF ServeLog, DidWell, DidBadly
  <2>3. ASSUME NEW a \in {"exec", "stream"}, ServeExec(c, m, a) PROVE Stays(c)
    BY <2>1, <2>3, ExecStays
  <2> QED
    BY <2>1, <2>2, <2>3, AtLoop, JsonSessions
<1>4. CASE ExecDone(c) \/ StreamExit(c) \/ StreamAbort(c) \/ LoopEnds(c)
  <2>1. UNCHANGED sessions /\ srv[c].at # "shell"
    BY <1>4 DEF ExecDone, StreamExit, StreamAbort, LoopEnds
  <2>2. CASE StreamAbort(c) \/ LoopEnds(c)
    BY <2>1, <2>2, AtLoop DEF StreamAbort, LoopEnds
  <2>3. CASE ExecDone(c) \/ StreamExit(c)
    <3>1. PICK ok \in BOOLEAN : ok = (child[c].code = 0)
      BY Zenon
    <3>2. srv' = Did(c, srv[c].n, ok, "loop")
      BY <2>3, <3>1 DEF ExecDone, StreamExit
    <3>3. srv' = DidWell(c, srv[c].n, "loop") \/ srv' = DidBadly(c, srv[c].n, "loop")
      BY <3>2, DidEither
    <3> QED
      BY <2>1, <3>3, AtLoop
  <2> QED
    BY <1>4, <2>2, <2>3
<1>5. CASE ShellEnds(c)
  BY <1>5, AtShape DEF ShellEnds, Left
<1> QED
  BY <1>1, <1>2, <1>3, <1>4, <1>5 DEF Acts, ServerStep

LEMMA HoldersFinite ==
    ASSUME NEW id
    PROVE  IsFiniteSet(Holders(id)) /\ Cardinality(Holders(id)) \in Nat
<1>1. Holders(id) \subseteq Conns
  BY DEF Holders
<1> QED
  BY <1>1, RequestsAssumption, FS_Subset, FS_CardinalityType

LEMMA CountStart == Init => CountInv
<1> SUFFICES ASSUME Init PROVE CountInv
  OBVIOUS
<1> QED
  BY RequestsAssumption DEF Init, CountInv, CountsAreTrue

\* The invariant after a step, from the one session it touches.
LEMMA CountAfter ==
    ASSUME CountInv, NEW k \in 1 .. MaxSessions, NEW e \in Int, NEW n \in 1 .. MaxSessions + 1,
           sessions.next <= n, k < n \/ e < 0,
           sessions' = [next |-> n, count |-> [sessions.count EXCEPT ![k] = e]],
           \A id : id # k => Holders(id)' = Holders(id), e >= 0 => e = Cardinality(Holders(k)'),
           \A d \in Conns : srv'[d].at = "shell" =>
              (srv[d].at = "shell" /\ srv'[d].id = srv[d].id) \/ (srv'[d].id = k /\ k < n)
    PROVE  CountInv'
<1>0. /\ sessions.next \in 1 .. MaxSessions + 1 /\ sessions.count \in [1 .. MaxSessions -> Int]
      /\ \A d \in Conns : srv[d].at = "shell" => srv[d].id \in 1 .. MaxSessions /\ srv[d].id < sessions.next
      /\ \A id \in 1 .. MaxSessions : sessions.count[id] >= 0 => id < sessions.next
      /\ \A id \in 1 .. MaxSessions : sessions.count[id] >= 0 => sessions.count[id] = Cardinality(Holders(id))
  BY DEF CountInv, CountsAreTrue, Holders
<1>1. PICK f \in [1 .. MaxSessions -> Int] : f = [sessions.count EXCEPT ![k] = e]
  BY <1>0
<1>2. f[k] = e /\ \A id \in 1 .. MaxSessions : id # k => f[id] = sessions.count[id]
  BY <1>0, <1>1
<1>3. sessions' = [next |-> n, count |-> f]
  BY <1>1
<1>4. sessions'.next = n /\ sessions'.count = f
  BY <1>3
<1>8. sessions' \in [next : 1 .. MaxSessions + 1, count : [1 .. MaxSessions -> Int]]
  <2>1. [next |-> n, count |-> f] \in [next : 1 .. MaxSessions + 1, count : [1 .. MaxSessions -> Int]]
    OBVIOUS
  <2> QED
    BY <1>3, <2>1
<1>5. \A d \in Conns : srv'[d].at = "shell" => srv'[d].id \in 1 .. MaxSessions /\ srv'[d].id < n
  <2> SUFFICES ASSUME NEW d \in Conns, srv'[d].at = "shell"
               PROVE  srv'[d].id \in 1 .. MaxSessions /\ srv'[d].id < n
    OBVIOUS
  <2>1. CASE srv'[d].id = k /\ k < n
    BY <2>1
  <2>2. CASE srv[d].at = "shell" /\ srv'[d].id = srv[d].id
    <3>1. PICK x \in 1 .. MaxSessions : x = srv[d].id /\ x < sessions.next
      BY <1>0, <2>2
    <3> QED
      BY <1>0, <2>2, <3>1
  <2> QED
    BY <2>1, <2>2
<1>6. \A id \in 1 .. MaxSessions : f[id] >= 0 => id < n
  BY <1>0, <1>2
<1>7. \A id \in 1 .. MaxSessions : f[id] >= 0 => f[id] = Cardinality(Holders(id)')
  <2> SUFFICES ASSUME NEW id \in 1 .. MaxSessions, f[id] >= 0 PROVE f[id] = Cardinality(Holders(id)')
    OBVIOUS
  <2>1. CASE id = k
    BY <1>2, <2>1
  <2>2. CASE id # k
    BY <1>0, <1>2, <2>2
  <2> QED
    BY <2>1, <2>2
<1> QED
  BY <1>4, <1>5, <1>6, <1>7, <1>8 DEF CountInv, CountsAreTrue, Holders

LEMMA CountStep ==
    ASSUME Shape, CountInv, NEW c \in Conns, Acts(c), \A d \in Conns \ {c} : Same(d)
    PROVE  CountInv'
<1> USE RequestsAssumption DEF Same
<1>0. /\ sessions.next \in 1 .. MaxSessions + 1 /\ sessions.count \in [1 .. MaxSessions -> Int]
      /\ sessions = [next |-> sessions.next, count |-> sessions.count]
      /\ \A d \in Conns : srv[d].at = "shell" => srv[d].id \in 1 .. MaxSessions /\ srv[d].id < sessions.next
      /\ \A id \in 1 .. MaxSessions : sessions.count[id] >= 0 => id < sessions.next
      /\ \A id \in 1 .. MaxSessions : sessions.count[id] >= 0 => sessions.count[id] = Cardinality(Holders(id))
  BY DEF CountInv, CountsAreTrue, Holders
<1>1. CASE Stays(c) /\ (sessions' = sessions \/ \E id \in 1 .. MaxSessions : sessions' = kill(id))
  <2>1. \A id : Holders(id)' = Holders(id)
    BY <1>1 DEF Stays, Holders
  <2>2. \A d \in Conns : srv'[d].at = "shell" => srv[d].at = "shell" /\ srv'[d].id = srv[d].id
    BY <1>1 DEF Stays
  <2>3. CASE sessions' = sessions
    BY <2>1, <2>2, <2>3 DEF CountInv, CountsAreTrue, Holders
  <2>4. CASE \E id \in 1 .. MaxSessions : sessions' = kill(id)
    <3>1. PICK k \in 1 .. MaxSessions : sessions' = kill(k)
      BY <2>4
    <3>2. sessions' = [next |-> sessions.next, count |-> [sessions.count EXCEPT ![k] = -1]]
      BY <1>0, <3>1 DEF kill
    <3>3. PICK n \in 1 .. MaxSessions + 1, e \in Int : n = sessions.next /\ e = -1 /\ sessions.next <= n /\ e < 0
      BY <1>0
    <3>4. sessions' = [next |-> n, count |-> [sessions.count EXCEPT ![k] = e]]
      BY <3>2, <3>3
    <3> QED
      <4>1. (k < n \/ e < 0) /\ (e >= 0 => e = Cardinality(Holders(k)'))
        BY <3>3
      <4> QED
        BY <2>1, <2>2, <3>3, <3>4, <4>1, CountAfter
  <2> QED
    BY <1>1, <2>3, <2>4
<1>2. CASE Entered(c)
  <2>1. PICK want \in Int :
           /\ IF has_session(want) THEN sessions' = attach(want)
                                   ELSE sessions' = create /\ sessions.next <= MaxSessions
           /\ has_session(want) => want \in 1 .. MaxSessions
           /\ srv[c].at # "shell" /\ srv'[c].at = "shell"
           /\ srv'[c].id = IF has_session(want) THEN want ELSE sessions.next
    BY <1>2 DEF Entered
  <2>2. PICK k \in 1 .. MaxSessions : k = IF has_session(want) THEN want ELSE sessions.next
    BY <1>0, <2>1
  <2>3. /\ Holders(k)' = Holders(k) \cup {c} /\ c \notin Holders(k)
        /\ \A id : id # k => Holders(id)' = Holders(id)
        /\ \A d \in Conns : srv'[d].at = "shell" =>
              (srv[d].at = "shell" /\ srv'[d].id = srv[d].id) \/ srv'[d].id = k
    BY <2>1, <2>2 DEF Holders
  <2>4. Cardinality(Holders(k)') = Cardinality(Holders(k)) + 1
    BY <2>3, HoldersFinite, FS_AddElement
  <2>5. CASE has_session(want)
    <3>1. /\ sessions.count[k] >= 0 /\ sessions' = attach(k)
      BY <2>1, <2>2, <2>5 DEF has_session
    <3>2. sessions' = [next |-> sessions.next, count |-> [sessions.count EXCEPT ![k] = sessions.count[k] + 1]]
      BY <1>0, <3>1 DEF attach
    <3>3. /\ sessions.count[k] + 1 = Cardinality(Holders(k)') /\ sessions.count[k] + 1 \in Int
          /\ k < sessions.next
      BY <1>0, <2>4, <3>1
    <3>4. PICK n \in 1 .. MaxSessions + 1, e \in Int :
             n = sessions.next /\ e = sessions.count[k] + 1 /\ sessions.next <= n /\ k < n
      BY <1>0, <3>3
    <3>5. sessions' = [next |-> n, count |-> [sessions.count EXCEPT ![k] = e]] /\ e = Cardinality(Holders(k)')
      BY <3>2, <3>3, <3>4
    <3> QED
      BY <2>3, <3>4, <3>5, CountAfter
  <2>6. CASE ~has_session(want)
    <3>1. /\ k = sessions.next /\ sessions' = create
      BY <1>0, <2>1, <2>2, <2>6
    <3>2. sessions' = [next |-> k + 1, count |-> [sessions.count EXCEPT ![k] = 1]]
      BY <1>0, <3>1 DEF create
    <3>3. Holders(k) = {}
      BY <1>0, <3>1 DEF Holders
    <3>4. Cardinality(Holders(k)') = 1
      BY <2>4, <3>3, FS_EmptySet
    <3>5. k + 1 \in 1 .. MaxSessions + 1 /\ k < k + 1 /\ sessions.next <= k + 1
      BY <3>1
    <3>6. PICK n \in 1 .. MaxSessions + 1, e \in Int :
             n = k + 1 /\ e = 1 /\ sessions.next <= n /\ k < n
      BY <1>0, <3>5
    <3>7. sessions' = [next |-> n, count |-> [sessions.count EXCEPT ![k] = e]] /\ e = Cardinality(Holders(k)')
      BY <3>2, <3>4, <3>6
    <3> QED
      BY <2>3, <3>6, <3>7, CountAfter
  <2> QED
    BY <2>5, <2>6
<1>3. CASE Left(c)
  <2>1. PICK k \in 1 .. MaxSessions : k = srv[c].id /\ sessions' = detach(k)
    BY <1>0, <1>3 DEF Left
  <2>2. /\ Holders(k)' = Holders(k) \ {c} /\ c \in Holders(k)
        /\ \A id : id # k => Holders(id)' = Holders(id)
    BY <1>3, <2>1 DEF Left, Holders
  <2>3. Cardinality(Holders(k)') = Cardinality(Holders(k)) - 1
    BY <2>2, HoldersFinite, FS_RemoveElement
  <2>4. Cardinality(Holders(k)) >= 1 /\ Cardinality(Holders(k)) \in Nat
    <3>1. Cardinality(Holders(k)) # 0
      BY <2>2, HoldersFinite, FS_EmptySet
    <3> QED
      BY <3>1, HoldersFinite
  <2>5. PICK e \in Int : e = IF sessions.count[k] <= 0 THEN sessions.count[k] ELSE sessions.count[k] - 1
    BY <1>0
  <2>6. sessions' = [next |-> sessions.next, count |-> [sessions.count EXCEPT ![k] = e]]
    BY <1>0, <2>1, <2>5 DEF detach
  <2>7. k < sessions.next /\ (e >= 0 => e = Cardinality(Holders(k)'))
    <3>1. sessions.count[k] \in Int
      BY <1>0
    <3> QED
      BY <1>0, <1>3, <2>1, <2>3, <2>4, <2>5, <3>1 DEF Left
  <2>8. \A d \in Conns : srv'[d].at = "shell" => srv[d].at = "shell" /\ srv'[d].id = srv[d].id
    BY <1>3 DEF Left
  <2>9. PICK n \in 1 .. MaxSessions + 1 : n = sessions.next /\ sessions.next <= n
    BY <1>0
  <2>a. sessions' = [next |-> n, count |-> [sessions.count EXCEPT ![k] = e]] /\ k < n
    BY <2>6, <2>7, <2>9
  <2> QED
    BY <2>2, <2>7, <2>8, <2>9, <2>a, CountAfter
<1> QED
  BY <1>1, <1>2, <1>3, Sessions

LEMMA CountStepKeeps == Shape /\ CountInv /\ [Next]_vars => CountInv'
<1> SUFFICES ASSUME Shape, CountInv, [Next]_vars PROVE CountInv'
  OBVIOUS
<1>1. CASE \E c \in Conns : Acts(c) /\ \A d \in Conns \ {c} : Same(d)
  BY <1>1, CountStep
<1>2. CASE UNCHANGED <<cli, srv, up, down, link, child, sessions>>
  BY <1>2 DEF CountInv, CountsAreTrue
<1> QED
  BY <1>1, <1>2, Frame

-----------------------------------------------------------------------------
(***************************************************************************)
(* Answers.  A client and its connection take turns; for a command that    *)
(* reports what became of it the invariant says whose turn it is, what is  *)
(* on its way and which calls have been carried out.                       *)
(***************************************************************************)
\* What is true of the calls of such a command.
GoodCall(cmd, call) ==
    \/ cmd = "stream" /\ call = Call("exec_stream", "user")
    \/ cmd = "rlog" /\ call = Call("log_query", "")
    \/ /\ cmd \notin {"stream", "rlog"}
       /\ \/ call = Call("ping", "")
          \/ call \in {Call("exec_with_code", "user"), Call("exec_with_code", "detach"), Call("exec", "launch")}
          \/ call.k = "json" /\ call.what \notin {"exec", "shell-persistent"}
          \/ cmd = "attach" /\ call = Call("json", "shell-persistent")
GoodArm(cmd, arm) ==
    arm.errors = "strict" /\ cmd \notin {"default", "lock", "dlog"} =>
       /\ cmd \notin {"clipsync", "browse"}
       /\ Len(arm.calls) = 1 \/ (Len(arm.calls) = 2 /\ cmd = "kill")
       /\ \A n \in 1 .. Len(arm.calls) : GoodCall(cmd, arm.calls[n])

Asks(c) == plan[c].cmd # "none" /\ Honest(c)
Size(c) == Len(Arm(c).calls)
Out(c) == plan[c].remote.out
Hits(c) == log_query(plan[c].log)[1]

\* The elements p + 1 to q of s on their way; those from p + 1 on and the last message e; those
\* that are there.
Under(s, p, q, k) == [j \in 1 .. q - p |-> Msg(k, 1, s[p + j])]
Ending(s, p, k, e) == [j \in 1 .. Len(s) - p + 1 |-> IF p + j <= Len(s) THEN Msg(k, 1, s[p + j]) ELSE e]
Part(s, p) == [i \in 1 .. p |-> s[i]]

\* The connection is lost, or the command has failed: there is no success any more.
Hopeless(c) ==
    \/ link[c] = "lost" /\ cli[c].at \in {"start", "login", "ready", "wait"}
    \/ cli[c].at = "done" /\ cli[c].exit # 0

\* The login.
Nothing(c) == up[c] = <<>> /\ down[c] = <<>>
Unasked(c) == cli[c].n = 0 /\ srv[c].did = {} /\ cli[c].printed = <<>>
LoginAsks(c) ==
    /\ cli[c].at = "login" /\ down[c] = <<>> /\ \E m : up[c] = <<m>>
    /\ srv[c].at \in {"new", "challenged", "totp"}
LoginAnswers(c) ==
    /\ cli[c].at = "login" /\ up[c] = <<>>
    /\ \E m : down[c] = <<m>> /\ srv[c].at = CASE m.k = "AUTH_CHALLENGE" -> "challenged"
                                                [] m.k = "JSON_TOTP" -> "totp"
                                                [] m.k = "AUTH_OK" -> "loop"
                                                [] OTHER -> "closed"
LoggingIn(c) ==
    /\ Unasked(c)
    /\ \/ cli[c].at = "start" /\ srv[c].at = "new" /\ Nothing(c)
       \/ LoginAsks(c) \/ LoginAnswers(c)

\* Between two calls, and in one.
Idle(c) ==
    /\ cli[c].at = "ready" /\ srv[c].at = "loop" /\ Nothing(c)
    /\ cli[c].n < Size(c) /\ srv[c].did = 1 .. cli[c].n /\ cli[c].printed = <<>>
Asked(c) ==
    /\ srv[c].at = "loop" /\ down[c] = <<>> /\ up[c] = <<Request(c, CurrentCall(c), cli[c].n)>>
    /\ srv[c].did = 1 .. cli[c].n - 1 /\ cli[c].printed = <<>>
Executing(c) ==
    /\ srv[c].at \in {"exec", "json-exec"} /\ Nothing(c)
    /\ CurrentCall(c).k \in {"exec", "exec_with_code"}
    /\ srv[c].n = cli[c].n /\ srv[c].did = 1 .. cli[c].n - 1 /\ cli[c].printed = <<>>
Streaming(c) ==
    /\ plan[c].cmd = "stream" /\ srv[c].at = "stream" /\ srv[c].n = 1 /\ srv[c].did = {} /\ up[c] = <<>>
    /\ child[c].out = Out(c) /\ child[c].sent \in 0 .. Len(Out(c))
    /\ \E p \in 0 .. child[c].sent : /\ cli[c].printed = Part(Out(c), p)
                                      /\ down[c] = Under(Out(c), p, child[c].sent, "EXEC_OUT")
StreamEnds(c) ==
    /\ plan[c].cmd = "stream" /\ srv[c].at = "loop" /\ up[c] = <<>>
    /\ \E p \in 0 .. Len(Out(c)) : \E code :
          /\ code = 0 => srv[c].did = {1}
          /\ cli[c].printed = Part(Out(c), p)
          /\ down[c] = Ending(Out(c), p, "EXEC_OUT", Msg("EXEC_EXIT", 1, code))
LogEnds(c) ==
    /\ plan[c].cmd = "rlog" /\ srv[c].at = "loop" /\ up[c] = <<>> /\ srv[c].did = {1}
    /\ \E p \in 0 .. Len(Hits(c)) : \E x :
          /\ cli[c].printed = Part(Hits(c), p)
          /\ down[c] = Ending(Hits(c), p, "LOG_DATA", Msg("LOG_END", 1, x))

\* An answer that makes the call a success.
Good(c, m) ==
    CASE m.k = "RESPONSE" -> m.x
      [] m.k = "EXEC_RESULT" -> m.x.code = 0
      [] OTHER -> m.k \in {"PONG", "CLIP"}
Answered(c) ==
    /\ srv[c].at \in {"loop", "shell"} /\ (srv[c].at = "shell" => plan[c].cmd = "attach")
    /\ up[c] = <<>> /\ cli[c].printed = <<>>
    /\ \E m : /\ down[c] = <<m>> /\ m.k \in {"PONG", "CLIP", "RESPONSE", "EXEC_RESULT", "ERROR"}
              /\ m.k = "RESPONSE" => m.x \in BOOLEAN
              /\ m.k = "EXEC_RESULT" => CurrentCall(c).k \in {"exec", "exec_with_code"}
              /\ Good(c, m) => srv[c].did = 1 .. cli[c].n /\ plan[c].cmd \notin {"stream", "rlog"}
Dropped(c) == srv[c].at = "closed" /\ Nothing(c)
Calling(c) ==
    /\ cli[c].at = "wait" /\ cli[c].n \in 1 .. Size(c)
    /\ \/ Asked(c) \/ Executing(c) \/ Streaming(c) \/ StreamEnds(c) \/ LogEnds(c) \/ Answered(c) \/ Dropped(c)

\* A success: every call has been carried out, and what is printed is all.
Succeeded(c) ==
    /\ cli[c].at \in {"done", "shell"} /\ srv[c].at \in {"loop", "shell", "closed"} /\ up[c] = <<>>
    /\ srv[c].did = 1 .. Size(c)
    /\ plan[c].cmd = "stream" => cli[c].printed = Out(c)
    /\ plan[c].cmd = "rlog" => cli[c].printed = Hits(c)

Turn(c) == link[c] = "up" /\ cli[c].n \in Nat /\ (LoggingIn(c) \/ Idle(c) \/ Calling(c))
ConnInv(c) == Hopeless(c) \/ Succeeded(c) \/ Turn(c)
AnswersInv == \A c \in Conns : Asks(c) => ConnInv(c)

-----------------------------------------------------------------------------
(* The arms of run_command. *)

LEMMA StrictOne ==
    ASSUME NEW cmd, NEW call, GoodCall(cmd, call), cmd \notin {"clipsync", "browse"}
    PROVE  GoodArm(cmd, Strict(<<call>>))
  BY DEF GoodArm, Strict

LEMMA JsonGood ==
    ASSUME NEW cmd, cmd \notin {"stream", "rlog"}, NEW what, what \notin {"exec", "shell-persistent"}
    PROVE  GoodCall(cmd, Call("json", what))
  BY DEF GoodCall, Call

LEMMA BasicGood == \A cmd \in DOMAIN BasicArms : GoodArm(cmd, BasicArms[cmd])
<1>1. DOMAIN BasicArms = {"ping", "exec", "detach", "dlog", "ls", "cat"}
  BY DEF BasicArms
<1>2. GoodArm("ping", BasicArms["ping"])
  <2>1. BasicArms["ping"] = Strict(<<Call("ping", "")>>)
    BY DEF BasicArms, Json, Native
  <2>2. GoodCall("ping", Call("ping", ""))
    BY DEF GoodCall, Call
  <2> QED
    BY <2>1, <2>2, StrictOne
<1>3. GoodArm("exec", BasicArms["exec"])
  <2>1. BasicArms["exec"] = Strict(<<Call("exec_with_code", "user")>>)
    BY DEF BasicArms, Json, Native
  <2>2. GoodCall("exec", Call("exec_with_code", "user"))
    BY DEF GoodCall, Call
  <2> QED
    BY <2>1, <2>2, StrictOne
<1>4. GoodArm("detach", BasicArms["detach"])
  <2>1. BasicArms["detach"] = Strict(<<Call("exec_with_code", "detach")>>)
    BY DEF BasicArms, Json, Native
  <2>2. GoodCall("detach", Call("exec_with_code", "detach"))
    BY DEF GoodCall, Call
  <2> QED
    BY <2>1, <2>2, StrictOne
<1>5. GoodArm("dlog", BasicArms["dlog"])
  BY DEF GoodArm
<1>6. GoodArm("ls", BasicArms["ls"])
  <2>1. BasicArms["ls"] = Strict(<<Call("json", "ls")>>)
    BY DEF BasicArms, Json, Native
  <2> QED
    BY <2>1, JsonGood, StrictOne
<1>7. GoodArm("cat", BasicArms["cat"])
  <2>1. BasicArms["cat"] = Strict(<<Call("json", "cat")>>)
    BY DEF BasicArms, Json, Native
  <2> QED
    BY <2>1, JsonGood, StrictOne
<1> QED
  BY <1>1, <1>2, <1>3, <1>4, <1>5, <1>6, <1>7

LEMMA SessionGood == \A cmd \in DOMAIN SessionArms : GoodArm(cmd, SessionArms[cmd])
<1>1. DOMAIN SessionArms = {"screenshot", "sessions", "kill", "attach", "browse"}
  BY DEF SessionArms
<1>2. GoodArm("screenshot", SessionArms["screenshot"])
  <2>1. SessionArms["screenshot"] = Strict(<<Call("json", "screenshot")>>)
    BY DEF SessionArms, Json, Native
  <2> QED
    BY <2>1, JsonGood, StrictOne
<1>3. GoodArm("sessions", SessionArms["sessions"])
  <2>1. SessionArms["sessions"] = Strict(<<Call("json", "session-list")>>)
    BY DEF SessionArms, Json, Native
  <2> QED
    BY <2>1, JsonGood, StrictOne
<1>4. GoodArm("kill", SessionArms["kill"])
  BY JsonGood DEF GoodArm, SessionArms, Strict, Json
<1>5. GoodArm("attach", SessionArms["attach"])
  <2>1. SessionArms["attach"] = Strict(<<Call("json", "shell-persistent")>>)
    BY DEF SessionArms, Json, Native
  <2>2. GoodCall("attach", Call("json", "shell-persistent"))
    BY DEF GoodCall, Call
  <2> QED
    BY <2>1, <2>2, StrictOne
<1>6. GoodArm("browse", SessionArms["browse"])
  BY DEF GoodArm, SessionArms
<1> QED
  BY <1>1, <1>2, <1>3, <1>4, <1>5, <1>6

LEMMA WriteGood == \A cmd \in DOMAIN WriteArms : GoodArm(cmd, WriteArms[cmd])
<1>1. DOMAIN WriteArms = {"write", "input", "ps", "tail"}
  BY DEF WriteArms
<1>2. GoodArm("write", WriteArms["write"])
  <2>1. WriteArms["write"] = Strict(<<Call("json", "write")>>)
    BY DEF WriteArms, Json, Native
  <2> QED
    BY <2>1, JsonGood, StrictOne
<1>3. GoodArm("input", WriteArms["input"])
  <2>1. WriteArms["input"] = Strict(<<Call("json", "input")>>)
    BY DEF WriteArms, Json, Native
  <2> QED
    BY <2>1, JsonGood, StrictOne
<1>4. GoodArm("ps", WriteArms["ps"])
  <2>1. WriteArms["ps"] = Strict(<<Call("json", "native-ps")>>)
    BY DEF WriteArms, Json, Native
  <2> QED
    BY <2>1, JsonGood, StrictOne
<1>5. GoodArm("tail", WriteArms["tail"])
  <2>1. WriteArms["tail"] = Strict(<<Call("json", "native-tail")>>)
    BY DEF WriteArms, Json, Native
  <2> QED
    BY <2>1, JsonGood, StrictOne
<1> QED
  BY <1>1, <1>2, <1>3, <1>4, <1>5

LEMMA LogGood == \A cmd \in DOMAIN LogArm : GoodArm(cmd, LogArm[cmd])
<1>1. DOMAIN LogArm = {"rlog"}
  BY DEF LogArm
<1>2. GoodArm("rlog", LogArm["rlog"])
  <2>1. LogArm["rlog"] = Strict(<<Call("log_query", "")>>)
    BY DEF LogArm, Json, Native
  <2>2. GoodCall("rlog", Call("log_query", ""))
    BY DEF GoodCall, Call
  <2> QED
    BY <2>1, <2>2, StrictOne
<1> QED
  BY <1>1, <1>2

LEMMA NativeGood == \A cmd \in DOMAIN NativeArms : GoodArm(cmd, NativeArms[cmd])
<1>1. DOMAIN NativeArms = {"filever", "info", "clipget", "clipsync", "plugin"}
  BY DEF NativeArms
<1>2. GoodArm("filever", NativeArms["filever"])
  <2>1. NativeArms["filever"] = Strict(<<Call("json", "native-filever")>>)
    BY DEF NativeArms, Json, Native
  <2> QED
    BY <2>1, JsonGood, StrictOne
<1>3. GoodArm("info", NativeArms["info"])
  <2>1. NativeArms["info"] = Strict(<<Call("json", "native-info")>>)
    BY DEF NativeArms, Json, Native
  <2> QED
    BY <2>1, JsonGood, StrictOne
<1>4. GoodArm("clipget", NativeArms["clipget"])
  <2>1. NativeArms["clipget"] = Strict(<<Call("json", "clip-get")>>)
    BY DEF NativeArms, Json, Native
  <2> QED
    BY <2>1, JsonGood, StrictOne
<1>5. GoodArm("clipsync", NativeArms["clipsync"])
  BY DEF GoodArm, NativeArms
<1>6. GoodArm("plugin", NativeArms["plugin"])
  <2>1. NativeArms["plugin"] = Strict(<<Call("json", "plugin")>>)
    BY DEF NativeArms, Json, Native
  <2> QED
    BY <2>1, JsonGood, StrictOne
<1> QED
  BY <1>1, <1>2, <1>3, <1>4, <1>5, <1>6

LEMMA PowerGood == \A cmd \in DOMAIN PowerArms : GoodArm(cmd, PowerArms[cmd])
<1>1. DOMAIN PowerArms = {"reboot", "lock"}
  BY DEF PowerArms
<1>2. GoodArm("reboot", PowerArms["reboot"])
  BY DEF GoodArm, PowerArms
<1>3. GoodArm("lock", PowerArms["lock"])
  BY DEF GoodArm
<1> QED
  BY <1>1, <1>2, <1>3

LEMMA StatusGood == \A cmd \in DOMAIN StatusArm : GoodArm(cmd, StatusArm[cmd])
<1>1. DOMAIN StatusArm = {"status"}
  BY DEF StatusArm
<1>2. GoodArm("status", StatusArm["status"])
  BY DEF GoodArm, StatusArm
<1> QED
  BY <1>1, <1>2

LEMMA OtherGood == \A cmd \in DOMAIN OtherArms : GoodArm(cmd, OtherArms[cmd])
<1>1. DOMAIN OtherArms = {"tray", "launch", "default"}
  BY DEF OtherArms
<1>2. GoodArm("tray", OtherArms["tray"])
  <2>1. OtherArms["tray"] = Strict(<<Call("json", "tray-start")>>)
    BY DEF OtherArms, Json, Native
  <2> QED
    BY <2>1, JsonGood, StrictOne
<1>3. GoodArm("launch", OtherArms["launch"])
  <2>1. OtherArms["launch"] = Strict(<<Call("exec", "launch")>>)
    BY DEF OtherArms, Json, Native
  <2>2. GoodCall("launch", Call("exec", "launch"))
    BY DEF GoodCall, Call
  <2> QED
    BY <2>1, <2>2, StrictOne
<1>4. GoodArm("default", OtherArms["default"])
  BY DEF GoodArm
<1> QED
  BY <1>1, <1>2, <1>3, <1>4

LEMMA StreamGood == \A cmd \in DOMAIN StreamArm : GoodArm(cmd, StreamArm[cmd])
<1>1. DOMAIN StreamArm = {"stream"}
  BY DEF StreamArm
<1>2. GoodArm("stream", StreamArm["stream"])
  <2>1. StreamArm["stream"] = Strict(<<Call("exec_stream", "user")>>)
    BY DEF StreamArm, Json, Native
  <2>2. GoodCall("stream", Call("exec_stream", "user"))
    BY DEF GoodCall, Call
  <2> QED
    BY <2>1, <2>2, StrictOne
<1> QED
  BY <1>1, <1>2

LEMMA ArmGood == \A cmd \in AllCommands : GoodArm(cmd, run_command(cmd))
<1> SUFFICES ASSUME NEW cmd \in AllCommands PROVE GoodArm(cmd, run_command(cmd))
  OBVIOUS
<1>1. PICK t : t = CHOOSE i \in DOMAIN ArmTables : cmd \in DOMAIN ArmTables[i]
  OBVIOUS
<1>2. \E i \in DOMAIN ArmTables : cmd \in DOMAIN ArmTables[i]
  BY DEF AllCommands
<1>3. t \in DOMAIN ArmTables /\ cmd \in DOMAIN ArmTables[t]
  BY <1>1, <1>2
<1>4. run_command(cmd) = ArmTables[t][cmd]
  BY <1>1 DEF run_command
<1>5. ArmTables[t] \in {BasicArms, SessionArms, WriteArms, LogArm, NativeArms, PowerArms, StatusArm, OtherArms, StreamArm}
  BY <1>3 DEF ArmTables
<1> QED
  BY <1>3, <1>4, <1>5, BasicGood, SessionGood, WriteGood, LogGood, NativeGood, PowerGood, StatusGood, OtherGood, StreamGood

-----------------------------------------------------------------------------
(* The scan of a log: the recursive function Matches has the equations of  *)
(* its definition, and keeps the first "max" of the lines that match.      *)

LEMMA LeastOf ==
    ASSUME NEW S, S \subseteq Nat, S # {}
    PROVE  \E x \in S : \A y \in S : x <= y
<1>1. IsWellFoundedOn(OpToRel(<, Nat), Nat)
  BY NatLessThanWellFounded, Zenon
<1> DEFINE R == OpToRel(<, Nat)
<1>2. PICK x \in S : \A y \in S : ~(<<y, x>> \in R)
  BY <1>1, WFMin, Zenon
<1>3. ASSUME NEW y \in S, ~(x <= y) PROVE FALSE
  <2>1. y < x /\ y \in Nat /\ x \in Nat
    BY <1>3
  <2>2. <<y, x>> \in R
    BY <2>1 DEF OpToRel
  <2> QED
    BY <1>2, <2>2
<1> QED
  BY <1>2, <1>3

Query == [file : STRING, lines : Seq(BOOLEAN), tail : Nat, max : Nat]

\* A line more, and the function up to n lines.
Look(q, p, i) ==
    IF q.max > 0 /\ Len(p[1]) >= q.max THEN p
    ELSE <<IF Scanned(q)[i] THEN Append(p[1], i) ELSE p[1], i>>
Scan(q, n, f) == f = [i \in 0 .. n |-> IF i = 0 THEN <<<<>>, 0>> ELSE Look(q, f[i - 1], i)]

LEMMA ScansExist ==
    ASSUME NEW q
    PROVE  \A n \in Nat : \E f : Scan(q, n, f)
<1> DEFINE S == {n \in Nat : ~ \E f : Scan(q, n, f)}
<1>1. SUFFICES ASSUME S # {} PROVE FALSE
  OBVIOUS
<1>2. PICK n \in S : \A j \in S : n <= j
  <2>1. S \subseteq Nat
    OBVIOUS
  <2> HIDE DEF S
  <2> QED
    BY <1>1, <2>1, LeastOf
<1>3. n \in Nat /\ ~ \E f : Scan(q, n, f)
  OBVIOUS
<1>4. CASE n = 0
  <2> DEFINE f == [i \in 0 .. 0 |-> <<<<>>, 0>>]
  <2>1. f = [i \in 0 .. 0 |-> IF i = 0 THEN <<<<>>, 0>> ELSE Look(q, f[i - 1], i)]
    OBVIOUS
  <2> QED
    BY <1>3, <1>4, <2>1 DEF Scan
<1>5. CASE n # 0
  <2>1. n - 1 \in Nat /\ n - 1 < n
    BY <1>3, <1>5
  <2>2. PICK f : Scan(q, n - 1, f)
    BY <1>2, <2>1
  <2> DEFINE h == [i \in 0 .. n |-> IF i = 0 THEN <<<<>>, 0>> ELSE Look(q, f[i - 1], i)]
  <2>3. \A i \in 0 .. n - 1 : h[i] = f[i]
    <3>1. \A i \in 0 .. n - 1 : f[i] = IF i = 0 THEN <<<<>>, 0>> ELSE Look(q, f[i - 1], i)
      BY <2>2 DEF Scan
    <3>2. \A i \in 0 .. n - 1 : i \in 0 .. n
      BY <1>3
    <3> QED
      BY <3>1, <3>2
  <2>4. \A i \in 0 .. n : i # 0 => h[i - 1] = f[i - 1]
    <3>1. \A i \in 0 .. n : i # 0 => i - 1 \in 0 .. n - 1
      BY <1>3
    <3> QED
      BY <2>3, <3>1
  <2>5. h = [i \in 0 .. n |-> IF i = 0 THEN <<<<>>, 0>> ELSE Look(q, h[i - 1], i)]
    <3> DEFINE k == [i \in 0 .. n |-> IF i = 0 THEN <<<<>>, 0>> ELSE Look(q, h[i - 1], i)]
    <3>1. \A i \in 0 .. n : h[i] = k[i]
      <4> SUFFICES ASSUME NEW i \in 0 .. n PROVE h[i] = k[i]
        OBVIOUS
      <4>1. h[i] = IF i = 0 THEN <<<<>>, 0>> ELSE Look(q, f[i - 1], i)
        OBVIOUS
      <4>2. k[i] = IF i = 0 THEN <<<<>>, 0>> ELSE Look(q, h[i - 1], i)
        OBVIOUS
      <4>3. i # 0 => h[i - 1] = f[i - 1]
        BY <2>4
      <4> HIDE DEF h, k
      <4> QED
        BY <4>1, <4>2, <4>3
    <3> QED
      BY <3>1
  <2> HIDE DEF h
  <2> QED
    BY <1>3, <2>5 DEF Scan
<1> QED
  BY <1>4, <1>5

LEMMA MatchesIs ==
    ASSUME NEW q, Len(Scanned(q)) \in Nat
    PROVE  /\ Matches(q)[0] = <<<<>>, 0>>
           /\ \A i \in 0 .. Len(Scanned(q)) : i # 0 => Matches(q)[i] = Look(q, Matches(q)[i - 1], i)
<1> DEFINE n == Len(Scanned(q))
<1>1. \E f : Scan(q, n, f)
  BY ScansExist
<1>2. Scan(q, n, Matches(q))
  BY <1>1 DEF Scan, Matches, Look
<1>3. \A i \in 0 .. n : Matches(q)[i] = IF i = 0 THEN <<<<>>, 0>> ELSE Look(q, Matches(q)[i - 1], i)
  BY <1>2 DEF Scan
<1> HIDE DEF n
<1>4. 0 \in 0 .. n
  BY DEF n
<1> QED
  BY <1>3, <1>4 DEF n

\* The lines passed over, the matches in the i lines after them, and those that are kept.
Skipped(q) == IF q.tail = 0 \/ q.tail > Len(q.lines) THEN 0 ELSE Len(q.lines) - q.tail
Found(q, i) == {h \in DOMAIN q.lines : h > Skipped(q) /\ h <= Skipped(q) + i /\ q.lines[h]}
UpTo(q, i, h) == {j \in Found(q, i) : j <= h}
Kept(q, i) == {h \in Found(q, i) : q.max = 0 \/ Cardinality(UpTo(q, i, h)) <= q.max}
Scans(q, i, p) ==
    /\ p[1] \in Seq(1 .. i)
    /\ {p[1][x] + Skipped(q) : x \in DOMAIN p[1]} = Kept(q, i)
    /\ \/ Len(p[1]) = Cardinality(Found(q, i)) /\ (q.max = 0 \/ Len(p[1]) <= q.max)
       \/ q.max # 0 /\ Len(p[1]) = q.max /\ Cardinality(Found(q, i)) >= q.max

LEMMA ScannedIs ==
    ASSUME NEW q \in Query
    PROVE  /\ Len(q.lines) \in Nat /\ Skipped(q) \in 0 .. Len(q.lines)
           /\ Len(Scanned(q)) = Len(q.lines) - Skipped(q)
           /\ DOMAIN q.lines = 1 .. Len(q.lines)
           /\ \A i \in 1 .. Len(Scanned(q)) : Scanned(q)[i] = q.lines[Skipped(q) + i]
<1>1. q.lines \in Seq(BOOLEAN) /\ q.tail \in Nat
  BY DEF Query
<1>2. Len(q.lines) \in Nat /\ DOMAIN q.lines = 1 .. Len(q.lines)
  BY <1>1
<1>3. CASE q.tail > 0 /\ q.tail < Len(q.lines)
  <2> DEFINE k == Len(q.lines) - q.tail
  <2>1. Skipped(q) = k /\ k \in Nat /\ k + 1 \in Nat
    BY <1>1, <1>2, <1>3 DEF Skipped
  <2>2. Scanned(q) = SubSeq(q.lines, k + 1, Len(q.lines))
    BY <1>3 DEF Scanned
  <2>3. Len(Scanned(q)) = Len(q.lines) - k /\ \A i \in 1 .. Len(q.lines) - k : Scanned(q)[i] = q.lines[k + i]
    <3> HIDE DEF k
    <3>1. Len(q.lines) - k \in Nat
      BY <1>1, <1>2, <1>3 DEF k
    <3> QED
      BY <1>1, <1>2, <2>1, <2>2, <3>1
  <2> QED
    BY <1>1, <1>2, <1>3, <2>1, <2>3
<1>4. CASE ~(q.tail > 0 /\ q.tail < Len(q.lines))
  <2>1. Skipped(q) = 0
    BY <1>1, <1>2, <1>4 DEF Skipped
  <2>2. Scanned(q) = q.lines
    BY <1>4 DEF Scanned
  <2> QED
    BY <1>1, <1>2, <2>1, <2>2
<1> QED
  BY <1>3, <1>4

LEMMA FoundFinite ==
    ASSUME NEW q \in Query, NEW i \in Nat
    PROVE  IsFiniteSet(Found(q, i)) /\ Cardinality(Found(q, i)) \in Nat
<1>1. Len(q.lines) \in Int /\ DOMAIN q.lines = 1 .. Len(q.lines)
  BY ScannedIs
<1>2. Found(q, i) \subseteq 1 .. Len(q.lines)
  BY <1>1 DEF Found
<1>3. IsFiniteSet(1 .. Len(q.lines))
  BY <1>1, FS_Interval
<1> QED
  BY <1>2, <1>3, FS_Subset, FS_CardinalityType

\* The next line is found or not; those before it are counted as they were.
LEMMA FoundNext ==
    ASSUME NEW q \in Query, NEW i \in Nat, i < Len(Scanned(q))
    PROVE  /\ ~Scanned(q)[i + 1] => Found(q, i + 1) = Found(q, i)
           /\ Scanned(q)[i + 1] => Found(q, i + 1) = Found(q, i) \cup {Skipped(q) + i + 1}
           /\ Skipped(q) + i + 1 \notin Found(q, i)
           /\ \A h \in Found(q, i) : UpTo(q, i + 1, h) = UpTo(q, i, h)
           /\ \A h : h = Skipped(q) + i + 1 => UpTo(q, i + 1, h) = Found(q, i + 1)
<1> DEFINE s == Skipped(q)  N == Len(q.lines)
<1>1. /\ N \in Nat /\ s \in 0 .. N /\ DOMAIN q.lines = 1 .. N
      /\ i + 1 <= N - s /\ Scanned(q)[i + 1] = q.lines[s + i + 1]
  <2>1. /\ N \in Nat /\ s \in 0 .. N /\ DOMAIN q.lines = 1 .. N /\ Len(Scanned(q)) = N - s
        /\ \A j \in 1 .. Len(Scanned(q)) : Scanned(q)[j] = q.lines[s + j]
    BY ScannedIs
  <2>2. i + 1 \in 1 .. Len(Scanned(q)) /\ s + (i + 1) = s + i + 1 /\ i + 1 <= N - s
    BY <2>1
  <2>3. Scanned(q)[i + 1] = q.lines[s + (i + 1)]
    BY <2>1, <2>2
  <2> QED
    BY <2>1, <2>2, <2>3
<1>2. \A h : h \in Found(q, i) <=> h \in 1 .. N /\ h > s /\ h <= s + i /\ q.lines[h]
  BY <1>1 DEF Found
<1>3. \A h : h \in Found(q, i + 1) <=> h \in 1 .. N /\ h > s /\ h <= s + i + 1 /\ q.lines[h]
  <2>1. Found(q, i + 1) = {h \in 1 .. N : h > s /\ h <= s + (i + 1) /\ q.lines[h]}
    BY <1>1 DEF Found
  <2> QED
    BY <1>1, <2>1
<1> HIDE DEF s, N
<1>4. s + i + 1 \in 1 .. N /\ s + i + 1 > s /\ s \in Nat /\ ~(s + i + 1 <= s + i)
  BY <1>1
<1>5. \A h \in 1 .. N : h <= s + i + 1 <=> h <= s + i \/ h = s + i + 1
  BY <1>1
<1>6. s + i + 1 \notin Found(q, i)
  BY <1>2, <1>4
<1>7. ~q.lines[s + i + 1] => Found(q, i + 1) = Found(q, i)
  BY <1>2, <1>3, <1>5
<1>8. q.lines[s + i + 1] => Found(q, i + 1) = Found(q, i) \cup {s + i + 1}
  BY <1>2, <1>3, <1>4, <1>5
<1>9. \A h \in Found(q, i) : UpTo(q, i + 1, h) = UpTo(q, i, h)
  <2>1. SUFFICES ASSUME NEW h \in Found(q, i), NEW j PROVE j \in UpTo(q, i + 1, h) <=> j \in UpTo(q, i, h)
    OBVIOUS
  <2>2. h \in 1 .. N /\ h <= s + i
    BY <1>2
  <2>3. j \in Found(q, i + 1) /\ j <= h <=> j \in Found(q, i) /\ j <= h
    BY <1>1, <1>2, <1>3, <2>2
  <2> QED
    BY <2>3 DEF UpTo
<1>10. \A h : h = s + i + 1 => UpTo(q, i + 1, h) = Found(q, i + 1)
  BY <1>3 DEF UpTo
<1> QED
  BY <1>1, <1>6, <1>7, <1>8, <1>9, <1>10 DEF s

LEMMA ScansStart ==
    ASSUME NEW q \in Query, NEW p, p = <<<<>>, 0>>
    PROVE  Scans(q, 0, p)
<1>1. Skipped(q) \in Int
  BY ScannedIs
<1>2. Found(q, 0) = {}
  <2>1. \A h \in DOMAIN q.lines : ~(h > Skipped(q) /\ h <= Skipped(q) + 0)
    BY <1>1, ScannedIs
  <2> QED
    BY <2>1 DEF Found
<1>3. Kept(q, 0) = {} /\ Cardinality(Found(q, 0)) = 0
  BY <1>2, FS_EmptySet DEF Kept
<1>4. p[1] = <<>> /\ q.max \in Nat
  BY DEF Query
<1>5. <<>> \in Seq(1 .. 0) /\ Len(<<>>) = 0 /\ DOMAIN <<>> = {}
  OBVIOUS
<1> QED
  BY <1>3, <1>4, <1>5 DEF Scans

LEMMA ScansNext ==
    ASSUME NEW q \in Query, NEW i \in Nat, i < Len(Scanned(q)), NEW p, Scans(q, i, p)
    PROVE  Scans(q, i + 1, Look(q, p, i + 1))
<1> DEFINE s == Skipped(q)  o == p[1]  n == s + i + 1
<1>1. PICK A : A = Found(q, i)
  OBVIOUS
<1>2. PICK B : B = Found(q, i + 1)
  OBVIOUS
<1>3. PICK a \in Nat : a = Cardinality(A)
  BY <1>1, FoundFinite
<1>4. IsFiniteSet(A) /\ q.max \in Nat /\ s \in Nat
  BY <1>1, FoundFinite, ScannedIs DEF Query
<1>5. /\ o \in Seq(1 .. i) /\ {o[x] + s : x \in DOMAIN o} = Kept(q, i)
      /\ \/ Len(o) = a /\ (q.max = 0 \/ a <= q.max)
         \/ q.max # 0 /\ Len(o) = q.max /\ a >= q.max
  BY <1>1, <1>3 DEF Scans
<1>6. /\ ~Scanned(q)[i + 1] => B = A
      /\ Scanned(q)[i + 1] => B = A \cup {n}
      /\ n \notin A
      /\ \A h \in A : UpTo(q, i + 1, h) = UpTo(q, i, h)
      /\ UpTo(q, i + 1, n) = B
  BY <1>1, <1>2, FoundNext
<1>7. Scanned(q)[i + 1] => Cardinality(B) = a + 1
  BY <1>3, <1>4, <1>6, FS_AddElement
<1>8. Kept(q, i) = {h \in A : q.max = 0 \/ Cardinality(UpTo(q, i + 1, h)) <= q.max}
  BY <1>1, <1>6 DEF Kept
<1>9. Kept(q, i + 1) = {h \in B : q.max = 0 \/ Cardinality(UpTo(q, i + 1, h)) <= q.max}
  BY <1>2 DEF Kept
<1>10. o \in Seq(1 .. i + 1)
  BY <1>5
<1> HIDE DEF s, n
<1>11. CASE q.max > 0 /\ Len(o) >= q.max
  <2>1. Look(q, p, i + 1) = p
    BY <1>11 DEF Look
  <2>2. Len(o) = q.max /\ a >= q.max /\ q.max # 0
    BY <1>3, <1>4, <1>5, <1>11
  <2>3. Cardinality(B) >= q.max
    <3>1. Cardinality(B) = a \/ Cardinality(B) = a + 1
      BY <1>3, <1>6, <1>7
    <3> QED
      BY <1>3, <1>4, <2>2, <3>1
  <2>4. Kept(q, i + 1) = Kept(q, i)
    <3>1. CASE Scanned(q)[i + 1]
      <4>1. ~(q.max = 0 \/ Cardinality(UpTo(q, i + 1, n)) <= q.max)
        <5>1. Cardinality(UpTo(q, i + 1, n)) = a + 1
          BY <1>6, <1>7, <3>1
        <5> QED
          BY <1>3, <1>4, <2>2, <5>1
      <4> QED
        BY <1>6, <1>8, <1>9, <3>1, <4>1
    <3>2. CASE ~Scanned(q)[i + 1]
      BY <1>6, <1>8, <1>9, <3>2
    <3> QED
      BY <3>1, <3>2
  <2> QED
    BY <1>2, <1>5, <1>10, <2>1, <2>2, <2>3, <2>4 DEF Scans, s
<1>12. CASE ~(q.max > 0 /\ Len(o) >= q.max)
  <2>1. Len(o) = a /\ (q.max = 0 \/ a < q.max)
    BY <1>3, <1>4, <1>5, <1>12
  <2>2. CASE ~Scanned(q)[i + 1]
    <3>1. Look(q, p, i + 1) = <<o, i + 1>>
      BY <1>12, <2>2 DEF Look
    <3>2. Kept(q, i + 1) = Kept(q, i) /\ Cardinality(B) = a
      BY <1>3, <1>6, <1>8, <1>9, <2>2
    <3>3. Look(q, p, i + 1)[1] = o
      BY <3>1
    <3>4. q.max = 0 \/ a <= q.max
      BY <1>3, <1>4, <2>1
    <3> QED
      BY <1>2, <1>5, <1>10, <2>1, <3>2, <3>3, <3>4 DEF Scans, s
  <2>3. CASE Scanned(q)[i + 1]
    <3>1. Look(q, p, i + 1)[1] = Append(o, i + 1)
      BY <1>12, <2>3 DEF Look
    <3>2. q.max = 0 \/ a + 1 <= q.max
      BY <1>3, <1>4, <2>1
    <3>3. Kept(q, i + 1) = Kept(q, i) \cup {n}
      <4>1. q.max = 0 \/ Cardinality(UpTo(q, i + 1, n)) <= q.max
        BY <1>6, <1>7, <2>3, <3>2
      <4> QED
        BY <1>6, <1>8, <1>9, <2>3, <4>1
    <3>4. /\ Append(o, i + 1) \in Seq(1 .. i + 1) /\ Len(Append(o, i + 1)) = a + 1
          /\ DOMAIN o = 1 .. a /\ DOMAIN Append(o, i + 1) = 1 .. a + 1
          /\ \A x \in 1 .. a : Append(o, i + 1)[x] = o[x]
          /\ Append(o, i + 1)[a + 1] = i + 1
      <4>1. i + 1 \in 1 .. i + 1
        OBVIOUS
      <4> QED
        BY <1>3, <1>10, <2>1, <4>1
    <3>5. (i + 1) + s = n
      BY <1>4 DEF n, s
    <3>6. {Append(o, i + 1)[x] + s : x \in DOMAIN Append(o, i + 1)} = Kept(q, i + 1)
      <4>1. 1 .. a + 1 = (1 .. a) \cup {a + 1}
        BY <1>3
      <4>2. {Append(o, i + 1)[x] + s : x \in DOMAIN Append(o, i + 1)} = {o[x] + s : x \in DOMAIN o} \cup {n}
        BY <3>4, <3>5, <4>1
      <4> QED
        BY <1>5, <3>3, <4>2
    <3>7. Cardinality(Found(q, i + 1)) = a + 1
      BY <1>2, <1>7, <2>3
    <3> DEFINE u == Append(o, i + 1)
    <3>8. /\ u \in Seq(1 .. i + 1) /\ {u[x] + Skipped(q) : x \in DOMAIN u} = Kept(q, i + 1)
          /\ Len(u) = Cardinality(Found(q, i + 1)) /\ (q.max = 0 \/ Len(u) <= q.max)
      BY <3>2, <3>4, <3>6, <3>7 DEF s
    <3> HIDE DEF u
    <3> QED
      BY <3>1, <3>8 DEF Scans, u
  <2> QED
    BY <2>2, <2>3
<1> QED
  BY <1>11, <1>12

\* What a log query sends.
LEMMA LogQueryIs ==
    ASSUME NEW q \in Query
    PROVE  /\ log_query(q)[1] \in Seq(Nat)
           /\ {log_query(q)[1][x] + Skipped(q) : x \in DOMAIN log_query(q)[1]} = Kept(q, Len(Scanned(q)))
<1> DEFINE N == Len(Scanned(q))
<1>1. N \in Nat
  BY ScannedIs
<1>2. /\ Matches(q)[0] = <<<<>>, 0>>
      /\ \A i \in 0 .. N : i # 0 => Matches(q)[i] = Look(q, Matches(q)[i - 1], i)
  BY <1>1, MatchesIs
<1> DEFINE S == {i \in 0 .. N : ~Scans(q, i, Matches(q)[i])}
<1>3. S = {}
  <2>1. SUFFICES ASSUME S # {} PROVE FALSE
    OBVIOUS
  <2>2. PICK i \in S : \A j \in S : i <= j
    <3>1. S \subseteq Nat
      BY <1>1
    <3> HIDE DEF S
    <3> QED
      BY <2>1, <3>1, LeastOf
  <2>3. i \in 0 .. N /\ ~Scans(q, i, Matches(q)[i]) /\ i \in Nat
    BY <1>1
  <2>4. i # 0
    BY <1>2, <2>3, ScansStart
  <2>5. i - 1 \in 0 .. N /\ i - 1 \in Nat /\ i - 1 < N /\ i - 1 < i /\ (i - 1) + 1 = i
    BY <1>1, <2>3, <2>4
  <2>6. Scans(q, i - 1, Matches(q)[i - 1])
    BY <2>2, <2>5
  <2>7. Scans(q, (i - 1) + 1, Look(q, Matches(q)[i - 1], (i - 1) + 1))
    BY <2>5, <2>6, ScansNext
  <2> QED
    BY <1>2, <2>3, <2>4, <2>5, <2>7
<1>4. Scans(q, N, Matches(q)[N])
  BY <1>1, <1>3
<1>5. Matches(q)[N] = log_query(q)
  BY DEF log_query
<1>6. log_query(q)[1] \in Seq(1 .. N)
  BY <1>4, <1>5 DEF Scans
<1>7. log_query(q)[1] \in Seq(Nat)
  BY <1>1, <1>6
<1> QED
  BY <1>4, <1>5, <1>7 DEF Scans

-----------------------------------------------------------------------------
(* What is on its way, and what has come. *)

LEMMA SameSeq ==
    ASSUME NEW S, NEW a \in Seq(S), NEW T, NEW b \in Seq(T), Len(a) = Len(b), \A i \in 1 .. Len(a) : a[i] = b[i]
    PROVE  a = b
  OBVIOUS

\* A sequence given by its elements.
LEMMA Listed ==
    ASSUME NEW n \in Nat, NEW F, DOMAIN F = 1 .. n, F = [i \in 1 .. n |-> F[i]]
    PROVE  /\ F \in Seq({F[i] : i \in 1 .. n}) /\ Len(F) = n
  OBVIOUS

LEMMA UnderIs ==
    ASSUME NEW s, NEW p \in Nat, NEW q \in Nat, p <= q, NEW k
    PROVE  /\ \E S : Under(s, p, q, k) \in Seq(S)
           /\ Len(Under(s, p, q, k)) = q - p
           /\ \A i \in 1 .. q - p : Under(s, p, q, k)[i] = Msg(k, 1, s[p + i])
<1> DEFINE F == [j \in 1 .. q - p |-> Msg(k, 1, s[p + j])]
<1>1. q - p \in Nat
  OBVIOUS
<1>2. DOMAIN F = 1 .. q - p /\ F = [i \in 1 .. q - p |-> F[i]] /\ \A i \in 1 .. q - p : F[i] = Msg(k, 1, s[p + i])
  OBVIOUS
<1> HIDE DEF F
<1>3. F \in Seq({F[i] : i \in 1 .. q - p}) /\ Len(F) = q - p
  BY <1>1, <1>2, Listed
<1> QED
  BY <1>2, <1>3 DEF Under, F

LEMMA EndingIs ==
    ASSUME NEW s, Len(s) \in Nat, NEW p \in 0 .. Len(s), NEW k, NEW e
    PROVE  /\ \E S : Ending(s, p, k, e) \in Seq(S)
           /\ Len(Ending(s, p, k, e)) = Len(s) - p + 1
           /\ \A i \in 1 .. Len(s) - p : Ending(s, p, k, e)[i] = Msg(k, 1, s[p + i])
           /\ Ending(s, p, k, e)[Len(s) - p + 1] = e
<1> DEFINE n == Len(s) - p + 1
           F == [j \in 1 .. n |-> IF p + j <= Len(s) THEN Msg(k, 1, s[p + j]) ELSE e]
<1>1. n \in Nat
  OBVIOUS
<1>2. DOMAIN F = 1 .. n /\ F = [i \in 1 .. n |-> F[i]]
      /\ \A i \in 1 .. n : F[i] = IF p + i <= Len(s) THEN Msg(k, 1, s[p + i]) ELSE e
  OBVIOUS
<1>3. Ending(s, p, k, e) = F
  BY DEF Ending
<1> HIDE DEF F
<1>4. F \in Seq({F[i] : i \in 1 .. n}) /\ Len(F) = n
  BY <1>1, <1>2, Listed
<1>5. /\ \A i \in 1 .. Len(s) - p : p + i <= Len(s) /\ i \in 1 .. n
      /\ n \in 1 .. n /\ ~(p + n <= Len(s))
  OBVIOUS
<1> QED
  BY <1>2, <1>3, <1>4, <1>5

LEMMA UnderNone == ASSUME NEW s, NEW k PROVE Under(s, 0, 0, k) = <<>> /\ Part(s, 0) = <<>>
  BY DEF Under, Part

LEMMA UnderSend ==
    ASSUME NEW s, NEW p \in Nat, NEW q \in Nat, p <= q, NEW k
    PROVE  Append(Under(s, p, q, k), Msg(k, 1, s[q + 1])) = Under(s, p, q + 1, k)
<1> DEFINE a == Under(s, p, q, k)  b == Under(s, p, q + 1, k)  m == Msg(k, 1, s[q + 1])  n == q - p
<1>1. PICK S : a \in Seq(S)
  BY UnderIs
<1>2. n \in Nat /\ (q + 1) - p = n + 1 /\ p + (n + 1) = q + 1 /\ q + 1 \in Nat /\ p <= q + 1
  OBVIOUS
<1>3. PICK T : b \in Seq(T)
  BY <1>2, UnderIs
<1>4. Len(a) = n /\ \A i \in 1 .. n : a[i] = Msg(k, 1, s[p + i])
  BY UnderIs
<1>5. Len(b) = n + 1 /\ \A i \in 1 .. n + 1 : b[i] = Msg(k, 1, s[p + i])
  BY <1>2, UnderIs
<1>6. b[n + 1] = m
  BY <1>2, <1>5
<1> HIDE DEF a, b, m, n
<1>7. a \in Seq(S \cup {m})
  BY <1>1
<1>8. /\ Append(a, m) \in Seq(S \cup {m}) /\ Len(Append(a, m)) = n + 1
      /\ \A i \in 1 .. n : Append(a, m)[i] = a[i]
      /\ Append(a, m)[n + 1] = m
  BY <1>2, <1>4, <1>7
<1>9. \A i \in 1 .. n + 1 : Append(a, m)[i] = b[i]
  <2>1. \A i \in 1 .. n + 1 : i \in 1 .. n \/ i = n + 1
    BY <1>2
  <2> QED
    BY <1>2, <1>4, <1>5, <1>6, <1>8, <2>1
<1>10. Append(a, m) = b
  BY <1>3, <1>5, <1>8, <1>9, SameSeq
<1> QED
  BY <1>10 DEF a, b, m

LEMMA UnderTake ==
    ASSUME NEW s, NEW p \in Nat, NEW q \in Nat, p < q, NEW k
    PROVE  /\ Under(s, p, q, k) # <<>> /\ Head(Under(s, p, q, k)) = Msg(k, 1, s[p + 1])
           /\ Tail(Under(s, p, q, k)) = Under(s, p + 1, q, k)
<1> DEFINE a == Under(s, p, q, k)  b == Under(s, p + 1, q, k)  n == q - (p + 1)
<1>0. p <= q
  OBVIOUS
<1>1. PICK S : a \in Seq(S)
  BY <1>0, UnderIs
<1>2. n \in Nat /\ q - p = n + 1 /\ p + 1 \in Nat /\ p + 1 <= q /\ \A i \in Nat : (p + 1) + i = p + (i + 1)
  OBVIOUS
<1>3. PICK T : b \in Seq(T)
  BY <1>2, UnderIs
<1>4. Len(a) = n + 1 /\ \A i \in 1 .. n + 1 : a[i] = Msg(k, 1, s[p + i])
  <2>1. Len(a) = q - p /\ \A i \in 1 .. q - p : a[i] = Msg(k, 1, s[p + i])
    BY <1>0, UnderIs
  <2> QED
    BY <1>2, <2>1
<1>5. Len(b) = n /\ \A i \in 1 .. n : b[i] = Msg(k, 1, s[(p + 1) + i])
  BY <1>2, UnderIs
<1> HIDE DEF a, b, n
<1>6. /\ a # <<>> /\ Head(a) = a[1] /\ Tail(a) \in Seq(S) /\ Len(Tail(a)) = n
      /\ \A i \in 1 .. n : Tail(a)[i] = a[i + 1]
  BY <1>1, <1>2, <1>4
<1>7. \A i \in 1 .. n : i \in Nat /\ i + 1 \in 1 .. n + 1
  BY <1>2
<1>8. \A i \in 1 .. n : Tail(a)[i] = b[i]
  <2> SUFFICES ASSUME NEW i \in 1 .. n PROVE Tail(a)[i] = b[i]
    OBVIOUS
  <2>1. Tail(a)[i] = Msg(k, 1, s[p + (i + 1)])
    BY <1>4, <1>6, <1>7
  <2>2. b[i] = Msg(k, 1, s[(p + 1) + i])
    BY <1>5
  <2> QED
    BY <1>2, <1>7, <2>1, <2>2
<1>9. Tail(a) = b
  BY <1>3, <1>5, <1>6, <1>8, SameSeq
<1>10. a[1] = Msg(k, 1, s[p + 1])
  BY <1>2, <1>4
<1> QED
  BY <1>6, <1>9, <1>10 DEF a, b

LEMMA UnderEnds ==
    ASSUME NEW s, Len(s) \in Nat, NEW p \in 0 .. Len(s), NEW k, NEW e
    PROVE  Append(Under(s, p, Len(s), k), e) = Ending(s, p, k, e)
<1> DEFINE a == Under(s, p, Len(s), k)  b == Ending(s, p, k, e)  n == Len(s) - p
<1>1. p \in Nat /\ Len(s) \in Nat /\ p <= Len(s) /\ n \in Nat
  OBVIOUS
<1>2. PICK S : a \in Seq(S)
  BY <1>1, UnderIs
<1>3. Len(a) = n /\ \A i \in 1 .. n : a[i] = Msg(k, 1, s[p + i])
  BY <1>1, UnderIs
<1>4. PICK T : b \in Seq(T)
  BY EndingIs
<1>5. Len(b) = n + 1 /\ (\A i \in 1 .. n : b[i] = Msg(k, 1, s[p + i])) /\ b[n + 1] = e
  BY EndingIs
<1> HIDE DEF a, b, n
<1>6. a \in Seq(S \cup {e})
  BY <1>2
<1>7. /\ Append(a, e) \in Seq(S \cup {e}) /\ Len(Append(a, e)) = n + 1
      /\ \A i \in 1 .. n : Append(a, e)[i] = a[i]
      /\ Append(a, e)[n + 1] = e
  BY <1>1, <1>3, <1>6
<1>8. \A i \in 1 .. n + 1 : Append(a, e)[i] = b[i]
  <2>1. \A i \in 1 .. n + 1 : i \in 1 .. n \/ i = n + 1
    BY <1>1
  <2> QED
    BY <1>3, <1>5, <1>7, <2>1
<1>9. Append(a, e) = b
  BY <1>4, <1>5, <1>7, <1>8, SameSeq
<1> QED
  BY <1>9 DEF a, b

LEMMA EndingTake ==
    ASSUME NEW s, Len(s) \in Nat, NEW p \in Nat, p < Len(s), NEW k, NEW e
    PROVE  /\ Ending(s, p, k, e) # <<>> /\ Head(Ending(s, p, k, e)) = Msg(k, 1, s[p + 1])
           /\ Tail(Ending(s, p, k, e)) = Ending(s, p + 1, k, e)
<1> DEFINE a == Ending(s, p, k, e)  b == Ending(s, p + 1, k, e)  n == Len(s) - p
<1>1. /\ p \in 0 .. Len(s) /\ p + 1 \in 0 .. Len(s) /\ n \in Nat \ {0} /\ Len(s) - (p + 1) = n - 1
      /\ n - 1 \in Nat /\ (n - 1) + 1 = n /\ \A i \in Nat : (p + 1) + i = p + (i + 1)
  OBVIOUS
<1>2. PICK S : a \in Seq(S)
  BY <1>1, EndingIs
<1>e. \A r \in 0 .. Len(s) :
        /\ Len(Ending(s, r, k, e)) = Len(s) - r + 1
        /\ \A i \in 1 .. Len(s) - r : Ending(s, r, k, e)[i] = Msg(k, 1, s[r + i])
        /\ Ending(s, r, k, e)[Len(s) - r + 1] = e
  BY EndingIs
<1>3. Len(a) = n + 1 /\ (\A i \in 1 .. n : a[i] = Msg(k, 1, s[p + i])) /\ a[n + 1] = e
  BY <1>1, <1>e
<1>4. PICK T : b \in Seq(T)
  BY <1>1, EndingIs
<1>5. /\ Len(b) = Len(s) - (p + 1) + 1 /\ b[Len(s) - (p + 1) + 1] = e
      /\ \A i \in 1 .. Len(s) - (p + 1) : b[i] = Msg(k, 1, s[(p + 1) + i])
  BY <1>1, <1>e
<1>6. Len(b) = n /\ b[n] = e /\ \A i \in 1 .. n - 1 : b[i] = Msg(k, 1, s[(p + 1) + i])
  BY <1>1, <1>5
<1> HIDE DEF a, b, n
<1>7. /\ a # <<>> /\ Head(a) = a[1] /\ Tail(a) \in Seq(S) /\ Len(Tail(a)) = n
      /\ \A i \in 1 .. n : Tail(a)[i] = a[i + 1]
  BY <1>1, <1>2, <1>3
<1>8. \A i \in 1 .. n : Tail(a)[i] = b[i]
  <2> SUFFICES ASSUME NEW i \in 1 .. n PROVE Tail(a)[i] = b[i]
    OBVIOUS
  <2>1. CASE i = n
    BY <1>3, <1>6, <1>7, <2>1
  <2>2. CASE i # n
    <3>1. i \in Nat /\ i \in 1 .. n - 1 /\ i + 1 \in 1 .. n
      BY <1>1, <2>2
    <3>2. Tail(a)[i] = Msg(k, 1, s[p + (i + 1)])
      BY <1>3, <1>7, <3>1
    <3>3. b[i] = Msg(k, 1, s[(p + 1) + i])
      BY <1>6, <3>1
    <3> QED
      BY <1>1, <3>1, <3>2, <3>3
  <2> QED
    BY <2>1, <2>2
<1>9. Tail(a) = b
  BY <1>4, <1>6, <1>7, <1>8, SameSeq
<1>10. a[1] = Msg(k, 1, s[p + 1])
  BY <1>1, <1>3
<1> QED
  BY <1>7, <1>9, <1>10 DEF a, b

LEMMA EndingLast ==
    ASSUME NEW s, Len(s) \in Nat, NEW k, NEW e
    PROVE  /\ Ending(s, Len(s), k, e) # <<>> /\ Head(Ending(s, Len(s), k, e)) = e
           /\ Tail(Ending(s, Len(s), k, e)) = <<>>
<1> DEFINE a == Ending(s, Len(s), k, e)
<1>1. Len(s) \in 0 .. Len(s) /\ Len(s) - Len(s) = 0
  OBVIOUS
<1>2. PICK S : a \in Seq(S)
  BY <1>1, EndingIs
<1>e. \A r \in 0 .. Len(s) :
        /\ Len(Ending(s, r, k, e)) = Len(s) - r + 1
        /\ Ending(s, r, k, e)[Len(s) - r + 1] = e
  BY EndingIs
<1>3. Len(a) = Len(s) - Len(s) + 1 /\ a[Len(s) - Len(s) + 1] = e
  BY <1>1, <1>e
<1>4. Len(a) = 1 /\ a[1] = e
  BY <1>1, <1>3
<1> HIDE DEF a
<1>5. a # <<>> /\ Head(a) = e /\ Tail(a) \in Seq(S) /\ Len(Tail(a)) = 0
  BY <1>2, <1>4
<1>6. Tail(a) = <<>>
  <2>1. \A t \in Seq(S) : Len(t) = 0 => t = <<>>
    OBVIOUS
  <2> HIDE DEF a
  <2> QED
    BY <1>5, <2>1
<1> QED
  BY <1>5, <1>6 DEF a

LEMMA PartNext ==
    ASSUME NEW S, NEW s \in Seq(S), NEW p \in Nat, p < Len(s)
    PROVE  Append(Part(s, p), s[p + 1]) = Part(s, p + 1)
<1>1. /\ \A i \in 1 .. p + 1 : s[i] \in S
      /\ p + 1 \in Nat
  OBVIOUS
<1>2. \A n \in Nat : n <= Len(s) => Part(s, n) \in Seq(S) /\ Len(Part(s, n)) = n /\ \A i \in 1 .. n : Part(s, n)[i] = s[i]
  BY DEF Part
<1> DEFINE a == Part(s, p)  b == Part(s, p + 1)
<1>3. a \in Seq(S) /\ Len(a) = p /\ \A i \in 1 .. p : a[i] = s[i]
  BY <1>2
<1>4. b \in Seq(S) /\ Len(b) = p + 1 /\ \A i \in 1 .. p + 1 : b[i] = s[i]
  BY <1>1, <1>2
<1> HIDE DEF a, b
<1>5. s[p + 1] \in S
  BY <1>1
<1>6. /\ Append(a, s[p + 1]) \in Seq(S) /\ Len(Append(a, s[p + 1])) = p + 1
      /\ \A i \in 1 .. p : Append(a, s[p + 1])[i] = a[i]
      /\ Append(a, s[p + 1])[p + 1] = s[p + 1]
  BY <1>3, <1>5
<1>7. \A i \in 1 .. p + 1 : Append(a, s[p + 1])[i] = b[i]
  <2>1. \A i \in 1 .. p + 1 : i \in 1 .. p \/ i = p + 1
    OBVIOUS
  <2>2. p + 1 \in 1 .. p + 1
    OBVIOUS
  <2> QED
    BY <1>3, <1>4, <1>6, <2>1, <2>2
<1>8. Append(a, s[p + 1]) = b
  BY <1>4, <1>6, <1>7, SameSeq
<1> QED
  BY <1>8 DEF a, b

LEMMA PartWhole ==
    ASSUME NEW S, NEW s \in Seq(S)
    PROVE  Part(s, Len(s)) = s
<1>1. Part(s, Len(s)) \in Seq(S) /\ Len(Part(s, Len(s))) = Len(s) /\ \A i \in 1 .. Len(s) : Part(s, Len(s))[i] = s[i]
  BY DEF Part
<1> QED
  BY <1>1, SameSeq

\* A log query sends its lines and their end at once.
LEMMA AllAtOnce ==
    ASSUME NEW S, NEW s \in Seq(S), NEW k, NEW e
    PROVE  <<>> \o [i \in DOMAIN s |-> Msg(k, 1, s[i])] \o <<e>> = Ending(s, 0, k, e)
<1> DEFINE F == [i \in DOMAIN s |-> Msg(k, 1, s[i])]  b == Ending(s, 0, k, e)
<1>1. Len(s) \in Nat /\ DOMAIN s = 1 .. Len(s) /\ 0 \in 0 .. Len(s) /\ \A i \in 1 .. Len(s) : 0 + i = i
  OBVIOUS
<1>2. PICK n \in Nat : n = Len(s)
  BY <1>1
<1>3. DOMAIN F = 1 .. n /\ F = [i \in 1 .. n |-> F[i]] /\ \A i \in 1 .. n : F[i] = Msg(k, 1, s[i])
  BY <1>1, <1>2
<1> HIDE DEF F
<1>4. F \in Seq({F[i] : i \in 1 .. n}) /\ Len(F) = n
  BY <1>3, Listed
<1>5. PICK T : F \in Seq(T)
  BY <1>4
<1>6. PICK U : b \in Seq(U)
  BY <1>1, EndingIs
<1>7. /\ Len(b) = Len(s) - 0 + 1 /\ b[Len(s) - 0 + 1] = e
      /\ \A i \in 1 .. Len(s) - 0 : b[i] = Msg(k, 1, s[0 + i])
  BY <1>1, EndingIs
<1>8. Len(b) = n + 1 /\ b[n + 1] = e /\ \A i \in 1 .. n : b[i] = Msg(k, 1, s[i])
  BY <1>1, <1>2, <1>7
<1> HIDE DEF b
<1>9. F \in Seq(T \cup {e}) /\ <<e>> \in Seq(T \cup {e}) /\ <<>> \in Seq(T \cup {e})
  BY <1>5
<1>10. <<>> \o F = F
  BY <1>9
<1>11. /\ F \o <<e>> \in Seq(T \cup {e}) /\ Len(F \o <<e>>) = n + 1
       /\ \A i \in 1 .. n : (F \o <<e>>)[i] = F[i]
       /\ (F \o <<e>>)[n + 1] = e
  BY <1>4, <1>9
<1>12. \A i \in 1 .. n + 1 : (F \o <<e>>)[i] = b[i]
  <2>1. \A i \in 1 .. n + 1 : i \in 1 .. n \/ i = n + 1
    OBVIOUS
  <2> QED
    BY <1>3, <1>8, <1>11, <2>1
<1>13. F \o <<e>> = b
  BY <1>6, <1>8, <1>11, <1>12, SameSeq
<1> QED
  BY <1>10, <1>13 DEF F, b

-----------------------------------------------------------------------------
(* The records a step leaves. *)

LEMMA AskArm ==
    ASSUME Shape, NEW c \in Conns, Asks(c)
    PROVE  /\ Arm(c).errors = "strict" /\ plan[c].cmd \notin {"clipsync", "browse", "none"}
           /\ Size(c) \in {1, 2} /\ (Size(c) = 2 => plan[c].cmd = "kill")
           /\ \A n \in 1 .. Size(c) : GoodCall(plan[c].cmd, Arm(c).calls[n])
           /\ Out(c) \in Seq(STRING) /\ plan[c].log \in Query
<1>1. /\ plan[c].cmd \in AllCommands /\ plan[c].remote \in [kind : STRING, out : Seq(STRING), code : Nat]
      /\ plan[c].log \in [file : STRING, lines : Seq(BOOLEAN), tail : Nat, max : Nat]
  BY PlanAssumption DEF Shape, Asks
<1>2. GoodArm(plan[c].cmd, Arm(c))
  BY <1>1, ArmGood DEF Arm
<1>3. Arm(c).errors = "strict" /\ plan[c].cmd \notin {"default", "lock", "dlog", "none"}
  BY DEF Asks, Honest
<1>4. /\ plan[c].cmd \notin {"clipsync", "browse"}
      /\ Len(Arm(c).calls) = 1 \/ (Len(Arm(c).calls) = 2 /\ plan[c].cmd = "kill")
      /\ \A n \in 1 .. Len(Arm(c).calls) : GoodCall(plan[c].cmd, Arm(c).calls[n])
  BY <1>2, <1>3 DEF GoodArm
<1>5. Out(c) \in Seq(STRING) /\ plan[c].log \in Query
  BY <1>1 DEF Out, Query
<1>6. Size(c) = 1 \/ (Size(c) = 2 /\ plan[c].cmd = "kill")
  BY <1>4 DEF Size
<1>7. \A n \in 1 .. Size(c) : GoodCall(plan[c].cmd, Arm(c).calls[n])
  BY <1>4 DEF Size
<1>8. Size(c) \in {1, 2} /\ (Size(c) = 2 => plan[c].cmd = "kill")
  <2> HIDE DEF Size
  <2> QED
    BY <1>6
<1> QED
  BY <1>3, <1>4, <1>5, <1>7, <1>8, Zenon

\* The plan stays, and what depends on it.
LEMMA PlanStays ==
    ASSUME NEW c, plan' = plan
    PROVE  /\ Asks(c)' = Asks(c) /\ Arm(c)' = Arm(c) /\ Size(c)' = Size(c) /\ Out(c)' = Out(c) /\ Hits(c)' = Hits(c)
  BY DEF Asks, Honest, Arm, Size, Out, Hits

LEMMA ClientAt ==
    ASSUME Shape, NEW c \in Conns, NEW a, NEW f, f = [cli EXCEPT ![c].at = a]
    PROVE  f[c].at = a /\ f[c].n = cli[c].n /\ f[c].printed = cli[c].printed /\ f[c].exit = cli[c].exit
  BY DEF Shape, CliFields

LEMMA FinishIs ==
    ASSUME Shape, NEW c \in Conns, NEW e, NEW f, f = Finish(c, e)
    PROVE  f[c].at = "done" /\ f[c].exit = e /\ f[c].n = cli[c].n /\ f[c].printed = cli[c].printed
  BY DEF Shape, CliFields, Finish

NextWell(c, code) == NextCall(c, TRUE, code)
NextBadly(c, code) == NextCall(c, FALSE, code)
LEMMA NextIs ==
    ASSUME Shape, NEW c \in Conns, Asks(c), NEW code
    PROVE  /\ NextBadly(c, code) = Finish(c, 1)
           /\ code # 0 => NextWell(c, code) = Finish(c, code)
           /\ code = 0 /\ cli[c].n = Size(c) => NextWell(c, code) = Finish(c, 0)
           /\ code = 0 /\ cli[c].n # Size(c) => NextWell(c, code) = [cli EXCEPT ![c].at = "ready"]
<1>1. Arm(c).errors = "strict" /\ plan[c].cmd # "clipsync"
  BY AskArm
<1>2. Last(c) <=> cli[c].n = Size(c)
  BY DEF Last, Size
<1>3. NextBadly(c, code) = Finish(c, 1)
  BY <1>1 DEF NextBadly, NextCall
<1>4. code # 0 => NextWell(c, code) = Finish(c, code)
  BY DEF NextWell, NextCall
<1>5. code = 0 => NextWell(c, code) = IF ~Last(c) THEN [cli EXCEPT ![c].at = "ready"] ELSE Finish(c, 0)
  BY <1>1 DEF NextWell, NextCall
<1> QED
  BY <1>2, <1>3, <1>4, <1>5

LEMMA NextEither ==
    ASSUME NEW c, NEW good \in BOOLEAN, NEW code
    PROVE  \/ good /\ NextCall(c, good, code) = NextWell(c, code)
           \/ ~good /\ NextCall(c, good, code) = NextBadly(c, code)
<1>1. CASE good
  <2>1. good = TRUE
    BY <1>1
  <2> QED
    BY <2>1 DEF NextWell
<1>2. CASE ~good
  <2>1. good = FALSE
    BY <1>2
  <2> QED
    BY <2>1 DEF NextBadly
<1> QED
  BY <1>1, <1>2

LEMMA SrvAt ==
    ASSUME Shape, NEW c \in Conns, NEW a, NEW f, f = At(c, a)
    PROVE  f[c].at = a /\ f[c].did = srv[c].did /\ f[c].n = srv[c].n /\ f[c].caps = srv[c].caps
  BY DEF Shape, SrvFields, At

LEMMA SrvDid ==
    ASSUME Shape, NEW c \in Conns, NEW n, NEW a, NEW f
    PROVE  /\ f = DidWell(c, n, a) => f[c].at = a /\ f[c].did = srv[c].did \cup {n}
           /\ f = DidBadly(c, n, a) => f[c].at = a /\ f[c].did = srv[c].did
  BY DEF Shape, SrvFields, Did, DidWell, DidBadly

\* A message sent, a message taken.
LEMMA Sent ==
    ASSUME NEW ch, NEW c \in Conns, DOMAIN ch = Conns, NEW m, ch[c] = <<>>
    PROVE  Send(ch, c, m)[c] = <<m>>
  BY DEF Send
LEMMA Taken ==
    ASSUME NEW ch, NEW c \in Conns, DOMAIN ch = Conns, NEW m, ch[c] = <<m>>
    PROVE  ch[c] # <<>> /\ Head(ch[c]) = m /\ Take(ch, c)[c] = <<>>
  BY DEF Take

-----------------------------------------------------------------------------
(* A command that has failed stays so, and one that has succeeded.         *)

ClientActs(c) ==
    \/ Hello(c) \/ TakeAuth(c) \/ StartCall(c) \/ Answer(c) \/ AnswerLost(c) \/ OperationTimeout(c)
    \/ LeaveShell(c) \/ ClipStep(c)
ServerActs(c) == ServerStep(c) \/ StreamAbort(c) \/ LoopEnds(c)
OtherActs(c) == JobExits(c) \/ KeysAdd(c) \/ KeysRemove(c)

LEMMA WhoActs ==
    ASSUME NEW c, Acts(c)
    PROVE  ClientActs(c) \/ ServerActs(c) \/ LinkLost(c) \/ OtherActs(c)
  BY DEF Acts, ClientActs, ServerActs, OtherActs, ClientStep

\* What the server and the client do not touch.
LEMMA ServerFrame ==
    ASSUME NEW c, ServerActs(c)
    PROVE  cli' = cli /\ link' = link
<1>1. CASE AuthRequest(c) \/ AuthResponse(c) \/ AuthTotp(c) \/ AuthEnds(c)
  BY <1>1 DEF AuthRequest, AuthResponse, AuthTotp, AuthEnds
<1>2. CASE Serve(c)
  BY <1>2 DEF Serve
<1>3. CASE ExecDone(c) \/ StreamChunk(c) \/ StreamExit(c) \/ ShellEnds(c) \/ StreamAbort(c) \/ LoopEnds(c)
  BY <1>3 DEF ExecDone, StreamChunk, StreamExit, ShellEnds, StreamAbort, LoopEnds
<1> QED
  BY <1>1, <1>2, <1>3 DEF ServerActs, ServerStep
LEMMA ClientFrame ==
    ASSUME NEW c, ClientActs(c)
    PROVE  srv' = srv /\ link' = link /\ child' = child
<1>1. CASE Hello(c) \/ TakeAuth(c) \/ StartCall(c)
  BY <1>1 DEF Hello, TakeAuth, StartCall
<1>2. CASE Answer(c) \/ AnswerLost(c) \/ OperationTimeout(c) \/ LeaveShell(c)
  BY <1>2 DEF Answer, AnswerLost, OperationTimeout, LeaveShell
<1>3. CASE ClipStep(c)
  BY <1>3 DEF ClipStep, PollClipboard, ClipAnswer
<1> QED
  BY <1>1, <1>2, <1>3 DEF ClientActs
LEMMA OtherFrame ==
    ASSUME NEW c, OtherActs(c)
    PROVE  cli' = cli /\ srv' = srv /\ up' = up /\ down' = down /\ link' = link /\ child' = child
  BY DEF OtherActs, JobExits, KeysAdd, KeysRemove

LEMMA HopelessStays ==
    ASSUME Shape, NEW c \in Conns, Asks(c), Hopeless(c), Acts(c)
    PROVE  Hopeless(c)'
<1>1. \A f, e : f = Finish(c, e) => f[c].at = "done" /\ f[c].exit = e
  BY FinishIs
<1>2. \A f, a : f = [cli EXCEPT ![c].at = a] => f[c].at = a
  BY ClientAt
<1>3. CASE ClientActs(c)
  <2>1. link' = link
    BY <1>3, ClientFrame
  <2>2. cli[c].at # "done"
    BY <1>3 DEF ClientActs, Hello, TakeAuth, StartCall, Answer, AnswerLost, OperationTimeout, LeaveShell,
      ClipStep, PollClipboard, ClipAnswer
  <2>3. link[c] = "lost" /\ cli[c].at \in {"start", "login", "ready", "wait"}
    BY <2>2 DEF Hopeless
  <2>4. Hello(c) \/ StartCall(c) \/ AnswerLost(c) \/ OperationTimeout(c)
    BY <1>3, <2>3 DEF ClientActs, TakeAuth, Answer, LeaveShell, ClipStep, PollClipboard, ClipAnswer
  <2>5. CASE Hello(c)
    <3>1. cli' = [cli EXCEPT ![c].at = "login"]
      BY <2>5 DEF Hello
    <3> QED
      BY <1>2, <2>1, <2>3, <3>1 DEF Hopeless
  <2>6. CASE StartCall(c)
    <3>1. \/ cli' = [cli EXCEPT ![c].at = "wait", ![c].n = cli[c].n + 1]
          \/ cli' = Finish(c, 1)
      BY <2>6 DEF StartCall
    <3>2. cli'[c].at = "wait" \/ cli' = Finish(c, 1)
      BY <3>1 DEF Shape, CliFields
    <3> QED
      BY <1>1, <2>1, <2>3, <3>2 DEF Hopeless
  <2>7. CASE AnswerLost(c)
    <3>1. cli' = Finish(c, 1) \/ cli' = NextBadly(c, 0)
      BY <2>7 DEF AnswerLost, NextBadly
    <3>2. cli' = Finish(c, 1)
      BY <3>1, NextIs
    <3> QED
      BY <1>1, <3>2 DEF Hopeless
  <2>8. CASE OperationTimeout(c)
    <3>1. cli' = Finish(c, 1)
      BY <2>8 DEF OperationTimeout
    <3> QED
      BY <1>1, <3>1 DEF Hopeless
  <2> QED
    BY <2>4, <2>5, <2>6, <2>7, <2>8
<1>4. CASE ServerActs(c) \/ OtherActs(c)
  <2>1. cli' = cli /\ link' = link
    BY <1>4, ServerFrame, OtherFrame
  <2> QED
    BY <2>1 DEF Hopeless
<1>5. CASE LinkLost(c)
  <2>1. cli' = cli /\ link[c] = "up" /\ cli[c].at # "done"
    BY <1>5 DEF LinkLost
  <2> QED
    BY <2>1 DEF Hopeless
<1> QED
  BY <1>3, <1>4, <1>5, WhoActs

LEMMA SucceededStays ==
    ASSUME Shape, NEW c \in Conns, Asks(c), Succeeded(c), Acts(c), plan' = plan
    PROVE  Succeeded(c)'
<1>1. /\ cli[c].at \in {"done", "shell"} /\ srv[c].at \in {"loop", "shell", "closed"} /\ up[c] = <<>>
      /\ srv[c].did = 1 .. Size(c)
      /\ plan[c].cmd = "stream" => cli[c].printed = Out(c)
      /\ plan[c].cmd = "rlog" => cli[c].printed = Hits(c)
  BY DEF Succeeded
<1>2. Size(c)' = Size(c) /\ Out(c)' = Out(c) /\ Hits(c)' = Hits(c)
  BY PlanStays
<1>3. SUFFICES /\ cli'[c].at \in {"done", "shell"} /\ cli'[c].printed = cli[c].printed
               /\ srv'[c].at \in {"loop", "shell", "closed"} /\ srv'[c].did = srv[c].did /\ up'[c] = <<>>
  BY <1>1, <1>2 DEF Succeeded
<1>4. CASE ClientActs(c)
  <2>1. LeaveShell(c)
    BY <1>1, <1>4 DEF ClientActs, Hello, TakeAuth, StartCall, Answer, AnswerLost, OperationTimeout,
      ClipStep, PollClipboard, ClipAnswer
  <2>2. cli' = Finish(c, 0) /\ srv' = srv /\ up' = up
    BY <2>1 DEF LeaveShell
  <2>3. cli'[c].at = "done" /\ cli'[c].printed = cli[c].printed
    BY <2>2, FinishIs
  <2> QED
    BY <1>1, <2>2, <2>3
<1>5. CASE ServerActs(c)
  <2>1. ShellEnds(c) \/ LoopEnds(c)
    <3>1. ~(AuthRequest(c) \/ AuthResponse(c) \/ AuthTotp(c) \/ AuthEnds(c) \/ Serve(c))
      BY <1>1 DEF AuthRequest, AuthResponse, AuthTotp, AuthEnds, Serve
    <3>2. ~(ExecDone(c) \/ StreamChunk(c) \/ StreamExit(c) \/ StreamAbort(c))
      BY <1>1 DEF ExecDone, StreamChunk, StreamExit, StreamAbort
    <3> QED
      BY <1>5, <3>1, <3>2 DEF ServerActs, ServerStep
  <2>2. srv' = At(c, "closed") /\ up' = up /\ cli' = cli
    BY <2>1 DEF ShellEnds, LoopEnds
  <2>3. srv'[c].at = "closed" /\ srv'[c].did = srv[c].did
    BY <2>2, SrvAt
  <2> QED
    BY <1>1, <2>2, <2>3
<1>6. CASE LinkLost(c)
  <2>1. cli' = cli /\ srv' = srv /\ up' = [up EXCEPT ![c] = <<>>]
    BY <1>6 DEF LinkLost
  <2> QED
    BY <1>1, <2>1 DEF Shape
<1>7. CASE OtherActs(c)
  BY <1>1, <1>7, OtherFrame
<1> QED
  BY <1>4, <1>5, <1>6, <1>7, WhoActs

LEMMA ClientTurns ==
    ASSUME Shape, NEW c \in Conns, cli' = [cli EXCEPT ![c].at = "ready"]
    PROVE  cli'[c].at = "ready" /\ cli'[c].n = cli[c].n /\ cli'[c].printed = cli[c].printed
  BY DEF Shape, CliFields

\* A call that ends.
LEMMA CallEnds ==
    ASSUME Shape, NEW c \in Conns, Asks(c), plan' = plan,
           NEW good \in BOOLEAN, NEW code, cli' = NextCall(c, good, code),
           cli[c].n \in 1 .. Size(c),
           good /\ code = 0 =>
              /\ srv'[c].did = 1 .. cli[c].n /\ srv'[c].at \in {"loop", "shell"}
              /\ srv'[c].at = "shell" => plan[c].cmd = "attach"
              /\ up'[c] = <<>> /\ down'[c] = <<>> /\ link'[c] = "up"
              /\ plan[c].cmd = "stream" => cli[c].printed = Out(c)
              /\ plan[c].cmd = "rlog" => cli[c].printed = Hits(c)
              /\ plan[c].cmd \notin {"stream", "rlog"} => cli[c].printed = <<>>
    PROVE  ConnInv(c)'
<1>1. Size(c) \in {1, 2} /\ (Size(c) = 2 => plan[c].cmd = "kill")
  BY AskArm
<1>2. Size(c)' = Size(c) /\ Out(c)' = Out(c) /\ Hits(c)' = Hits(c)
  BY PlanStays
<1>3. \A e : e # 0 /\ cli' = Finish(c, e) => Hopeless(c)'
  BY FinishIs DEF Hopeless
<1>4. \/ cli' = NextBadly(c, code)
      \/ good /\ cli' = NextWell(c, code)
  BY NextEither
<1>5. CASE cli' = NextBadly(c, code)
  <2>1. cli' = Finish(c, 1)
    BY <1>5, NextIs
  <2> QED
    BY <1>3, <2>1 DEF ConnInv
<1>6. CASE good /\ cli' = NextWell(c, code) /\ code # 0
  <2>1. cli' = Finish(c, code)
    BY <1>6, NextIs
  <2> QED
    BY <1>3, <1>6, <2>1 DEF ConnInv
<1>7. CASE good /\ cli' = NextWell(c, code) /\ code = 0 /\ cli[c].n = Size(c)
  <2>1. cli' = Finish(c, 0)
    BY <1>7, NextIs
  <2>2. cli'[c].at = "done" /\ cli'[c].printed = cli[c].printed
    BY <2>1, FinishIs
  <2>3. Succeeded(c)'
    BY <1>2, <1>7, <2>2 DEF Succeeded
  <2> QED
    BY <2>3 DEF ConnInv
<1>8. CASE good /\ cli' = NextWell(c, code) /\ code = 0 /\ cli[c].n # Size(c)
  <2>1. cli' = [cli EXCEPT ![c].at = "ready"]
    BY <1>8, NextIs
  <2>2. cli'[c].at = "ready" /\ cli'[c].n = cli[c].n /\ cli'[c].printed = cli[c].printed
    BY <2>1, ClientTurns
  <2>3. cli[c].n = 1 /\ Size(c) = 2 /\ plan[c].cmd = "kill"
    BY <1>1, <1>8
  <2>4. /\ srv'[c].did = 1 .. cli[c].n /\ srv'[c].at = "loop" /\ cli[c].printed = <<>>
        /\ up'[c] = <<>> /\ down'[c] = <<>> /\ link'[c] = "up"
    BY <1>8, <2>3
  <2>5. Idle(c)'
    BY <1>2, <2>2, <2>3, <2>4 DEF Idle, Nothing
  <2>6. cli'[c].n \in Nat
    BY <2>2, <2>3
  <2> QED
    BY <2>4, <2>5, <2>6 DEF ConnInv, Turn
<1> QED
  BY <1>4, <1>5, <1>6, <1>7, <1>8

-----------------------------------------------------------------------------
(* The turns: the login. *)

LEMMA PlaceIs ==
    ASSUME NEW c, Turn(c)
    PROVE  /\ cli[c].at \in {"start", "login", "ready", "wait"} /\ ~ClientGone(c)
           /\ cli[c].at \in {"start", "login"} => LoggingIn(c)
           /\ cli[c].at = "ready" => Idle(c)
           /\ cli[c].at = "wait" => Calling(c)
<1>1. LoggingIn(c) => cli[c].at \in {"start", "login"}
  BY DEF LoggingIn, LoginAsks, LoginAnswers
<1>2. Idle(c) => cli[c].at = "ready"
  BY DEF Idle
<1>3. Calling(c) => cli[c].at = "wait"
  BY DEF Calling
<1> QED
  BY <1>1, <1>2, <1>3 DEF Turn, ClientGone

LEMMA HelloTurn ==
    ASSUME Shape, NEW c \in Conns, Asks(c), Turn(c), Hello(c)
    PROVE  ConnInv(c)'
<1>1. /\ cli[c].at = "start" /\ cli' = [cli EXCEPT ![c].at = "login"] /\ UNCHANGED <<srv, down, link>>
      /\ \E m : up' = Send(up, c, m)
  BY DEF Hello
<1>2. LoggingIn(c)
  BY <1>1, PlaceIs
<1>3. Unasked(c) /\ srv[c].at = "new" /\ Nothing(c)
  BY <1>1, <1>2 DEF LoggingIn, LoginAsks, LoginAnswers
<1>4. PICK m : up' = Send(up, c, m)
  BY <1>1
<1>5. up'[c] = <<m>>
  BY <1>3, <1>4, Sent DEF Nothing, Shape
<1>6. cli'[c].at = "login" /\ cli'[c].n = cli[c].n /\ cli'[c].printed = cli[c].printed
  BY <1>1, ClientAt
<1>7. LoginAsks(c)'
  BY <1>1, <1>3, <1>5, <1>6 DEF LoginAsks, Nothing
<1>8. Unasked(c)'
  BY <1>1, <1>3, <1>6 DEF Unasked
<1> QED
  BY <1>1, <1>6, <1>7, <1>8 DEF ConnInv, Turn, LoggingIn

\* The server's side of the login: it takes the one message there is, and answers.
LEMMA LoginServed ==
    ASSUME Shape, NEW c \in Conns, Turn(c), cli' = cli, link' = link,
           srv[c].at \in {"new", "challenged", "totp"}, up[c] # <<>>, up' = Take(up, c),
           NEW m, down' = Send(down, c, m),
           srv'[c].at = CASE m.k = "AUTH_CHALLENGE" -> "challenged"
                          [] m.k = "JSON_TOTP" -> "totp"
                          [] m.k = "AUTH_OK" -> "loop"
                          [] OTHER -> "closed",
           srv'[c].did = srv[c].did
    PROVE  ConnInv(c)'
<1>1. LoginAsks(c) /\ Unasked(c)
  <2>1. ~Idle(c) /\ ~LoginAnswers(c) /\ ~(cli[c].at = "start" /\ srv[c].at = "new" /\ Nothing(c))
    BY DEF Idle, LoginAnswers, Nothing
  <2>2. ~Calling(c)
    <3>1. ~Asked(c) /\ ~Executing(c) /\ ~Dropped(c) /\ ~Streaming(c) /\ ~StreamEnds(c) /\ ~LogEnds(c)
      BY DEF Asked, Executing, Dropped, Streaming, StreamEnds, LogEnds
    <3>2. ~Answered(c)
      BY DEF Answered
    <3> QED
      BY <3>1, <3>2 DEF Calling
  <2> QED
    BY <2>1, <2>2 DEF Turn, LoggingIn
<1>2. PICK x : up[c] = <<x>>
  BY <1>1 DEF LoginAsks
<1>3. up'[c] = <<>>
  BY <1>2, Taken DEF Shape
<1>4. down'[c] = <<m>>
  BY <1>1, Sent DEF LoginAsks, Shape
<1>5. LoginAnswers(c)'
  BY <1>1, <1>3, <1>4 DEF LoginAsks, LoginAnswers
<1>6. Unasked(c)'
  BY <1>1 DEF Unasked
<1> QED
  BY <1>5, <1>6 DEF ConnInv, Turn, LoggingIn

LEMMA RejectIs ==
    ASSUME Shape, NEW c \in Conns, Reject(c)
    PROVE  /\ down' = Send(down, c, Msg("AUTH_FAIL", 0, ""))
           /\ srv'[c].at = "closed" /\ srv'[c].did = srv[c].did
  BY DEF Reject, Shape, SrvFields

LEMMA WelcomeIs ==
    ASSUME Shape, NEW c \in Conns, Welcome(c)
    PROVE  /\ down' = Send(down, c, Msg("AUTH_OK", 0, ""))
           /\ srv'[c].at = "loop" /\ srv'[c].did = srv[c].did
<1> DEFINE caps == GrantedCaps(plan[c].caps)
<1>1. down' = Send(down, c, Msg("AUTH_OK", 0, "")) /\ srv' = [srv EXCEPT ![c].at = "loop", ![c].caps = caps]
  BY DEF Welcome
<1> HIDE DEF caps
<1> QED
  BY <1>1 DEF Shape, SrvFields

\* The answers of the server in the login.
LEMMA LoginAnswerIs ==
    ASSUME Shape, NEW c \in Conns, AuthRequest(c) \/ AuthResponse(c) \/ AuthTotp(c)
    PROVE  \E m : /\ down' = Send(down, c, m) /\ srv'[c].did = srv[c].did
                  /\ srv'[c].at = CASE m.k = "AUTH_CHALLENGE" -> "challenged"
                                    [] m.k = "JSON_TOTP" -> "totp"
                                    [] m.k = "AUTH_OK" -> "loop"
                                    [] OTHER -> "closed"
<1> DEFINE To(k) == CASE k = "AUTH_CHALLENGE" -> "challenged"
                      [] k = "JSON_TOTP" -> "totp"
                      [] k = "AUTH_OK" -> "loop"
                      [] OTHER -> "closed"
<1>1. SUFFICES \E k : /\ down' = Send(down, c, Msg(k, 0, "")) /\ srv'[c].did = srv[c].did
                      /\ srv'[c].at = To(k)
  <2>1. \A k : Msg(k, 0, "").k = k
    BY DEF Msg
  <2> QED
    BY <2>1
<1>2. /\ To("AUTH_CHALLENGE") = "challenged" /\ To("JSON_TOTP") = "totp" /\ To("AUTH_OK") = "loop"
      /\ To("AUTH_FAIL") = "closed" /\ To("JSON_FAIL") = "closed"
  OBVIOUS
<1> HIDE DEF To
<1>3. \A a, f : f = [srv EXCEPT ![c].at = a] => f[c].at = a /\ f[c].did = srv[c].did
  BY DEF Shape, SrvFields
<1>5. \/ Reject(c) \/ Welcome(c)
      \/ down' = Send(down, c, Msg("AUTH_CHALLENGE", 0, "")) /\ srv' = [srv EXCEPT ![c].at = "challenged"]
      \/ down' = Send(down, c, Msg("JSON_FAIL", 0, "")) /\ srv' = [srv EXCEPT ![c].at = "closed"]
      \/ down' = Send(down, c, Msg("JSON_TOTP", 0, "")) /\ srv' = [srv EXCEPT ![c].at = "totp"]
  BY DEF AuthRequest, AuthResponse, AuthTotp, LookUp
<1>6. CASE Reject(c)
  BY <1>2, <1>6, RejectIs
<1>7. CASE Welcome(c)
  BY <1>2, <1>7, WelcomeIs
<1>8. CASE down' = Send(down, c, Msg("AUTH_CHALLENGE", 0, "")) /\ srv' = [srv EXCEPT ![c].at = "challenged"]
  BY <1>2, <1>3, <1>8
<1>9. CASE down' = Send(down, c, Msg("JSON_FAIL", 0, "")) /\ srv' = [srv EXCEPT ![c].at = "closed"]
  BY <1>2, <1>3, <1>9
<1>10. CASE down' = Send(down, c, Msg("JSON_TOTP", 0, "")) /\ srv' = [srv EXCEPT ![c].at = "totp"]
  BY <1>2, <1>3, <1>10
<1> QED
  BY <1>5, <1>6, <1>7, <1>8, <1>9, <1>10

LEMMA ServerLogsIn ==
    ASSUME Shape, NEW c \in Conns, Turn(c), AuthRequest(c) \/ AuthResponse(c) \/ AuthTotp(c)
    PROVE  ConnInv(c)'
<1>1. /\ srv[c].at \in {"new", "challenged", "totp"} /\ up[c] # <<>> /\ up' = Take(up, c)
      /\ cli' = cli /\ link' = link
  BY DEF AuthRequest, AuthResponse, AuthTotp
<1> QED
  BY <1>1, LoginAnswerIs, LoginServed

LEMMA TakeAuthTurn ==
    ASSUME Shape, NEW c \in Conns, Asks(c), Turn(c), TakeAuth(c), plan' = plan
    PROVE  ConnInv(c)'
<1>1. /\ cli[c].at = "login" /\ down[c] # <<>> /\ down' = Take(down, c) /\ UNCHANGED <<srv, link>>
  BY DEF TakeAuth
<1>2. LoggingIn(c) /\ link[c] = "up" /\ cli[c].n \in Nat
  BY <1>1, PlaceIs DEF Turn
<1>3. Unasked(c) /\ LoginAnswers(c)
  BY <1>1, <1>2 DEF LoggingIn, LoginAsks
<1>4. PICK m : /\ down[c] = <<m>>
               /\ srv[c].at = CASE m.k = "AUTH_CHALLENGE" -> "challenged"
                                [] m.k = "JSON_TOTP" -> "totp"
                                [] m.k = "AUTH_OK" -> "loop"
                                [] OTHER -> "closed"
  BY <1>3 DEF LoginAnswers
<1>5. Head(down[c]) = m /\ down'[c] = <<>> /\ up[c] = <<>>
  BY <1>1, <1>3, <1>4, Taken DEF Shape, LoginAnswers
<1>6. \/ (m.k = "AUTH_CHALLENGE" \/ m.k = "JSON_TOTP") /\ (\E x : up' = Send(up, c, x)) /\ cli' = cli
      \/ m.k = "AUTH_OK" /\ cli' = [cli EXCEPT ![c].at = "ready"] /\ up' = up
      \/ cli' = Finish(c, 1)
  BY <1>5 DEF TakeAuth
<1>7. CASE (m.k = "AUTH_CHALLENGE" \/ m.k = "JSON_TOTP") /\ (\E x : up' = Send(up, c, x)) /\ cli' = cli
  <2>1. PICK x : up' = Send(up, c, x)
    BY <1>7
  <2>2. up'[c] = <<x>>
    BY <1>5, <2>1, Sent DEF Shape
  <2>3. srv[c].at \in {"challenged", "totp"}
    BY <1>4, <1>7
  <2>4. LoginAsks(c)'
    BY <1>1, <1>5, <1>7, <2>2, <2>3 DEF LoginAsks
  <2>5. Unasked(c)'
    BY <1>1, <1>3, <1>7 DEF Unasked
  <2> QED
    BY <1>1, <1>2, <1>7, <2>4, <2>5 DEF ConnInv, Turn, LoggingIn
<1>8. CASE m.k = "AUTH_OK" /\ cli' = [cli EXCEPT ![c].at = "ready"] /\ up' = up
  <2>1. cli'[c].at = "ready" /\ cli'[c].n = cli[c].n /\ cli'[c].printed = cli[c].printed
    BY <1>8, ClientTurns
  <2>2. srv[c].at = "loop"
    BY <1>4, <1>8
  <2>3. Size(c) \in {1, 2} /\ Size(c)' = Size(c)
    BY AskArm, PlanStays
  <2>4. cli[c].n = 0 /\ srv[c].did = {} /\ cli[c].printed = <<>>
    BY <1>3 DEF Unasked
  <2>5. {} = 1 .. 0 /\ 0 \in Nat
    OBVIOUS
  <2>6. Idle(c)'
    BY <1>1, <1>5, <1>8, <2>1, <2>2, <2>3, <2>4, <2>5 DEF Idle, Nothing
  <2> QED
    BY <1>1, <1>2, <2>1, <2>6 DEF ConnInv, Turn
<1>9. CASE cli' = Finish(c, 1)
  <2>1. cli'[c].at = "done" /\ cli'[c].exit = 1
    BY <1>9, FinishIs
  <2> QED
    BY <2>1 DEF ConnInv, Hopeless
<1> QED
  BY <1>6, <1>7, <1>8, <1>9

LEMMA StartTurn ==
    ASSUME Shape, NEW c \in Conns, Asks(c), Turn(c), StartCall(c), plan' = plan
    PROVE  ConnInv(c)'
<1>1. Idle(c) /\ link[c] = "up" /\ cli[c].n \in Nat
  BY PlaceIs DEF StartCall, Turn
<1> DEFINE n == cli[c].n + 1
<1>2. \/ /\ up' = Send(up, c, Request(c, Arm(c).calls[n], n))
         /\ cli' = [cli EXCEPT ![c].at = "wait", ![c].n = n]
      \/ cli' = Finish(c, 1)
  BY DEF StartCall
<1>3. UNCHANGED <<srv, down, link>>
  BY DEF StartCall
<1>4. CASE /\ up' = Send(up, c, Request(c, Arm(c).calls[n], n))
           /\ cli' = [cli EXCEPT ![c].at = "wait", ![c].n = n]
  <2>1. cli'[c].at = "wait" /\ cli'[c].n = n /\ cli'[c].printed = cli[c].printed
    BY <1>4 DEF Shape, CliFields
  <2>2. up'[c] = <<Request(c, Arm(c).calls[n], n)>>
    BY <1>1, <1>4, Sent DEF Idle, Nothing, Shape
  <2>3. Arm(c)' = Arm(c) /\ Size(c)' = Size(c) /\ Size(c) \in Nat
    BY PlanStays, AskArm
  <2>4. n \in 1 .. Size(c) /\ 1 .. n - 1 = 1 .. cli[c].n /\ n \in Nat
    BY <1>1, <2>3 DEF Idle
  <2> HIDE DEF n
  <2>5. CurrentCall(c)' = Arm(c).calls[n]
    BY <2>1, <2>3 DEF CurrentCall
  <2>7. Request(c, CurrentCall(c), cli[c].n)' = Request(c, Arm(c).calls[n], n)
    BY <1>3, <2>1, <2>5 DEF Request, Granted
  <2>8. Asked(c)'
    BY <1>1, <1>3, <2>1, <2>2, <2>4, <2>7 DEF Asked, Idle, Nothing
  <2>9. Calling(c)'
    BY <2>1, <2>3, <2>4, <2>8 DEF Calling
  <2> QED
    BY <1>1, <1>3, <2>1, <2>4, <2>9 DEF ConnInv, Turn
<1>5. CASE cli' = Finish(c, 1)
  <2>1. cli'[c].at = "done" /\ cli'[c].exit = 1
    BY <1>5, FinishIs
  <2> QED
    BY <2>1 DEF ConnInv, Hopeless
<1> QED
  BY <1>2, <1>4, <1>5

-----------------------------------------------------------------------------
(* The turns: the request loop. *)

\* An answer to the call, all that is on its way.
LEMMA AnswerComes ==
    ASSUME Shape, NEW c \in Conns, Asks(c), plan' = plan, cli' = cli, link'[c] = "up",
           cli[c].at = "wait", cli[c].n \in 1 .. Size(c), cli[c].printed = <<>>,
           srv[c].did = 1 .. cli[c].n - 1, down[c] = <<>>, up'[c] = <<>>,
           NEW e, down' = Send(down, c, e), e.k \in {"PONG", "CLIP", "RESPONSE", "EXEC_RESULT", "ERROR"},
           e.k = "EXEC_RESULT" => CurrentCall(c).k \in {"exec", "exec_with_code"},
           e.k = "RESPONSE" => e.x \in BOOLEAN,
           srv'[c].at \in {"loop", "shell"}, srv'[c].at = "shell" => plan[c].cmd = "attach",
           Good(c, e) => srv'[c].did = srv[c].did \cup {cli[c].n} /\ plan[c].cmd \notin {"stream", "rlog"}
    PROVE  ConnInv(c)'
<1>1. Size(c)' = Size(c) /\ Arm(c)' = Arm(c) /\ Size(c) \in Nat
  BY PlanStays, AskArm
<1>2. CurrentCall(c)' = CurrentCall(c)
  BY <1>1 DEF CurrentCall
<1>3. down'[c] = <<e>>
  BY Sent DEF Shape
<1>4. Good(c, e) => srv'[c].did = 1 .. cli[c].n
  <2>1. (1 .. cli[c].n - 1) \cup {cli[c].n} = 1 .. cli[c].n
    BY <1>1
  <2> QED
    BY <2>1
<1>5. Good(c, e)' <=> Good(c, e)
  BY DEF Good
<1>6. Answered(c)'
  BY <1>2, <1>3, <1>4, <1>5 DEF Answered
<1>7. Calling(c)' /\ cli[c].n \in Nat
  BY <1>1, <1>6 DEF Calling
<1> QED
  BY <1>7 DEF ConnInv, Turn

Asking(cmd, call, n, m) ==
    \/ cmd = "stream" /\ call = Call("exec_stream", "user") /\ m = Msg("EXEC_STREAM", n, call)
    \/ cmd = "rlog" /\ m = Msg("LOG_QUERY", n, "")
    \/ cmd \notin {"stream", "rlog"} /\ m = Msg("PING", n, "")
    \/ /\ cmd \notin {"stream", "rlog"} /\ call.k \in {"exec", "exec_with_code"}
       /\ m \in {Msg("EXEC", n, call), Msg("JSON", n, "exec")}
    \/ cmd \notin {"stream", "rlog"} /\ m = Msg("JSON_CLIP", n, 0)
    \/ /\ cmd \notin {"stream", "rlog"}
       /\ \E w : m = Msg("JSON", n, w) /\ w # "exec" /\ (w = "shell-persistent" => cmd = "attach")
LEMMA RequestIs ==
    ASSUME NEW c, NEW call, NEW n, NEW cmd, GoodCall(cmd, call)
    PROVE  Asking(cmd, call, n, Request(c, call, n))
<1> USE DEF Asking
<1> DEFINE r == Request(c, call, n)
<1>1. CASE cmd = "stream" /\ call = Call("exec_stream", "user")
  <2>1. call.k = "exec_stream"
    BY <1>1 DEF Call
  <2> QED
    BY <1>1, <2>1 DEF Request
<1>2. CASE cmd = "rlog" /\ call = Call("log_query", "")
  <2>1. call.k = "log_query"
    BY <1>2 DEF Call
  <2> QED
    BY <1>2, <2>1 DEF Request
<1>3. CASE cmd \notin {"stream", "rlog"} /\ call = Call("ping", "")
  <2>1. call.k = "ping"
    BY <1>3 DEF Call
  <2>2. r = Msg("PING", n, "") \/ r = Msg("JSON", n, "ping")
    BY <2>1 DEF Request
  <2>3. CASE r = Msg("JSON", n, "ping")
    <3> DEFINE w == "ping"
    <3>1. r = Msg("JSON", n, w) /\ w # "exec" /\ w # "shell-persistent"
      BY <2>3
    <3> HIDE DEF w
    <3> QED
      BY <1>3, <3>1
  <2> QED
    BY <1>3, <2>2, <2>3
<1>4. CASE /\ cmd \notin {"stream", "rlog"}
           /\ call \in {Call("exec_with_code", "user"), Call("exec_with_code", "detach"), Call("exec", "launch")}
  <2>1. call.k \in {"exec", "exec_with_code"}
    BY <1>4 DEF Call
  <2>2. r = Msg("EXEC", n, call) \/ r = Msg("JSON", n, "exec")
    BY <2>1 DEF Request
  <2> QED
    BY <1>4, <2>1, <2>2
<1>5. CASE /\ cmd \notin {"stream", "rlog"} /\ call.k = "json" /\ call.what # "exec"
           /\ call.what = "shell-persistent" => cmd = "attach"
  <2>1. r = Msg("JSON_CLIP", n, 0) \/ r = Msg("JSON", n, call.what)
    BY <1>5 DEF Request
  <2> QED
    BY <1>5, <2>1
<1>6. call = Call("json", "shell-persistent") => call.k = "json" /\ call.what = "shell-persistent"
  BY DEF Call
<1> QED
  BY <1>1, <1>2, <1>3, <1>4, <1>5, <1>6 DEF GoodCall

\* An exec starts its command, or answers at once.
ExecFails(m, at) ==
    CASE at = "stream" -> Msg("ERROR", m.n, "")
      [] at = "exec" -> Msg("EXEC_RESULT", m.n, [code |-> 1, empty |-> FALSE])
      [] at = "json-exec" -> Msg("RESPONSE", m.n, FALSE)
LEMMA ExecStarts ==
    ASSUME Shape, NEW c \in Conns, NEW m, NEW at, ServeExec(c, m, at)
    PROVE  \/ /\ down' = down /\ srv'[c].at = at /\ srv'[c].n = m.n /\ srv'[c].did = srv[c].did
              /\ \E r \in Commands(c, m.x) : child'[c].out = r.out /\ child'[c].sent = 0
           \/ srv' = DidBadly(c, m.n, "loop") /\ down' = Send(down, c, ExecFails(m, at))
<1>1. PICK r \in Commands(c, m.x) :
         \/ /\ child' = [child EXCEPT ![c] = Spawned(r)]
            /\ srv' = [At(c, at) EXCEPT ![c].n = m.n] /\ UNCHANGED down
         \/ srv' = DidBadly(c, m.n, "loop") /\ down' = Send(down, c, ExecFails(m, at))
  BY DEF ServeExec, ExecFails, DidBadly
<1>2. CASE /\ child' = [child EXCEPT ![c] = Spawned(r)]
           /\ srv' = [At(c, at) EXCEPT ![c].n = m.n] /\ UNCHANGED down
  <2>1. child'[c] = Spawned(r)
    BY <1>2 DEF Shape
  <2>2. child'[c].out = r.out /\ child'[c].sent = 0
    BY <2>1 DEF Spawned
  <2>3. srv'[c].at = at /\ srv'[c].n = m.n /\ srv'[c].did = srv[c].did
    BY <1>2 DEF Shape, SrvFields, At
  <2> QED
    BY <1>2, <2>2, <2>3
<1> QED
  BY <1>1, <1>2

\* A JSON request other than an exec is answered.
LEMMA JsonAnswers ==
    ASSUME Shape, NEW c \in Conns, NEW m, ServeJson(c, m), m.k = "JSON_CLIP" \/ m.x # "exec",
           m.k = "JSON_CLIP" => m.x = 0
    PROVE  \/ \E ok \in BOOLEAN : srv' = Did(c, m.n, ok, "loop") /\ down' = Send(down, c, Msg("RESPONSE", m.n, ok))
           \/ srv' = DidWell(c, m.n, "loop") /\ \E x : down' = Send(down, c, Msg("CLIP", m.n, x))
           \/ /\ m.k # "JSON_CLIP" /\ m.x = "shell-persistent" /\ down' = Send(down, c, Msg("RESPONSE", m.n, TRUE))
              /\ srv'[c].at = "shell" /\ srv'[c].did = srv[c].did \cup {m.n}
<1>1. \/ srv' = Did(c, m.n, FALSE, "loop") /\ down' = Send(down, c, Msg("RESPONSE", m.n, FALSE))
      \/ ServeClip(c, m) \/ ServeSession(c, m) \/ ServeOther(c, m)
      \/ ServeShell(c, m) /\ m.k # "JSON_CLIP" /\ m.x = "shell-persistent"
  BY DEF ServeJson
<1>2. CASE srv' = Did(c, m.n, FALSE, "loop") /\ down' = Send(down, c, Msg("RESPONSE", m.n, FALSE))
  BY <1>2
<1>3. CASE ServeClip(c, m)
  <2>1. \/ srv' = Did(c, m.n, TRUE, "loop") /\ \E x : down' = Send(down, c, Msg("CLIP", m.n, x))
        \/ srv' = Did(c, m.n, FALSE, "loop") /\ down' = Send(down, c, Msg("RESPONSE", m.n, FALSE))
    BY <1>3 DEF ServeClip
  <2> QED
    BY <2>1 DEF DidWell
<1>4. CASE ServeSession(c, m)
  <2>1. PICK ok \in BOOLEAN : ok = has_session(plan[c].want)
    BY Zenon DEF has_session
  <2>2. \/ srv' = Did(c, m.n, TRUE, "loop") /\ down' = Send(down, c, Msg("RESPONSE", m.n, TRUE))
        \/ srv' = Did(c, m.n, ok, "loop") /\ down' = Send(down, c, Msg("RESPONSE", m.n, ok))
    BY <1>4, <2>1, Zenon DEF ServeSession
  <2> QED
    BY <2>2
<1>5. CASE ServeOther(c, m)
  <2>1. PICK ok \in MayAnswer(m.x) :
           srv' = Did(c, m.n, ok, "loop") /\ down' = Send(down, c, Msg("RESPONSE", m.n, ok))
    BY <1>5 DEF ServeOther
  <2>2. MayAnswer(m.x) \subseteq BOOLEAN
    BY DEF MayAnswer
  <2> QED
    BY <2>1, <2>2
<1>6. CASE ServeShell(c, m) /\ m.k # "JSON_CLIP" /\ m.x = "shell-persistent"
  <2>1. /\ \E id : srv' = [DidWell(c, m.n, "shell") EXCEPT ![c].id = id]
        /\ down' = Send(down, c, Msg("RESPONSE", m.n, TRUE))
    BY <1>6 DEF ServeShell, DidWell
  <2>2. PICK id : srv' = [DidWell(c, m.n, "shell") EXCEPT ![c].id = id]
    BY <2>1
  <2>3. srv'[c].at = "shell" /\ srv'[c].did = srv[c].did \cup {m.n}
    BY <2>2 DEF Shape, SrvFields, DidWell, Did
  <2> QED
    BY <1>6, <2>1, <2>3
<1> QED
  BY <1>1, <1>2, <1>3, <1>4, <1>5, <1>6

LEMMA MsgIs == ASSUME NEW k, NEW n, NEW x PROVE Msg(k, n, x).k = k /\ Msg(k, n, x).n = n /\ Msg(k, n, x).x = x
  BY DEF Msg

\* What the server finds in the loop.
InLoop(c) ==
    /\ Shape /\ Asks(c) /\ plan' = plan /\ cli' = cli /\ link'[c] = "up" /\ cli[c].at = "wait"
    /\ cli[c].n \in 1 .. Size(c) /\ cli[c].printed = <<>> /\ srv[c].did = 1 .. cli[c].n - 1
    /\ down[c] = <<>> /\ up'[c] = <<>>

LEMMA FailureComes ==
    ASSUME NEW c \in Conns, InLoop(c), srv' = DidBadly(c, cli[c].n, "loop"),
           NEW e, down' = Send(down, c, e), ~Good(c, e), e.k \in {"RESPONSE", "EXEC_RESULT", "ERROR"},
           e.k = "EXEC_RESULT" => CurrentCall(c).k \in {"exec", "exec_with_code"},
           e.k = "RESPONSE" => e.x \in BOOLEAN
    PROVE  ConnInv(c)'
<1>1. srv'[c].at = "loop"
  BY SrvDid DEF InLoop
<1> QED
  BY <1>1, AnswerComes DEF InLoop

LEMMA SuccessComes ==
    ASSUME NEW c \in Conns, InLoop(c), plan[c].cmd \notin {"stream", "rlog"}, srv' = DidWell(c, cli[c].n, "loop"),
           NEW e, down' = Send(down, c, e), e.k \in {"PONG", "CLIP", "RESPONSE", "EXEC_RESULT"},
           e.k = "EXEC_RESULT" => CurrentCall(c).k \in {"exec", "exec_with_code"},
           e.k = "RESPONSE" => e.x \in BOOLEAN
    PROVE  ConnInv(c)'
<1>1. srv'[c].at = "loop" /\ srv'[c].did = srv[c].did \cup {cli[c].n}
  BY SrvDid DEF InLoop
<1> QED
  BY <1>1, AnswerComes DEF InLoop

LEMMA ResponseComes ==
    ASSUME NEW c \in Conns, InLoop(c), plan[c].cmd \notin {"stream", "rlog"}, NEW ok \in BOOLEAN,
           srv' = Did(c, cli[c].n, ok, "loop"), down' = Send(down, c, Msg("RESPONSE", cli[c].n, ok))
    PROVE  ConnInv(c)'
<1> DEFINE e == Msg("RESPONSE", cli[c].n, ok)
<1>1. e.k = "RESPONSE" /\ e.x = ok
  BY MsgIs
<1> HIDE DEF e
<1>2. CASE ok /\ srv' = DidWell(c, cli[c].n, "loop")
  BY <1>1, <1>2, SuccessComes DEF e
<1>3. CASE ~ok /\ srv' = DidBadly(c, cli[c].n, "loop")
  <2>1. ~Good(c, e)
    BY <1>1, <1>3 DEF Good
  <2> QED
    BY <1>1, <1>3, <2>1, FailureComes DEF e
<1>4. \/ ok /\ Did(c, cli[c].n, ok, "loop") = DidWell(c, cli[c].n, "loop")
      \/ ~ok /\ Did(c, cli[c].n, ok, "loop") = DidBadly(c, cli[c].n, "loop")
  BY DidEither
<1> QED
  BY <1>2, <1>3, <1>4

\* The connection goes on with the call.
LEMMA CallGoesOn ==
    ASSUME Shape, NEW c \in Conns, Asks(c), plan' = plan, cli' = cli, cli[c].at = "wait", cli[c].n \in 1 .. Size(c),
           link'[c] = "up",
           \/ Asked(c)' \/ Executing(c)' \/ Streaming(c)' \/ StreamEnds(c)' \/ LogEnds(c)' \/ Answered(c)'
           \/ Dropped(c)'
    PROVE  ConnInv(c)'
<1>1. Size(c)' = Size(c) /\ Size(c) \in Nat
  BY PlanStays, AskArm
<1>2. Calling(c)'
  BY <1>1 DEF Calling
<1>3. cli[c].n \in Nat
  BY <1>1
<1> QED
  BY <1>2, <1>3 DEF ConnInv, Turn

LEMMA ExecServed ==
    ASSUME NEW c \in Conns, InLoop(c), plan[c].cmd \notin {"stream", "rlog"},
           CurrentCall(c).k \in {"exec", "exec_with_code"},
           NEW m, m.n = cli[c].n, NEW at \in {"exec", "json-exec"}, ServeExec(c, m, at)
    PROVE  ConnInv(c)'
<1>1. Arm(c)' = Arm(c) /\ cli' = cli
  BY PlanStays DEF InLoop
<1>2. CurrentCall(c)' = CurrentCall(c)
  BY <1>1 DEF CurrentCall
<1>3. CASE /\ down' = down /\ srv'[c].at = at /\ srv'[c].n = m.n /\ srv'[c].did = srv[c].did
  <2>1. Executing(c)'
    BY <1>2, <1>3 DEF Executing, Nothing, InLoop
  <2> QED
    BY <2>1, CallGoesOn DEF InLoop
<1>4. CASE srv' = DidBadly(c, m.n, "loop") /\ down' = Send(down, c, ExecFails(m, at))
  <2>1. PICK e : e = ExecFails(m, at)
    OBVIOUS
  <2>2. \/ e.k = "EXEC_RESULT" /\ e.x.code = 1
        \/ e.k = "RESPONSE" /\ e.x = FALSE
    BY <2>1 DEF ExecFails, Msg
  <2>3. ~Good(c, e)
    BY <2>2 DEF Good
  <2> QED
    BY <1>4, <2>1, <2>2, <2>3, FailureComes
<1>5. \/ /\ down' = down /\ srv'[c].at = at /\ srv'[c].n = m.n /\ srv'[c].did = srv[c].did
      \/ srv' = DidBadly(c, m.n, "loop") /\ down' = Send(down, c, ExecFails(m, at))
  BY ExecStarts DEF InLoop
<1> QED
  BY <1>3, <1>4, <1>5

LEMMA StreamServed ==
    ASSUME NEW c \in Conns, InLoop(c), plan[c].cmd = "stream", NEW m, m.n = cli[c].n, m.x = Call("exec_stream", "user"),
           ServeExec(c, m, "stream")
    PROVE  ConnInv(c)'
<1>1. Size(c) = 1 /\ cli[c].n = 1 /\ Out(c) \in Seq(STRING)
  BY AskArm DEF InLoop
<1>2. Commands(c, m.x) = {plan[c].remote}
  BY DEF Commands, Call
<1>3. CASE /\ down' = down /\ srv'[c].at = "stream" /\ srv'[c].n = m.n /\ srv'[c].did = srv[c].did
           /\ child'[c].out = plan[c].remote.out /\ child'[c].sent = 0
  <2>1. Out(c)' = Out(c) /\ plan' = plan /\ child'[c].out = Out(c)
    BY <1>3, PlanStays DEF InLoop, Out
  <2>2. srv[c].did = {}
    <3>1. 1 .. 1 - 1 = {}
      OBVIOUS
    <3> QED
      BY <1>1, <3>1 DEF InLoop
  <2>3. 0 \in 0 .. Len(Out(c)) /\ 0 \in 0 .. 0
    BY <1>1
  <2>4. cli'[c].printed = Part(Out(c), 0) /\ down'[c] = Under(Out(c), 0, 0, "EXEC_OUT")
    BY <1>3, UnderNone DEF InLoop
  <2>5. Streaming(c)'
    BY <1>1, <1>3, <2>1, <2>2, <2>3, <2>4 DEF Streaming, InLoop
  <2> QED
    BY <2>5, CallGoesOn DEF InLoop
<1>4. CASE srv' = DidBadly(c, m.n, "loop") /\ down' = Send(down, c, ExecFails(m, "stream"))
  <2>1. PICK e : e = ExecFails(m, "stream")
    OBVIOUS
  <2>2. e.k = "ERROR"
    BY <2>1 DEF ExecFails, Msg
  <2>3. ~Good(c, e)
    BY <2>2 DEF Good
  <2> QED
    BY <1>4, <2>1, <2>2, <2>3, FailureComes
<1>5. \/ /\ down' = down /\ srv'[c].at = "stream" /\ srv'[c].n = m.n /\ srv'[c].did = srv[c].did
         /\ \E r \in Commands(c, m.x) : child'[c].out = r.out /\ child'[c].sent = 0
      \/ srv' = DidBadly(c, m.n, "loop") /\ down' = Send(down, c, ExecFails(m, "stream"))
  BY ExecStarts DEF InLoop
<1> QED
  BY <1>2, <1>3, <1>4, <1>5

LEMMA LogServed ==
    ASSUME NEW c \in Conns, InLoop(c), plan[c].cmd = "rlog", NEW m, m.n = cli[c].n, ServeLog(c, m)
    PROVE  ConnInv(c)'
<1>1. Size(c) = 1 /\ cli[c].n = 1 /\ plan[c].log \in Query
  BY AskArm DEF InLoop
<1>2. Hits(c) \in Seq(Nat)
  BY <1>1, LogQueryIs DEF Hits
<1>3. Hits(c)' = Hits(c) /\ plan' = plan /\ cli' = cli
  BY PlanStays DEF InLoop
<1>4. \/ /\ srv' = DidWell(c, 1, "loop")
         /\ \E x : down' = [down EXCEPT ![c] = @ \o [i \in DOMAIN Hits(c) |-> Msg("LOG_DATA", 1, Hits(c)[i])]
                                                \o <<Msg("LOG_END", 1, x)>>]
      \/ srv' = DidBadly(c, 1, "loop") /\ down' = Send(down, c, Msg("ERROR", 1, ""))
      \/ srv' = At(c, "closed") /\ down' = down
  BY <1>1 DEF ServeLog, Hits, DidWell, DidBadly
<1>5. CASE /\ srv' = DidWell(c, 1, "loop")
           /\ \E x : down' = [down EXCEPT ![c] = @ \o [i \in DOMAIN Hits(c) |-> Msg("LOG_DATA", 1, Hits(c)[i])]
                                                  \o <<Msg("LOG_END", 1, x)>>]
  <2>1. PICK x : down' = [down EXCEPT ![c] = @ \o [i \in DOMAIN Hits(c) |-> Msg("LOG_DATA", 1, Hits(c)[i])]
                                                  \o <<Msg("LOG_END", 1, x)>>]
    BY <1>5
  <2>2. down'[c] = down[c] \o [i \in DOMAIN Hits(c) |-> Msg("LOG_DATA", 1, Hits(c)[i])]
                                                  \o <<Msg("LOG_END", 1, x)>>
    BY <2>1 DEF InLoop, Shape
  <2>3. down'[c] = Ending(Hits(c), 0, "LOG_DATA", Msg("LOG_END", 1, x))
    BY <1>2, <2>2, AllAtOnce DEF InLoop
  <2>4. cli'[c].printed = Part(Hits(c), 0)
    BY <1>3, UnderNone DEF InLoop
  <2>5. srv'[c].at = "loop" /\ srv'[c].did = {1}
    <3>1. srv'[c].at = "loop" /\ srv'[c].did = srv[c].did \cup {1}
      BY <1>5, SrvDid DEF InLoop
    <3>2. (1 .. 1 - 1) \cup {1} = {1}
      OBVIOUS
    <3> QED
      BY <1>1, <3>1, <3>2 DEF InLoop
  <2>6. 0 \in 0 .. Len(Hits(c))
    BY <1>2
  <2>7. LogEnds(c)'
    BY <1>3, <2>3, <2>4, <2>5, <2>6 DEF LogEnds, InLoop
  <2> QED
    BY <2>7, CallGoesOn DEF InLoop
<1>6. CASE srv' = DidBadly(c, 1, "loop") /\ down' = Send(down, c, Msg("ERROR", 1, ""))
  <2>1. Msg("ERROR", 1, "").k = "ERROR"
    BY DEF Msg
  <2>2. ~Good(c, Msg("ERROR", 1, ""))
    BY <2>1 DEF Good
  <2> QED
    BY <1>1, <1>6, <2>1, <2>2, FailureComes
<1>7. CASE srv' = At(c, "closed") /\ down' = down
  <2>1. srv'[c].at = "closed"
    BY <1>7, SrvAt DEF InLoop
  <2>2. Dropped(c)'
    BY <1>7, <2>1 DEF Dropped, Nothing, InLoop
  <2> QED
    BY <2>2, CallGoesOn DEF InLoop
<1> QED
  BY <1>4, <1>5, <1>6, <1>7

LEMMA JsonServed ==
    ASSUME NEW c \in Conns, InLoop(c), plan[c].cmd \notin {"stream", "rlog"}, NEW m, m.n = cli[c].n, ServeJson(c, m),
           m.k = "JSON_CLIP" \/ m.x # "exec", m.k = "JSON_CLIP" => m.x = 0,
           m.k # "JSON_CLIP" /\ m.x = "shell-persistent" => plan[c].cmd = "attach"
    PROVE  ConnInv(c)'
<1>0. Shape
  BY DEF InLoop
<1>1. CASE \E ok \in BOOLEAN : srv' = Did(c, m.n, ok, "loop") /\ down' = Send(down, c, Msg("RESPONSE", m.n, ok))
  BY <1>1, ResponseComes
<1>2. CASE srv' = DidWell(c, m.n, "loop") /\ \E x : down' = Send(down, c, Msg("CLIP", m.n, x))
  <2>1. PICK x : down' = Send(down, c, Msg("CLIP", m.n, x))
    BY <1>2
  <2>2. Msg("CLIP", m.n, x).k = "CLIP"
    BY MsgIs
  <2> QED
    BY <1>2, <2>1, <2>2, SuccessComes
<1>3. CASE /\ m.k # "JSON_CLIP" /\ m.x = "shell-persistent" /\ down' = Send(down, c, Msg("RESPONSE", m.n, TRUE))
           /\ srv'[c].at = "shell" /\ srv'[c].did = srv[c].did \cup {m.n}
  <2>1. Msg("RESPONSE", m.n, TRUE).k = "RESPONSE" /\ Msg("RESPONSE", m.n, TRUE).x \in BOOLEAN
    BY DEF Msg
  <2> QED
    BY <1>3, <2>1, AnswerComes DEF InLoop
<1> QED
  BY <1>0, <1>1, <1>2, <1>3, JsonAnswers

LEMMA ServeTurn ==
    ASSUME Shape, NEW c \in Conns, Asks(c), Turn(c), Serve(c), plan' = plan
    PROVE  ConnInv(c)'
<1>1. /\ srv[c].at = "loop" /\ up[c] # <<>> /\ up' = Take(up, c) /\ cli' = cli /\ link' = link
  BY DEF Serve
<1>2. Calling(c) /\ Asked(c)
  <2>1. ~LoggingIn(c) /\ ~Idle(c)
    BY <1>1 DEF LoggingIn, LoginAsks, LoginAnswers, Idle, Nothing
  <2>2. ~Executing(c) /\ ~Dropped(c) /\ ~Streaming(c) /\ ~StreamEnds(c) /\ ~LogEnds(c) /\ ~Answered(c)
    BY <1>1 DEF Executing, Dropped, Streaming, StreamEnds, LogEnds, Answered
  <2> QED
    BY <2>1, <2>2 DEF Turn, Calling
<1>3. PICK n : n = cli[c].n
  OBVIOUS
<1>4. PICK call : call = CurrentCall(c)
  OBVIOUS
<1>5. PICK m : m = Request(c, call, n)
  OBVIOUS
<1>6. up[c] = <<m>> /\ n \in 1 .. Size(c)
  BY <1>2, <1>3, <1>4, <1>5 DEF Asked, Calling
<1>7. Head(up[c]) = m /\ up'[c] = <<>>
  BY <1>1, <1>6, Taken DEF Shape
<1>8. InLoop(c)
  BY <1>1, <1>2, <1>7 DEF InLoop, Asked, Calling, Turn
<1>9. GoodCall(plan[c].cmd, call)
  BY <1>3, <1>4, <1>6, AskArm DEF CurrentCall
<1>10. \/ /\ m.k = "PING" /\ srv' = DidWell(c, m.n, "loop") /\ down' = Send(down, c, Msg("PONG", m.n, ""))
       \/ m.k = "EXEC" /\ ServeExec(c, m, "exec")
       \/ m.k = "EXEC_STREAM" /\ ServeExec(c, m, "stream")
       \/ m.k = "LOG_QUERY" /\ ServeLog(c, m)
       \/ m.k \in {"JSON", "JSON_CLIP"} /\ ServeJson(c, m)
  BY <1>7 DEF Serve, DidWell
<1> DEFINE plain == plan[c].cmd \notin {"stream", "rlog"}
<1>11. \/ plan[c].cmd = "stream" /\ call = Call("exec_stream", "user") /\ m = Msg("EXEC_STREAM", n, call)
       \/ plan[c].cmd = "rlog" /\ m = Msg("LOG_QUERY", n, "")
       \/ plain /\ m = Msg("PING", n, "")
       \/ plain /\ call.k \in {"exec", "exec_with_code"} /\ m \in {Msg("EXEC", n, call), Msg("JSON", n, "exec")}
       \/ plain /\ m = Msg("JSON_CLIP", n, 0)
       \/ /\ plain
          /\ \E w : m = Msg("JSON", n, w) /\ w # "exec" /\ (w = "shell-persistent" => plan[c].cmd = "attach")
  <2>1. Asking(plan[c].cmd, call, n, m)
    BY <1>5, <1>9, RequestIs
  <2> QED
    BY <2>1 DEF Asking
<1>12. CASE plan[c].cmd = "stream" /\ call = Call("exec_stream", "user") /\ m = Msg("EXEC_STREAM", n, call)
  <2>1. m.k = "EXEC_STREAM" /\ m.n = n /\ m.x = call
    BY <1>12 DEF Msg
  <2>2. ServeExec(c, m, "stream")
    BY <1>10, <2>1
  <2> QED
    BY <1>3, <1>8, <1>12, <2>1, <2>2, StreamServed
<1>13. CASE plan[c].cmd = "rlog" /\ m = Msg("LOG_QUERY", n, "")
  <2>1. m.k = "LOG_QUERY" /\ m.n = n
    BY <1>13 DEF Msg
  <2>2. ServeLog(c, m)
    BY <1>10, <2>1
  <2> QED
    BY <1>3, <1>8, <1>13, <2>1, <2>2, LogServed
<1>14. CASE plain /\ m = Msg("PING", n, "")
  <2>1. m.k = "PING" /\ m.n = n
    BY <1>14 DEF Msg
  <2>2. srv' = DidWell(c, n, "loop") /\ down' = Send(down, c, Msg("PONG", n, ""))
    BY <1>10, <2>1
  <2>3. Msg("PONG", n, "").k = "PONG"
    BY DEF Msg
  <2> QED
    BY <1>3, <1>8, <1>14, <2>2, <2>3, SuccessComes
<1>15. CASE plain /\ call.k \in {"exec", "exec_with_code"} /\ m = Msg("EXEC", n, call)
  <2>1. m.k = "EXEC" /\ m.n = n
    BY <1>15 DEF Msg
  <2>2. ServeExec(c, m, "exec")
    BY <1>10, <2>1
  <2> QED
    BY <1>3, <1>4, <1>8, <1>15, <2>1, <2>2, ExecServed
<1>16. CASE plain /\ call.k \in {"exec", "exec_with_code"} /\ m = Msg("JSON", n, "exec")
  <2>1. m.k = "JSON" /\ m.n = n /\ m.x = "exec"
    BY <1>16 DEF Msg
  <2>2. ServeJson(c, m)
    BY <1>10, <2>1
  <2>3. CASE ServeExec(c, [m EXCEPT !.x = CurrentCall(c)], "json-exec")
    <3> DEFINE o == [m EXCEPT !.x = CurrentCall(c)]
    <3>1. o.n = n
      BY <1>16 DEF Msg
    <3> HIDE DEF o
    <3>2. ServeExec(c, o, "json-exec")
      BY <2>3 DEF o
    <3> QED
      BY <1>3, <1>4, <1>8, <1>16, <3>1, <3>2, ExecServed
  <2>4. CASE srv' = Did(c, m.n, FALSE, "loop") /\ down' = Send(down, c, Msg("RESPONSE", m.n, FALSE))
    BY <1>3, <1>8, <1>16, <2>1, <2>4, ResponseComes
  <2>5. \/ ServeExec(c, [m EXCEPT !.x = CurrentCall(c)], "json-exec")
        \/ srv' = Did(c, m.n, FALSE, "loop") /\ down' = Send(down, c, Msg("RESPONSE", m.n, FALSE))
    BY <2>1, <2>2 DEF ServeJson
  <2> QED
    BY <2>3, <2>4, <2>5
<1>17. CASE plain /\ m = Msg("JSON_CLIP", n, 0)
  <2>1. m.k = "JSON_CLIP" /\ m.n = n /\ m.x = 0
    BY <1>17 DEF Msg
  <2>2. ServeJson(c, m)
    BY <1>10, <2>1
  <2> QED
    BY <1>3, <1>8, <1>17, <2>1, <2>2, JsonServed
<1>18. CASE /\ plain
            /\ \E w : m = Msg("JSON", n, w) /\ w # "exec" /\ (w = "shell-persistent" => plan[c].cmd = "attach")
  <2>1. PICK w : m = Msg("JSON", n, w) /\ w # "exec" /\ (w = "shell-persistent" => plan[c].cmd = "attach")
    BY <1>18
  <2>2. m.k = "JSON" /\ m.n = n /\ m.x = w
    BY <2>1 DEF Msg
  <2>3. ServeJson(c, m)
    BY <1>10, <2>2
  <2> QED
    BY <1>3, <1>8, <1>18, <2>1, <2>2, <2>3, JsonServed
<1> QED
  BY <1>11, <1>12, <1>13, <1>14, <1>15, <1>16, <1>17, <1>18

LEMMA ExecDoneTurn ==
    ASSUME Shape, NEW c \in Conns, Asks(c), Turn(c), ExecDone(c), plan' = plan
    PROVE  ConnInv(c)'
<1>1. srv[c].at \in {"exec", "json-exec"} /\ cli' = cli /\ link' = link /\ up' = up
  BY DEF ExecDone
<1>2. Calling(c) /\ Executing(c)
  <2>1. ~LoggingIn(c) /\ ~Idle(c)
    BY <1>1 DEF LoggingIn, LoginAsks, LoginAnswers, Idle
  <2>2. ~Asked(c) /\ ~Dropped(c) /\ ~Streaming(c) /\ ~StreamEnds(c) /\ ~LogEnds(c) /\ ~Answered(c)
    BY <1>1 DEF Asked, Dropped, Streaming, StreamEnds, LogEnds, Answered
  <2> QED
    BY <2>1, <2>2 DEF Turn, Calling
<1>3. InLoop(c) /\ srv[c].n = cli[c].n /\ CurrentCall(c).k \in {"exec", "exec_with_code"}
  BY <1>1, <1>2 DEF InLoop, Executing, Calling, Turn, Nothing
<1>4. plan[c].cmd \notin {"stream", "rlog"}
  <2>1. GoodCall(plan[c].cmd, CurrentCall(c))
    BY <1>2, AskArm DEF CurrentCall, Calling
  <2>2. Call("exec_stream", "user").k = "exec_stream" /\ Call("log_query", "").k = "log_query"
    BY DEF Call
  <2> QED
    BY <1>3, <2>1, <2>2 DEF GoodCall
<1>5. PICK ok \in BOOLEAN : ok = (child[c].code = 0)
  BY Zenon
<1>6. srv' = Did(c, cli[c].n, ok, "loop")
  BY <1>3, <1>5, Zenon DEF ExecDone
<1>7. CASE srv[c].at = "exec"
  <2> DEFINE x == [code |-> IF child[c].code = 0 THEN 0 ELSE 1, empty |-> child[c].out = <<>>]
             e == Msg("EXEC_RESULT", srv[c].n, x)
  <2>1. down' = Send(down, c, e)
    BY <1>7 DEF ExecDone
  <2>2. e.k = "EXEC_RESULT" /\ e.x.code = IF child[c].code = 0 THEN 0 ELSE 1
    BY DEF Msg
  <2> HIDE DEF e
  <2>3. CASE ok /\ srv' = DidWell(c, cli[c].n, "loop")
    BY <1>3, <1>4, <2>1, <2>2, <2>3, SuccessComes
  <2>4. CASE ~ok /\ srv' = DidBadly(c, cli[c].n, "loop")
    <3>1. child[c].code # 0
      BY <1>5, <2>4, Zenon
    <3>2. e.x.code = 1
      BY <2>2, <3>1
    <3>3. ~Good(c, e)
      BY <2>2, <3>2 DEF Good
    <3> QED
      BY <1>3, <2>1, <2>2, <2>4, <3>3, FailureComes
  <2> QED
    BY <1>6, <2>3, <2>4, DidEither
<1>8. CASE srv[c].at # "exec"
  <2>1. down' = Send(down, c, Msg("RESPONSE", cli[c].n, ok))
    BY <1>3, <1>5, <1>8, Zenon DEF ExecDone
  <2> QED
    BY <1>3, <1>4, <1>6, <2>1, ResponseComes
<1> QED
  BY <1>7, <1>8

\* What a streamed command finds.
LEMMA StreamingIs ==
    ASSUME Shape, NEW c \in Conns, Asks(c), Turn(c), srv[c].at = "stream"
    PROVE  /\ Calling(c) /\ Streaming(c) /\ cli[c].at = "wait" /\ link[c] = "up"
           /\ cli[c].n \in 1 .. Size(c) /\ Out(c) \in Seq(STRING)
<1>1. ~LoggingIn(c) /\ ~Idle(c)
  BY DEF LoggingIn, LoginAsks, LoginAnswers, Idle
<1>2. ~Asked(c) /\ ~Dropped(c) /\ ~Executing(c) /\ ~StreamEnds(c) /\ ~LogEnds(c) /\ ~Answered(c)
  BY DEF Asked, Dropped, Executing, StreamEnds, LogEnds, Answered
<1>3. Out(c) \in Seq(STRING)
  BY AskArm
<1> QED
  BY <1>1, <1>2, <1>3 DEF Turn, Calling

LEMMA StreamChunkTurn ==
    ASSUME Shape, NEW c \in Conns, Asks(c), Turn(c), StreamChunk(c), plan' = plan
    PROVE  ConnInv(c)'
<1>1. /\ srv[c].at = "stream" /\ child[c].sent < Len(child[c].out) /\ srv' = srv /\ cli' = cli /\ up' = up
      /\ link' = link /\ child' = [child EXCEPT ![c].sent = @ + 1]
      /\ down' = Send(down, c, Msg("EXEC_OUT", srv[c].n, child[c].out[child[c].sent + 1]))
  BY DEF StreamChunk
<1>2. /\ Calling(c) /\ Streaming(c) /\ cli[c].at = "wait" /\ link[c] = "up"
      /\ cli[c].n \in 1 .. Size(c) /\ Out(c) \in Seq(STRING)
  BY <1>1, StreamingIs
<1>3. PICK s : s = Out(c)
  OBVIOUS
<1>4. PICK q : q = child[c].sent
  OBVIOUS
<1>5. /\ plan[c].cmd = "stream" /\ srv[c].n = 1 /\ srv[c].did = {} /\ up[c] = <<>>
      /\ child[c].out = s /\ q \in 0 .. Len(s)
      /\ \E p \in 0 .. q : cli[c].printed = Part(s, p) /\ down[c] = Under(s, p, q, "EXEC_OUT")
  BY <1>2, <1>3, <1>4 DEF Streaming
<1>6. PICK p \in 0 .. q : cli[c].printed = Part(s, p) /\ down[c] = Under(s, p, q, "EXEC_OUT")
  BY <1>5
<1>7. s \in Seq(STRING) /\ Len(s) \in Nat /\ q < Len(s)
  BY <1>1, <1>2, <1>3, <1>4, <1>5
<1>8. q \in Nat /\ p \in Nat /\ p <= q /\ q + 1 \in 0 .. Len(s) /\ p \in 0 .. q + 1
  BY <1>5, <1>7
<1>9. child'[c].out = s /\ child'[c].sent = q + 1
  BY <1>1, <1>4, <1>5 DEF Shape, ChildFields
<1>10. down'[c] = Append(down[c], Msg("EXEC_OUT", 1, s[q + 1]))
  BY <1>1, <1>4, <1>5 DEF Send, Shape
<1>11. down'[c] = Under(s, p, q + 1, "EXEC_OUT")
  <2>1. Append(Under(s, p, q, "EXEC_OUT"), Msg("EXEC_OUT", 1, s[q + 1])) = Under(s, p, q + 1, "EXEC_OUT")
    BY <1>8, UnderSend
  <2> QED
    BY <1>6, <1>10, <2>1, Zenon
<1>12. Out(c)' = s
  BY <1>3, PlanStays
<1>13. Streaming(c)'
  BY <1>1, <1>5, <1>6, <1>8, <1>9, <1>11, <1>12 DEF Streaming
<1> QED
  BY <1>1, <1>2, <1>13, CallGoesOn

LEMMA StreamExitTurn ==
    ASSUME Shape, NEW c \in Conns, Asks(c), Turn(c), StreamExit(c), plan' = plan
    PROVE  ConnInv(c)'
<1>1. /\ srv[c].at = "stream" /\ child[c].sent = Len(child[c].out) /\ cli' = cli /\ up' = up
      /\ link' = link /\ down' = Send(down, c, Msg("EXEC_EXIT", srv[c].n, child[c].code))
  BY DEF StreamExit
<1>2. /\ Calling(c) /\ Streaming(c) /\ cli[c].at = "wait" /\ link[c] = "up"
      /\ cli[c].n \in 1 .. Size(c) /\ Out(c) \in Seq(STRING)
  BY <1>1, StreamingIs
<1>3. PICK s : s = Out(c)
  OBVIOUS
<1>4. PICK code : code = child[c].code
  OBVIOUS
<1>5. /\ plan[c].cmd = "stream" /\ srv[c].n = 1 /\ srv[c].did = {} /\ up[c] = <<>>
      /\ child[c].sent = Len(s)
      /\ \E p \in 0 .. Len(s) : cli[c].printed = Part(s, p) /\ down[c] = Under(s, p, Len(s), "EXEC_OUT")
  BY <1>1, <1>2, <1>3 DEF Streaming
<1>6. PICK p \in 0 .. Len(s) : cli[c].printed = Part(s, p) /\ down[c] = Under(s, p, Len(s), "EXEC_OUT")
  BY <1>5
<1>7. s \in Seq(STRING) /\ Len(s) \in Nat
  BY <1>2, <1>3
<1>8. PICK e : e = Msg("EXEC_EXIT", 1, code)
  OBVIOUS
<1>9. down'[c] = Append(down[c], e)
  BY <1>1, <1>4, <1>5, <1>8 DEF Send, Shape
<1>10. down'[c] = Ending(s, p, "EXEC_OUT", e)
  BY <1>6, <1>7, <1>9, UnderEnds
<1>11. PICK ok \in BOOLEAN : ok = (child[c].code = 0)
  BY Zenon
<1>12. srv' = Did(c, 1, ok, "loop")
  BY <1>5, <1>11, Zenon DEF StreamExit
<1>13. srv'[c].at = "loop" /\ (code = 0 => srv'[c].did = {1})
  <2>1. \/ ok /\ srv' = DidWell(c, 1, "loop")
        \/ ~ok /\ srv' = DidBadly(c, 1, "loop")
    BY <1>12, DidEither
  <2>2. CASE ok /\ srv' = DidWell(c, 1, "loop")
    <3>1. srv'[c].at = "loop" /\ srv'[c].did = srv[c].did \cup {1}
      BY <2>2, SrvDid
    <3>2. {} \cup {1} = {1}
      OBVIOUS
    <3> QED
      BY <1>5, <3>1, <3>2, Zenon
  <2>3. CASE ~ok /\ srv' = DidBadly(c, 1, "loop")
    <3>1. srv'[c].at = "loop"
      BY <2>3, SrvDid
    <3>2. code # 0
      BY <1>4, <1>11, <2>3, Zenon
    <3> QED
      BY <3>1, <3>2
  <2> QED
    BY <2>1, <2>2, <2>3, Zenon
<1>14. Out(c)' = s
  BY <1>3, PlanStays
<1>15. StreamEnds(c)'
  BY <1>1, <1>5, <1>6, <1>8, <1>10, <1>13, <1>14 DEF StreamEnds
<1> QED
  BY <1>1, <1>2, <1>15, CallGoesOn

LEMMA ServerTurn ==
    ASSUME Shape, NEW c \in Conns, Asks(c), Turn(c), ServerActs(c), plan' = plan
    PROVE  ConnInv(c)'
<1>1. ~ClientGone(c) /\ plan[c].cmd # "browse"
  BY PlaceIs, AskArm
<1>2. ~(AuthEnds(c) \/ ShellEnds(c) \/ StreamAbort(c) \/ LoopEnds(c))
  BY <1>1 DEF AuthEnds, ShellEnds, StreamAbort, LoopEnds
<1> QED
  BY <1>2, ServerLogsIn, ServeTurn, ExecDoneTurn, StreamChunkTurn, StreamExitTurn DEF ServerActs, ServerStep

-----------------------------------------------------------------------------
(* The turns: the answers. *)

\* What an answer does to the client, by its kind.
LEMMA AnswerFrame ==
    ASSUME NEW c, Answer(c)
    PROVE  /\ cli[c].at = "wait" /\ down[c] # <<>> /\ link[c] = "up" /\ down' = Take(down, c)
           /\ srv' = srv /\ up' = up /\ link' = link /\ child' = child
  BY DEF Answer
LEMMA AnswerIs ==
    ASSUME NEW c, Answer(c), NEW m, m = Head(down[c]), plan[c].cmd # "clipsync"
    PROVE  /\ m.k \in {"EXEC_OUT", "LOG_DATA"} => cli' = [cli EXCEPT ![c].printed = Append(@, m.x)]
           /\ m.k = "EXEC_EXIT" => cli' = NextCall(c, TRUE, m.x)
           /\ m.k = "EXEC_RESULT" => cli' = ExecResult(c, m.x)
           /\ m.k \in {"PONG", "LOG_END", "CLIP"} => cli' = NextCall(c, TRUE, 0)
           /\ m.k = "ERROR" => cli' = NextCall(c, FALSE, 0)
<1>1. CASE m.k \in {"EXEC_OUT", "LOG_DATA"}
  BY <1>1 DEF Answer
<1>2. CASE m.k = "EXEC_EXIT"
  BY <1>2 DEF Answer
<1>3. CASE m.k = "EXEC_RESULT"
  BY <1>3 DEF Answer
<1>4. CASE m.k \in {"PONG", "LOG_END", "CLIP"}
  BY <1>4 DEF Answer
<1>5. CASE m.k = "ERROR"
  BY <1>5 DEF Answer
<1> QED
  BY <1>1, <1>2, <1>3, <1>4, <1>5
LEMMA AnswerSays ==
    ASSUME NEW c, Answer(c), NEW m, m = Head(down[c]), plan[c].cmd # "clipsync", m.k = "RESPONSE",
           NEW ok \in BOOLEAN, ok = m.x
    PROVE  \/ ok /\ plan[c].cmd = "attach" /\ cli' = [cli EXCEPT ![c].at = "shell"]
           \/ cli' = NextCall(c, ok, 0)
<1>1. cli' = IF plan[c].cmd = "attach" /\ m.x THEN [cli EXCEPT ![c].at = "shell"]
             ELSE IF plan[c].cmd = "clipsync" THEN NextCall(c, TRUE, 0)
             ELSE NextCall(c, m.x, 0)
  BY DEF Answer
<1>2. CASE plan[c].cmd = "attach" /\ m.x
  BY <1>1, <1>2, Zenon
<1>3. CASE ~(plan[c].cmd = "attach" /\ m.x)
  BY <1>1, <1>3, Zenon
<1> QED
  BY <1>2, <1>3, Zenon

\* A chunk is printed, and the call goes on.
LEMMA PrintedIs ==
    ASSUME Shape, NEW c \in Conns, NEW x, cli' = [cli EXCEPT ![c].printed = Append(@, x)]
    PROVE  cli'[c].at = cli[c].at /\ cli'[c].n = cli[c].n /\ cli'[c].printed = Append(cli[c].printed, x)
  BY DEF Shape, CliFields
LEMMA CallPrints ==
    ASSUME Shape, NEW c \in Conns, Asks(c), plan' = plan, cli'[c].at = "wait", cli'[c].n = cli[c].n,
           cli[c].n \in 1 .. Size(c), link'[c] = "up", Streaming(c)' \/ StreamEnds(c)' \/ LogEnds(c)'
    PROVE  ConnInv(c)'
<1>1. Size(c)' = Size(c) /\ Size(c) \in Nat
  BY PlanStays, AskArm
<1>2. Calling(c)'
  BY <1>1 DEF Calling
<1>3. cli[c].n \in Nat
  BY <1>1
<1> QED
  BY <1>2, <1>3 DEF ConnInv, Turn

LEMMA TookIs ==
    ASSUME Shape, NEW c \in Conns, down' = Take(down, c)
    PROVE  down'[c] = Tail(down[c])
  BY DEF Take, Shape

LEMMA StreamingAnswer ==
    ASSUME Shape, NEW c \in Conns, Asks(c), Answer(c), plan' = plan, Streaming(c), cli[c].n \in 1 .. Size(c)
    PROVE  ConnInv(c)'
<1>1. /\ cli[c].at = "wait" /\ down[c] # <<>> /\ link[c] = "up" /\ down' = Take(down, c)
      /\ srv' = srv /\ up' = up /\ link' = link /\ child' = child
  BY AnswerFrame
<1>2. Out(c) \in Seq(STRING) /\ plan[c].cmd # "clipsync" /\ Out(c)' = Out(c)
  BY AskArm, PlanStays
<1>3. PICK s : s = Out(c)
  OBVIOUS
<1>4. PICK q : q = child[c].sent
  OBVIOUS
<1>5. /\ plan[c].cmd = "stream" /\ srv[c].at = "stream" /\ srv[c].n = 1 /\ srv[c].did = {} /\ up[c] = <<>>
      /\ child[c].out = s /\ q \in 0 .. Len(s)
      /\ \E p \in 0 .. q : cli[c].printed = Part(s, p) /\ down[c] = Under(s, p, q, "EXEC_OUT")
  BY <1>3, <1>4 DEF Streaming
<1>6. PICK p \in 0 .. q : cli[c].printed = Part(s, p) /\ down[c] = Under(s, p, q, "EXEC_OUT")
  BY <1>5
<1>7. s \in Seq(STRING) /\ Len(s) \in Nat /\ q \in Nat /\ p \in Nat
  BY <1>2, <1>3, <1>5
<1>8. p # q
  <2> SUFFICES ASSUME p = q PROVE FALSE
    OBVIOUS
  <2>1. Len(Under(s, p, q, "EXEC_OUT")) = 0 /\ \E S : Under(s, p, q, "EXEC_OUT") \in Seq(S)
    BY <1>7, UnderIs
  <2>2. PICK S : Under(s, p, q, "EXEC_OUT") \in Seq(S)
    BY <2>1
  <2>3. Under(s, p, q, "EXEC_OUT") = <<>>
    BY <2>1, <2>2
  <2> QED
    BY <1>1, <1>6, <2>3
<1>9. p < q /\ p < Len(s) /\ p + 1 \in 0 .. q
  BY <1>5, <1>6, <1>7, <1>8
<1>10. PICK m : m = Msg("EXEC_OUT", 1, s[p + 1])
  OBVIOUS
<1>11. m.k = "EXEC_OUT" /\ m.x = s[p + 1]
  BY <1>10 DEF Msg
<1>12. /\ Head(Under(s, p, q, "EXEC_OUT")) = m
       /\ Tail(Under(s, p, q, "EXEC_OUT")) = Under(s, p + 1, q, "EXEC_OUT")
  BY <1>7, <1>9, <1>10, UnderTake
<1>13. cli' = [cli EXCEPT ![c].printed = Append(@, m.x)]
  <2>1. m = Head(down[c])
    BY <1>6, <1>12
  <2> QED
    BY <1>2, <1>11, <2>1, AnswerIs
<1>14. cli'[c].at = cli[c].at /\ cli'[c].n = cli[c].n /\ cli'[c].printed = Append(cli[c].printed, m.x)
  BY <1>13, PrintedIs
<1>15. cli'[c].printed = Part(s, p + 1)
  <2>1. Append(Part(s, p), s[p + 1]) = Part(s, p + 1)
    BY <1>7, <1>9, PartNext
  <2> QED
    BY <1>6, <1>11, <1>14, <2>1
<1>16. down'[c] = Under(s, p + 1, q, "EXEC_OUT")
  BY <1>1, <1>6, <1>12, TookIs
<1>17. Streaming(c)'
  BY <1>1, <1>2, <1>3, <1>4, <1>5, <1>9, <1>15, <1>16 DEF Streaming
<1> QED
  BY <1>1, <1>14, <1>17, CallPrints

\* The end of a streamed answer, for either command: s is what it has to print, k its chunks,
\* e the last message.
LEMMA EndingAnswer ==
    ASSUME Shape, NEW c \in Conns, Answer(c), plan[c].cmd # "clipsync",
           NEW S, NEW s \in Seq(S), NEW k \in {"EXEC_OUT", "LOG_DATA"}, NEW e, NEW p \in 0 .. Len(s),
           cli[c].printed = Part(s, p), down[c] = Ending(s, p, k, e)
    PROVE  \/ /\ p < Len(s) /\ cli'[c].at = cli[c].at /\ cli'[c].n = cli[c].n
              /\ cli'[c].printed = Part(s, p + 1) /\ down'[c] = Ending(s, p + 1, k, e)
           \/ p = Len(s) /\ cli[c].printed = s /\ e = Head(down[c]) /\ down'[c] = <<>>
<1>1. down' = Take(down, c)
  BY AnswerFrame
<1>2. Len(s) \in Nat /\ p \in Nat
  OBVIOUS
<1>3. CASE p < Len(s)
  <2>1. PICK m : m = Msg(k, 1, s[p + 1])
    OBVIOUS
  <2>2. m.k = k /\ m.x = s[p + 1]
    BY <2>1 DEF Msg
  <2>3. Head(Ending(s, p, k, e)) = m /\ Tail(Ending(s, p, k, e)) = Ending(s, p + 1, k, e)
    BY <1>2, <1>3, <2>1, EndingTake
  <2>4. m = Head(down[c])
    BY <2>3
  <2>5. cli' = [cli EXCEPT ![c].printed = Append(@, m.x)]
    BY <2>2, <2>4, AnswerIs
  <2>6. cli'[c].at = cli[c].at /\ cli'[c].n = cli[c].n /\ cli'[c].printed = Append(cli[c].printed, m.x)
    BY <2>5, PrintedIs
  <2>7. Append(Part(s, p), s[p + 1]) = Part(s, p + 1)
    BY <1>2, <1>3, PartNext
  <2>8. down'[c] = Ending(s, p + 1, k, e)
    BY <1>1, <2>3, TookIs
  <2> QED
    BY <1>3, <2>2, <2>6, <2>7, <2>8
<1>4. CASE p = Len(s)
  <2>1. Head(Ending(s, p, k, e)) = e /\ Tail(Ending(s, p, k, e)) = <<>>
    BY <1>2, <1>4, EndingLast
  <2>2. Part(s, p) = s
    BY <1>4, PartWhole
  <2>3. down'[c] = <<>>
    BY <1>1, <2>1, TookIs
  <2> QED
    BY <1>4, <2>1, <2>2, <2>3
<1> QED
  BY <1>2, <1>3, <1>4

LEMMA StreamEndsAnswer ==
    ASSUME Shape, NEW c \in Conns, Asks(c), Answer(c), plan' = plan, StreamEnds(c), cli[c].n \in 1 .. Size(c)
    PROVE  ConnInv(c)'
<1>1. /\ cli[c].at = "wait" /\ link[c] = "up" /\ srv' = srv /\ up' = up /\ link' = link
  BY AnswerFrame
<1>2. Out(c) \in Seq(STRING) /\ plan[c].cmd # "clipsync" /\ Out(c)' = Out(c) /\ (Size(c) = 2 => plan[c].cmd = "kill")
      /\ Size(c) \in {1, 2}
  BY AskArm, PlanStays
<1>3. PICK s : s = Out(c)
  OBVIOUS
<1>4. /\ plan[c].cmd = "stream" /\ srv[c].at = "loop" /\ up[c] = <<>>
      /\ \E p \in 0 .. Len(s) : \E code :
            /\ code = 0 => srv[c].did = {1}
            /\ cli[c].printed = Part(s, p)
            /\ down[c] = Ending(s, p, "EXEC_OUT", Msg("EXEC_EXIT", 1, code))
  BY <1>3 DEF StreamEnds
<1>0. PICK p \in 0 .. Len(s) : \E code :
            /\ code = 0 => srv[c].did = {1}
            /\ cli[c].printed = Part(s, p)
            /\ down[c] = Ending(s, p, "EXEC_OUT", Msg("EXEC_EXIT", 1, code))
  BY <1>4
<1>5. PICK code :
            /\ code = 0 => srv[c].did = {1}
            /\ cli[c].printed = Part(s, p)
            /\ down[c] = Ending(s, p, "EXEC_OUT", Msg("EXEC_EXIT", 1, code))
  BY <1>0
<1>6. PICK e : e = Msg("EXEC_EXIT", 1, code)
  OBVIOUS
<1>7. e.k = "EXEC_EXIT" /\ e.x = code
  BY <1>6 DEF Msg
<1>8. \/ /\ p < Len(s) /\ cli'[c].at = cli[c].at /\ cli'[c].n = cli[c].n
         /\ cli'[c].printed = Part(s, p + 1) /\ down'[c] = Ending(s, p + 1, "EXEC_OUT", e)
      \/ p = Len(s) /\ cli[c].printed = s /\ e = Head(down[c]) /\ down'[c] = <<>>
  <2>1. s \in Seq(STRING) /\ "EXEC_OUT" \in {"EXEC_OUT", "LOG_DATA"} /\ down[c] = Ending(s, p, "EXEC_OUT", e)
    BY <1>2, <1>3, <1>5, <1>6
  <2> QED
    BY <1>2, <1>5, <2>1, EndingAnswer
<1>9. CASE /\ p < Len(s) /\ cli'[c].at = cli[c].at /\ cli'[c].n = cli[c].n
           /\ cli'[c].printed = Part(s, p + 1) /\ down'[c] = Ending(s, p + 1, "EXEC_OUT", e)
  <2>1. p + 1 \in 0 .. Len(s)
    BY <1>2, <1>3, <1>9
  <2>2. StreamEnds(c)'
    BY <1>1, <1>2, <1>3, <1>4, <1>5, <1>6, <1>9, <2>1 DEF StreamEnds
  <2> QED
    BY <1>1, <1>9, <2>2, CallPrints
<1>10. CASE p = Len(s) /\ cli[c].printed = s /\ e = Head(down[c]) /\ down'[c] = <<>>
  <2>1. cli' = NextCall(c, TRUE, code)
    BY <1>2, <1>7, <1>10, AnswerIs
  <2>2. cli[c].n = 1 /\ 1 .. 1 = {1}
    BY <1>2, <1>4
  <2>3. /\ srv'[c].at = "loop" /\ up'[c] = <<>> /\ down'[c] = <<>> /\ link'[c] = "up"
        /\ cli[c].printed = Out(c) /\ plan[c].cmd = "stream"
    BY <1>1, <1>3, <1>4, <1>10
  <2>4. code = 0 => srv'[c].did = 1 .. cli[c].n
    BY <1>1, <1>5, <2>2
  <2> QED
    BY <2>1, <2>3, <2>4, CallEnds
<1> QED
  BY <1>8, <1>9, <1>10

LEMMA LogEndsAnswer ==
    ASSUME Shape, NEW c \in Conns, Asks(c), Answer(c), plan' = plan, LogEnds(c), cli[c].n \in 1 .. Size(c)
    PROVE  ConnInv(c)'
<1>1. /\ cli[c].at = "wait" /\ link[c] = "up" /\ srv' = srv /\ up' = up /\ link' = link
  BY AnswerFrame
<1>2. plan[c].log \in Query /\ plan[c].cmd # "clipsync" /\ Hits(c)' = Hits(c)
      /\ (Size(c) = 2 => plan[c].cmd = "kill") /\ Size(c) \in {1, 2}
  BY AskArm, PlanStays
<1>3. PICK s : s = Hits(c)
  OBVIOUS
<1>4. s \in Seq(Nat)
  BY <1>2, <1>3, LogQueryIs DEF Hits
<1>5. /\ plan[c].cmd = "rlog" /\ srv[c].at = "loop" /\ up[c] = <<>> /\ srv[c].did = {1}
      /\ \E p \in 0 .. Len(s) : \E x : /\ cli[c].printed = Part(s, p)
                                       /\ down[c] = Ending(s, p, "LOG_DATA", Msg("LOG_END", 1, x))
  BY <1>3 DEF LogEnds
<1>0. PICK p \in 0 .. Len(s) : \E x : /\ cli[c].printed = Part(s, p)
                                        /\ down[c] = Ending(s, p, "LOG_DATA", Msg("LOG_END", 1, x))
  BY <1>5
<1>6. PICK x : cli[c].printed = Part(s, p) /\ down[c] = Ending(s, p, "LOG_DATA", Msg("LOG_END", 1, x))
  BY <1>0
<1>7. PICK e : e = Msg("LOG_END", 1, x)
  OBVIOUS
<1>8. e.k = "LOG_END"
  BY <1>7 DEF Msg
<1>9. \/ /\ p < Len(s) /\ cli'[c].at = cli[c].at /\ cli'[c].n = cli[c].n
         /\ cli'[c].printed = Part(s, p + 1) /\ down'[c] = Ending(s, p + 1, "LOG_DATA", e)
      \/ p = Len(s) /\ cli[c].printed = s /\ e = Head(down[c]) /\ down'[c] = <<>>
  <2>1. "LOG_DATA" \in {"EXEC_OUT", "LOG_DATA"} /\ down[c] = Ending(s, p, "LOG_DATA", e)
    BY <1>6, <1>7
  <2> QED
    BY <1>2, <1>4, <1>6, <2>1, EndingAnswer
<1>10. CASE /\ p < Len(s) /\ cli'[c].at = cli[c].at /\ cli'[c].n = cli[c].n
            /\ cli'[c].printed = Part(s, p + 1) /\ down'[c] = Ending(s, p + 1, "LOG_DATA", e)
  <2>1. p + 1 \in 0 .. Len(s)
    BY <1>4, <1>10
  <2>2. LogEnds(c)'
    BY <1>1, <1>2, <1>3, <1>5, <1>7, <1>10, <2>1 DEF LogEnds
  <2> QED
    BY <1>1, <1>10, <2>2, CallPrints
<1>11. CASE p = Len(s) /\ cli[c].printed = s /\ e = Head(down[c]) /\ down'[c] = <<>>
  <2>1. cli' = NextCall(c, TRUE, 0)
    BY <1>2, <1>8, <1>11, AnswerIs
  <2>2. cli[c].n = 1 /\ 1 .. 1 = {1}
    BY <1>2, <1>5
  <2>3. /\ srv'[c].at = "loop" /\ up'[c] = <<>> /\ down'[c] = <<>> /\ link'[c] = "up"
        /\ cli[c].printed = Hits(c) /\ plan[c].cmd = "rlog"
    BY <1>1, <1>3, <1>5, <1>11
  <2>4. srv'[c].did = 1 .. cli[c].n
    BY <1>1, <1>5, <2>2
  <2> QED
    BY <2>1, <2>3, <2>4, CallEnds
<1> QED
  BY <1>9, <1>10, <1>11

\* What a command that runs something makes of the result.
LEMMA ExecResultIs ==
    ASSUME NEW cmd, NEW call, GoodCall(cmd, call), call.k \in {"exec", "exec_with_code"}
    PROVE  call \in {Call("exec_with_code", "user"), Call("exec_with_code", "detach"), Call("exec", "launch")}
<1>1. /\ Call("exec_stream", "user").k = "exec_stream" /\ Call("log_query", "").k = "log_query"
      /\ Call("ping", "").k = "ping" /\ Call("json", "shell-persistent").k = "json"
  BY DEF Call
<1> QED
  BY <1>1 DEF GoodCall
Result(c, x, f) ==
    \/ f = NextCall(c, TRUE, x.code)
    \/ \E ok \in BOOLEAN : ok = (x.code = 0) /\ f = NextCall(c, ok, 0)
LEMMA ExecAnswer ==
    ASSUME NEW c, NEW x, CurrentCall(c) \in {Call("exec_with_code", "user"), Call("exec_with_code", "detach"),
                                             Call("exec", "launch")}
    PROVE  Result(c, x, ExecResult(c, x))
<1>1. PICK call : call = CurrentCall(c)
  OBVIOUS
<1>2. PICK ok \in BOOLEAN : ok = (x.code = 0)
  BY Zenon
<1>3. CASE call = Call("exec_with_code", "user")
  <2>1. call.k = "exec_with_code" /\ call.what = "user"
    BY <1>3 DEF Call
  <2>2. ExecResult(c, x) = NextCall(c, TRUE, x.code)
    BY <1>1, <2>1 DEF ExecResult
  <2> QED
    BY <2>2, Zenon DEF Result
<1>4. CASE call = Call("exec_with_code", "detach") \/ call = Call("exec", "launch")
  <2>1. call.what = "detach" \/ call.what = "launch"
    BY <1>4 DEF Call
  <2>2. ExecResult(c, x) = NextCall(c, x.code = 0, 0)
    BY <1>1, <2>1 DEF ExecResult
  <2>3. ExecResult(c, x) = NextCall(c, ok, 0)
    BY <1>2, <2>2, Zenon
  <2> QED
    BY <1>2, <2>3, Zenon DEF Result
<1> QED
  BY <1>1, <1>3, <1>4

LEMMA AnsweredAnswer ==
    ASSUME Shape, NEW c \in Conns, Asks(c), Answer(c), plan' = plan, Answered(c), cli[c].n \in 1 .. Size(c)
    PROVE  ConnInv(c)'
<1>1. /\ cli[c].at = "wait" /\ link[c] = "up" /\ srv' = srv /\ up' = up /\ link' = link /\ down' = Take(down, c)
  BY AnswerFrame
<1>2. /\ plan[c].cmd # "clipsync" /\ GoodCall(plan[c].cmd, CurrentCall(c)) /\ Size(c) \in {1, 2}
      /\ (Size(c) = 2 => plan[c].cmd = "kill") /\ Size(c)' = Size(c)
  BY AskArm, PlanStays DEF CurrentCall
<1>3. /\ srv[c].at \in {"loop", "shell"} /\ (srv[c].at = "shell" => plan[c].cmd = "attach")
      /\ up[c] = <<>> /\ cli[c].printed = <<>>
  BY DEF Answered
<1>4. PICK m : /\ down[c] = <<m>> /\ m.k \in {"PONG", "CLIP", "RESPONSE", "EXEC_RESULT", "ERROR"}
               /\ m.k = "RESPONSE" => m.x \in BOOLEAN
               /\ m.k = "EXEC_RESULT" => CurrentCall(c).k \in {"exec", "exec_with_code"}
               /\ Good(c, m) => srv[c].did = 1 .. cli[c].n /\ plan[c].cmd \notin {"stream", "rlog"}
  BY DEF Answered
<1>5. m = Head(down[c]) /\ down'[c] = <<>>
  BY <1>1, <1>4, Taken DEF Shape
<1>6. ASSUME NEW good \in BOOLEAN, NEW code, cli' = NextCall(c, good, code), good /\ code = 0 => Good(c, m)
      PROVE  ConnInv(c)'
  <2>1. good /\ code = 0 =>
          /\ srv'[c].did = 1 .. cli[c].n /\ srv'[c].at \in {"loop", "shell"}
          /\ srv'[c].at = "shell" => plan[c].cmd = "attach"
          /\ up'[c] = <<>> /\ down'[c] = <<>> /\ link'[c] = "up"
          /\ plan[c].cmd \notin {"stream", "rlog"} /\ cli[c].printed = <<>>
    BY <1>1, <1>3, <1>4, <1>5, <1>6
  <2> QED
    BY <1>6, <2>1, CallEnds
<1>7. CASE m.k \in {"PONG", "CLIP"}
  <2>1. cli' = NextCall(c, TRUE, 0) /\ Good(c, m)
    BY <1>2, <1>5, <1>7, AnswerIs DEF Good
  <2> QED
    BY <1>6, <2>1
<1>8. CASE m.k = "ERROR"
  <2>1. cli' = NextCall(c, FALSE, 0)
    BY <1>2, <1>5, <1>8, AnswerIs
  <2> QED
    BY <1>6, <2>1
<1>9. CASE m.k = "EXEC_RESULT"
  <2>1. cli' = ExecResult(c, m.x)
    BY <1>2, <1>5, <1>9, AnswerIs
  <2>2. m.x.code = 0 => Good(c, m)
    BY <1>9 DEF Good
  <2>3. CurrentCall(c) \in {Call("exec_with_code", "user"), Call("exec_with_code", "detach"), Call("exec", "launch")}
    BY <1>2, <1>4, <1>9, ExecResultIs
  <2>4. CASE cli' = NextCall(c, TRUE, m.x.code)
    BY <1>6, <2>2, <2>4
  <2>5. CASE \E ok \in BOOLEAN : ok = (m.x.code = 0) /\ cli' = NextCall(c, ok, 0)
    <3>1. PICK ok \in BOOLEAN : ok = (m.x.code = 0) /\ cli' = NextCall(c, ok, 0)
      BY <2>5
    <3>2. ok => Good(c, m)
      BY <2>2, <3>1, Zenon
    <3> QED
      BY <1>6, <3>1, <3>2
  <2>6. Result(c, m.x, ExecResult(c, m.x))
    BY <2>3, ExecAnswer
  <2> QED
    BY <2>1, <2>4, <2>5, <2>6, Zenon DEF Result
<1>10. CASE m.k = "RESPONSE"
  <2>1. PICK ok \in BOOLEAN : ok = m.x
    BY <1>4, <1>10
  <2>2. ok => Good(c, m)
    BY <1>10, <2>1 DEF Good
  <2>3. CASE ok /\ plan[c].cmd = "attach" /\ cli' = [cli EXCEPT ![c].at = "shell"]
    <3>1. cli'[c].at = "shell"
      BY <2>3, ClientAt
    <3>2. srv[c].did = 1 .. cli[c].n /\ cli[c].n = Size(c)
      BY <1>2, <1>4, <2>2, <2>3
    <3>3. Succeeded(c)'
      BY <1>1, <1>2, <1>3, <2>3, <3>1, <3>2 DEF Succeeded
    <3> QED
      BY <3>3 DEF ConnInv
  <2>4. CASE cli' = NextCall(c, ok, 0)
    BY <1>6, <2>2, <2>4
  <2> QED
    BY <1>2, <1>5, <1>10, <2>1, <2>3, <2>4, AnswerSays
<1> QED
  BY <1>4, <1>7, <1>8, <1>9, <1>10

\* The client's own steps.
LEMMA ClientTurn ==
    ASSUME Shape, NEW c \in Conns, Asks(c), Turn(c), ClientActs(c), plan' = plan
    PROVE  ConnInv(c)'
<1>1. /\ cli[c].at \in {"start", "login", "ready", "wait"} /\ link[c] = "up"
      /\ cli[c].at = "wait" => Calling(c)
  BY PlaceIs DEF Turn
<1>2. ~LeaveShell(c) /\ ~ClipStep(c)
  BY <1>1 DEF LeaveShell, ClipStep, PollClipboard, ClipAnswer
<1>3. CASE Answer(c)
  <2>1. cli[c].at = "wait" /\ down[c] # <<>>
    BY <1>3, AnswerFrame
  <2>2. Calling(c)
    BY <1>1, <2>1
  <2>3. /\ cli[c].n \in 1 .. Size(c)
        /\ \/ Asked(c) \/ Executing(c) \/ Streaming(c) \/ StreamEnds(c) \/ LogEnds(c) \/ Answered(c) \/ Dropped(c)
    BY <2>2 DEF Calling
  <2>4. ~Asked(c) /\ ~Executing(c) /\ ~Dropped(c)
    BY <2>1 DEF Asked, Executing, Dropped, Nothing
  <2> QED
    BY <1>3, <2>3, <2>4, StreamingAnswer, StreamEndsAnswer, LogEndsAnswer, AnsweredAnswer
<1>4. CASE AnswerLost(c) \/ OperationTimeout(c)
  <2>1. cli' = Finish(c, 1) \/ cli' = NextBadly(c, 0)
    BY <1>4 DEF AnswerLost, OperationTimeout, NextBadly
  <2>2. cli' = Finish(c, 1)
    BY <2>1, NextIs
  <2>3. cli'[c].at = "done" /\ cli'[c].exit = 1
    BY <2>2, FinishIs
  <2> QED
    BY <2>3 DEF ConnInv, Hopeless
<1> QED
  BY <1>2, <1>3, <1>4, HelloTurn, TakeAuthTurn, StartTurn DEF ClientActs

LEMMA LostTurn ==
    ASSUME Shape, NEW c \in Conns, Turn(c), LinkLost(c)
    PROVE  ConnInv(c)'
<1>1. cli' = cli /\ link' = [link EXCEPT ![c] = "lost"]
  BY DEF LinkLost
<1>2. link'[c] = "lost"
  BY <1>1 DEF Shape
<1>3. cli[c].at \in {"start", "login", "ready", "wait"}
  BY PlaceIs
<1> QED
  BY <1>1, <1>2, <1>3 DEF ConnInv, Hopeless

\* What the invariant says of a connection depends on that connection only.
LEMMA SameTurn ==
    ASSUME NEW c, plan' = plan, Same(c)
    PROVE  ConnInv(c)' = ConnInv(c)
<1>1. /\ Arm(c)' = Arm(c) /\ Size(c)' = Size(c) /\ Out(c)' = Out(c) /\ Hits(c)' = Hits(c)
  BY PlanStays
<1>2. CurrentCall(c)' = CurrentCall(c)
  BY <1>1 DEF CurrentCall, Same
<1>3. Request(c, CurrentCall(c), cli[c].n)' = Request(c, CurrentCall(c), cli[c].n)
  BY <1>2 DEF Request, Granted, Same
<1>4. Hopeless(c)' = Hopeless(c)
  BY DEF Hopeless, Same
<1>5. Succeeded(c)' = Succeeded(c)
  BY <1>1 DEF Succeeded, Same
<1>6. Nothing(c)' = Nothing(c) /\ Unasked(c)' = Unasked(c)
  BY DEF Nothing, Unasked, Same
<1>7. LoginAsks(c)' = LoginAsks(c)
  BY DEF LoginAsks, Same
<1>8. LoginAnswers(c)' = LoginAnswers(c)
  BY DEF LoginAnswers, Same
<1>9. LoggingIn(c)' = LoggingIn(c)
  BY <1>6, <1>7, <1>8 DEF LoggingIn, Same
<1>10. Idle(c)' = Idle(c)
  BY <1>1, <1>6 DEF Idle, Same
<1>11. Asked(c)' = Asked(c)
  BY <1>3 DEF Asked, Same
<1>12. Executing(c)' = Executing(c)
  BY <1>2, <1>6 DEF Executing, Same
<1>13. Streaming(c)' = Streaming(c)
  BY <1>1 DEF Streaming, Same
<1>14. StreamEnds(c)' = StreamEnds(c)
  BY <1>1 DEF StreamEnds, Same
<1>15. LogEnds(c)' = LogEnds(c)
  BY <1>1 DEF LogEnds, Same
<1>16. \A m : Good(c, m)' = Good(c, m)
  BY DEF Good
<1>17. Answered(c)' = Answered(c)
  BY <1>2 DEF Answered, Good, Same
<1>18. Dropped(c)' = Dropped(c)
  BY <1>6 DEF Dropped, Same
<1>19. Calling(c)' = Calling(c)
  BY <1>1, <1>11, <1>12, <1>13, <1>14, <1>15, <1>17, <1>18 DEF Calling, Same
<1>20. Turn(c)' = Turn(c)
  BY <1>9, <1>10, <1>19 DEF Turn, Same
<1> QED
  BY <1>4, <1>5, <1>20 DEF ConnInv

LEMMA ConnStep ==
    ASSUME Shape, NEW c \in Conns, Asks(c), ConnInv(c), Acts(c), plan' = plan
    PROVE  ConnInv(c)'
<1>1. CASE Hopeless(c)
  BY <1>1, HopelessStays DEF ConnInv
<1>2. CASE Succeeded(c)
  BY <1>2, SucceededStays DEF ConnInv
<1>3. CASE Turn(c)
  <2>1. CASE OtherActs(c)
    <3>1. Same(c)
      BY <2>1, OtherFrame DEF Same
    <3>2. ConnInv(c)' = ConnInv(c)
      BY <3>1, SameTurn
    <3> QED
      BY <3>2
  <2> QED
    BY <1>3, <2>1, WhoActs, ClientTurn, ServerTurn, LostTurn
<1> QED
  BY <1>1, <1>2, <1>3 DEF ConnInv

LEMMA AnswersStart == Init => AnswersInv
<1> SUFFICES ASSUME Init, NEW c \in Conns PROVE ConnInv(c)
  BY DEF AnswersInv
<1>1. /\ cli[c] = [at |-> "start", n |-> 0, exit |-> -1, printed |-> <<>>]
      /\ srv[c] = [at |-> "new", caps |-> {}, did |-> {}, n |-> 0, id |-> 0]
      /\ up[c] = <<>> /\ down[c] = <<>> /\ link[c] = "up"
  BY DEF Init
<1>2. Unasked(c) /\ Nothing(c) /\ cli[c].at = "start" /\ srv[c].at = "new"
  BY <1>1 DEF Unasked, Nothing
<1>3. LoggingIn(c)
  BY <1>2 DEF LoggingIn
<1>4. cli[c].n \in Nat
  BY <1>1
<1> QED
  BY <1>1, <1>3, <1>4 DEF ConnInv, Turn

LEMMA AnswersStepKeeps == Shape /\ AnswersInv /\ [Next]_vars => AnswersInv'
<1> SUFFICES ASSUME Shape, AnswersInv, [Next]_vars, NEW c \in Conns, Asks(c)' PROVE ConnInv(c)'
  BY DEF AnswersInv
<1>1. plan' = plan
  BY Frame
<1>2. Asks(c)
  BY <1>1, PlanStays
<1>3. ConnInv(c)
  BY <1>2 DEF AnswersInv
<1>4. CASE Acts(c)
  BY <1>1, <1>2, <1>3, <1>4, ConnStep
<1>5. CASE Same(c)
  <2>1. ConnInv(c)' = ConnInv(c)
    BY <1>1, <1>5, SameTurn
  <2> QED
    BY <1>3, <2>1
<1>6. Acts(c) \/ Same(c)
  BY Frame DEF Same
<1> QED
  BY <1>4, <1>5, <1>6

-----------------------------------------------------------------------------
(* What the invariant says at the end of a command. *)

\* The two commands that print as they go are strict.
LEMMA PrintersStrict == \A cmd \in {"stream", "rlog"} : cmd \in AllCommands => run_command(cmd).errors = "strict"
<1> SUFFICES ASSUME NEW cmd \in {"stream", "rlog"}, cmd \in AllCommands PROVE run_command(cmd).errors = "strict"
  OBVIOUS
<1>1. PICK t : t = CHOOSE i \in DOMAIN ArmTables : cmd \in DOMAIN ArmTables[i]
  OBVIOUS
<1>2. \E i \in DOMAIN ArmTables : cmd \in DOMAIN ArmTables[i]
  BY DEF AllCommands
<1>3. t \in DOMAIN ArmTables /\ cmd \in DOMAIN ArmTables[t]
  BY <1>1, <1>2
<1>4. run_command(cmd) = ArmTables[t][cmd]
  BY <1>1 DEF run_command
<1>5. ArmTables[t] \in {BasicArms, SessionArms, WriteArms, LogArm, NativeArms, PowerArms, StatusArm, OtherArms, StreamArm}
  BY <1>3 DEF ArmTables
<1>6. /\ cmd \notin DOMAIN BasicArms /\ cmd \notin DOMAIN SessionArms /\ cmd \notin DOMAIN WriteArms
      /\ cmd \notin DOMAIN NativeArms
  BY DEF BasicArms, SessionArms, WriteArms, NativeArms
<1>7. cmd \notin DOMAIN PowerArms /\ cmd \notin DOMAIN StatusArm /\ cmd \notin DOMAIN OtherArms
  BY DEF PowerArms, StatusArm, OtherArms
<1>8. cmd \in DOMAIN LogArm => LogArm[cmd].errors = "strict"
  <2>1. DOMAIN LogArm = {"rlog"} /\ LogArm["rlog"] = Strict(<<Call("log_query", "")>>)
    BY DEF LogArm
  <2>2. \A calls : Strict(calls).errors = "strict"
    BY DEF Strict
  <2> QED
    BY <2>1, <2>2
<1>9. cmd \in DOMAIN StreamArm => StreamArm[cmd].errors = "strict"
  BY DEF StreamArm, Strict
<1> QED
  BY <1>3, <1>4, <1>5, <1>6, <1>7, <1>8, <1>9

\* The calls of an arm are a list.
InOrder(arm) == DOMAIN arm.calls = 1 .. Len(arm.calls)
LEMMA CallsListed == \A cmd \in AllCommands : InOrder(run_command(cmd))
<1> SUFFICES ASSUME NEW cmd \in AllCommands PROVE InOrder(run_command(cmd))
  OBVIOUS
<1>1. PICK t : t = CHOOSE i \in DOMAIN ArmTables : cmd \in DOMAIN ArmTables[i]
  OBVIOUS
<1>2. \E i \in DOMAIN ArmTables : cmd \in DOMAIN ArmTables[i]
  BY DEF AllCommands
<1>3. t \in DOMAIN ArmTables /\ cmd \in DOMAIN ArmTables[t]
  BY <1>1, <1>2
<1>4. run_command(cmd) = ArmTables[t][cmd]
  BY <1>1 DEF run_command
<1>5. ArmTables[t] \in {BasicArms, SessionArms, WriteArms, LogArm, NativeArms, PowerArms, StatusArm, OtherArms, StreamArm}
  BY <1>3 DEF ArmTables
<1>6. /\ \A x, e : InOrder([calls |-> <<x>>, errors |-> e])
      /\ \A x, y, e : InOrder([calls |-> <<x, y>>, errors |-> e])
      /\ \A x, y, z, e : InOrder([calls |-> <<x, y, z>>, errors |-> e])
  BY DEF InOrder
<1>7. \A k \in DOMAIN BasicArms : InOrder(BasicArms[k])
  <2>1. DOMAIN BasicArms = {"ping", "exec", "detach", "dlog", "ls", "cat"}
    BY DEF BasicArms
  <2>2. BasicArms["ping"] = [calls |-> <<Call("ping", "")>>, errors |-> "strict"]
    BY DEF BasicArms, Strict
  <2>3. BasicArms["exec"] = [calls |-> <<Call("exec_with_code", "user")>>, errors |-> "strict"]
    BY DEF BasicArms, Strict
  <2>4. BasicArms["detach"] = [calls |-> <<Call("exec_with_code", "detach")>>, errors |-> "strict"]
    BY DEF BasicArms, Strict
  <2>5. BasicArms["dlog"] = [calls |-> <<Call("exec_with_code", "dlog")>>, errors |-> "strict"]
    BY DEF BasicArms, Strict
  <2>6. BasicArms["ls"] = [calls |-> <<Json("ls")>>, errors |-> "strict"]
    BY DEF BasicArms, Strict
  <2>7. BasicArms["cat"] = [calls |-> <<Json("cat")>>, errors |-> "strict"]
    BY DEF BasicArms, Strict
  <2> QED
    BY <1>6, <2>1, <2>2, <2>3, <2>4, <2>5, <2>6, <2>7
<1>8. \A k \in DOMAIN SessionArms : InOrder(SessionArms[k])
  BY <1>6 DEF SessionArms, Strict
<1>9. \A k \in DOMAIN WriteArms : InOrder(WriteArms[k])
  BY <1>6 DEF WriteArms, Strict
<1>10. \A k \in DOMAIN LogArm : InOrder(LogArm[k])
  <2>1. DOMAIN LogArm = {"rlog"}
    BY DEF LogArm
  <2>2. LogArm["rlog"] = [calls |-> <<Call("log_query", "")>>, errors |-> "strict"]
    BY DEF LogArm, Strict
  <2> QED
    BY <1>6, <2>1, <2>2
<1>11. \A k \in DOMAIN NativeArms : InOrder(NativeArms[k])
  BY <1>6 DEF NativeArms, Strict
<1>12. \A k \in DOMAIN PowerArms : InOrder(PowerArms[k])
  BY <1>6 DEF PowerArms, Strict
<1>13. \A k \in DOMAIN StatusArm : InOrder(StatusArm[k])
  <2>1. DOMAIN StatusArm = {"status"}
    BY DEF StatusArm
  <2>2. StatusArm["status"] = [calls |-> <<Call("ping", ""), Call("ping", ""), Native("native-info")>>, errors |-> "counted"]
    BY DEF StatusArm, Strict
  <2> QED
    BY <1>6, <2>1, <2>2
<1>14. \A k \in DOMAIN OtherArms : InOrder(OtherArms[k])
  BY <1>6 DEF OtherArms, Strict
<1>15. \A k \in DOMAIN StreamArm : InOrder(StreamArm[k])
  BY <1>6 DEF StreamArm, Strict
<1> QED
  BY <1>3, <1>4, <1>5, <1>7, <1>8, <1>9, <1>10, <1>11, <1>12, <1>13, <1>14, <1>15

LEMMA PrinterAsks ==
    ASSUME Shape, NEW c \in Conns, plan[c].cmd \in {"stream", "rlog"}
    PROVE  Asks(c)
<1>1. plan[c].cmd \in AllCommands
  <2>1. plan[c].cmd \in AllCommands \cup {"none"}
    BY PlanAssumption DEF Shape
  <2> QED
    BY <2>1
<1> QED
  BY <1>1, PrintersStrict DEF Asks, Honest, Arm

LEMMA SuccessIs ==
    ASSUME AnswersInv, NEW c \in Conns, Asks(c), Ended(c), cli[c].exit = 0
    PROVE  Succeeded(c)
<1>1. ~Hopeless(c)
  BY DEF Hopeless, Ended
<1>2. ~Turn(c)
  BY PlaceIs DEF Ended
<1> QED
  BY <1>1, <1>2 DEF AnswersInv, ConnInv

LEMMA AnswersMean == Shape /\ AnswersInv => AnswersTrue
<1> SUFFICES ASSUME Shape, AnswersInv PROVE ExitTruth /\ OutputWhole
  BY DEF AnswersTrue
<1>1. ASSUME NEW c \in Conns, plan[c].cmd # "none", Ended(c), cli[c].exit = 0, Honest(c)
      PROVE  srv[c].did = DOMAIN Arm(c).calls
  <2>1. Asks(c)
    BY <1>1 DEF Asks
  <2>2. srv[c].did = 1 .. Size(c)
    BY <1>1, <2>1, SuccessIs DEF Succeeded
  <2>3. DOMAIN Arm(c).calls = 1 .. Size(c)
    <3>1. plan[c].cmd \in AllCommands
      BY <2>1, PlanAssumption DEF Shape, Asks
    <3> QED
      BY <3>1, CallsListed DEF Size, Arm, InOrder
  <2> QED
    BY <2>2, <2>3
<1>2. ASSUME NEW c \in Conns, Ended(c), plan[c].cmd = "stream", cli[c].exit = 0
      PROVE  cli[c].printed = plan[c].remote.out
  <2>1. Asks(c)
    BY <1>2, PrinterAsks
  <2> QED
    BY <1>2, <2>1, SuccessIs DEF Succeeded, Out
<1>3. ASSUME NEW c \in Conns, Ended(c), plan[c].cmd = "rlog", cli[c].exit = 0, NEW q, q = plan[c].log
      PROVE  LET first == IF q.tail = 0 \/ q.tail > Len(q.lines) THEN 0 ELSE Len(q.lines) - q.tail
                 hits == {i \in DOMAIN q.lines : i > first /\ q.lines[i]}
                 kept == {i \in hits : q.max = 0 \/ Cardinality({j \in hits : j <= i}) <= q.max}
             IN  {cli[c].printed[i] + first : i \in DOMAIN cli[c].printed} = kept
  <2>1. Asks(c)
    BY <1>3, PrinterAsks
  <2>2. q \in Query
    BY <1>3, <2>1, AskArm
  <2>3. cli[c].printed = log_query(q)[1]
    BY <1>3, <2>1, SuccessIs DEF Succeeded, Hits
  <2>4. {cli[c].printed[x] + Skipped(q) : x \in DOMAIN cli[c].printed} = Kept(q, Len(Scanned(q)))
    BY <2>2, <2>3, LogQueryIs
  <2>5. Found(q, Len(Scanned(q))) = {i \in DOMAIN q.lines : i > Skipped(q) /\ q.lines[i]}
    <3>1. /\ Len(q.lines) \in Nat /\ Skipped(q) \in 0 .. Len(q.lines)
          /\ Len(Scanned(q)) = Len(q.lines) - Skipped(q) /\ DOMAIN q.lines = 1 .. Len(q.lines)
      BY <2>2, ScannedIs
    <3>2. \A h \in DOMAIN q.lines : h <= Skipped(q) + Len(Scanned(q))
      BY <3>1
    <3> QED
      BY <3>2 DEF Found
  <2> QED
    BY <2>4, <2>5 DEF Kept, UpTo, Skipped
<1>4. ExitTruth
  BY <1>1 DEF ExitTruth
<1>5. OutputWhole
  BY <1>2, <1>3 DEF OutputWhole
<1> QED
  BY <1>4, <1>5

-----------------------------------------------------------------------------
(* The theorems. *)

\* The number of clients the session list shows for a session is that of the connections
\* on it, always, for any connections and scenarios: attaching, leaving, an error of the
\* shell, a lost connection and a kill keep it true (SessionStore).
THEOREM CountsAlwaysTrue == Spec => []CountsAreTrue
<1>1. Init => Shape /\ CountInv
  BY ShapeStart, CountStart
<1>2. (Shape /\ CountInv) /\ [Next]_vars => (Shape /\ CountInv)'
  BY Frame, CountStepKeeps
<1>3. Shape /\ CountInv => CountsAreTrue
  BY DEF CountInv
<1> QED
  BY <1>1, <1>2, <1>3, PTL DEF Spec

\* An exit code of 0 from a command that reports its errors means that the server has carried
\* out every one of its calls, and what exec and the log query print is then all there is to
\* print, whatever is refused, fails, times out or is lost on the way (run_command).
THEOREM AnswersAlwaysTrue == Spec => []AnswersTrue
<1>1. Init => Shape /\ AnswersInv
  BY ShapeStart, AnswersStart
<1>2. (Shape /\ AnswersInv) /\ [Next]_vars => (Shape /\ AnswersInv)'
  BY Frame, AnswersStepKeeps
<1>3. Shape /\ AnswersInv => AnswersTrue
  BY AnswersMean
<1> QED
  BY <1>1, <1>2, <1>3, PTL DEF Spec
=============================================================================
