--------------------------- MODULE ConnectProofs ---------------------------
(***************************************************************************)
(* Proofs about the ways a client command takes to its host, for any       *)
(* number of client processes and control masters and for every mixture of *)
(* reachable paths.                                                        *)
(***************************************************************************)
EXTENDS Connect, TLAPS

Fields == {"pc", "block", "port", "route", "task", "chan", "conn", "blocks", "exit", "ran", "got",
           "muxlost", "orphan"}
Requests == Procs \cup {"ka"}
MasterType == [wire : Seq(Requests), replies : Seq(Requests), tasks : SUBSET Procs,
               lock : Requests \cup {None}, stop : BOOLEAN]

\* A process holds a connection.
Connected == {"save", "truncate", "write", "gate", "run", "check", "remove", "bind", "serve"}
Masters == {"check", "remove", "bind", "serve"}

\* How often a command may have run by now: once more after the answer of a master was
\* lost, and once when the process is through or has handed its command to a master.
Credit(r) == (IF r.muxlost THEN 1 ELSE 0) + (IF r.pc \in {"muxwait", "done"} THEN 1 ELSE 0)

\* A port named with -p: no SSH and no race, and every connection is to that port.
Pinned(x, r) ==
  Plan(x).port # None =>
    /\ r.pc \notin {"start", "done"} => r.port = Plan(x).port
    /\ r.pc \notin {"sshfirst", "ssh", "sshrun", "race"}
    /\ r.pc \in Connected => r.conn.port = Plan(x).port
    /\ ~Plan(x).mux => \A i \in DOMAIN r.ran : r.ran[i].port = Plan(x).port

IsSeq(s) == \E S : s \in Seq(S)

\* What holds of the record of a process by itself.
ProcInv(x, r) ==
  /\ DOMAIN r = Fields /\ IsSeq(r.ran) /\ r.muxlost \in BOOLEAN
  /\ r.pc \in {"mux", "muxwait", "unlink"} => Plan(x).mux
  /\ r.pc \in {"start", "mux", "muxwait"} => ~r.muxlost
  /\ r.pc \in Masters => Plan(x).cmd = "master"
  /\ r.exit = "ok" => r.pc = "done"
  /\ r.exit = "ok" /\ Plan(x).cmd \notin {"master", "stop"} => r.ran # <<>> \/ r.orphan
  /\ r.got \notin {None, x} => r.orphan
  /\ Len(r.ran) <= Credit(r)
  /\ Pinned(x, r)

\* A master has request y in its hands, to be run.
Queued(x, y) == y \in m[x].tasks
OnWire(x, i, y) == i \in DOMAIN m[x].wire /\ m[x].wire[i] = y
\* It has y once, and no other master has it.
AskedOnce(y) ==
  /\ \A x, z \in Procs : Queued(x, y) /\ Queued(z, y) => x = z
  /\ \A x, z \in Procs : \A i : Queued(x, y) => ~OnWire(z, i, y)
  /\ \A x, z \in Procs : \A i, j : OnWire(x, i, y) /\ OnWire(z, j, y) => x = z /\ i = j
Asked(y) == \E x \in Procs : Queued(x, y) \/ \E i : OnWire(x, i, y)

\* The one request of a connection that is under way is the lock holder's.
MasterInv(x) ==
  /\ p[x].pc \notin {"serve", "done"} => m[x] = NewMaster
  /\ p[x].pc = "serve" /\ ~m[x].stop =>
       \/ m[x].lock = None /\ m[x].wire = <<>> /\ m[x].replies = <<>>
       \/ m[x].lock # None /\ m[x].wire = <<m[x].lock>> /\ m[x].replies = <<>>
       \/ /\ m[x].lock # None /\ m[x].wire = <<>> /\ m[x].replies = <<m[x].lock>>
          /\ m[x].lock \in Procs => p[m[x].lock].ran # <<>>

ConnectInv ==
  /\ DOMAIN p = Procs /\ m \in [Procs -> MasterType] /\ scn \in Scenarios
  /\ \A x \in Procs : ProcInv(x, p[x]) /\ MasterInv(x)
  /\ \A y \in Procs : /\ AskedOnce(y)
                      /\ Asked(y) => Plan(y).mux /\ Len(p[y].ran) < Credit(p[y])

-----------------------------------------------------------------------------
(* Records and sequences. *)

LEMMA AppendAny ==
  ASSUME NEW s, IsSeq(s), NEW e
  PROVE  /\ IsSeq(Append(s, e)) /\ Len(s) \in Nat /\ Len(Append(s, e)) = Len(s) + 1
         /\ Append(s, e) # <<>> /\ DOMAIN Append(s, e) = 1 .. Len(s) + 1 /\ DOMAIN s = 1 .. Len(s)
         /\ \A i \in 1 .. Len(s) : Append(s, e)[i] = s[i]
         /\ Append(s, e)[Len(s) + 1] = e
  <1>1. PICK S : s \in Seq(S)
    BY DEF IsSeq
  <1>2. s \in Seq(S \cup {e})
    BY <1>1
  <1>3. Append(s, e) \in Seq(S \cup {e})
    BY <1>2
  <1>4. IsSeq(Append(s, e))
    BY <1>3 DEF IsSeq
  <1>. QED BY <1>2, <1>3, <1>4

LEMMA EmptySeq == IsSeq(<<>>)
  BY <<>> \in Seq({}) DEF IsSeq

LEMMA LenNat == \A s : IsSeq(s) => Len(s) \in Nat
  BY DEF IsSeq

\* Set(x, r): the record of one process.
LEMMA SetFacts ==
  ASSUME ConnectInv, NEW x \in Procs, NEW r, Set(x, r)
  PROVE  DOMAIN p' = Procs /\ p'[x] = r /\ \A y \in Procs : y # x => p'[y] = p[y]
  BY DEF Set, ConnectInv

\* A step that changes the record of one process keeps what holds of the others and of
\* the masters.
LEMMA OwnStep ==
  ASSUME ConnectInv, UNCHANGED <<m, scn>>, NEW x \in Procs,
         DOMAIN p' = Procs, \A y \in Procs : y # x => p'[y] = p[y],
         ProcInv(x, p[x])',
         p'[x].pc = p[x].pc \/ p[x].pc \notin {"serve", "done"},
         p[x].ran # <<>> => p'[x].ran # <<>>,
         Asked(x) => Len(p'[x].ran) < Credit(p'[x])
  PROVE  ConnectInv'
  <1>1. /\ m \in [Procs -> MasterType] /\ scn \in Scenarios
        /\ \A y \in Procs : ProcInv(y, p[y]) /\ MasterInv(y) /\ AskedOnce(y)
        /\ \A y \in Procs : Asked(y) => Plan(y).mux /\ Len(p[y].ran) < Credit(p[y])
    BY DEF ConnectInv
  <1>2. \A y \in Procs : (Asked(y)' <=> Asked(y)) /\ (AskedOnce(y)' <=> AskedOnce(y)) /\ Plan(y)' = Plan(y)
    BY DEF Asked, AskedOnce, Queued, OnWire, Plan
  <1>3. ASSUME NEW y \in Procs
        PROVE  ProcInv(y, p[y])'
    <2>1. CASE y = x
      BY <2>1
    <2>2. CASE y # x
      <3>1. p'[y] = p[y] /\ ProcInv(y, p[y])
        BY <1>1, <2>2
      <3>. QED BY <3>1 DEF ProcInv, Pinned, Plan
    <2>. QED BY <2>1, <2>2
  <1>4. ASSUME NEW y \in Procs
        PROVE  MasterInv(y)'
    <2>1. m'[y] = m[y] /\ MasterInv(y)
      BY <1>1
    <2>2. m[y].lock \in Procs /\ p[m[y].lock].ran # <<>> => p'[m[y].lock].ran # <<>>
      OBVIOUS
    <2>3. CASE p'[y].pc = p[y].pc
      BY <2>1, <2>2, <2>3 DEF MasterInv, NewMaster
    <2>4. CASE p'[y].pc # p[y].pc
      <3>1. m[y] = NewMaster
        BY <2>1, <2>4 DEF MasterInv
      <3>2. m'[y] = NewMaster /\ NewMaster' = NewMaster
        BY <2>1, <3>1 DEF NewMaster
      <3>. QED BY <3>2 DEF MasterInv, NewMaster
    <2>. QED BY <2>3, <2>4
  <1>5. ASSUME NEW y \in Procs, Asked(y)'
        PROVE  Plan(y)'.mux /\ Len(p'[y].ran) < Credit(p[y])'
    <2>1. Asked(y) /\ Plan(y)' = Plan(y) /\ Plan(y).mux /\ Len(p[y].ran) < Credit(p[y])
      BY <1>1, <1>2, <1>5
    <2>2. CASE y = x
      BY <2>1, <2>2 DEF Credit
    <2>3. CASE y # x
      BY <2>1, <2>3 DEF Credit
    <2>. QED BY <2>2, <2>3
  <1>. HIDE DEF ProcInv, MasterInv, AskedOnce, Asked, Plan, Credit
  <1>6. m' \in [Procs -> MasterType] /\ scn' \in Scenarios
    BY <1>1 DEF MasterType, Requests
  <1>7. /\ \A y \in Procs : ProcInv(y, p[y])' /\ MasterInv(y)'
        /\ \A y \in Procs : AskedOnce(y)'
        /\ \A y \in Procs : Asked(y)' => Plan(y)'.mux /\ Len(p'[y].ran) < Credit(p[y])'
    BY <1>1, <1>2, <1>3, <1>4, <1>5
  <1>. QED BY <1>6, <1>7 DEF ConnectInv

\* A step on the tasks of the race for a port.
LEMMA SideStep ==
  ASSUME ConnectInv, UNCHANGED <<m, scn>>, NEW x \in Procs,
         DOMAIN p' = Procs, \A y \in Procs : y # x => p'[y] = p[y], DOMAIN p'[x] = Fields,
         \A f \in Fields \ {"task", "chan"} : p'[x][f] = p[x][f]
  PROVE  ConnectInv'
  <1>1. /\ p'[x].pc = p[x].pc /\ p'[x].port = p[x].port /\ p'[x].conn = p[x].conn
        /\ p'[x].exit = p[x].exit /\ p'[x].ran = p[x].ran /\ p'[x].got = p[x].got
        /\ p'[x].muxlost = p[x].muxlost /\ p'[x].orphan = p[x].orphan
    BY DEF Fields
  <1>2. ProcInv(x, p[x]) /\ (Asked(x) => Len(p[x].ran) < Credit(p[x]))
    BY DEF ConnectInv
  <1>3. Credit(p'[x]) = Credit(p[x])
    BY <1>1 DEF Credit
  <1>4. ProcInv(x, p[x])'
    <2>1. Pinned(x, p[x])'
      BY <1>1, <1>2 DEF ProcInv, Pinned, Plan
    <2>2. Credit(p[x])' = Credit(p[x])
      BY <1>1 DEF Credit
    <2>. QED BY <1>1, <1>2, <2>1, <2>2 DEF ProcInv, Plan
  <1>. QED BY <1>1, <1>2, <1>3, <1>4, OwnStep

\* A step of a process on its way: the command does not run.
LEMMA MoveStep ==
  ASSUME ConnectInv, UNCHANGED <<m, scn>>, NEW x \in Procs,
         DOMAIN p' = Procs, \A y \in Procs : y # x => p'[y] = p[y], DOMAIN p'[x] = Fields,
         p'[x].ran = p[x].ran, p'[x].got = p[x].got, p'[x].muxlost = p[x].muxlost,
         p'[x].orphan = p[x].orphan, p'[x].exit \in {p[x].exit, "fail", "blocked"},
         p[x].pc \notin {"serve", "done"}, p'[x].pc \notin {"start", "muxwait"},
         p[x].pc = "muxwait" => p'[x].pc = "done",
         p'[x].pc = "mux" => p[x].pc = "start" /\ Plan(x).mux,
         p'[x].pc = "unlink" => Plan(x).mux,
         p'[x].pc \in {"check", "remove", "bind", "serve"} => Plan(x).cmd = "master",
         Plan(x).port # None =>
           /\ p'[x].port = Plan(x).port
           /\ p'[x].pc \notin {"sshfirst", "ssh", "sshrun", "race"}
           /\ p'[x].pc \in Connected => p'[x].conn.port = Plan(x).port
  PROVE  ConnectInv'
  <1>1. ProcInv(x, p[x]) /\ (Asked(x) => Len(p[x].ran) < Credit(p[x]))
    BY DEF ConnectInv
  <1>2. /\ IsSeq(p[x].ran) /\ p[x].muxlost \in BOOLEAN /\ Len(p[x].ran) <= Credit(p[x])
        /\ p[x].exit # "ok" /\ (p[x].pc = "start" => ~p[x].muxlost)
        /\ (p[x].got \notin {None, x} => p[x].orphan)
    BY <1>1 DEF ProcInv
  <1>3. Len(p[x].ran) \in Nat /\ Credit(p[x]) \in Nat /\ Credit(p'[x]) \in Nat
        /\ Credit(p[x]) <= Credit(p'[x])
    <2>1. Len(p[x].ran) \in Nat
      BY <1>2, LenNat
    <2>2. Credit(p[x]) \in Nat /\ Credit(p'[x]) \in Nat /\ Credit(p[x]) <= Credit(p'[x])
      BY <1>2 DEF Credit
    <2>. QED BY <2>1, <2>2
  <1>4. Credit(p[x])' = Credit(p'[x])
    BY DEF Credit
  <1>5. Pinned(x, p[x])'
    <2>1. Pinned(x, p[x])
      BY <1>1 DEF ProcInv
    <2>. QED BY <2>1 DEF Pinned, Plan
  <1>6. Len(p'[x].ran) <= Credit(p'[x]) /\ (Asked(x) => Len(p'[x].ran) < Credit(p'[x]))
    BY <1>1, <1>2, <1>3
  <1>7. Plan(x)' = Plan(x)
    BY DEF Plan
  <1>8. ProcInv(x, p[x])'
    BY <1>2, <1>4, <1>5, <1>6, <1>7 DEF ProcInv, Masters
  <1>. QED BY <1>6, <1>8, OwnStep

LEMMA GotoStep ==
  ASSUME ConnectInv, UNCHANGED <<m, scn>>, NEW x \in Procs, NEW a, Goto(x, a),
         p[x].pc \notin {"serve", "done", "muxwait", "start"}, a \notin {"start", "mux", "muxwait"},
         a = "unlink" => Plan(x).mux,
         a \in {"check", "remove", "bind", "serve"} => Plan(x).cmd = "master",
         Plan(x).port # None =>
           a \notin {"sshfirst", "ssh", "sshrun", "race"} /\ (a \in Connected => p[x].pc \in Connected)
  PROVE  ConnectInv'
  <1>0. ProcInv(x, p[x])
    BY DEF ConnectInv
  <1>1. DOMAIN p[x] = Fields /\ Pinned(x, p[x])
    BY <1>0 DEF ProcInv
  <1>2. DOMAIN p' = Procs /\ p'[x] = [p[x] EXCEPT !.pc = a] /\ \A y \in Procs : y # x => p'[y] = p[y]
    BY SetFacts DEF Goto
  <1>3. /\ DOMAIN p'[x] = Fields /\ p'[x].pc = a /\ p'[x].ran = p[x].ran /\ p'[x].got = p[x].got
        /\ p'[x].muxlost = p[x].muxlost /\ p'[x].orphan = p[x].orphan /\ p'[x].exit = p[x].exit
        /\ p'[x].port = p[x].port /\ p'[x].conn = p[x].conn
    BY <1>1, <1>2 DEF Fields
  <1>4. Plan(x).port # None =>
           /\ p'[x].port = Plan(x).port
           /\ p'[x].pc \notin {"sshfirst", "ssh", "sshrun", "race"}
           /\ p'[x].pc \in Connected => p'[x].conn.port = Plan(x).port
    BY <1>1, <1>3 DEF Pinned
  <1>. QED BY <1>2, <1>3, <1>4, MoveStep

LEMMA ExitStep ==
  ASSUME ConnectInv, UNCHANGED <<m, scn>>, NEW x \in Procs, NEW code \in {"fail", "blocked"},
         Exit(x, code), p[x].pc \notin {"serve", "done", "start"}
  PROVE  ConnectInv'
  <1>0. ProcInv(x, p[x])
    BY DEF ConnectInv
  <1>1. DOMAIN p[x] = Fields /\ Pinned(x, p[x])
    BY <1>0 DEF ProcInv
  <1>2. /\ DOMAIN p' = Procs /\ p'[x] = [p[x] EXCEPT !.pc = "done", !.exit = code]
        /\ \A y \in Procs : y # x => p'[y] = p[y]
    BY SetFacts DEF Exit
  <1>3. /\ DOMAIN p'[x] = Fields /\ p'[x].pc = "done" /\ p'[x].ran = p[x].ran /\ p'[x].got = p[x].got
        /\ p'[x].muxlost = p[x].muxlost /\ p'[x].orphan = p[x].orphan /\ p'[x].exit = code
        /\ p'[x].port = p[x].port
    BY <1>1, <1>2 DEF Fields
  <1>4. Plan(x).port # None =>
           /\ p'[x].port = Plan(x).port
           /\ p'[x].pc \notin {"sshfirst", "ssh", "sshrun", "race"}
           /\ p'[x].pc \in Connected => p'[x].conn.port = Plan(x).port
    BY <1>1, <1>3 DEF Pinned, Connected
  <1>. QED BY <1>2, <1>3, <1>4, MoveStep

\* A path that leads to a connection.
LEMMA ConnStep ==
  ASSUME ConnectInv, UNCHANGED <<m, scn>>, NEW x \in Procs, NEW via, NEW q,
         Set(x, ConnectedAs(x, via, q)),
         p[x].pc \notin {"serve", "done", "muxwait", "start"}, Plan(x).port # None => q = Plan(x).port
  PROVE  ConnectInv'
  <1>0. ProcInv(x, p[x])
    BY DEF ConnectInv
  <1>1. DOMAIN p[x] = Fields /\ Pinned(x, p[x])
    BY <1>0 DEF ProcInv
  <1>2. DOMAIN p' = Procs /\ p'[x] = ConnectedAs(x, via, q) /\ \A y \in Procs : y # x => p'[y] = p[y]
    BY SetFacts
  <1>3. /\ DOMAIN p'[x] = Fields /\ p'[x].pc = "save" /\ p'[x].ran = p[x].ran /\ p'[x].got = p[x].got
        /\ p'[x].muxlost = p[x].muxlost /\ p'[x].orphan = p[x].orphan /\ p'[x].exit = p[x].exit
        /\ p'[x].port = p[x].port /\ p'[x].conn.port = q
    BY <1>1, <1>2 DEF Fields, ConnectedAs
  <1>4. Plan(x).port # None =>
           /\ p'[x].port = Plan(x).port
           /\ p'[x].pc \notin {"sshfirst", "ssh", "sshrun", "race"}
           /\ p'[x].pc \in Connected => p'[x].conn.port = Plan(x).port
    BY <1>1, <1>3 DEF Pinned
  <1>. QED BY <1>2, <1>3, <1>4, MoveStep

-----------------------------------------------------------------------------
(* The actions of a client process. *)

\* What is known of a process when it acts.
LEMMA ProcFacts ==
  ASSUME ConnectInv, NEW x \in Procs
  PROVE  /\ DOMAIN p[x] = Fields /\ Pinned(x, p[x]) /\ Plan(x).port # 0
         /\ port_explicit(x) <=> Plan(x).port # None
         /\ port_explicit(x) /\ p[x].pc \notin {"start", "done"} => p[x].port = Plan(x).port /\ target_port(x) = p[x].port
  <1>1. ProcInv(x, p[x]) /\ scn \in Scenarios
    BY DEF ConnectInv
  <1>2. DOMAIN p[x] = Fields /\ Pinned(x, p[x])
    BY <1>1 DEF ProcInv
  <1>3. Plan(x).port # 0
    BY <1>1, ConnectAssumption DEF Plan
  <1>. QED BY <1>2, <1>3 DEF port_explicit, Pinned, target_port, auto_try_ports

LEMMA RelayFailsStep ==
  ASSUME ConnectInv, UNCHANGED <<m, scn>>, NEW x \in Procs, RelayFails(x),
         p[x].pc \in {"relay", "p2p", "hbbr"}
  PROVE  ConnectInv'
  <1>1. CASE Exit(x, "fail")
    BY <1>1, ExitStep
  <1>2. CASE Goto(x, "ssh") /\ ~port_explicit(x)
    <2>1. Plan(x).port = None
      BY <1>2 DEF port_explicit
    <2>. QED BY <1>2, <2>1, GotoStep DEF Connected
  <1>. QED BY <1>1, <1>2 DEF RelayFails, AfterRelay

LEMMA RelayStep ==
  ASSUME ConnectInv, NEW x \in Procs,
         StartRelay(x) \/ Fallback(x) \/ Resolve(x) \/ LanRace(x) \/ PeerToPeer(x) \/ ThroughRelay(x)
  PROVE  ConnectInv'
  <1>1. UNCHANGED <<m, scn>>
    BY DEF StartRelay, Fallback, Resolve, LanRace, PeerToPeer, ThroughRelay, KeepNet, KeepShared
  <1>2. /\ Plan(x).port # 0 /\ (port_explicit(x) <=> Plan(x).port # None)
        /\ port_explicit(x) /\ p[x].pc \notin {"start", "done"} => p[x].port = Plan(x).port /\ target_port(x) = p[x].port
    BY ProcFacts
  <1>3. CASE StartRelay(x)
    <2>1. p[x].pc = "connect" /\ Goto(x, "relay")
      BY <1>3 DEF StartRelay, At
    <2>. QED BY <1>1, <2>1, GotoStep DEF Connected
  <1>4. CASE Fallback(x)
    <2>1. p[x].pc = "failed" /\ (Goto(x, "relay") \/ (Goto(x, "ssh") /\ ~port_explicit(x)) \/ Exit(x, "fail"))
      BY <1>4 DEF Fallback, At
    <2>2. CASE Goto(x, "relay")
      BY <1>1, <2>1, <2>2, GotoStep DEF Connected
    <2>3. CASE Goto(x, "ssh") /\ ~port_explicit(x)
      BY <1>1, <1>2, <2>1, <2>3, GotoStep DEF Connected
    <2>4. CASE Exit(x, "fail")
      BY <1>1, <2>1, <2>4, ExitStep
    <2>. QED BY <2>1, <2>2, <2>3, <2>4
  <1>5. CASE Resolve(x)
    <2>1. p[x].pc = "relay" /\ (Set(x, ConnectedAs(x, "loop", p[x].port)) \/ RelayFails(x) \/ Goto(x, "lanrace"))
      BY <1>5 DEF Resolve, At
    <2>2. CASE Set(x, ConnectedAs(x, "loop", p[x].port))
      BY <1>1, <1>2, <2>1, <2>2, ConnStep
    <2>3. CASE RelayFails(x)
      BY <1>1, <2>1, <2>3, RelayFailsStep
    <2>4. CASE Goto(x, "lanrace")
      BY <1>1, <2>1, <2>4, GotoStep DEF Connected
    <2>. QED BY <2>1, <2>2, <2>3, <2>4
  <1>6. CASE LanRace(x)
    <2>1. p[x].pc = "lanrace" /\ (Set(x, ConnectedAs(x, "netinfo", lan_port(x))) \/ Goto(x, "p2p"))
      BY <1>6 DEF LanRace, At
    <2>2. Plan(x).port # None => lan_port(x) = Plan(x).port
      BY <1>2, <2>1 DEF lan_port
    <2>3. CASE Set(x, ConnectedAs(x, "netinfo", lan_port(x)))
      BY <1>1, <2>1, <2>2, <2>3, ConnStep
    <2>4. CASE Goto(x, "p2p")
      BY <1>1, <2>1, <2>4, GotoStep DEF Connected
    <2>. QED BY <2>1, <2>3, <2>4
  <1>7. CASE PeerToPeer(x)
    <2>1. p[x].pc = "p2p" /\ (Set(x, ConnectedAs(x, "p2p", p[x].port)) \/ RelayFails(x) \/ Goto(x, "hbbr"))
      BY <1>7 DEF PeerToPeer, At
    <2>2. CASE Set(x, ConnectedAs(x, "p2p", p[x].port))
      BY <1>1, <1>2, <2>1, <2>2, ConnStep
    <2>3. CASE RelayFails(x)
      BY <1>1, <2>1, <2>3, RelayFailsStep
    <2>4. CASE Goto(x, "hbbr")
      BY <1>1, <2>1, <2>4, GotoStep DEF Connected
    <2>. QED BY <2>1, <2>2, <2>3, <2>4
  <1>8. CASE ThroughRelay(x)
    <2>. DEFINE q == RelayedTo(target_port(x))
    <2>1. p[x].pc = "hbbr" /\ ((q # None /\ Set(x, ConnectedAs(x, "relay", q))) \/ RelayFails(x))
      BY <1>8 DEF ThroughRelay, At
    <2>2. Plan(x).port # None /\ q # None => q = Plan(x).port
      BY <1>2, <2>1 DEF RelayedTo
    <2>. HIDE DEF q
    <2>3. CASE q # None /\ Set(x, ConnectedAs(x, "relay", q))
      BY <1>1, <2>1, <2>2, <2>3, ConnStep
    <2>4. CASE RelayFails(x)
      BY <1>1, <2>1, <2>4, RelayFailsStep
    <2>. QED BY <2>1, <2>3, <2>4
  <1>. QED BY <1>3, <1>4, <1>5, <1>6, <1>7, <1>8

LEMMA LoadStep ==
  ASSUME ConnectInv, NEW x \in Procs, Load(x)
  PROVE  ConnectInv'
  <1>1. UNCHANGED <<m, scn>> /\ p[x].pc = "start"
    BY DEF Load, KeepNet, At
  <1>2. DOMAIN p[x] = Fields /\ (port_explicit(x) <=> Plan(x).port # None)
    BY ProcFacts
  <1>. DEFINE b == find_host(ConfigLoad, Plan(x).host)
              q == IF port_explicit(x) THEN Plan(x).port ELSE IF b # None THEN b.port ELSE DEFAULT_PORT
              a == IF Plan(x).mux /\ Plan(x).cmd # "master" /\ build_mux_request(Plan(x).cmd)
                   THEN "mux" ELSE "route"
  <1>3. Set(x, [p[x] EXCEPT !.block = b, !.port = q, !.pc = a])
    BY DEF Load
  <1>4. (Plan(x).port # None => q = Plan(x).port) /\ a \in {"mux", "route"} /\ (a = "mux" => Plan(x).mux)
    BY <1>2
  <1>. HIDE DEF b, q, a
  <1>5. /\ DOMAIN p' = Procs /\ p'[x] = [p[x] EXCEPT !.block = b, !.port = q, !.pc = a]
        /\ \A y \in Procs : y # x => p'[y] = p[y]
    BY <1>3, SetFacts
  <1>6. /\ DOMAIN p'[x] = Fields /\ p'[x].pc = a /\ p'[x].ran = p[x].ran /\ p'[x].got = p[x].got
        /\ p'[x].muxlost = p[x].muxlost /\ p'[x].orphan = p[x].orphan /\ p'[x].exit = p[x].exit
        /\ p'[x].port = q
    BY <1>2, <1>5 DEF Fields
  <1>. QED BY <1>1, <1>4, <1>5, <1>6, MoveStep DEF Connected

LEMMA RouteStep ==
  ASSUME ConnectInv, NEW x \in Procs, RemoveSocket(x) \/ Route(x) \/ OpenOther(x)
  PROVE  ConnectInv'
  <1>1. UNCHANGED <<m, scn>>
    BY DEF RemoveSocket, Route, OpenOther, KeepNet, KeepShared
  <1>2. /\ DOMAIN p[x] = Fields /\ (port_explicit(x) <=> Plan(x).port # None)
        /\ port_explicit(x) /\ p[x].pc \notin {"start", "done"} => p[x].port = Plan(x).port
    BY ProcFacts
  <1>3. CASE RemoveSocket(x)
    <2>1. p[x].pc = "unlink" /\ Goto(x, "route")
      BY <1>3 DEF RemoveSocket, At
    <2>. QED BY <1>1, <2>1, GotoStep DEF Connected
  <1>4. CASE Route(x)
    <2>. DEFINE ro == IF ProbesLan(x) /\ probe_lan(x) THEN "mdns" ELSE "dns"
                a == IF SshFirst(x) THEN "sshfirst" ELSE "connect"
    <2>1. /\ p[x].pc = "route"
          /\ Goto(x, "other") \/ Exit(x, "fail") \/ Set(x, [p[x] EXCEPT !.route = ro, !.pc = a])
      BY <1>4 DEF Route, At
    <2>2. CASE Goto(x, "other")
      BY <1>1, <2>1, <2>2, GotoStep DEF Connected
    <2>3. CASE Exit(x, "fail")
      BY <1>1, <2>1, <2>3, ExitStep
    <2>4. CASE Set(x, [p[x] EXCEPT !.route = ro, !.pc = a])
      <3>1. a \in {"sshfirst", "connect"} /\ (a = "sshfirst" => ~port_explicit(x))
        BY DEF SshFirst, auto_try_ports
      <3>. HIDE DEF ro, a
      <3>2. /\ DOMAIN p' = Procs /\ p'[x] = [p[x] EXCEPT !.route = ro, !.pc = a]
            /\ \A y \in Procs : y # x => p'[y] = p[y]
        BY <2>4, SetFacts
      <3>3. /\ DOMAIN p'[x] = Fields /\ p'[x].pc = a /\ p'[x].ran = p[x].ran /\ p'[x].got = p[x].got
            /\ p'[x].muxlost = p[x].muxlost /\ p'[x].orphan = p[x].orphan /\ p'[x].exit = p[x].exit
            /\ p'[x].port = p[x].port
        BY <1>2, <3>2 DEF Fields
      <3>4. Plan(x).port # None =>
               /\ p'[x].port = Plan(x).port
               /\ p'[x].pc \notin {"sshfirst", "ssh", "sshrun", "race"}
               /\ p'[x].pc \in Connected => p'[x].conn.port = Plan(x).port
        BY <1>2, <2>1, <3>1, <3>3 DEF Connected
      <3>. QED BY <1>1, <2>1, <3>1, <3>2, <3>3, <3>4, MoveStep
    <2>. QED BY <2>1, <2>2, <2>3, <2>4
  <1>5. CASE OpenOther(x)
    <2>. DEFINE via == IF Plan(x).quic THEN "quic" ELSE "fs"
                a == IF Plan(x).quic THEN "run" ELSE "save"
    <2>1. /\ p[x].pc = "other" /\ a \in {"run", "save"}
          /\ Exit(x, "fail") \/ Set(x, [ConnectedAs(x, via, p[x].port) EXCEPT !.pc = a])
      BY <1>5 DEF OpenOther, At
    <2>. HIDE DEF via, a
    <2>2. CASE Exit(x, "fail")
      BY <1>1, <2>1, <2>2, ExitStep
    <2>3. CASE Set(x, [ConnectedAs(x, via, p[x].port) EXCEPT !.pc = a])
      <3>1. /\ DOMAIN p' = Procs /\ p'[x] = [ConnectedAs(x, via, p[x].port) EXCEPT !.pc = a]
            /\ \A y \in Procs : y # x => p'[y] = p[y]
        BY <2>3, SetFacts
      <3>2. /\ DOMAIN p'[x] = Fields /\ p'[x].pc = a /\ p'[x].ran = p[x].ran /\ p'[x].got = p[x].got
            /\ p'[x].muxlost = p[x].muxlost /\ p'[x].orphan = p[x].orphan /\ p'[x].exit = p[x].exit
            /\ p'[x].port = p[x].port /\ p'[x].conn.port = p[x].port
        BY <1>2, <3>1 DEF Fields, ConnectedAs
      <3>3. Plan(x).port # None =>
               /\ p'[x].port = Plan(x).port
               /\ p'[x].pc \notin {"sshfirst", "ssh", "sshrun", "race"}
               /\ p'[x].pc \in Connected => p'[x].conn.port = Plan(x).port
        BY <1>2, <2>1, <3>2
      <3>. QED BY <1>1, <2>1, <3>1, <3>2, <3>3, MoveStep
    <2>. QED BY <2>1, <2>2, <2>3
  <1>. QED BY <1>3, <1>4, <1>5

LEMMA SshStep ==
  ASSUME ConnectInv, NEW x \in Procs, SshFirstOpens(x) \/ SshFallback(x)
  PROVE  ConnectInv'
  <1>1. UNCHANGED <<m, scn>> /\ p[x].pc \in {"sshfirst", "ssh"}
    BY DEF SshFirstOpens, SshFallback, SshOpens, KeepNet, At
  <1>2. DOMAIN p[x] = Fields /\ Plan(x).port = None
    BY <1>1, ProcFacts DEF Pinned
  <1>3. \/ Set(x, [p[x] EXCEPT !.pc = "sshrun", !.conn = [via |-> "ssh", port |-> 22]])
        \/ Exit(x, "fail") \/ Goto(x, "connect")
    BY DEF SshFirstOpens, SshFallback, SshOpens
  <1>4. CASE Set(x, [p[x] EXCEPT !.pc = "sshrun", !.conn = [via |-> "ssh", port |-> 22]])
    <2>1. /\ DOMAIN p' = Procs /\ \A y \in Procs : y # x => p'[y] = p[y]
          /\ p'[x] = [p[x] EXCEPT !.pc = "sshrun", !.conn = [via |-> "ssh", port |-> 22]]
      BY <1>4, SetFacts
    <2>2. /\ DOMAIN p'[x] = Fields /\ p'[x].pc = "sshrun" /\ p'[x].ran = p[x].ran /\ p'[x].got = p[x].got
          /\ p'[x].muxlost = p[x].muxlost /\ p'[x].orphan = p[x].orphan /\ p'[x].exit = p[x].exit
      BY <1>2, <2>1 DEF Fields
    <2>. QED BY <1>1, <1>2, <2>1, <2>2, MoveStep
  <1>5. CASE Exit(x, "fail")
    BY <1>1, <1>5, ExitStep
  <1>6. CASE Goto(x, "connect")
    BY <1>1, <1>2, <1>6, GotoStep
  <1>. QED BY <1>3, <1>4, <1>5, <1>6

LEMMA DirectStep ==
  ASSUME ConnectInv, NEW x \in Procs, Direct(x) \/ AutoTry(x) \/ Receive(x)
  PROVE  ConnectInv'
  <1>1. UNCHANGED <<m, scn>>
    BY DEF Direct, AutoTry, Receive, KeepNet, KeepShared
  <1>2. /\ DOMAIN p[x] = Fields /\ (port_explicit(x) <=> Plan(x).port # None) /\ Pinned(x, p[x])
        /\ port_explicit(x) /\ p[x].pc \notin {"start", "done"} => p[x].port = Plan(x).port
    BY ProcFacts
  <1>3. CASE Direct(x)
    <2>1. p[x].pc = "connect" /\ (Set(x, ConnectedAs(x, "direct", p[x].port)) \/ Goto(x, "failed"))
      BY <1>3 DEF Direct, At
    <2>2. CASE Set(x, ConnectedAs(x, "direct", p[x].port))
      BY <1>1, <1>2, <2>1, <2>2, ConnStep
    <2>3. CASE Goto(x, "failed")
      BY <1>1, <2>1, <2>3, GotoStep DEF Connected
    <2>. QED BY <2>1, <2>2, <2>3
  <1>4. CASE AutoTry(x)
    <2>1. /\ p[x].pc = "connect" /\ Plan(x).port = None
          /\ Set(x, [p[x] EXCEPT !.pc = "race", !.task = [q \in AUTO_TRY_PORTS |-> "trying"]])
      BY <1>2, <1>4 DEF AutoTry, At, auto_try_ports
    <2>2. /\ DOMAIN p' = Procs /\ \A y \in Procs : y # x => p'[y] = p[y]
          /\ p'[x] = [p[x] EXCEPT !.pc = "race", !.task = [q \in AUTO_TRY_PORTS |-> "trying"]]
      BY <2>1, SetFacts
    <2>3. /\ DOMAIN p'[x] = Fields /\ p'[x].pc = "race" /\ p'[x].ran = p[x].ran /\ p'[x].got = p[x].got
          /\ p'[x].muxlost = p[x].muxlost /\ p'[x].orphan = p[x].orphan /\ p'[x].exit = p[x].exit
      BY <1>2, <2>2 DEF Fields
    <2>. QED BY <1>1, <2>1, <2>2, <2>3, MoveStep
  <1>5. CASE Receive(x)
    <2>1. /\ p[x].pc = "race"
          /\ \/ Set(x, [ConnectedAs(x, "direct", p[x].chan) EXCEPT !.chan = None, !.port = p[x].chan])
             \/ Goto(x, "failed")
      BY <1>5 DEF Receive, At
    <2>2. Plan(x).port = None
      BY <1>2, <2>1 DEF Pinned
    <2>3. CASE Set(x, [ConnectedAs(x, "direct", p[x].chan) EXCEPT !.chan = None, !.port = p[x].chan])
      <3>1. /\ DOMAIN p' = Procs /\ \A y \in Procs : y # x => p'[y] = p[y]
            /\ p'[x] = [ConnectedAs(x, "direct", p[x].chan) EXCEPT !.chan = None, !.port = p[x].chan]
        BY <2>3, SetFacts
      <3>2. /\ DOMAIN p'[x] = Fields /\ p'[x].pc = "save" /\ p'[x].ran = p[x].ran /\ p'[x].got = p[x].got
            /\ p'[x].muxlost = p[x].muxlost /\ p'[x].orphan = p[x].orphan /\ p'[x].exit = p[x].exit
        BY <1>2, <3>1 DEF Fields, ConnectedAs
      <3>. QED BY <1>1, <2>1, <2>2, <3>1, <3>2, MoveStep
    <2>4. CASE Goto(x, "failed")
      BY <1>1, <2>1, <2>2, <2>4, GotoStep
    <2>. QED BY <2>1, <2>3, <2>4
  <1>. QED BY <1>3, <1>4, <1>5

LEMMA TaskStep ==
  ASSUME ConnectInv, NEW x \in Procs, NEW q, TaskLogsIn(x, q) \/ TaskSends(x, q)
  PROVE  ConnectInv'
  <1>1. UNCHANGED <<m, scn>>
    BY DEF TaskLogsIn, TaskSends, KeepShared
  <1>2. DOMAIN p[x] = Fields
    BY ProcFacts
  <1>3. PICK v \in {"sending", "over"} :
          \/ Set(x, [p[x] EXCEPT !.task[q] = v]) \/ Set(x, [p[x] EXCEPT !.chan = q, !.task[q] = v])
    BY DEF TaskLogsIn, TaskSends
  <1>4. CASE Set(x, [p[x] EXCEPT !.task[q] = v])
    <2>1. /\ DOMAIN p' = Procs /\ \A y \in Procs : y # x => p'[y] = p[y]
          /\ p'[x] = [p[x] EXCEPT !.task[q] = v]
      BY <1>4, SetFacts
    <2>2. DOMAIN p'[x] = Fields /\ \A f \in Fields \ {"task", "chan"} : p'[x][f] = p[x][f]
      BY <1>2, <2>1
    <2>. QED BY <1>1, <2>1, <2>2, SideStep
  <1>5. CASE Set(x, [p[x] EXCEPT !.chan = q, !.task[q] = v])
    <2>1. /\ DOMAIN p' = Procs /\ \A y \in Procs : y # x => p'[y] = p[y]
          /\ p'[x] = [p[x] EXCEPT !.chan = q, !.task[q] = v]
      BY <1>5, SetFacts
    <2>2. DOMAIN p'[x] = Fields /\ \A f \in Fields \ {"task", "chan"} : p'[x][f] = p[x][f]
      BY <1>2, <2>1
    <2>. QED BY <1>1, <2>1, <2>2, SideStep
  <1>. QED BY <1>3, <1>4, <1>5

LEMMA SaveStep ==
  ASSUME ConnectInv, NEW x \in Procs,
         SaveLoad(x) \/ SaveTruncate(x) \/ SaveWrite(x) \/ Gate(x)
  PROVE  ConnectInv'
  <1>1. UNCHANGED <<m, scn>>
    BY DEF SaveLoad, SaveTruncate, SaveWrite, Gate, KeepNet
  <1>2. DOMAIN p[x] = Fields /\ Pinned(x, p[x])
    BY ProcFacts
  <1>3. CASE SaveLoad(x)
    <2>. DEFINE new == update_host_relay_info(ConfigLoad, Plan(x).host, "dev")
    <2>1. /\ p[x].pc = "save"
          /\ Goto(x, "gate") \/ Set(x, [p[x] EXCEPT !.pc = "truncate", !.blocks = new])
      BY <1>3 DEF SaveLoad, At
    <2>. HIDE DEF new
    <2>2. CASE Goto(x, "gate")
      BY <1>1, <2>1, <2>2, GotoStep DEF Connected
    <2>3. CASE Set(x, [p[x] EXCEPT !.pc = "truncate", !.blocks = new])
      <3>1. /\ DOMAIN p' = Procs /\ \A y \in Procs : y # x => p'[y] = p[y]
            /\ p'[x] = [p[x] EXCEPT !.pc = "truncate", !.blocks = new]
        BY <2>3, SetFacts
      <3>2. /\ DOMAIN p'[x] = Fields /\ p'[x].pc = "truncate" /\ p'[x].ran = p[x].ran
            /\ p'[x].got = p[x].got /\ p'[x].port = p[x].port /\ p'[x].conn = p[x].conn
            /\ p'[x].muxlost = p[x].muxlost /\ p'[x].orphan = p[x].orphan /\ p'[x].exit = p[x].exit
        BY <1>2, <3>1 DEF Fields
      <3>3. Plan(x).port # None =>
               /\ p'[x].port = Plan(x).port
               /\ p'[x].pc \notin {"sshfirst", "ssh", "sshrun", "race"}
               /\ p'[x].pc \in Connected => p'[x].conn.port = Plan(x).port
        BY <1>2, <2>1, <3>2 DEF Pinned, Connected
      <3>. QED BY <1>1, <2>1, <3>1, <3>2, <3>3, MoveStep
    <2>. QED BY <2>1, <2>2, <2>3
  <1>4. CASE SaveTruncate(x)
    <2>1. p[x].pc = "truncate" /\ Goto(x, "write")
      BY <1>4 DEF SaveTruncate, At
    <2>. QED BY <1>1, <2>1, GotoStep DEF Connected
  <1>5. CASE SaveWrite(x)
    <2>1. p[x].pc = "write" /\ Goto(x, "gate")
      BY <1>5 DEF SaveWrite, At
    <2>. QED BY <1>1, <2>1, GotoStep DEF Connected
  <1>6. CASE Gate(x)
    <2>1. /\ p[x].pc = "gate"
          /\ \/ Exit(x, "blocked")
             \/ Goto(x, "check") /\ Plan(x).cmd = "master"
             \/ Goto(x, "run")
      BY <1>6 DEF Gate, At
    <2>2. CASE Exit(x, "blocked")
      BY <1>1, <2>1, <2>2, ExitStep
    <2>3. CASE Goto(x, "check") /\ Plan(x).cmd = "master"
      BY <1>1, <2>1, <2>3, GotoStep DEF Connected
    <2>4. CASE Goto(x, "run")
      BY <1>1, <2>1, <2>4, GotoStep DEF Connected
    <2>. QED BY <2>1, <2>2, <2>3, <2>4
  <1>. QED BY <1>3, <1>4, <1>5, <1>6

LEMMA BindStep ==
  ASSUME ConnectInv, NEW x \in Procs, MasterChecks(x) \/ MasterRemoves(x) \/ MasterBinds(x)
  PROVE  ConnectInv'
  <1>1. UNCHANGED <<m, scn>> /\ p[x].pc \in {"check", "remove", "bind"}
    BY DEF MasterChecks, MasterRemoves, MasterBinds, KeepNet, At
  <1>2. ProcInv(x, p[x])
    BY DEF ConnectInv
  <1>3. Plan(x).cmd = "master"
    BY <1>1, <1>2 DEF ProcInv, Masters
  <1>4. Exit(x, "fail") \/ \E a \in {"remove", "bind", "serve"} : Goto(x, a)
    BY DEF MasterChecks, MasterRemoves, MasterBinds
  <1>5. CASE Exit(x, "fail")
    BY <1>1, <1>5, ExitStep
  <1>6. ASSUME NEW a \in {"remove", "bind", "serve"}, Goto(x, a)
        PROVE  ConnectInv'
    <2>1. p[x].pc \in Connected /\ a \notin {"start", "mux", "muxwait", "unlink", "sshfirst", "ssh", "sshrun", "race"}
      BY <1>1 DEF Connected
    <2>. QED BY <1>1, <1>3, <1>6, <2>1, GotoStep
  <1>. QED BY <1>4, <1>5, <1>6

\* Run and SshRun: the command runs at most once, and the process ends.
LEMMA RunStep ==
  ASSUME ConnectInv, NEW x \in Procs, Run(x) \/ SshRun(x)
  PROVE  ConnectInv'
  <1>1. UNCHANGED <<m, scn>> /\ p[x].pc \in {"run", "sshrun"}
    BY DEF Run, SshRun, KeepNet, At
  <1>2. DOMAIN p[x] = Fields /\ Pinned(x, p[x])
    BY ProcFacts
  <1>0. ProcInv(x, p[x]) /\ (Asked(x) => Len(p[x].ran) < Credit(p[x]))
    BY DEF ConnectInv
  <1>3. /\ IsSeq(p[x].ran) /\ p[x].muxlost \in BOOLEAN /\ Len(p[x].ran) <= Credit(p[x])
        /\ (p[x].got \notin {None, x} => p[x].orphan)
    BY <1>0 DEF ProcInv
  <1>4. PICK o, e :
          /\ o \in Outcomes
          /\ Set(x, [p[x] EXCEPT !.pc = "done", !.exit = o[2], !.ran = IF o[1] THEN Append(p[x].ran, e) ELSE @])
          /\ Plan(x).port # None => e.port = Plan(x).port
    <2>1. CASE Run(x)
      <3>1. PICK o \in Outcomes :
              Set(x, [p[x] EXCEPT !.pc = "done", !.exit = o[2],
                        !.ran = IF o[1] THEN Ran(x, p[x].conn.via, p[x].conn.port) ELSE @])
        BY <2>1 DEF Run
      <3>2. PICK e : e = [via |-> p[x].conn.via, port |-> p[x].conn.port]
        OBVIOUS
      <3>3. Ran(x, p[x].conn.via, p[x].conn.port) = Append(p[x].ran, e)
        BY <3>2 DEF Ran
      <3>4. p[x].pc = "run"
        BY <2>1 DEF Run, At
      <3>5. Plan(x).port # None => e.port = Plan(x).port
        BY <1>2, <3>2, <3>4 DEF Pinned, Connected
      <3>. QED BY <3>1, <3>3, <3>5
    <2>2. CASE SshRun(x)
      <3>1. PICK o \in Outcomes :
              Set(x, [p[x] EXCEPT !.pc = "done", !.exit = o[2],
                        !.ran = IF o[1] THEN Ran(x, "ssh", 22) ELSE @])
        BY <2>2 DEF SshRun, Outcomes
      <3>2. PICK e : e = [via |-> "ssh", port |-> 22]
        OBVIOUS
      <3>3. Ran(x, "ssh", 22) = Append(p[x].ran, e)
        BY <3>2 DEF Ran
      <3>4. p[x].pc = "sshrun"
        BY <2>2 DEF SshRun, At
      <3>5. Plan(x).port = None
        BY <1>2, <3>4 DEF Pinned
      <3>. QED BY <3>1, <3>3, <3>5
    <2>. QED BY <2>1, <2>2
  <1>5. PICK ran : ran = IF o[1] THEN Append(p[x].ran, e) ELSE p[x].ran
    OBVIOUS
  <1>6. /\ DOMAIN p' = Procs /\ \A y \in Procs : y # x => p'[y] = p[y]
        /\ p'[x] = [p[x] EXCEPT !.pc = "done", !.exit = o[2], !.ran = ran]
    <2>1. Set(x, [p[x] EXCEPT !.pc = "done", !.exit = o[2], !.ran = ran])
      BY <1>2, <1>4, <1>5 DEF Fields
    <2>. QED BY <2>1, SetFacts
  <1>7. /\ DOMAIN p'[x] = Fields /\ p'[x].pc = "done" /\ p'[x].ran = ran /\ p'[x].exit = o[2]
        /\ p'[x].got = p[x].got /\ p'[x].port = p[x].port /\ p'[x].muxlost = p[x].muxlost
        /\ p'[x].orphan = p[x].orphan
    BY <1>2, <1>6 DEF Fields
  <1>8. /\ IsSeq(ran) /\ Len(ran) \in Nat /\ Len(p[x].ran) \in Nat
        /\ Len(ran) <= Len(p[x].ran) + 1 /\ (o[2] = "ok" \/ p[x].ran # <<>> => ran # <<>>)
        /\ \A i \in DOMAIN ran : ran[i] = e \/ (i \in DOMAIN p[x].ran /\ ran[i] = p[x].ran[i])
    <2>1. /\ IsSeq(Append(p[x].ran, e)) /\ Len(p[x].ran) \in Nat
          /\ Len(Append(p[x].ran, e)) = Len(p[x].ran) + 1
          /\ Append(p[x].ran, e) # <<>> /\ DOMAIN Append(p[x].ran, e) = 1 .. Len(p[x].ran) + 1
          /\ DOMAIN p[x].ran = 1 .. Len(p[x].ran)
          /\ \A i \in 1 .. Len(p[x].ran) : Append(p[x].ran, e)[i] = p[x].ran[i]
          /\ Append(p[x].ran, e)[Len(p[x].ran) + 1] = e
      BY <1>3, AppendAny
    <2>2. CASE o[1]
      <3>1. ran = Append(p[x].ran, e)
        BY <1>5, <2>2
      <3>2. \A i \in 1 .. Len(p[x].ran) + 1 : i \in 1 .. Len(p[x].ran) \/ i = Len(p[x].ran) + 1
        BY <2>1
      <3>. QED BY <2>1, <3>1, <3>2
    <2>3. CASE ~o[1]
      <3>1. ran = p[x].ran
        BY <1>5, <2>3
      <3>2. o \in Outcomes
        BY <1>4
      <3>3. o[2] # "ok"
        <4>1. o = <<TRUE, "ok">> \/ o = <<TRUE, "fail">> \/ o = <<FALSE, "fail">>
          BY <3>2, Zenon DEF Outcomes
        <4>2. CASE o = <<TRUE, "ok">>
          <5>1. o[1] = TRUE
            BY <4>2
          <5>. QED BY <2>3, <5>1, Zenon
        <4>3. CASE o = <<TRUE, "fail">>
          BY <4>3
        <4>4. CASE o = <<FALSE, "fail">>
          BY <4>4
        <4>. QED BY <4>1, <4>2, <4>3, <4>4
      <3>. QED BY <1>3, <2>1, <3>1, <3>3
    <2>. QED BY <2>2, <2>3
  <1>9. Credit(p'[x]) = Credit(p[x]) + 1 /\ Credit(p[x]) \in Nat /\ Credit(p[x])' = Credit(p'[x])
    BY <1>1, <1>3, <1>7 DEF Credit
  <1>10. Len(p'[x].ran) <= Credit(p'[x]) /\ (Asked(x) => Len(p'[x].ran) < Credit(p'[x]))
    BY <1>0, <1>3, <1>7, <1>8, <1>9
  <1>11. Pinned(x, p[x])'
    <2>1. Plan(x).port # None => p'[x].port = Plan(x).port
      BY <1>1, <1>2, <1>7 DEF Pinned
    <2>2. Plan(x).port # None /\ ~Plan(x).mux => \A i \in DOMAIN ran : ran[i].port = Plan(x).port
      BY <1>2, <1>4, <1>8 DEF Pinned
    <2>3. Plan(x)' = Plan(x)
      BY <1>1 DEF Plan
    <2>. QED BY <1>7, <2>1, <2>2, <2>3 DEF Pinned, Connected
  <1>12. ProcInv(x, p[x])'
    <2>1. Plan(x)' = Plan(x)
      BY <1>1 DEF Plan
    <2>. QED BY <1>3, <1>7, <1>8, <1>9, <1>10, <1>11, <2>1 DEF ProcInv, Masters
  <1>13. (p[x].ran # <<>> => p'[x].ran # <<>>) /\ p[x].pc \notin {"serve", "done"}
    BY <1>1, <1>7, <1>8
  <1>. QED BY <1>1, <1>6, <1>10, <1>12, <1>13, OwnStep

\* MuxLost: the master's answer is lost, and the command takes the normal way.
LEMMA LostStep ==
  ASSUME ConnectInv, NEW x \in Procs, MuxLost(x)
  PROVE  ConnectInv'
  <1>1. UNCHANGED <<m, scn>> /\ p[x].pc = "muxwait"
    BY DEF MuxLost, KeepNet, At
  <1>2. DOMAIN p[x] = Fields /\ Pinned(x, p[x])
    BY ProcFacts
  <1>3. CASE Exit(x, "fail")
    BY <1>1, <1>3, ExitStep
  <1>4. CASE Set(x, [p[x] EXCEPT !.pc = "route", !.muxlost = TRUE])
    <2>1. /\ DOMAIN p' = Procs /\ \A y \in Procs : y # x => p'[y] = p[y]
          /\ p'[x] = [p[x] EXCEPT !.pc = "route", !.muxlost = TRUE]
      BY <1>4, SetFacts
    <2>2. /\ DOMAIN p'[x] = Fields /\ p'[x].pc = "route" /\ p'[x].ran = p[x].ran
          /\ p'[x].got = p[x].got /\ p'[x].port = p[x].port /\ p'[x].conn = p[x].conn
          /\ p'[x].muxlost = TRUE /\ p'[x].orphan = p[x].orphan /\ p'[x].exit = p[x].exit
      BY <1>2, <2>1 DEF Fields
    <2>3. ProcInv(x, p[x]) /\ (Asked(x) => Len(p[x].ran) < Credit(p[x]))
      BY DEF ConnectInv
    <2>4. ~p[x].muxlost /\ p[x].exit # "ok" /\ p[x].muxlost \in BOOLEAN
      BY <1>1, <2>3 DEF ProcInv
    <2>5. Credit(p[x]) = 1 /\ Credit(p'[x]) = 1 /\ Credit(p[x])' = 1
      BY <1>1, <2>2, <2>4 DEF Credit
    <2>6. Plan(x)' = Plan(x)
      BY <1>1 DEF Plan
    <2>7. Pinned(x, p[x])'
      BY <1>1, <1>2, <2>2, <2>6 DEF Pinned, Connected
    <2>8. /\ IsSeq(p[x].ran) /\ Len(p[x].ran) <= 1 /\ (p[x].got \notin {None, x} => p[x].orphan)
          /\ (Asked(x) => Len(p[x].ran) < 1)
      BY <2>3, <2>5 DEF ProcInv
    <2>9. ProcInv(x, p[x])'
      BY <2>2, <2>4, <2>5, <2>6, <2>7, <2>8 DEF ProcInv, Masters
    <2>. QED BY <1>1, <2>1, <2>2, <2>5, <2>8, <2>9, OwnStep, ZenonT(60)
  <1>. QED BY <1>3, <1>4 DEF MuxLost

-----------------------------------------------------------------------------
(* The actions of a control master. *)

\* Fewer requests in the hands of the masters.
LEMMA KeepAsked ==
  ASSUME ConnectInv, \A z \in Procs : m'[z].tasks \subseteq m[z].tasks,
         \A z, u \in Procs : \A i : OnWire(z, i, u)' => OnWire(z, i, u)
  PROVE  \A u \in Procs : AskedOnce(u)' /\ (Asked(u)' => Asked(u))
  <1>. SUFFICES ASSUME NEW u \in Procs
                PROVE  AskedOnce(u)' /\ (Asked(u)' => Asked(u))
    OBVIOUS
  <1>1. AskedOnce(u)
    BY DEF ConnectInv
  <1>2. \A z \in Procs : Queued(z, u)' => Queued(z, u)
    BY DEF Queued
  <1>3. \A z \in Procs : \A i : OnWire(z, i, u)' => OnWire(z, i, u)
    OBVIOUS
  <1>4. AskedOnce(u)'
    BY <1>1, <1>2, <1>3 DEF AskedOnce
  <1>5. Asked(u)' => Asked(u)
    BY <1>2, <1>3 DEF Asked
  <1>. QED BY <1>4, <1>5

\* A step on the state of master x and the record of process y.
LEMMA MasterStep ==
  ASSUME ConnectInv, UNCHANGED scn, NEW x \in Procs, NEW y \in Procs,
         DOMAIN p' = Procs, \A z \in Procs : z # y => p'[z] = p[z],
         m' \in [Procs -> MasterType], \A z \in Procs : z # x => m'[z] = m[z],
         ProcInv(y, p[y])', MasterInv(x)', p[y].ran # <<>> => p'[y].ran # <<>>,
         p'[y].pc = p[y].pc \/ p[y].pc \notin {"serve", "done"} \/ y = x,
         \A u \in Procs : AskedOnce(u)',
         \A u \in Procs : u # y /\ Asked(u)' => Asked(u),
         Asked(y)' => Plan(y).mux /\ Len(p'[y].ran) < Credit(p'[y])
  PROVE  ConnectInv'
  <1>1. /\ scn \in Scenarios
        /\ \A z \in Procs : ProcInv(z, p[z]) /\ MasterInv(z)
        /\ \A u \in Procs : Asked(u) => Plan(u).mux /\ Len(p[u].ran) < Credit(p[u])
    BY DEF ConnectInv
  <1>2. \A z \in Procs : Plan(z)' = Plan(z)
    BY DEF Plan
  <1>3. ASSUME NEW z \in Procs
        PROVE  ProcInv(z, p[z])'
    <2>1. CASE z = y
      BY <2>1
    <2>2. CASE z # y
      <3>1. p'[z] = p[z] /\ ProcInv(z, p[z])
        BY <1>1, <2>2
      <3>. QED BY <3>1 DEF ProcInv, Pinned, Plan
    <2>. QED BY <2>1, <2>2
  <1>4. ASSUME NEW z \in Procs
        PROVE  MasterInv(z)'
    <2>0. CASE z = x
      BY <2>0
    <2>1. CASE z # x
      <3>1. m'[z] = m[z] /\ MasterInv(z)
        BY <1>1, <2>1
      <3>2. m[z].lock \in Procs /\ p[m[z].lock].ran # <<>> => p'[m[z].lock].ran # <<>>
        OBVIOUS
      <3>3. CASE p'[z].pc = p[z].pc
        BY <3>1, <3>2, <3>3 DEF MasterInv, NewMaster
      <3>4. CASE p'[z].pc # p[z].pc
        <4>1. p[z].pc \notin {"serve", "done"}
          BY <2>1, <3>4
        <4>2. m[z] = NewMaster
          BY <3>1, <4>1 DEF MasterInv
        <4>3. m'[z] = NewMaster /\ NewMaster' = NewMaster
          BY <3>1, <4>2 DEF NewMaster
        <4>. QED BY <4>3 DEF MasterInv, NewMaster
      <3>. QED BY <3>3, <3>4
    <2>. QED BY <2>0, <2>1
  <1>5. ASSUME NEW u \in Procs, Asked(u)'
        PROVE  Plan(u)'.mux /\ Len(p'[u].ran) < Credit(p[u])'
    <2>1. Credit(p[u])' = Credit(p'[u]) /\ Plan(u)' = Plan(u)
      BY <1>2 DEF Credit
    <2>2. CASE u = y
      BY <1>5, <2>1, <2>2
    <2>3. CASE u # y
      <3>1. Asked(u) /\ p'[u] = p[u]
        BY <1>5, <2>3
      <3>2. Plan(u).mux /\ Len(p[u].ran) < Credit(p[u])
        BY <1>1, <3>1
      <3>. QED BY <2>1, <3>1, <3>2
    <2>. QED BY <2>2, <2>3
  <1>. HIDE DEF ProcInv, MasterInv, AskedOnce, Asked, Plan, Credit
  <1>6. (m \in [Procs -> MasterType])' /\ scn' \in Scenarios
    BY <1>1 DEF MasterType, Requests
  <1>. QED BY <1>3, <1>4, <1>5, <1>6 DEF ConnectInv

\* SetMaster(x, r): the state of one master.
LEMMA SetMasterFacts ==
  ASSUME ConnectInv, NEW x \in Procs, NEW r \in MasterType, SetMaster(x, r)
  PROVE  m' \in [Procs -> MasterType] /\ m'[x] = r /\ \A z \in Procs : z # x => m'[z] = m[z]
  <1>1. m \in [Procs -> MasterType]
    BY DEF ConnectInv
  <1>. QED BY <1>1 DEF SetMaster

\* The records of a master, and of one whose process is not serving.
LEMMA MasterFacts ==
  ASSUME ConnectInv, NEW x \in Procs
  PROVE  /\ m[x] \in MasterType /\ MasterInv(x)
         /\ m[x].wire \in Seq(Requests) /\ m[x].replies \in Seq(Requests) /\ m[x].tasks \subseteq Procs
         /\ m[x].lock \in Requests \cup {None} /\ m[x].stop \in BOOLEAN
         /\ None \notin Procs /\ "ka" \notin Procs /\ "ka" # None
  <1>1. m \in [Procs -> MasterType] /\ MasterInv(x)
    BY DEF ConnectInv
  <1>2. m[x] \in MasterType
    BY <1>1
  <1>. QED BY <1>1, <1>2, ConnectAssumption DEF MasterType

\* A step that changes the state of one master only.
LEMMA MasterAlone ==
  ASSUME ConnectInv, UNCHANGED <<p, scn>>, NEW x \in Procs,
         m' \in [Procs -> MasterType], \A z \in Procs : z # x => m'[z] = m[z], MasterInv(x)',
         \A u \in Procs : AskedOnce(u)' /\ (Asked(u)' => Asked(u))
  PROVE  ConnectInv'
  <1>1. DOMAIN p = Procs /\ ProcInv(x, p[x]) /\ (Asked(x) => Plan(x).mux /\ Len(p[x].ran) < Credit(p[x]))
    BY DEF ConnectInv
  <1>2. ProcInv(x, p[x])'
    BY <1>1 DEF ProcInv, Pinned, Plan, Credit
  <1>3. DOMAIN p' = Procs /\ \A z \in Procs : z # x => p'[z] = p[z]
    BY <1>1
  <1>4. Asked(x)' => Plan(x).mux /\ Len(p'[x].ran) < Credit(p'[x])
    BY <1>1 DEF Credit
  <1>5. /\ \A u \in Procs : AskedOnce(u)'
        /\ \A u \in Procs : u # x /\ Asked(u)' => Asked(u)
        /\ p[x].ran # <<>> => p'[x].ran # <<>>
        /\ p'[x].pc = p[x].pc /\ UNCHANGED scn
    OBVIOUS
  <1>. QED BY <1>2, <1>3, <1>4, <1>5, MasterStep

LEMMA TryMuxStep ==
  ASSUME ConnectInv, NEW x \in Procs, TryMux(x)
  PROVE  ConnectInv'
  <1>1. UNCHANGED scn /\ p[x].pc = "mux"
    BY DEF TryMux, At
  <1>2. ProcInv(x, p[x]) /\ (Asked(x) => Len(p[x].ran) < Credit(p[x]))
    BY DEF ConnectInv
  <1>3. /\ DOMAIN p[x] = Fields /\ Plan(x).mux /\ ~p[x].muxlost /\ p[x].muxlost \in BOOLEAN
        /\ IsSeq(p[x].ran) /\ Len(p[x].ran) <= Credit(p[x]) /\ p[x].exit # "ok"
        /\ (p[x].got \notin {None, x} => p[x].orphan) /\ Pinned(x, p[x])
    BY <1>1, <1>2 DEF ProcInv
  <1>4. CASE ~Listening(Socket(x))
    <2>1. (Exit(x, "fail") \/ Goto(x, "unlink")) /\ UNCHANGED m
      BY <1>4 DEF TryMux
    <2>2. CASE Exit(x, "fail")
      BY <1>1, <2>1, <2>2, ExitStep
    <2>3. CASE Goto(x, "unlink")
      BY <1>1, <1>3, <2>1, <2>3, GotoStep DEF Connected
    <2>. QED BY <2>1, <2>2, <2>3
  <1>5. CASE Listening(Socket(x))
    <2>1. PICK s : s = Socket(x)
      OBVIOUS
    <2>2. /\ Goto(x, "muxwait") /\ p[s].pc = "serve"
          /\ m' = [m EXCEPT ![s].tasks = m[s].tasks \cup {x}]
      BY <1>5, <2>1 DEF TryMux, Listening
    <2>3. /\ DOMAIN p' = Procs /\ p'[x] = [p[x] EXCEPT !.pc = "muxwait"]
          /\ \A y \in Procs : y # x => p'[y] = p[y]
      BY <2>2, SetFacts DEF Goto
    <2>4. /\ DOMAIN p'[x] = Fields /\ p'[x].pc = "muxwait" /\ p'[x].ran = p[x].ran
          /\ p'[x].got = p[x].got /\ p'[x].port = p[x].port
          /\ p'[x].muxlost = p[x].muxlost /\ p'[x].orphan = p[x].orphan /\ p'[x].exit = p[x].exit
      BY <1>3, <2>3 DEF Fields
    <2>5. Credit(p[x]) = 0 /\ Credit(p'[x]) = 1 /\ Credit(p[x])' = 1
      BY <1>1, <1>3, <2>4 DEF Credit
    <2>6. Len(p[x].ran) \in Nat
      BY <1>3, LenNat
    <2>7. ~Asked(x) /\ Len(p'[x].ran) < Credit(p'[x])
      BY <1>2, <1>3, <2>4, <2>5, <2>6
    <2>8. Plan(x)' = Plan(x)
      BY <1>1 DEF Plan
    <2>9. Pinned(x, p[x])'
      BY <1>1, <1>3, <2>4, <2>8 DEF Pinned, Connected
    <2>10. ProcInv(x, p[x])'
      BY <1>3, <2>4, <2>5, <2>6, <2>7, <2>8, <2>9 DEF ProcInv, Masters
    <2>11. CASE s \notin Procs
      <3>1. m' = m
        <4>1. m \in [Procs -> MasterType]
          BY DEF ConnectInv
        <4>. QED BY <2>2, <2>11, <4>1
      <3>. QED BY <1>1, <2>3, <2>4, <2>7, <2>10, <3>1, OwnStep, ZenonT(60)
    <2>12. CASE s \in Procs
      <3>1. m[s] \in MasterType /\ MasterInv(s) /\ m[s].tasks \subseteq Procs /\ m \in [Procs -> MasterType]
        BY <2>12, MasterFacts DEF ConnectInv
      <3>2. /\ m'[s] = [m[s] EXCEPT !.tasks = m[s].tasks \cup {x}]
            /\ \A z \in Procs : z # s => m'[z] = m[z]
            /\ DOMAIN m' = Procs /\ m'[s] \in MasterType
        BY <2>2, <2>12, <3>1 DEF MasterType
      <3>3. m' \in [Procs -> MasterType]
        BY <2>2, <2>12, <3>1, <3>2
      <3>4. /\ m'[s].tasks = m[s].tasks \cup {x} /\ m'[s].wire = m[s].wire /\ m'[s].stop = m[s].stop
            /\ m'[s].replies = m[s].replies /\ m'[s].lock = m[s].lock
        BY <3>1, <3>2 DEF MasterType
      <3>5. MasterInv(s)'
        <4>1. p'[s] = p[s] /\ s # x
          BY <1>1, <2>2, <2>3, <2>12
        <4>2. m[s].lock \in Procs /\ p[m[s].lock].ran # <<>> => p'[m[s].lock].ran # <<>>
          BY <2>3, <2>4
        <4>. QED BY <2>2, <3>1, <3>4, <4>1, <4>2 DEF MasterInv
      <3>6. \A z \in Procs : m'[z].wire = m[z].wire
        BY <3>2, <3>4
      <3>7. \A z, u \in Procs : \A i : OnWire(z, i, u)' <=> OnWire(z, i, u)
        BY <3>6 DEF OnWire
      <3>8. \A z, u \in Procs : Queued(z, u)' <=> Queued(z, u) \/ (z = s /\ u = x)
        BY <3>2, <3>4 DEF Queued
      <3>9. \A u \in Procs : u # x => AskedOnce(u)' /\ (Asked(u)' => Asked(u))
        <4>1. ASSUME NEW u \in Procs, u # x
              PROVE  AskedOnce(u)' /\ (Asked(u)' => Asked(u))
          <5>1. AskedOnce(u)
            BY DEF ConnectInv
          <5>2. \A z \in Procs : (Queued(z, u)' <=> Queued(z, u)) /\ \A i : OnWire(z, i, u)' <=> OnWire(z, i, u)
            BY <3>7, <3>8, <4>1
          <5>. QED BY <5>1, <5>2 DEF AskedOnce, Asked
        <4>. QED BY <4>1
      <3>10. AskedOnce(x)'
        <4>1. \A z \in Procs : ~Queued(z, x) /\ \A i : ~OnWire(z, i, x)
          BY <2>7 DEF Asked
        <4>2. \A z \in Procs : (Queued(z, x)' <=> z = s) /\ \A i : ~OnWire(z, i, x)'
          BY <3>7, <3>8, <4>1
        <4>. QED BY <4>2 DEF AskedOnce
      <3>11. /\ \A u \in Procs : AskedOnce(u)'
             /\ \A u \in Procs : u # x /\ Asked(u)' => Asked(u)
        BY <3>9, <3>10
      <3>12. Asked(x)' => Plan(x).mux /\ Len(p'[x].ran) < Credit(p'[x])
        BY <1>3, <2>7
      <3>13. p[x].ran # <<>> => p'[x].ran # <<>>
        BY <2>4
      <3>14. p[x].pc \notin {"serve", "done"}
        BY <1>1
      <3>. QED BY <1>1, <2>3, <2>10, <2>12, <3>2, <3>3, <3>5, <3>11, <3>12, <3>13, <3>14, MasterStep
    <2>. QED BY <2>11, <2>12
  <1>. QED BY <1>4, <1>5

LEMMA StopCommandStep ==
  ASSUME ConnectInv, NEW x \in Procs, NEW y \in Procs, StopCommand(x, y)
  PROVE  ConnectInv'
  <1>1. /\ UNCHANGED scn /\ p[x].pc = "serve" /\ p[y].pc = "muxwait" /\ Plan(y).cmd = "stop" /\ y # x
        /\ SetMaster(x, [m[x] EXCEPT !.tasks = m[x].tasks \ {y}, !.stop = TRUE])
        /\ Set(y, [p[y] EXCEPT !.pc = "done", !.exit = "ok"])
    BY DEF StopCommand, At, Exit
  <1>2. ProcInv(y, p[y]) /\ (Asked(y) => Plan(y).mux /\ Len(p[y].ran) < Credit(p[y]))
    BY DEF ConnectInv
  <1>3. m[x] \in MasterType /\ MasterInv(x)
    BY MasterFacts
  <1>4. /\ m'[x] = [m[x] EXCEPT !.tasks = m[x].tasks \ {y}, !.stop = TRUE]
        /\ m' \in [Procs -> MasterType] /\ \A z \in Procs : z # x => m'[z] = m[z]
    <2>1. [m[x] EXCEPT !.tasks = m[x].tasks \ {y}, !.stop = TRUE] \in MasterType
      BY <1>3 DEF MasterType
    <2>. QED BY <1>1, <2>1, SetMasterFacts
  <1>5. m'[x].tasks = m[x].tasks \ {y} /\ m'[x].wire = m[x].wire /\ m'[x].stop
    BY <1>3, <1>4 DEF MasterType
  <1>6. /\ DOMAIN p' = Procs /\ p'[y] = [p[y] EXCEPT !.pc = "done", !.exit = "ok"]
        /\ \A z \in Procs : z # y => p'[z] = p[z]
    BY <1>1, SetFacts
  <1>7. DOMAIN p[y] = Fields /\ Pinned(y, p[y])
    BY ProcFacts
  <1>8. /\ DOMAIN p'[y] = Fields /\ p'[y].pc = "done" /\ p'[y].exit = "ok" /\ p'[y].ran = p[y].ran
        /\ p'[y].got = p[y].got /\ p'[y].port = p[y].port /\ p'[y].muxlost = p[y].muxlost
        /\ p'[y].orphan = p[y].orphan
    BY <1>6, <1>7 DEF Fields
  <1>9. Credit(p'[y]) = Credit(p[y]) /\ Credit(p[y])' = Credit(p[y]) /\ Plan(y)' = Plan(y)
    BY <1>1, <1>8 DEF Credit, Plan
  <1>10. ProcInv(y, p[y])'
    <2>1. Pinned(y, p[y])'
      BY <1>1, <1>7, <1>8, <1>9 DEF Pinned, Connected
    <2>2. /\ IsSeq(p[y].ran) /\ p[y].muxlost \in BOOLEAN /\ Len(p[y].ran) <= Credit(p[y])
          /\ (p[y].got \notin {None, y} => p[y].orphan)
      BY <1>2 DEF ProcInv
    <2>. QED BY <1>1, <1>8, <1>9, <2>1, <2>2 DEF ProcInv, Masters
  <1>11. MasterInv(x)'
    <2>1. p'[x] = p[x]
      BY <1>1, <1>6
    <2>. QED BY <1>1, <1>5, <2>1 DEF MasterInv
  <1>12. \A u \in Procs : AskedOnce(u)' /\ (Asked(u)' => Asked(u))
    <2>1. \A z \in Procs : m'[z].tasks \subseteq m[z].tasks /\ m'[z].wire = m[z].wire
      BY <1>4, <1>5
    <2>2. \A z, u \in Procs : \A i : OnWire(z, i, u)' => OnWire(z, i, u)
      BY <2>1 DEF OnWire
    <2>. QED BY <2>1, <2>2, KeepAsked
  <1>13. /\ \A u \in Procs : AskedOnce(u)'
         /\ \A u \in Procs : u # y /\ Asked(u)' => Asked(u)
         /\ Asked(y)' => Asked(y)
    BY <1>12
  <1>14. Asked(y)' => Plan(y).mux /\ Len(p'[y].ran) < Credit(p'[y])
    BY <1>2, <1>8, <1>9, <1>13
  <1>15. (p[y].ran # <<>> => p'[y].ran # <<>>) /\ p[y].pc \notin {"serve", "done"} /\ UNCHANGED scn
    BY <1>1, <1>8
  <1>. QED BY <1>4, <1>6, <1>10, <1>11, <1>13, <1>14, <1>15, MasterStep

LEMMA ForwardStep ==
  ASSUME ConnectInv, NEW x \in Procs, NEW y \in Procs, Forward(x, y)
  PROVE  ConnectInv'
  <1>1. /\ UNCHANGED <<p, scn>> /\ p[x].pc = "serve" /\ y \in m[x].tasks /\ m[x].lock = None
        /\ SetMaster(x, [m[x] EXCEPT !.tasks = m[x].tasks \ {y}, !.lock = y, !.wire = Append(m[x].wire, y)])
    BY DEF Forward, At
  <1>2. /\ m[x] \in MasterType /\ MasterInv(x) /\ m[x].wire \in Seq(Requests) /\ m[x].tasks \subseteq Procs
        /\ None \notin Procs
    BY MasterFacts
  <1>3. PICK w : w = Append(m[x].wire, y)
    OBVIOUS
  <1>4. /\ w \in Seq(Requests) /\ Len(m[x].wire) \in Nat /\ DOMAIN m[x].wire = 1 .. Len(m[x].wire)
        /\ DOMAIN w = 1 .. Len(m[x].wire) + 1 /\ w[Len(m[x].wire) + 1] = y
        /\ \A i \in 1 .. Len(m[x].wire) : w[i] = m[x].wire[i]
    <2>1. y \in Requests
      BY DEF Requests
    <2>. QED BY <1>2, <1>3, <2>1
  <1>5. /\ m'[x] = [m[x] EXCEPT !.tasks = m[x].tasks \ {y}, !.lock = y, !.wire = w]
        /\ m' \in [Procs -> MasterType] /\ \A z \in Procs : z # x => m'[z] = m[z]
    <2>1. [m[x] EXCEPT !.tasks = m[x].tasks \ {y}, !.lock = y, !.wire = w] \in MasterType
      BY <1>2, <1>4 DEF MasterType, Requests
    <2>. QED BY <1>1, <1>3, <2>1, SetMasterFacts
  <1>6. /\ m'[x].tasks = m[x].tasks \ {y} /\ m'[x].lock = y /\ m'[x].wire = w
        /\ m'[x].replies = m[x].replies /\ m'[x].stop = m[x].stop
    BY <1>2, <1>5 DEF MasterType
  <1>7. MasterInv(x)'
    <2>1. CASE m[x].stop
      BY <1>1, <1>6, <2>1 DEF MasterInv
    <2>2. CASE ~m[x].stop
      <3>1. m[x].wire = <<>> /\ m[x].replies = <<>>
        BY <1>1, <1>2, <2>2 DEF MasterInv
      <3>2. w = <<y>>
        BY <1>3, <3>1
      <3>3. m'[x].lock # None /\ m'[x].wire = <<m'[x].lock>> /\ m'[x].replies = <<>>
        BY <1>2, <1>6, <3>1, <3>2
      <3>. QED BY <1>1, <3>3 DEF MasterInv
    <2>. QED BY <2>1, <2>2
  <1>8. ASSUME NEW u \in Procs, u # y
        PROVE  AskedOnce(u)' /\ (Asked(u)' => Asked(u))
    <2>1. AskedOnce(u)
      BY DEF ConnectInv
    <2>2. \A z \in Procs : Queued(z, u)' => Queued(z, u)
      BY <1>5, <1>6 DEF Queued
    <2>3. \A z \in Procs : \A i : OnWire(z, i, u)' => OnWire(z, i, u)
      <3>1. \A i : OnWire(x, i, u)' => OnWire(x, i, u)
        BY <1>4, <1>6, <1>8 DEF OnWire
      <3>. QED BY <1>5, <3>1 DEF OnWire
    <2>. QED BY <2>1, <2>2, <2>3 DEF AskedOnce, Asked
  <1>9. AskedOnce(y)' /\ (Asked(y)' => Asked(y))
    <2>1. AskedOnce(y) /\ Queued(x, y)
      BY <1>1 DEF ConnectInv, Queued
    <2>2. \A z \in Procs : (Queued(z, y) => z = x) /\ \A i : ~OnWire(z, i, y)
      BY <2>1 DEF AskedOnce
    <2>3. \A z \in Procs : ~Queued(z, y)'
      BY <1>5, <1>6, <2>2 DEF Queued
    <2>4. \A z \in Procs : \A i : OnWire(z, i, y)' => z = x /\ i = Len(m[x].wire) + 1
      <3>1. \A i : OnWire(x, i, y)' => i = Len(m[x].wire) + 1
        BY <1>4, <1>6, <2>2 DEF OnWire
      <3>2. \A z \in Procs : \A i : OnWire(z, i, y)' => z = x
        BY <1>5, <2>2 DEF OnWire
      <3>. QED BY <3>1, <3>2
    <2>5. AskedOnce(y)'
      BY <2>3, <2>4 DEF AskedOnce
    <2>. QED BY <2>1, <2>5 DEF Asked
  <1>10. \A u \in Procs : AskedOnce(u)' /\ (Asked(u)' => Asked(u))
    BY <1>8, <1>9
  <1>. QED BY <1>1, <1>5, <1>7, <1>10, MasterAlone

LEMMA KeepaliveStep ==
  ASSUME ConnectInv, NEW x \in Procs, Keepalive(x) \/ KeepaliveTimeout(x)
  PROVE  ConnectInv'
  <1>1. UNCHANGED <<p, scn>> /\ p[x].pc = "serve"
    BY DEF Keepalive, KeepaliveTimeout, At
  <1>2. m[x] \in MasterType /\ MasterInv(x) /\ "ka" \notin Procs /\ "ka" # None
    BY MasterFacts
  <1>3. CASE Keepalive(x)
    <2>1. /\ m[x].lock = None /\ ~m[x].stop
          /\ SetMaster(x, [m[x] EXCEPT !.lock = "ka", !.wire = Append(m[x].wire, "ka")])
      BY <1>3 DEF Keepalive
    <2>2. m[x].wire = <<>> /\ m[x].replies = <<>>
      BY <1>1, <1>2, <2>1 DEF MasterInv
    <2>3. Append(m[x].wire, "ka") = <<"ka">> /\ <<"ka">> \in Seq(Requests)
      BY <2>2 DEF Requests
    <2>4. /\ m'[x] = [m[x] EXCEPT !.lock = "ka", !.wire = <<"ka">>]
          /\ m' \in [Procs -> MasterType] /\ \A z \in Procs : z # x => m'[z] = m[z]
      <3>1. [m[x] EXCEPT !.lock = "ka", !.wire = <<"ka">>] \in MasterType
        BY <1>2, <2>3 DEF MasterType, Requests
      <3>. QED BY <2>1, <2>3, <3>1, SetMasterFacts
    <2>5. /\ m'[x].tasks = m[x].tasks /\ m'[x].lock = "ka" /\ m'[x].wire = <<"ka">>
          /\ m'[x].replies = <<>>
      BY <1>2, <2>2, <2>4 DEF MasterType
    <2>6. MasterInv(x)'
      BY <1>1, <1>2, <2>5 DEF MasterInv
    <2>7. \A z \in Procs : m'[z].tasks \subseteq m[z].tasks
      BY <2>4, <2>5
    <2>8. \A z, u \in Procs : \A i : OnWire(z, i, u)' => OnWire(z, i, u)
      <3>1. \A u \in Procs : \A i : ~OnWire(x, i, u)'
        BY <1>2, <2>5 DEF OnWire
      <3>. QED BY <2>4, <3>1 DEF OnWire
    <2>9. \A u \in Procs : AskedOnce(u)' /\ (Asked(u)' => Asked(u))
      BY <2>7, <2>8, KeepAsked
    <2>. QED BY <1>1, <2>4, <2>6, <2>9, MasterAlone
  <1>4. CASE KeepaliveTimeout(x)
    <2>1. SetMaster(x, [m[x] EXCEPT !.lock = None, !.stop = TRUE])
      BY <1>4 DEF KeepaliveTimeout
    <2>2. /\ m'[x] = [m[x] EXCEPT !.lock = None, !.stop = TRUE]
          /\ m' \in [Procs -> MasterType] /\ \A z \in Procs : z # x => m'[z] = m[z]
      <3>1. [m[x] EXCEPT !.lock = None, !.stop = TRUE] \in MasterType
        BY <1>2 DEF MasterType
      <3>. QED BY <2>1, <3>1, SetMasterFacts
    <2>3. m'[x].tasks = m[x].tasks /\ m'[x].wire = m[x].wire /\ m'[x].stop
      BY <1>2, <2>2 DEF MasterType
    <2>4. MasterInv(x)'
      BY <1>1, <2>3 DEF MasterInv
    <2>5. \A z \in Procs : m'[z].tasks \subseteq m[z].tasks /\ m'[z].wire = m[z].wire
      BY <2>2, <2>3
    <2>6. \A z, u \in Procs : \A i : OnWire(z, i, u)' => OnWire(z, i, u)
      BY <2>5 DEF OnWire
    <2>7. \A u \in Procs : AskedOnce(u)' /\ (Asked(u)' => Asked(u))
      BY <2>5, <2>6, KeepAsked
    <2>. QED BY <1>1, <2>2, <2>4, <2>7, MasterAlone
  <1>. QED BY <1>3, <1>4

\* ServerAnswers: the request at the head of the wire is run, and is on no wire afterwards.
LEMMA AnswerStep ==
  ASSUME ConnectInv, NEW x \in Procs, ServerAnswers(x)
  PROVE  ConnectInv'
  <1>1. PICK y : y = Head(m[x].wire)
    OBVIOUS
  <1>2. /\ m[x] \in MasterType /\ MasterInv(x) /\ m[x].wire \in Seq(Requests)
        /\ m[x].replies \in Seq(Requests) /\ None \notin Procs /\ "ka" \notin Procs
    BY MasterFacts
  <1>3. /\ UNCHANGED scn /\ m[x].wire # <<>>
        /\ SetMaster(x, [m[x] EXCEPT !.wire = Tail(m[x].wire), !.replies = Append(m[x].replies, y)])
        /\ y = "ka" => UNCHANGED p
        /\ y # "ka" => Set(y, [p[y] EXCEPT !.ran = Ran(y, "mux", p[x].conn.port)])
    BY <1>1 DEF ServerAnswers
  <1>4. PICK w, v : w = Tail(m[x].wire) /\ v = Append(m[x].replies, y)
    OBVIOUS
  <1>5. y \in Requests /\ Len(m[x].wire) \in Nat /\ 1 \in DOMAIN m[x].wire /\ m[x].wire[1] = y
    BY <1>1, <1>2, <1>3
  <1>6. w \in Seq(Requests) /\ v \in Seq(Requests)
    BY <1>2, <1>3, <1>4, <1>5
  <1>7. \A i \in DOMAIN w : i + 1 \in DOMAIN m[x].wire /\ w[i] = m[x].wire[i + 1] /\ i \in Nat /\ i # 0
    BY <1>2, <1>3, <1>4
  <1>8. /\ m'[x] = [m[x] EXCEPT !.wire = w, !.replies = v]
        /\ m' \in [Procs -> MasterType] /\ \A z \in Procs : z # x => m'[z] = m[z]
    <2>1. [m[x] EXCEPT !.wire = w, !.replies = v] \in MasterType
      BY <1>2, <1>6 DEF MasterType
    <2>. QED BY <1>3, <1>4, <2>1, SetMasterFacts
  <1>9. /\ m'[x].tasks = m[x].tasks /\ m'[x].lock = m[x].lock /\ m'[x].wire = w
        /\ m'[x].replies = v /\ m'[x].stop = m[x].stop
    BY <1>2, <1>8 DEF MasterType
  <1>10. \A z, u \in Procs : Queued(z, u)' <=> Queued(z, u)
    BY <1>8, <1>9 DEF Queued
  <1>11. /\ \A u \in Procs : \A i : OnWire(x, i, u)' => OnWire(x, i + 1, u) /\ i \in Nat /\ i # 0
         /\ \A z, u \in Procs : \A i : z # x /\ OnWire(z, i, u)' => OnWire(z, i, u)
    <2>1. \A u \in Procs : \A i : OnWire(x, i, u)' => OnWire(x, i + 1, u) /\ i \in Nat /\ i # 0
      BY <1>7, <1>9 DEF OnWire
    <2>. QED BY <1>8, <2>1 DEF OnWire
  <1>12. ASSUME NEW u \in Procs
         PROVE  AskedOnce(u)' /\ (Asked(u)' => Asked(u) /\ u # y)
    <2>1. AskedOnce(u)
      BY DEF ConnectInv
    <2>2. \A z \in Procs : \A i : OnWire(z, i, u)' => \E j : OnWire(z, j, u)
      BY <1>11
    <2>3. \A i, j : OnWire(x, i, u)' /\ OnWire(x, j, u)' => i = j
      <3>1. ASSUME NEW i, NEW j, OnWire(x, i, u)', OnWire(x, j, u)'
            PROVE  i = j
        <4>1. OnWire(x, i + 1, u) /\ OnWire(x, j + 1, u) /\ i \in Nat /\ j \in Nat
          BY <1>11, <3>1
        <4>2. i + 1 = j + 1
          BY <2>1, <4>1 DEF AskedOnce
        <4>. QED BY <4>1, <4>2
      <3>. QED BY <3>1
    <2>4. \A z, t \in Procs : \A i, j : OnWire(z, i, u)' /\ OnWire(t, j, u)' => z = t
      BY <2>1, <2>2 DEF AskedOnce
    <2>5. \A z \in Procs : \A i, j : OnWire(z, i, u)' /\ OnWire(z, j, u)' => i = j
      <3>1. \A z \in Procs : z # x => \A i, j : OnWire(z, i, u)' /\ OnWire(z, j, u)' => i = j
        BY <1>11, <2>1 DEF AskedOnce
      <3>. QED BY <2>3, <3>1
    <2>6. \A z, t \in Procs : \A i : Queued(z, u)' => ~OnWire(t, i, u)'
      BY <1>10, <2>1, <2>2 DEF AskedOnce
    <2>7. \A z, t \in Procs : Queued(z, u)' /\ Queued(t, u)' => z = t
      BY <1>10, <2>1 DEF AskedOnce
    <2>8. AskedOnce(u)'
      BY <2>4, <2>5, <2>6, <2>7 DEF AskedOnce
    <2>9. Asked(u)' => Asked(u)
      BY <1>10, <2>2 DEF Asked
    <2>10. ASSUME u = y
           PROVE  ~Asked(u)'
      <3>1. OnWire(x, 1, u)
        BY <1>5, <2>10 DEF OnWire
      <3>2. \A z \in Procs : ~Queued(z, u)
        BY <2>1, <3>1 DEF AskedOnce
      <3>3. \A z \in Procs : \A i : OnWire(z, i, u) => z = x /\ i = 1
        BY <2>1, <3>1 DEF AskedOnce
      <3>4. \A i : ~OnWire(x, i, u)'
        <4>1. ASSUME NEW i, OnWire(x, i, u)'
              PROVE  FALSE
          <5>1. OnWire(x, i + 1, u) /\ i \in Nat /\ i # 0
            BY <1>11, <4>1
          <5>2. i + 1 = 1
            BY <3>3, <5>1
          <5>. QED BY <5>1, <5>2
        <4>. QED BY <4>1
      <3>5. \A z \in Procs : \A i : ~OnWire(z, i, u)'
        BY <1>11, <3>3, <3>4
      <3>. QED BY <1>10, <3>2, <3>5 DEF Asked
    <2>. QED BY <2>8, <2>9, <2>10
  <1>13. ASSUME p'[x].pc = p[x].pc, y \in Procs => p'[y].ran # <<>>
         PROVE  MasterInv(x)'
    <2>1. CASE p[x].pc = "serve" /\ ~m[x].stop
      <3>1. m[x].lock # None /\ m[x].wire = <<m[x].lock>> /\ m[x].replies = <<>>
        BY <1>2, <1>3, <2>1 DEF MasterInv
      <3>2. y = m[x].lock /\ w = <<>> /\ v = <<m[x].lock>>
        BY <1>1, <1>4, <3>1
      <3>3. /\ m'[x].lock # None /\ m'[x].wire = <<>> /\ m'[x].replies = <<m'[x].lock>>
            /\ m'[x].lock \in Procs => p'[m'[x].lock].ran # <<>>
        BY <1>9, <1>13, <3>1, <3>2
      <3>. QED BY <1>13, <2>1, <3>3 DEF MasterInv
    <2>2. CASE p[x].pc \notin {"serve", "done"}
      BY <1>2, <1>3, <2>2 DEF MasterInv, NewMaster
    <2>3. CASE p[x].pc = "done" \/ (p[x].pc = "serve" /\ m[x].stop)
      BY <1>9, <1>13, <2>3 DEF MasterInv
    <2>. QED BY <2>1, <2>2, <2>3
  <1>14. CASE y = "ka"
    <2>1. p' = p
      BY <1>3, <1>14
    <2>2. MasterInv(x)'
      BY <1>2, <1>13, <1>14, <2>1
    <2>3. \A u \in Procs : AskedOnce(u)' /\ (Asked(u)' => Asked(u))
      BY <1>12
    <2>. QED BY <1>3, <1>8, <2>1, <2>2, <2>3, MasterAlone
  <1>15. CASE y # "ka"
    <2>1. y \in Procs
      BY <1>5, <1>15 DEF Requests
    <2>2. PICK e : e = [via |-> "mux", port |-> p[x].conn.port]
      OBVIOUS
    <2>3. Set(y, [p[y] EXCEPT !.ran = Append(p[y].ran, e)])
      BY <1>3, <1>15, <2>2 DEF Ran
    <2>4. /\ DOMAIN p' = Procs /\ p'[y] = [p[y] EXCEPT !.ran = Append(p[y].ran, e)]
          /\ \A z \in Procs : z # y => p'[z] = p[z]
      BY <2>1, <2>3, SetFacts
    <2>5. DOMAIN p[y] = Fields /\ Pinned(y, p[y])
      BY <2>1, ProcFacts
    <2>6. /\ DOMAIN p'[y] = Fields /\ p'[y].pc = p[y].pc /\ p'[y].ran = Append(p[y].ran, e)
          /\ p'[y].exit = p[y].exit /\ p'[y].got = p[y].got /\ p'[y].port = p[y].port
          /\ p'[y].muxlost = p[y].muxlost /\ p'[y].orphan = p[y].orphan /\ p'[y].conn = p[y].conn
      BY <2>4, <2>5 DEF Fields
    <2>7. Asked(y)
      <3>1. OnWire(x, 1, y)
        BY <1>5 DEF OnWire
      <3>. QED BY <3>1 DEF Asked
    <2>8. ProcInv(y, p[y]) /\ Plan(y).mux /\ Len(p[y].ran) < Credit(p[y])
      BY <2>1, <2>7 DEF ConnectInv
    <2>9. IsSeq(p[y].ran) /\ p[y].muxlost \in BOOLEAN
      BY <2>8 DEF ProcInv
    <2>10. /\ IsSeq(Append(p[y].ran, e)) /\ Len(p[y].ran) \in Nat
           /\ Len(Append(p[y].ran, e)) = Len(p[y].ran) + 1 /\ Append(p[y].ran, e) # <<>>
      BY <2>9, AppendAny
    <2>11. Credit(p[y])' = Credit(p[y]) /\ Credit(p[y]) \in Nat /\ Plan(y)' = Plan(y)
      BY <1>3, <2>6, <2>9 DEF Credit, Plan
    <2>12. Len(p'[y].ran) <= Credit(p[y])'
      BY <2>6, <2>8, <2>10, <2>11
    <2>13. Pinned(y, p[y])'
      BY <2>5, <2>6, <2>8, <2>11 DEF Pinned
    <2>14. ProcInv(y, p[y])'
      <3>1. /\ p[y].pc \in {"start", "mux", "muxwait"} => ~p[y].muxlost
            /\ p[y].pc \in Masters => Plan(y).cmd = "master"
            /\ p[y].exit = "ok" => p[y].pc = "done"
            /\ p[y].got \notin {None, y} => p[y].orphan
        BY <2>8 DEF ProcInv
      <3>. QED BY <2>6, <2>8, <2>9, <2>10, <2>11, <2>12, <2>13, <3>1 DEF ProcInv
    <2>15. p'[x].pc = p[x].pc /\ p'[y].ran # <<>>
      BY <2>4, <2>6, <2>10
    <2>16. MasterInv(x)'
      BY <1>13, <2>15
    <2>17. /\ \A u \in Procs : AskedOnce(u)'
           /\ \A u \in Procs : u # y /\ Asked(u)' => Asked(u)
           /\ ~Asked(y)'
      BY <1>12, <2>1
    <2>. QED BY <1>3, <1>8, <2>1, <2>4, <2>6, <2>14, <2>15, <2>16, <2>17, MasterStep
  <1>. QED BY <1>14, <1>15

\* Returned: the lock holder takes the answer, its own unless the master is stopping.
LEMMA ReturnedStep ==
  ASSUME ConnectInv, NEW x \in Procs, Returned(x)
  PROVE  ConnectInv'
  <1>1. /\ UNCHANGED scn /\ p[x].pc = "serve" /\ m[x].lock # None /\ m[x].replies # <<>>
        /\ SetMaster(x, [m[x] EXCEPT !.lock = None, !.replies = Tail(m[x].replies)])
    BY DEF Returned, At
  <1>2. m[x] \in MasterType /\ MasterInv(x) /\ m[x].replies \in Seq(Requests) /\ m[x].stop \in BOOLEAN
    BY MasterFacts
  <1>3. PICK v : v = Tail(m[x].replies)
    OBVIOUS
  <1>4. v \in Seq(Requests)
    BY <1>1, <1>2, <1>3
  <1>5. /\ m'[x] = [m[x] EXCEPT !.lock = None, !.replies = v]
        /\ m' \in [Procs -> MasterType] /\ \A z \in Procs : z # x => m'[z] = m[z]
    <2>1. [m[x] EXCEPT !.lock = None, !.replies = v] \in MasterType
      BY <1>2, <1>4 DEF MasterType
    <2>. QED BY <1>1, <1>3, <2>1, SetMasterFacts
  <1>6. /\ m'[x].tasks = m[x].tasks /\ m'[x].lock = None /\ m'[x].wire = m[x].wire
        /\ m'[x].replies = v /\ m'[x].stop = m[x].stop
    BY <1>2, <1>5 DEF MasterType
  <1>7. \A u \in Procs : AskedOnce(u)' /\ (Asked(u)' => Asked(u))
    <2>1. \A z \in Procs : m'[z].tasks \subseteq m[z].tasks /\ m'[z].wire = m[z].wire
      BY <1>5, <1>6
    <2>2. \A z, u \in Procs : \A i : OnWire(z, i, u)' => OnWire(z, i, u)
      BY <2>1 DEF OnWire
    <2>. QED BY <2>1, <2>2, KeepAsked
  <1>8. ~m[x].stop => /\ m[x].wire = <<>> /\ m[x].replies = <<m[x].lock>>
                      /\ m[x].lock \in Procs => p[m[x].lock].ran # <<>>
    BY <1>1, <1>2 DEF MasterInv
  <1>9. ASSUME ~m[x].stop
        PROVE  v = <<>> /\ Head(m[x].replies) = m[x].lock
    <2>1. m[x].replies = <<m[x].lock>>
      BY <1>8, <1>9
    <2>. QED BY <1>3, <2>1
  <1>10. ASSUME p'[x].pc = p[x].pc
         PROVE  MasterInv(x)'
    BY <1>1, <1>6, <1>8, <1>9, <1>10 DEF MasterInv
  <1>11. CASE UNCHANGED p
    <2>1. MasterInv(x)'
      BY <1>10, <1>11
    <2>. QED BY <1>1, <1>5, <1>7, <1>11, <2>1, MasterAlone
  <1>12. CASE ~UNCHANGED p
    <2>1. PICK y : y = m[x].lock
      OBVIOUS
    <2>2. y \in Procs /\ p[y].pc = "muxwait"
      BY <1>12, <2>1 DEF Returned, At
    <2>3. PICK code, a :
            /\ code \in {"ok", "fail"} /\ a = Head(m[x].replies)
            /\ Set(y, [p[y] EXCEPT !.pc = "done", !.exit = code, !.got = a, !.orphan = m[x].stop])
      BY <2>1, <2>2 DEF Returned, At
    <2>4. /\ DOMAIN p' = Procs /\ \A z \in Procs : z # y => p'[z] = p[z]
          /\ p'[y] = [p[y] EXCEPT !.pc = "done", !.exit = code, !.got = a, !.orphan = m[x].stop]
      BY <2>2, <2>3, SetFacts
    <2>5. DOMAIN p[y] = Fields /\ Pinned(y, p[y])
      BY <2>2, ProcFacts
    <2>6. /\ DOMAIN p'[y] = Fields /\ p'[y].pc = "done" /\ p'[y].ran = p[y].ran
          /\ p'[y].exit = code /\ p'[y].got = a /\ p'[y].port = p[y].port
          /\ p'[y].muxlost = p[y].muxlost /\ p'[y].orphan = m[x].stop
      BY <2>4, <2>5 DEF Fields
    <2>7. ProcInv(y, p[y]) /\ (Asked(y) => Plan(y).mux /\ Len(p[y].ran) < Credit(p[y]))
      BY <2>2 DEF ConnectInv
    <2>8. Credit(p[y])' = Credit(p[y]) /\ Credit(p'[y]) = Credit(p[y]) /\ Plan(y)' = Plan(y)
      BY <1>1, <2>2, <2>6 DEF Credit, Plan
    <2>9. Pinned(y, p[y])'
      BY <2>2, <2>5, <2>6, <2>8 DEF Pinned, Connected
    <2>10. ~m[x].stop => a = y /\ p[y].ran # <<>>
      BY <1>8, <1>9, <2>1, <2>2, <2>3
    <2>11. ProcInv(y, p[y])'
      <3>1. IsSeq(p[y].ran) /\ p[y].muxlost \in BOOLEAN /\ Len(p[y].ran) <= Credit(p[y])
        BY <2>7 DEF ProcInv
      <3>. QED BY <2>6, <2>8, <2>9, <2>10, <3>1 DEF ProcInv, Masters
    <2>12. x # y /\ p'[x].pc = p[x].pc
      BY <1>1, <2>2, <2>4
    <2>13. MasterInv(x)'
      BY <1>10, <2>12
    <2>14. /\ \A u \in Procs : AskedOnce(u)'
           /\ \A u \in Procs : u # y /\ Asked(u)' => Asked(u)
      BY <1>7
    <2>15. Asked(y)' => Plan(y).mux /\ Len(p'[y].ran) < Credit(p'[y])
      BY <1>7, <2>2, <2>6, <2>7, <2>8
    <2>16. (p[y].ran # <<>> => p'[y].ran # <<>>) /\ p[y].pc \notin {"serve", "done"} /\ UNCHANGED scn
      BY <1>1, <2>2, <2>6
    <2>. QED BY <1>5, <2>2, <2>4, <2>11, <2>13, <2>14, <2>15, <2>16, MasterStep
  <1>. QED BY <1>11, <1>12

LEMMA MasterStopsStep ==
  ASSUME ConnectInv, NEW x \in Procs, MasterStops(x)
  PROVE  ConnectInv'
  <1>1. /\ UNCHANGED scn /\ p[x].pc = "serve"
        /\ SetMaster(x, [m[x] EXCEPT !.tasks = {}, !.lock = None])
        /\ Set(x, [p[x] EXCEPT !.pc = "done", !.exit = "ok"])
    BY DEF MasterStops, At, Exit
  <1>2. m[x] \in MasterType
    BY MasterFacts
  <1>3. /\ m'[x] = [m[x] EXCEPT !.tasks = {}, !.lock = None]
        /\ m' \in [Procs -> MasterType] /\ \A z \in Procs : z # x => m'[z] = m[z]
    <2>1. [m[x] EXCEPT !.tasks = {}, !.lock = None] \in MasterType
      BY <1>2 DEF MasterType
    <2>. QED BY <1>1, <2>1, SetMasterFacts
  <1>4. m'[x].tasks = {} /\ m'[x].wire = m[x].wire
    BY <1>2, <1>3 DEF MasterType
  <1>5. /\ DOMAIN p' = Procs /\ p'[x] = [p[x] EXCEPT !.pc = "done", !.exit = "ok"]
        /\ \A z \in Procs : z # x => p'[z] = p[z]
    BY <1>1, SetFacts
  <1>6. DOMAIN p[x] = Fields /\ Pinned(x, p[x])
    BY ProcFacts
  <1>7. /\ DOMAIN p'[x] = Fields /\ p'[x].pc = "done" /\ p'[x].exit = "ok" /\ p'[x].ran = p[x].ran
        /\ p'[x].got = p[x].got /\ p'[x].port = p[x].port /\ p'[x].muxlost = p[x].muxlost
        /\ p'[x].orphan = p[x].orphan
    BY <1>5, <1>6 DEF Fields
  <1>8. ProcInv(x, p[x]) /\ (Asked(x) => Plan(x).mux /\ Len(p[x].ran) < Credit(p[x]))
    BY DEF ConnectInv
  <1>9. /\ IsSeq(p[x].ran) /\ p[x].muxlost \in BOOLEAN /\ Len(p[x].ran) <= Credit(p[x])
        /\ (p[x].got \notin {None, x} => p[x].orphan) /\ Plan(x).cmd = "master"
    BY <1>1, <1>8 DEF ProcInv, Masters
  <1>10. /\ Credit(p[x]) \in Nat /\ Credit(p'[x]) = Credit(p[x]) + 1 /\ Credit(p[x])' = Credit(p'[x])
         /\ Plan(x)' = Plan(x)
    BY <1>1, <1>7, <1>9 DEF Credit, Plan
  <1>11. Len(p[x].ran) \in Nat
    BY <1>9, LenNat
  <1>12. Len(p'[x].ran) <= Credit(p'[x]) /\ (Asked(x) => Len(p'[x].ran) < Credit(p'[x]))
    BY <1>7, <1>8, <1>9, <1>10, <1>11
  <1>13. ProcInv(x, p[x])'
    <2>1. Pinned(x, p[x])'
      BY <1>1, <1>6, <1>7, <1>10 DEF Pinned, Connected
    <2>. QED BY <1>7, <1>9, <1>10, <1>12, <2>1 DEF ProcInv, Masters
  <1>14. MasterInv(x)'
    BY <1>7 DEF MasterInv
  <1>15. \A u \in Procs : AskedOnce(u)' /\ (Asked(u)' => Asked(u))
    <2>1. \A z \in Procs : m'[z].tasks \subseteq m[z].tasks /\ m'[z].wire = m[z].wire
      BY <1>3, <1>4
    <2>2. \A z, u \in Procs : \A i : OnWire(z, i, u)' => OnWire(z, i, u)
      BY <2>1 DEF OnWire
    <2>. QED BY <2>1, <2>2, KeepAsked
  <1>16. /\ \A u \in Procs : AskedOnce(u)'
         /\ \A u \in Procs : u # x /\ Asked(u)' => Asked(u)
         /\ (Asked(x)' => Plan(x).mux /\ Len(p'[x].ran) < Credit(p'[x]))
         /\ (p[x].ran # <<>> => p'[x].ran # <<>>)
    BY <1>7, <1>8, <1>12, <1>15
  <1>. QED BY <1>1, <1>3, <1>5, <1>13, <1>14, <1>16, MasterStep

-----------------------------------------------------------------------------
LEMMA InitConnect == Init => ConnectInv
  <1>. SUFFICES ASSUME Init PROVE ConnectInv
    OBVIOUS
  <1>1. /\ scn \in Scenarios /\ p = [x \in Procs |-> NewProc(x)] /\ m = [x \in Procs |-> NewMaster]
    BY DEF Init
  <1>2. NewMaster \in MasterType
    BY DEF NewMaster, MasterType, Requests
  <1>3. m \in [Procs -> MasterType] /\ DOMAIN p = Procs
    BY <1>1, <1>2
  <1>4. ASSUME NEW x \in Procs
        PROVE  ProcInv(x, p[x]) /\ MasterInv(x)
    <2>1. p[x] = NewProc(x) /\ m[x] = NewMaster
      BY <1>1
    <2>2. /\ DOMAIN p[x] = Fields /\ p[x].pc \in {"done", "start"} /\ p[x].ran = <<>> /\ p[x].exit = "none"
          /\ p[x].got = None /\ p[x].muxlost = FALSE /\ p[x].port = None
          /\ (p[x].pc = "done" => Plan(x).cmd = "none")
      BY <2>1 DEF NewProc, Fields
    <2>3. Len(p[x].ran) = 0 /\ Credit(p[x]) \in Nat
      BY <2>2 DEF Credit
    <2>4. Pinned(x, p[x])
      BY <2>2 DEF Pinned, Connected
    <2>5. ProcInv(x, p[x])
      <3>1. IsSeq(p[x].ran)
        BY <2>2, EmptySeq
      <3>2. Len(p[x].ran) <= Credit(p[x])
        BY <2>3
      <3>. QED BY <2>2, <2>4, <3>1, <3>2 DEF ProcInv, Masters
    <2>6. MasterInv(x)
      BY <2>1, <2>2 DEF MasterInv
    <2>. QED BY <2>5, <2>6
  <1>5. ASSUME NEW y \in Procs
        PROVE  AskedOnce(y) /\ ~Asked(y)
    <2>1. \A x \in Procs : ~Queued(x, y) /\ \A i : ~OnWire(x, i, y)
      BY <1>1 DEF Queued, OnWire, NewMaster
    <2>. QED BY <2>1 DEF AskedOnce, Asked
  <1>. QED BY <1>1, <1>3, <1>4, <1>5 DEF ConnectInv

LEMMA StutterStep ==
  ASSUME ConnectInv, UNCHANGED vars
  PROVE  ConnectInv'
  <1>1. UNCHANGED <<p, m, scn>>
    BY DEF vars
  <1>2. CASE Procs = {}
    <2>1. /\ DOMAIN p = Procs /\ m \in [Procs -> MasterType] /\ scn \in Scenarios
      BY DEF ConnectInv
    <2>2. (m \in [Procs -> MasterType])'
      BY <1>1, <2>1 DEF MasterType, Requests
    <2>. QED BY <1>1, <1>2, <2>1, <2>2 DEF ConnectInv
  <1>3. ASSUME NEW x \in Procs
        PROVE  ConnectInv'
    <2>1. DOMAIN p = Procs /\ ProcInv(x, p[x])
      BY DEF ConnectInv
    <2>2. DOMAIN p' = Procs /\ DOMAIN p'[x] = Fields
      BY <1>1, <2>1 DEF ProcInv
    <2>. QED BY <1>1, <2>2, SideStep
  <1>. QED BY <1>2, <1>3

LEMMA ConnectStep == ConnectInv /\ [Next]_vars => ConnectInv'
  <1>. SUFFICES ASSUME ConnectInv, [Next]_vars
                PROVE  ConnectInv'
    OBVIOUS
  <1>1. ASSUME NEW x \in Procs, Strategy(x)
        PROVE  ConnectInv'
    <2>1. CASE Load(x)
      BY <2>1, LoadStep
    <2>2. CASE TryMux(x)
      BY <2>2, TryMuxStep
    <2>3. CASE RemoveSocket(x) \/ Route(x) \/ OpenOther(x)
      BY <2>3, RouteStep
    <2>4. CASE SshFirstOpens(x) \/ SshFallback(x)
      BY <2>4, SshStep
    <2>5. CASE SshRun(x) \/ Run(x)
      BY <2>5, RunStep
    <2>6. CASE Direct(x) \/ AutoTry(x) \/ Receive(x)
      BY <2>6, DirectStep
    <2>7. CASE StartRelay(x) \/ Fallback(x) \/ Resolve(x) \/ LanRace(x) \/ PeerToPeer(x) \/ ThroughRelay(x)
      BY <2>7, RelayStep
    <2>8. CASE SaveLoad(x) \/ SaveTruncate(x) \/ SaveWrite(x) \/ Gate(x)
      BY <2>8, SaveStep
    <2>9. CASE MasterChecks(x) \/ MasterRemoves(x) \/ MasterBinds(x)
      BY <2>9, BindStep
    <2>. QED BY <1>1, <2>1, <2>2, <2>3, <2>4, <2>5, <2>6, <2>7, <2>8, <2>9 DEF Strategy
  <1>2. ASSUME NEW x \in Procs, Tasks(x)
        PROVE  ConnectInv'
    BY <1>2, TaskStep DEF Tasks
  <1>3. ASSUME NEW x \in Procs, Serving(x)
        PROVE  ConnectInv'
    <2>1. CASE Keepalive(x) \/ KeepaliveTimeout(x)
      BY <2>1, KeepaliveStep
    <2>2. CASE ServerAnswers(x)
      BY <2>2, AnswerStep
    <2>3. CASE Returned(x)
      BY <2>3, ReturnedStep
    <2>4. ASSUME NEW y \in Procs, StopCommand(x, y) \/ Forward(x, y)
          PROVE  ConnectInv'
      BY <2>4, StopCommandStep, ForwardStep
    <2>. QED BY <1>3, <2>1, <2>2, <2>3, <2>4 DEF Serving
  <1>4. ASSUME NEW x \in Procs, MuxLost(x) \/ MasterStops(x)
        PROVE  ConnectInv'
    BY <1>4, LostStep, MasterStopsStep
  <1>5. CASE UNCHANGED vars
    BY <1>5, StutterStep
  <1>. QED BY <1>1, <1>2, <1>3, <1>4, <1>5 DEF Next

LEMMA ConnectAlways == Spec => []ConnectInv
  BY InitConnect, ConnectStep, PTL DEF Spec

\* Whichever of the direct, LAN, peer-to-peer and relay paths a command with -p ends up on,
\* it runs on the port it named or not at all: SSH and the race of the ports are closed to
\* it, and resolve_with_port hands its port to the relay.  For any number of processes,
\* whatever the network lets through.
THEOREM PinnedAlways == Spec => []PinnedPort
  <1>1. ConnectInv => PinnedPort
    <2>. SUFFICES ASSUME ConnectInv, NEW x \in Procs, port_explicit(x), ~Plan(x).mux
                  PROVE  \A i \in DOMAIN p[x].ran : p[x].ran[i].port = Plan(x).port
      BY DEF PinnedPort
    <2>1. Pinned(x, p[x])
      BY ProcFacts
    <2>. QED BY <2>1 DEF Pinned, port_explicit
  <1>. QED BY <1>1, ConnectAlways, PTL

\* Through every fallback of async_main and connect_via_relay, and with any number of
\* clients on any number of control masters that share a server connection, a command runs
\* at most once - twice only if try_request gave up on a master's answer -, exit code 0
\* means that it ran, and the answer handle_mux_client passes on is that of the request it
\* forwarded, unless the master was stopping.
THEOREM AnsweredOnceAlways == Spec => []OwnAnswerOnce
  <1>1. ConnectInv => OwnAnswerOnce
    <2>. SUFFICES ASSUME ConnectInv, NEW x \in Procs
                  PROVE  /\ Len(p[x].ran) <= IF p[x].muxlost THEN 2 ELSE 1
                         /\ p[x].exit = "ok" /\ Plan(x).cmd \notin {"master", "stop"} =>
                              p[x].ran # <<>> \/ p[x].orphan
                         /\ p[x].got \notin {None, x} => p[x].orphan
      BY DEF OwnAnswerOnce, RunsOnce, AnswerIsMine
    <2>1. ProcInv(x, p[x])
      BY DEF ConnectInv
    <2>2. /\ IsSeq(p[x].ran) /\ p[x].muxlost \in BOOLEAN /\ Len(p[x].ran) <= Credit(p[x])
          /\ p[x].exit = "ok" /\ Plan(x).cmd \notin {"master", "stop"} => p[x].ran # <<>> \/ p[x].orphan
          /\ p[x].got \notin {None, x} => p[x].orphan
      BY <2>1 DEF ProcInv
    <2>3. Len(p[x].ran) \in Nat
      BY <2>2, LenNat
    <2>4. Credit(p[x]) \in Nat /\ Credit(p[x]) <= IF p[x].muxlost THEN 2 ELSE 1
      BY <2>2 DEF Credit
    <2>5. Len(p[x].ran) <= IF p[x].muxlost THEN 2 ELSE 1
      BY <2>2, <2>3, <2>4
    <2>. QED BY <2>2, <2>5
  <1>. QED BY <1>1, ConnectAlways, PTL
=============================================================================
