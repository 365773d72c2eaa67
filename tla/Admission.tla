------------------------------ MODULE Admission ------------------------------
(***************************************************************************)
(* How a TCP connection is admitted by the server, authenticated, served   *)
(* and released: crates/mrsh-server/src/listener.rs (access control,       *)
(* ConnectionLimiter, the command and the stream listener), ratelimit.rs   *)
(* (AuthRateLimiter) and handle_connection of handler.rs.                  *)
(*                                                                         *)
(* The two listeners share one limiter and run on different threads; each  *)
(* works on one accepted connection at a time.  The task spawned for an    *)
(* admitted connection holds a ConnectionPermit until it ends.             *)
(***************************************************************************)
EXTENDS Integers, FiniteSets, FiniteSetsExt

CONSTANTS
  Conns,        \* connections
  Ips,          \* peer addresses
  IpOf,         \* IpOf[c]: the address c comes from
  PortOf,       \* PortOf[c]: the listener c goes to, "command" or "stream"
  Denied,       \* addresses that IpAccessControl::is_allowed refuses
  MaxGlobal,    \* permits of the global semaphore (500)
  MaxPerIp,     \* max_per_ip (20)
  Start, Full,  \* MaxStartups: free below Start, closed from Full on
  MaxFailures,  \* MAX_FAILURES (5)
  Window,       \* WINDOW (60 s)
  Ban,          \* BAN_DURATION (300 s)
  MaxTime       \* bound of the clock

Listeners == {"command", "stream"}

ASSUME ConnsAssumption ==
  /\ IsFiniteSet(Conns)
  /\ IpOf \in [Conns -> Ips]
  /\ PortOf \in [Conns -> Listeners]
  /\ Denied \subseteq Ips

ASSUME LimitsAssumption ==
  /\ {MaxGlobal, MaxPerIp, Start, Full, MaxTime} \subseteq Nat
  /\ {MaxFailures, Window, Ban} \subseteq Nat \ {0}
  /\ Window <= Ban

VARIABLES
  pc,        \* the place of each connection
  permits,   \* permits left in the global semaphore
  perIp,     \* the per-IP counters, absent entries being 0
  gone,      \* connections not released yet whose client hung up
  now,       \* the clock
  failures,  \* AuthRateLimiter: the times of the recorded failures, as
             \* <<time, connection>>, so that equal times are kept apart
  banned     \* AuthRateLimiter: banned_until, 0 for None

vars == <<pc, permits, perIp, gone, now, failures, banned>>
limiter == <<permits, perIp>>
rate == <<failures, banned>>

(***************************************************************************)
(* "idle"     not accepted yet                                             *)
(* "drop?"    accepted and allowed; the listener asks for MaxStartups      *)
(* "global?"  the listener asks for a global permit                        *)
(* "ip?"      global permit taken; the listener asks for the per-IP slot   *)
(* "peek"     spawned; waits for the first byte (command port)             *)
(* "tls"      TLS handshake                                                *)
(* "ban?"     handle_connection checks is_banned                           *)
(* "auth"     authenticate, under the grace time of 30 s                   *)
(* "serve"    request loop, shell, tunnel or SSH session                   *)
(* "busy"     a request is carried out and nobody reads the socket         *)
(* "drop"     the task ended; the per-IP slot is given back first          *)
(* "permit"   the global permit is given back next                         *)
(* "end"      gone                                                         *)
(***************************************************************************)
AtListener == {"drop?", "global?", "ip?"}
Running == {"peek", "tls", "ban?", "auth", "serve", "busy"}
Places == AtListener \cup Running \cup {"idle", "drop", "permit", "end"}

Init ==
  /\ pc = [c \in Conns |-> "idle"]
  /\ permits = MaxGlobal
  /\ perIp = [i \in Ips |-> 0]
  /\ gone = {}
  /\ now = 1
  /\ failures = [i \in Ips |-> {}]
  /\ banned = [i \in Ips |-> 0]

Go(c, from, to) == pc[c] = from /\ pc' = [pc EXCEPT ![c] = to]

-----------------------------------------------------------------------------
(***************************************************************************)
(* The listeners: run_command_listener and run_stream_listener.            *)
(***************************************************************************)
ListenerFree(l) == \A c \in Conns : PortOf[c] = l => pc[c] \notin AtListener

\* accept(), then ip_acl.is_allowed: a refused connection is dropped at once.
Accept(c) ==
  /\ ListenerFree(PortOf[c])
  /\ Go(c, "idle", IF IpOf[c] \in Denied THEN "end" ELSE "drop?")
  /\ UNCHANGED <<limiter, gone, now, rate>>

\* active_connections()
Active == MapThenSumSet(LAMBDA i : perIp[i], Ips)

\* should_drop_probabilistic: the outcomes it can have at this load.
ShouldDrop(drop) ==
  \/ ~drop /\ Active < Start
  \/ drop \in BOOLEAN /\ Start <= Active /\ Active < Full
  \/ drop /\ Active >= Start /\ Active >= Full

AskStartups(c) ==
  /\ \E drop \in BOOLEAN :
       /\ ShouldDrop(drop)
       /\ Go(c, "drop?", IF drop THEN "end" ELSE "global?")
  /\ UNCHANGED <<limiter, gone, now, rate>>

\* global.try_acquire_owned
AskGlobal(c) ==
  /\ \/ permits = 0 /\ Go(c, "global?", "end") /\ UNCHANGED permits
     \/ permits > 0 /\ Go(c, "global?", "ip?") /\ permits' = permits - 1
  /\ UNCHANGED <<perIp, gone, now, rate>>

\* Mutant: the global permit is forgotten, not dropped, on refusal.
AskIpKeepingGlobal(c) ==
  /\ \/ /\ perIp[IpOf[c]] >= MaxPerIp
        /\ Go(c, "ip?", "end")
        /\ UNCHANGED perIp
     \/ /\ perIp[IpOf[c]] < MaxPerIp
        /\ Go(c, "ip?", IF PortOf[c] = "command" THEN "peek" ELSE "tls")
        /\ perIp' = [perIp EXCEPT ![IpOf[c]] = @ + 1]
  /\ UNCHANGED <<permits, gone, now, rate>>

\* The per-IP slot; a refusal drops the global permit.  Then the task starts.
AskIp(c) ==
  /\ \/ /\ perIp[IpOf[c]] >= MaxPerIp
        /\ Go(c, "ip?", "end")
        /\ permits' = permits + 1
        /\ UNCHANGED perIp
     \/ /\ perIp[IpOf[c]] < MaxPerIp
        /\ Go(c, "ip?", IF PortOf[c] = "command" THEN "peek" ELSE "tls")
        /\ perIp' = [perIp EXCEPT ![IpOf[c]] = @ + 1]
        /\ UNCHANGED permits
  /\ UNCHANGED <<gone, now, rate>>

-----------------------------------------------------------------------------
(***************************************************************************)
(* The connection's task: handle_mux_connection and handle_connection.     *)
(***************************************************************************)

\* The first byte is 0x16 (TLS), 'S' (SSH), or something else; or it does not
\* come within 30 s; or the client closes.
Peek(c) ==
  /\ \E to \in {"tls", "serve", "drop"} : Go(c, "peek", to)
  /\ UNCHANGED <<limiter, gone, now, rate>>

\* acceptor.accept: no deadline, it ends when the client does something.
Tls(c) ==
  /\ \E to \in {"ban?", "drop"} : Go(c, "tls", to)
  /\ UNCHANGED <<limiter, gone, now, rate>>

IsBanned(i) == banned[i] # 0 /\ now < banned[i]

CheckBan(c) ==
  /\ Go(c, "ban?", IF IsBanned(IpOf[c]) THEN "drop" ELSE "auth")
  /\ UNCHANGED <<limiter, gone, now, rate>>

Recent(i, fs) == {f \in fs : now - f[1] < Window}

\* Mutant: the threshold is missed by one.
RecordFailureLate(i, c) ==
  /\ \/ IsBanned(i) /\ UNCHANGED <<failures, banned>>
     \/ /\ ~IsBanned(i)
        /\ LET old == IF banned[i] # 0 THEN {} ELSE failures[i]
               new == Recent(i, old) \cup {<<now, c>>}
           IN /\ failures' = [failures EXCEPT ![i] = new]
              /\ banned' = [banned EXCEPT
                              ![i] = IF Cardinality(new) > MaxFailures
                                     THEN now + Ban ELSE 0]

\* record_failure: an expired ban is reset with its failures, old failures are
\* pruned, this one is added, and the ban starts when there are enough.
RecordFailure(i, c) ==
  /\ \/ IsBanned(i) /\ UNCHANGED <<failures, banned>>
     \/ /\ ~IsBanned(i)
        /\ LET old == IF banned[i] # 0 THEN {} ELSE failures[i]
               new == Recent(i, old) \cup {<<now, c>>}
           IN /\ failures' = [failures EXCEPT ![i] = new]
              /\ banned' = [banned EXCEPT
                              ![i] = IF Cardinality(new) >= MaxFailures
                                     THEN now + Ban ELSE 0]

\* authenticate fails or takes longer than 30 s.
AuthFails(c) ==
  /\ Go(c, "auth", "drop")
  /\ RecordFailure(IpOf[c], c)
  /\ UNCHANGED <<limiter, gone, now>>

\* record_success removes the whole record.
AuthSucceeds(c) ==
  /\ Go(c, "auth", "serve")
  /\ c \notin gone
  /\ failures' = [failures EXCEPT ![IpOf[c]] = {}]
  /\ banned' = [banned EXCEPT ![IpOf[c]] = 0]
  /\ UNCHANGED <<limiter, gone, now>>

\* Mutant: the request loop waits for the next message without a deadline.
ServeEndsOnMessage(c) ==
  /\ c \notin gone
  /\ Go(c, "serve", "drop")
  /\ UNCHANGED <<limiter, gone, now, rate>>

\* The request loop awaits the whole request, an exec among them with its command
\* (cmd.output), which has no time limit.  What a client sent before it hung up counts
\* as read before that.
Request(c) ==
  /\ c \notin gone
  /\ Go(c, "serve", "busy")
  /\ UNCHANGED <<limiter, gone, now, rate>>
Answer(c) ==
  /\ \E to \in {"serve", "drop"} : Go(c, "busy", to)
  /\ UNCHANGED <<limiter, gone, now, rate>>

\* The request loop ends: read error, idle timeout of 300 s, a hijacked
\* connection that is done.
ServeEnds(c) ==
  /\ Go(c, "serve", "drop")
  /\ UNCHANGED <<limiter, gone, now, rate>>

\* Drop for ConnectionPermit: first the counter, then the field's own drop.
DropSlot(c) ==
  /\ Go(c, "drop", "permit")
  /\ perIp' = [perIp EXCEPT ![IpOf[c]] = IF @ = 0 THEN 0 ELSE @ - 1]
  /\ UNCHANGED <<permits, gone, now, rate>>

DropPermit(c) ==
  /\ Go(c, "permit", "end")
  /\ permits' = permits + 1
  /\ gone' = gone \ {c}
  /\ UNCHANGED <<perIp, now, rate>>

\* Environment: the client closes; time passes.  A close is told apart only
\* where the server awaits the client; Peek may end without one.
Hangup(c) ==
  /\ pc[c] \in {"tls", "auth", "serve", "busy"}
  /\ c \notin gone
  /\ gone' = gone \cup {c}
  /\ UNCHANGED <<pc, limiter, now, rate>>

Tick ==
  /\ now < MaxTime
  /\ now' = now + 1
  /\ UNCHANGED <<pc, limiter, gone, rate>>

Listen(c) == Accept(c) \/ AskStartups(c) \/ AskGlobal(c) \/ AskIp(c)

Task(c) ==
  \/ Peek(c) \/ Tls(c) \/ CheckBan(c) \/ AuthFails(c) \/ AuthSucceeds(c)
  \/ Request(c) \/ Answer(c) \/ ServeEnds(c) \/ DropSlot(c) \/ DropPermit(c)

Next == Tick \/ \E c \in Conns : Listen(c) \/ Task(c) \/ Hangup(c)

Spec == Init /\ [][Next]_vars

(***************************************************************************)
(* Fairness: the runtime polls ready tasks and their deadlines elapse.     *)
(* The TLS handshake has no deadline: it moves on only if the client has   *)
(* hung up.  Nothing is assumed of the next request, unless the client is  *)
(* gone, and nothing at all of a request that is being carried out: its    *)
(* command may run for ever.                                               *)
(***************************************************************************)
Fairness ==
  /\ \A c \in Conns :
       /\ WF_vars(AskStartups(c) \/ AskGlobal(c) \/ AskIp(c))
       /\ WF_vars(Peek(c) \/ CheckBan(c) \/ AuthFails(c))
       /\ WF_vars((Tls(c) \/ ServeEnds(c)) /\ c \in gone)
       /\ WF_vars(DropSlot(c) \/ DropPermit(c))
  /\ WF_vars(Tick)

FairSpec == Spec /\ Fairness

-----------------------------------------------------------------------------
(***************************************************************************)
(* Properties.                                                             *)
(***************************************************************************)

\* Type correctness of the limiter, the rate limiter and the tasks.
TypeOK ==
  /\ pc \in [Conns -> Places]
  /\ permits \in Nat
  /\ perIp \in [Ips -> Nat]
  /\ gone \subseteq Conns
  /\ now \in Nat
  /\ failures \in [Ips -> SUBSET (Nat \X Conns)]
  /\ banned \in [Ips -> Nat]

HoldsPermit == {c \in Conns : pc[c] \in Running \cup {"ip?", "drop", "permit"}}
HoldsSlot(i) == {c \in Conns : IpOf[c] = i /\ pc[c] \in Running \cup {"drop"}}

\* Every way out of admission and of the task (refusal between the two
\* limits, failed handshake, ban, failed login, end of service) returns
\* exactly what was taken: the semaphore and the per-IP counters count the
\* connections that hold them (listener.rs, try_acquire and Drop).
LimitsAddUp ==
  /\ permits + Cardinality(HoldsPermit) = MaxGlobal
  /\ \A i \in Ips : /\ perIp[i] = Cardinality(HoldsSlot(i))
                    /\ perIp[i] <= MaxPerIp

\* An address that is not banned has fewer failures in the window than
\* MAX_FAILURES, also after a ban has run out (ratelimit.rs).
BelowThreshold ==
  \A i \in Ips :
    ~IsBanned(i) => Cardinality(Recent(i, failures[i])) < MaxFailures

\* A client that hangs up, at whatever point, in the end gives its permit back, unless a
\* command it has started never ends, which keeps the permit (exec.rs awaits the output);
\* when the command does end, also after the hang-up, the permit comes back.  Nobody stays
\* between connecting and being authenticated for ever, except in the TLS handshake: the
\* first byte and the login have a deadline.
PermitsComeBack ==
  <>[](\A c \in Conns : /\ c \in gone => pc[c] = "busy"
                        /\ pc[c] \notin {"peek", "ban?", "auth"})
=============================================================================
