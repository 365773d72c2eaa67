---------------------------- MODULE HostsProofs ----------------------------
(***************************************************************************)
(* Proofs about what goes on at the machines: the adverts and the fleet    *)
(* commands that change their version, the servers that replace each       *)
(* other, and the icon of the tray; for any number of machines, servers,   *)
(* publications, processes and logins.                                     *)
(***************************************************************************)
EXTENDS MCFleet, FiniteSetTheorems, WellFoundedInduction, TLAPS

MachineFields == {"ver", "kind", "up", "watch", "next", "by", "old"}
TaskFields == {"at", "want", "kind", "insecure"}
Resting == {"idle", "over"}

\* What a task wants, and what waits for a restart at the request of a task, is newer than
\* what runs.
Newer(m) ==
  /\ machine[m].next # NoBinary /\ machine[m].by \in Tasks =>
       semver_greater(machine[m].next.ver, machine[m].ver)
  /\ \A t \in Tasks : task[m][t].at \notin Resting => semver_greater(task[m][t].want, machine[m].ver)
AdvertInv ==
  /\ DOMAIN machine = Machines /\ DOMAIN task = Machines
  /\ \A m \in Machines :
       /\ DOMAIN machine[m] = MachineFields /\ DOMAIN task[m] = Tasks
       /\ \A t \in Tasks : DOMAIN task[m][t] = TaskFields
       /\ Newer(m)

ProcFields == {"role", "at", "sock", "cancel", "found", "saw"}
UnitFields == {"there", "on", "pid", "wait", "gaveUp"}

\* The processes, as a function f from process numbers.
OneInv(f, i) ==
  /\ DOMAIN f[i] = ProcFields /\ f[i].found \subseteq f[i].saw /\ f[i].saw \subseteq Pids
  /\ f[i].at \notin {"kill1", "kill2"} => f[i].found = {}
  /\ f[i].at = "gone" => f[i].role = "free"
  /\ f[i].role = "other" => f[i].at = "run"
  /\ f[i].at \in {"create", "taskkill", "register", "legacy"} => f[i].role = "install"
\* A server a starting process has seen, and does not hold in its hands to be killed, is gone.
SeenInv(f, i) == \A j \in f[i].saw \ f[i].found : f[j].role \in Servers => site.denied
ProcsInv(f) == DOMAIN f = Pids /\ \A i \in Pids : OneInv(f, i) /\ SeenInv(f, i)
\* The manager's processes are its servers.
UnitsInv(f, w) ==
  /\ DOMAIN w = Units
  /\ \A u \in Units : /\ DOMAIN w[u] = UnitFields /\ w[u].pid \in Pids \cup {NoPid}
                      /\ w[u].pid # NoPid => f[w[u].pid].role = u
OtherInv(f) == site.other = "other" => \E i \in Pids : f[i].role = "other"
SiteOK(f, w) == ProcsInv(f) /\ UnitsInv(f, w) /\ OtherInv(f)
SiteInv == SiteOK(proc, unit)

TrayInv ==
  /\ sessions \in Nat /\ events \in Seq({"Connected", "Disconnected"})
  /\ DOMAIN tray = {"on", "active", "red"}
  /\ IconTrue

-----------------------------------------------------------------------------
(* The least number of a set. *)

LEMMA LeastNumber ==
  ASSUME NEW S, S \subseteq Nat, S # {}
  PROVE  \E x \in S : \A y \in S : x <= y
<1>1. IsWellFoundedOn(OpToRel(<, Nat), Nat)
  BY NatLessThanWellFounded, Zenon
<1> DEFINE R == OpToRel(<, Nat)
<1>2. PICK x \in S : \A y \in S : ~(<<y, x>> \in R)
  BY <1>1, WFMin, Zenon
<1>3. \A y \in S : ~(y < x)
  BY <1>2 DEF OpToRel
<1> QED
  BY <1>3
-----------------------------------------------------------------------------
(* The icon of the tray. *)

\* f counts the events ev, from the count a.
Counts(f, a, ev) ==
  f = [i \in 0 .. Len(ev) |-> IF i = 0 THEN a ELSE Counted(f[i - 1], ev[i])]

LEMMA CountsOne ==
  ASSUME NEW f, NEW a, NEW ev, Len(ev) \in Nat,
         DOMAIN f = 0 .. Len(ev), f = [i \in 0 .. Len(ev) |-> f[i]], f[0] = a,
         \A i \in 1 .. Len(ev) : f[i] = Counted(f[i - 1], ev[i])
  PROVE  Counts(f, a, ev)
<1>1. \A i \in 0 .. Len(ev) : f[i] = IF i = 0 THEN a ELSE Counted(f[i - 1], ev[i])
  OBVIOUS
<1> QED
  BY <1>1 DEF Counts

LEMMA CountsAt ==
  ASSUME NEW f, NEW a, NEW ev, Len(ev) \in Nat, Counts(f, a, ev)
  PROVE  f[0] = a /\ \A i \in 1 .. Len(ev) : f[i] = Counted(f[i - 1], ev[i])
BY DEF Counts

\* There is one, and only one.
LEMMA CountsExists ==
  ASSUME NEW E, NEW a, NEW ev \in Seq(E)
  PROVE  \E f : Counts(f, a, ev)
<1> DEFINE Pre(f, n) == /\ DOMAIN f = 0 .. n /\ f = [i \in 0 .. n |-> f[i]] /\ f[0] = a
                        /\ \A i \in 1 .. n : f[i] = Counted(f[i - 1], ev[i])
           Bad == {n \in Nat : ~\E f : Pre(f, n)}
<1>1. Bad = {}
  <2>1. SUFFICES ASSUME Bad # {} PROVE FALSE
    OBVIOUS
  <2>2. PICK n \in Bad : \A k \in Bad : n <= k
    BY <2>1, LeastNumber
  <2>3. CASE n = 0
    <3> DEFINE f == [i \in 0 .. 0 |-> a]
    <3>1. Pre(f, 0)
      OBVIOUS
    <3> QED
      BY <2>3, <2>2, <3>1
  <2>4. CASE n # 0
    <3>1. n \in Nat /\ n - 1 \in Nat /\ n - 1 \notin Bad
      BY <2>2, <2>4
    <3>2. PICK f : Pre(f, n - 1)
      BY <3>1
    <3> DEFINE g == [i \in 0 .. n |-> IF i = n THEN Counted(f[n - 1], ev[n]) ELSE f[i]]
    <3>3. DOMAIN g = 0 .. n /\ g = [i \in 0 .. n |-> g[i]] /\ g[0] = a
      BY <3>1, <3>2, <2>4
    <3>4. ASSUME NEW i \in 1 .. n PROVE g[i] = Counted(g[i - 1], ev[i])
      <4>1. g[i - 1] = f[i - 1]
        BY <3>1
      <4>2. CASE i = n
        BY <4>1, <4>2, <3>1
      <4>3. CASE i # n
        <5>1. i \in 1 .. n - 1 /\ g[i] = f[i]
          BY <4>3, <3>1
        <5> QED
          BY <5>1, <4>1, <3>2
      <4> QED
        BY <4>2, <4>3
    <3>5. Pre(g, n)
      BY <3>3, <3>4, Zenon
    <3> QED
      BY <3>5, <2>2
  <2> QED
    BY <2>3, <2>4
<1>2. Len(ev) \in Nat
  OBVIOUS
<1>3. PICK f : Pre(f, Len(ev))
  BY <1>1, <1>2
<1> QED
  BY <1>2, <1>3, CountsOne

LEMMA CountsUnique ==
  ASSUME NEW E, NEW a, NEW ev \in Seq(E), NEW e \in E, NEW f, NEW g,
         Counts(f, a, ev), Counts(g, a, Append(ev, e))
  PROVE  g[Len(ev) + 1] = Counted(f[Len(ev)], e)
<1> DEFINE Bad == {i \in 0 .. Len(ev) : g[i] # f[i]}
<1>q. PICK h : h = Append(ev, e)
  OBVIOUS
<1>0. /\ Len(ev) \in Nat /\ Len(h) = Len(ev) + 1 /\ Len(h) \in Nat
      /\ \A i \in 1 .. Len(ev) : h[i] = ev[i]
      /\ h[Len(ev) + 1] = e
  BY <1>q
<1>r. Counts(g, a, h)
  BY <1>q
<1>1. f[0] = a /\ \A i \in 1 .. Len(ev) : f[i] = Counted(f[i - 1], ev[i])
  BY <1>0, CountsAt
<1>2. g[0] = a /\ \A i \in 1 .. Len(ev) + 1 : g[i] = Counted(g[i - 1], h[i])
  <2>1. g[0] = a /\ \A i \in 1 .. Len(h) : g[i] = Counted(g[i - 1], h[i])
    BY <1>0, <1>r, CountsAt
  <2> QED
    BY <2>1, <1>0
<1>3. Bad = {}
  <2>1. SUFFICES ASSUME Bad # {} PROVE FALSE
    OBVIOUS
  <2>0. Bad \subseteq Nat
    BY <1>0
  <2>2. PICK i \in Bad : \A k \in Bad : i <= k
    <3> HIDE DEF Bad
    <3> QED
      BY <2>0, <2>1, LeastNumber
  <2>3. i \in 0 .. Len(ev) /\ g[i] # f[i] /\ i # 0
    BY <2>2, <1>1, <1>2
  <2>4. i \in 1 .. Len(ev) /\ i - 1 \in 0 .. Len(ev) /\ i - 1 \notin Bad
    BY <2>2, <2>3, <1>0
  <2>5. g[i - 1] = f[i - 1]
    BY <2>4
  <2>6. g[i] = Counted(g[i - 1], ev[i])
    BY <2>4, <1>2, <1>0
  <2> QED
    BY <2>3, <2>4, <2>5, <2>6, <1>1
<1>4. g[Len(ev)] = f[Len(ev)]
  BY <1>3, <1>0
<1>5. Len(ev) + 1 \in 1 .. Len(ev) + 1 /\ (Len(ev) + 1) - 1 = Len(ev)
  BY <1>0
<1> QED
  BY <1>0, <1>2, <1>4, <1>5

LEMMA DrainedIs ==
  ASSUME TrayInv
  PROVE  \E f : Counts(f, tray.active, events) /\ Drained = f[Len(events)]
<1>1. events \in Seq({"Connected", "Disconnected"})
  BY DEF TrayInv
<1>2. \E f : Counts(f, tray.active, events)
  BY <1>1, CountsExists, Zenon
<1> DEFINE f == CHOOSE f : Counts(f, tray.active, events)
<1>3. Counts(f, tray.active, events)
  BY <1>2, Zenon
<1>4. Drained = f[Len(events)]
  BY DEF Drained, Counts
<1> QED
  BY <1>3, <1>4, Zenon

LEMMA DrainedIsNext ==
  ASSUME events' \in Seq({"Connected", "Disconnected"})
  PROVE  \E f : Counts(f, tray'.active, events') /\ Drained' = f[Len(events')]
<1>2. \E f : Counts(f, tray'.active, events')
  BY CountsExists, Zenon
<1> DEFINE f == CHOOSE f : Counts(f, tray'.active, events')
<1>3. Counts(f, tray'.active, events')
  BY <1>2, Zenon
<1>4. Drained' = f[Len(events')]
  BY DEF Drained, Counts
<1> QED
  BY <1>3, <1>4, Zenon

\* Nothing to read, and one more event.
LEMMA DrainedEmpty ==
  ASSUME events' = <<>>
  PROVE  Drained' = tray'.active
<1>1. events' \in Seq({"Connected", "Disconnected"}) /\ Len(events') = 0
  OBVIOUS
<1>2. PICK f : Counts(f, tray'.active, events') /\ Drained' = f[Len(events')]
  BY <1>1, DrainedIsNext
<1>3. f[0] = tray'.active
  BY <1>1, <1>2, CountsAt
<1> QED
  BY <1>1, <1>2, <1>3

LEMMA DrainedAppend ==
  ASSUME TrayInv, NEW e \in {"Connected", "Disconnected"},
         events' = Append(events, e), tray'.active = tray.active
  PROVE  Drained' = Counted(Drained, e)
<1>1. events \in Seq({"Connected", "Disconnected"})
  BY DEF TrayInv
<1>2. events' \in Seq({"Connected", "Disconnected"}) /\ Len(events') = Len(events) + 1
  BY <1>1
<1>3. PICK f : Counts(f, tray.active, events) /\ Drained = f[Len(events)]
  BY DrainedIs
<1>4. PICK g : Counts(g, tray'.active, events') /\ Drained' = g[Len(events')]
  BY <1>2, DrainedIsNext
<1>5. Counts(g, tray.active, Append(events, e))
  BY <1>4, Zenon
<1>6. g[Len(events) + 1] = Counted(f[Len(events)], e)
  BY <1>1, <1>3, <1>5, CountsUnique
<1> QED
  BY <1>2, <1>3, <1>4, <1>6

LEMMA SendStep ==
  ASSUME TrayInv, NEW e \in {"Connected", "Disconnected"}, NEW n \in Nat,
         Send(e), tray' = tray, sessions' = n,
         sessions \in Nat /\ Drained = sessions => Counted(Drained, e) = n
  PROVE  TrayInv'
<1>1. /\ events \in Seq({"Connected", "Disconnected"}) /\ sessions \in Nat
      /\ DOMAIN tray = {"on", "active", "red"}
      /\ ~missed => Drained = sessions
      /\ tray.red = (tray.active > 0)
  BY DEF TrayInv, IconTrue
<1>2. events' \in Seq({"Connected", "Disconnected"})
  <2>1. Append(events, e) \in Seq({"Connected", "Disconnected"})
    BY <1>1
  <2>2. CASE Len(events) = Channel
    <3>1. events # <<>>
      BY <2>2, ChannelAssumption, <1>1
    <3>2. Tail(events) \in Seq({"Connected", "Disconnected"})
      BY <3>1, <1>1
    <3>3. Append(Tail(events), e) \in Seq({"Connected", "Disconnected"})
      BY <3>2
    <3> QED
      BY <3>3, <2>2 DEF Send
  <2>3. CASE Len(events) # Channel
    BY <2>1, <2>3 DEF Send
  <2> QED
    BY <2>2, <2>3
<1>3. ASSUME ~missed' PROVE Drained' = sessions'
  <2>1. ~missed /\ events' = Append(events, e)
    BY <1>3 DEF Send
  <2>2. Drained' = Counted(Drained, e)
    BY <2>1, DrainedAppend
  <2> QED
    BY <2>1, <2>2, <1>1
<1>4. tray'.red = (tray'.active > 0)
  BY <1>1
<1> QED
  BY <1>1, <1>2, <1>3, <1>4 DEF TrayInv, IconTrue

LEMMA TrayStep ==
  ASSUME TrayInv, TrayNext
  PROVE  TrayInv'
<1>1. /\ events \in Seq({"Connected", "Disconnected"}) /\ sessions \in Nat
      /\ DOMAIN tray = {"on", "active", "red"}
      /\ ~missed => Drained = sessions
      /\ tray.red = (tray.active > 0)
  BY DEF TrayInv, IconTrue
<1>2. CASE notify_connection
  <2>1. /\ Send("Connected") /\ tray' = tray /\ sessions' = sessions + 1 /\ sessions + 1 \in Nat
        /\ sessions \in Nat /\ Drained = sessions => Counted(Drained, "Connected") = sessions + 1
    BY <1>1, <1>2 DEF notify_connection, Counted
  <2> QED
    BY <2>1, SendStep
<1>3. CASE notify_disconnect
  <2>1. /\ Send("Disconnected") /\ tray' = tray /\ sessions' = sessions - 1 /\ sessions - 1 \in Nat
        /\ sessions \in Nat /\ Drained = sessions => Counted(Drained, "Disconnected") = sessions - 1
    BY <1>1, <1>3 DEF notify_disconnect, Counted
  <2> QED
    BY <2>1, SendStep
<1>4. CASE subscribe
  <2>1. /\ tray'.active = tray.active /\ tray'.red = tray.red /\ DOMAIN tray' = DOMAIN tray
        /\ events' = events /\ sessions' = sessions /\ missed' = missed
    BY <1>1, <1>4 DEF subscribe
  <2>2. Drained' = Drained
    BY <2>1 DEF Drained
  <2> QED
    BY <1>1, <2>1, <2>2 DEF TrayInv, IconTrue
<1>5. CASE Tick
  <2>1. CASE UNCHANGED <<tray, events>>
    <3>1. Drained' = Drained /\ sessions' = sessions /\ missed' = missed
      BY <1>5, <2>1 DEF Tick, Drained
    <3> QED
      BY <1>1, <2>1, <3>1 DEF TrayInv, IconTrue
  <2>2. CASE events' = <<>> /\ tray' = [tray EXCEPT !.active = Drained,
                        !.red = IF (tray.active > 0) # (Drained > 0) THEN Drained > 0 ELSE @]
    <3> PICK d : d = Drained
      OBVIOUS
    <3>1. /\ tray'.active = d /\ DOMAIN tray' = DOMAIN tray
          /\ tray'.red = IF (tray.active > 0) # (d > 0) THEN d > 0 ELSE tray.red
      BY <1>1, <2>2
    <3>2. Drained' = d
      BY <2>2, <3>1, DrainedEmpty
    <3>3. tray'.red = (tray'.active > 0)
      BY <1>1, <3>1
    <3>4. sessions' = sessions /\ missed' = missed /\ events' \in Seq({"Connected", "Disconnected"})
      BY <1>5, <2>2 DEF Tick
    <3> QED
      BY <1>1, <3>1, <3>2, <3>3, <3>4 DEF TrayInv, IconTrue
  <2> QED
    BY <1>5, <2>1, <2>2 DEF Tick
<1> QED
  BY <1>2, <1>3, <1>4, <1>5 DEF TrayNext

LEMMA TrayUnchanged ==
  ASSUME TrayInv, UNCHANGED trayVars
  PROVE  TrayInv'
BY DEF TrayInv, IconTrue, trayVars, Drained

LEMMA TrayStart ==
  ASSUME TrayInit
  PROVE  TrayInv
<1>1. PICK b \in BOOLEAN : tray = [on |-> b, active |-> 0, red |-> FALSE]
  BY DEF TrayInit
<1>2. events \in Seq({"Connected", "Disconnected"}) /\ Len(events) = 0 /\ sessions = 0
  <2>1. events = <<>> /\ sessions = 0
    BY DEF TrayInit
  <2> QED
    BY <2>1
<1>3. \E f : Counts(f, tray.active, events)
  BY <1>2, CountsExists, Zenon
<1> DEFINE f == CHOOSE f : Counts(f, tray.active, events)
<1>4. Counts(f, tray.active, events)
  BY <1>3, Zenon
<1>5. Drained = f[Len(events)]
  BY DEF Drained, Counts
<1>6. f[0] = tray.active
  <2> HIDE DEF f
  <2> QED
    BY <1>2, <1>4, CountsAt
<1>7. Drained = tray.active
  <2> HIDE DEF f
  <2> QED
    BY <1>2, <1>5, <1>6
<1>8. tray.active = 0 /\ tray.red = FALSE /\ DOMAIN tray = {"on", "active", "red"}
  BY <1>1
<1>9. Drained = sessions /\ sessions \in Nat /\ tray.red = (tray.active > 0)
  <2> HIDE DEF f
  <2>1. Drained = sessions /\ sessions \in Nat
    BY <1>2, <1>7, <1>8
  <2>2. (0 > 0) = FALSE
    OBVIOUS
  <2>4. tray.red = (tray.active > 0)
    BY <2>2, <1>8, Zenon
  <2> QED
    BY <2>1, <2>4
<1> QED
  BY <1>2, <1>8, <1>9, Zenon DEF TrayInv, IconTrue

-----------------------------------------------------------------------------
(* The adverts: no machine goes back. *)

LEMMA AdvertStart ==
  ASSUME AdvertInit
  PROVE  AdvertInv
BY DEF AdvertInit, AdvertInv, Newer, MachineFields, TaskFields, NoBinary, Idle, Resting

LEMMA NewerUnchanged ==
  ASSUME NEW m, machine'[m] = machine[m], task'[m] = task[m], Newer(m)
  PROVE  Newer(m)'
BY DEF Newer

\* One task of one machine goes on.
LEMMA TaskStep ==
  ASSUME AdvertInv, machine' = machine, NEW m \in Machines, NEW t \in Tasks, NEW r,
         task' = [task EXCEPT ![m][t] = r], DOMAIN r = TaskFields,
         r.at \notin Resting => semver_greater(r.want, machine[m].ver)
  PROVE  AdvertInv'
<1>1. /\ DOMAIN machine = Machines /\ DOMAIN task = Machines
      /\ \A n \in Machines : /\ DOMAIN machine[n] = MachineFields /\ DOMAIN task[n] = Tasks
                             /\ \A s \in Tasks : DOMAIN task[n][s] = TaskFields
                             /\ Newer(n)
  BY DEF AdvertInv
<1>2. /\ DOMAIN task' = Machines /\ task'[m] = [task[m] EXCEPT ![t] = r]
      /\ \A n \in Machines \ {m} : task'[n] = task[n]
  BY <1>1
<1>3. /\ DOMAIN task'[m] = Tasks /\ task'[m][t] = r
      /\ \A s \in Tasks \ {t} : task'[m][s] = task[m][s]
  BY <1>1, <1>2
<1>4. Newer(m)'
  BY <1>1, <1>3 DEF Newer
<1>5. \A n \in Machines : Newer(n)'
  BY <1>1, <1>2, <1>4, NewerUnchanged
<1>6. \A n \in Machines : DOMAIN task'[n] = Tasks /\ \A s \in Tasks : DOMAIN task'[n][s] = TaskFields
  BY <1>1, <1>2, <1>3
<1> QED
  BY <1>1, <1>2, <1>5, <1>6 DEF AdvertInv

\* One machine goes on, and perhaps its tasks.
LEMMA MachineStep ==
  ASSUME AdvertInv, NEW m \in Machines, NEW r, NEW k,
         machine' = [machine EXCEPT ![m] = r],
         DOMAIN task' = Machines, task'[m] = k, \A n \in Machines \ {m} : task'[n] = task[n],
         DOMAIN r = MachineFields, DOMAIN k = Tasks, \A t \in Tasks : DOMAIN k[t] = TaskFields,
         r.next # NoBinary /\ r.by \in Tasks => semver_greater(r.next.ver, r.ver),
         \A t \in Tasks : k[t].at \notin Resting => semver_greater(k[t].want, r.ver)
  PROVE  AdvertInv'
<1>1. /\ DOMAIN machine = Machines /\ DOMAIN task = Machines
      /\ \A n \in Machines : /\ DOMAIN machine[n] = MachineFields /\ DOMAIN task[n] = Tasks
                             /\ \A s \in Tasks : DOMAIN task[n][s] = TaskFields
                             /\ Newer(n)
  BY DEF AdvertInv
<1>2. /\ DOMAIN task' = Machines /\ task'[m] = k /\ DOMAIN machine' = Machines /\ machine'[m] = r
      /\ \A n \in Machines \ {m} : task'[n] = task[n] /\ machine'[n] = machine[n]
  BY <1>1
<1>3. Newer(m)'
  BY <1>2 DEF Newer
<1>4. \A n \in Machines : Newer(n)'
  BY <1>1, <1>2, <1>3, NewerUnchanged
<1>5. \A n \in Machines : /\ DOMAIN machine'[n] = MachineFields /\ DOMAIN task'[n] = Tasks
                          /\ \A s \in Tasks : DOMAIN task'[n][s] = TaskFields
  BY <1>1, <1>2
<1> QED
  BY <1>2, <1>4, <1>5 DEF AdvertInv

LEMMA OfferIsNewer ==
  ASSUME NEW s, NEW m, Offer(s, m) # NoVersion
  PROVE  semver_greater(Offer(s, m), machine[m].ver)
BY DEF Offer

\* Nothing but a restart changes what a machine runs.
Same(m) == machine'[m].ver = machine[m].ver
Forward(m) == machine[m].by \in Tasks => semver_greater(machine'[m].ver, machine[m].ver)
StepOK == AdvertInv' /\ \A m \in Machines : Same(m) \/ Forward(m)

LEMMA QuietStep ==
  ASSUME AdvertInv, task' = task, DOMAIN machine' = DOMAIN machine,
         \A m \in Machines : machine'[m] = machine[m]
  PROVE  StepOK
<1>1. AdvertInv'
  <2>1. \A m \in Machines : Newer(m)'
    BY NewerUnchanged DEF AdvertInv
  <2> QED
    BY <2>1 DEF AdvertInv
<1> QED
  BY <1>1 DEF StepOK, Same

LEMMA LoopStep ==
  ASSUME AdvertInv, NEW m \in Machines, NEW s, LoopQuery(m, s)
  PROVE  StepOK
<1>1. PICK r : r = [Idle EXCEPT !.at = "jitter", !.want = Offer(s, m)]
  OBVIOUS
<1>2. DOMAIN r = TaskFields /\ r.want = Offer(s, m)
  BY <1>1 DEF Idle, TaskFields
<1>3. task' = [task EXCEPT ![m]["loop"] = r] /\ machine' = machine /\ Offer(s, m) # NoVersion
  BY <1>1 DEF LoopQuery, Step
<1>4. semver_greater(r.want, machine[m].ver)
  BY <1>2, <1>3, OfferIsNewer
<1>5. AdvertInv'
  BY <1>2, <1>3, <1>4, TaskStep DEF Tasks
<1> QED
  BY <1>3, <1>5 DEF StepOK, Same

LEMMA PullStep ==
  ASSUME AdvertInv, NEW m \in Machines, NEW s, NEW pin, NEW allow, NEW insecure,
         handle_self_update_from_rdv(m, s, pin, allow, insecure)
  PROVE  StepOK
<1>0. machine' = machine
  BY DEF handle_self_update_from_rdv
<1>1. CASE Refused(m, Offer(s, m), pin, allow)
  BY <1>0, <1>1, QuietStep DEF handle_self_update_from_rdv
<1>2. CASE ~Refused(m, Offer(s, m), pin, allow)
  <2>1. PICK r : r = [Idle EXCEPT !.at = "fetch", !.want = Offer(s, m), !.insecure = insecure]
    OBVIOUS
  <2>2. DOMAIN r = TaskFields /\ r.want = Offer(s, m)
    BY <2>1 DEF Idle, TaskFields
  <2>3. task' = [task EXCEPT ![m]["pull"] = r] /\ Offer(s, m) # NoVersion
    BY <1>2, <2>1 DEF handle_self_update_from_rdv, Step, Refused
  <2>4. semver_greater(r.want, machine[m].ver)
    BY <2>2, <2>3, OfferIsNewer
  <2>5. AdvertInv'
    BY <1>0, <2>2, <2>3, <2>4, TaskStep DEF Tasks
  <2> QED
    BY <1>0, <2>5 DEF StepOK, Same
<1> QED
  BY <1>1, <1>2

LEMMA TaskFacts ==
  ASSUME AdvertInv, NEW m \in Machines, NEW t \in Tasks
  PROVE  /\ DOMAIN task[m] = Tasks /\ DOMAIN task[m][t] = TaskFields
         /\ task[m][t].at \notin Resting => semver_greater(task[m][t].want, machine[m].ver)
         /\ DOMAIN machine[m] = MachineFields /\ DOMAIN machine = Machines /\ DOMAIN task = Machines
         /\ Newer(m)
BY DEF AdvertInv, Newer

LEMMA IdleIs == DOMAIN Idle = TaskFields /\ Idle.at = "idle" /\ Idle.at \in Resting
BY DEF Idle, TaskFields, Resting

\* A task goes on with what it wants, or ends.
LEMMA TaskGoesOn ==
  ASSUME AdvertInv, NEW m \in Machines, NEW t \in Tasks, NEW r, machine' = machine,
         task[m][t].at \notin Resting, task' = [task EXCEPT ![m][t] = r],
         \/ r = Idle
         \/ DOMAIN r = TaskFields /\ r.want = task[m][t].want
  PROVE  StepOK
<1>1. AdvertInv'
  BY TaskFacts, IdleIs, TaskStep
<1> QED
  BY <1>1 DEF StepOK, Same

LEMMA JitterStep ==
  ASSUME AdvertInv, NEW m \in Machines, LoopJitter(m)
  PROVE  StepOK
<1>1. PICK k : k = task[m]["loop"]
  OBVIOUS
<1>2. DOMAIN k = TaskFields
  BY <1>1, TaskFacts DEF Tasks
<1>3. PICK r : r = IF machine[m].watch # "clear" THEN Idle ELSE [k EXCEPT !.at = "fetch"]
  OBVIOUS
<1>4. r = Idle \/ (DOMAIN r = TaskFields /\ r.want = k.want)
  BY <1>2, <1>3 DEF TaskFields
<1>5. machine' = machine /\ task' = [task EXCEPT ![m]["loop"] = r] /\ k.at = "jitter"
  BY <1>1, <1>3 DEF LoopJitter, Step, Doing
<1> QED
  BY <1>1, <1>4, <1>5, TaskGoesOn DEF Tasks, Resting

LEMMA FetchStep ==
  ASSUME AdvertInv, NEW m \in Machines, NEW t \in Tasks, NEW s, fetch_binary(m, t, s)
  PROVE  StepOK
<1>1. PICK k : k = task[m][t]
  OBVIOUS
<1>2. DOMAIN k = TaskFields
  BY <1>1, TaskFacts
<1>3. PICK e : e = adverts[s][Key(m)]
  OBVIOUS
<1>4. PICK r : r = IF Served(e, k.want) /\ Verified(e, world.machine[m].key, k.insecure)
                   THEN [k EXCEPT !.at = "swap", !.kind = e.kind, !.want = e.ver] ELSE Idle
  OBVIOUS
<1>5. r = Idle \/ (DOMAIN r = TaskFields /\ r.want = k.want)
  BY <1>2, <1>4 DEF TaskFields, Served
<1>6. machine' = machine /\ task' = [task EXCEPT ![m][t] = r] /\ k.at = "fetch"
  BY <1>1, <1>3, <1>4 DEF fetch_binary, Step, Doing
<1> QED
  BY <1>1, <1>5, <1>6, TaskGoesOn DEF Resting

Taken(m, b, who, r) ==
  /\ machine' = [machine EXCEPT ![m] = r]
  /\ DOMAIN r = MachineFields /\ r.next = b /\ r.by = who
  /\ r.ver = machine[m].ver /\ r.kind = machine[m].kind /\ r.up = machine[m].up
  /\ r.old = Running(m) \/ (r.old = machine[m].next /\ r.old # NoBinary)
\* What handle_self_update and a disarmed watchdog change of a machine.
LEMMA TakenIs ==
  ASSUME NEW m, DOMAIN machine[m] = MachineFields, NEW b, NEW who, handle_self_update(m, b, who)
  PROVE  \E r : Taken(m, b, who, r)
<1>1. PICK x : x = IF machine[m].next = NoBinary THEN Running(m) ELSE machine[m].next
  OBVIOUS
<1>2. PICK w : machine' = [machine EXCEPT ![m] = [@ EXCEPT !.next = b, !.by = who, !.watch = w, !.old = x]]
  BY <1>1 DEF handle_self_update
<1>3. PICK r : r = [machine[m] EXCEPT !.next = b, !.by = who, !.watch = w, !.old = x]
  OBVIOUS
<1>4. machine' = [machine EXCEPT ![m] = r]
  BY <1>2, <1>3
<1>5. /\ DOMAIN r = MachineFields /\ r.next = b /\ r.by = who
      /\ r.ver = machine[m].ver /\ r.kind = machine[m].kind /\ r.up = machine[m].up /\ r.old = x
  BY <1>3 DEF MachineFields
<1> QED
  BY <1>1, <1>4, <1>5 DEF Taken

LEMMA DisarmedIs ==
  ASSUME NEW m, DOMAIN machine[m] = MachineFields, Disarmed(m)
  PROVE  \E r : /\ machine' = [machine EXCEPT ![m] = r]
                /\ DOMAIN r = MachineFields /\ r.next = machine[m].next /\ r.by = machine[m].by
                /\ r.ver = machine[m].ver /\ r.kind = machine[m].kind /\ r.up = machine[m].up
                /\ r.old = NoBinary
<1>1. PICK r : r = [machine[m] EXCEPT !.watch = "clear", !.old = NoBinary]
  OBVIOUS
<1>2. machine' = [machine EXCEPT ![m] = r]
  BY <1>1 DEF Disarmed
<1>3. /\ DOMAIN r = MachineFields /\ r.next = machine[m].next /\ r.by = machine[m].by
      /\ r.ver = machine[m].ver /\ r.kind = machine[m].kind /\ r.up = machine[m].up
      /\ r.old = NoBinary
  BY <1>1 DEF MachineFields
<1> QED
  BY <1>2, <1>3

\* A machine changes, but not what it runs, and one of its tasks may come to rest.
LEMMA OtherStep ==
  ASSUME AdvertInv, NEW m \in Machines, NEW r, NEW k, machine' = [machine EXCEPT ![m] = r],
         DOMAIN task' = Machines, task'[m] = k, \A n \in Machines \ {m} : task'[n] = task[n],
         DOMAIN k = Tasks,
         \A t \in Tasks : k[t] = task[m][t] \/ (DOMAIN k[t] = TaskFields /\ k[t].at \in Resting),
         DOMAIN r = MachineFields, r.ver = machine[m].ver,
         \/ r.next = NoBinary \/ r.by \notin Tasks
         \/ r.next = machine[m].next /\ r.by = machine[m].by
         \/ semver_greater(r.next.ver, r.ver)
  PROVE  StepOK
<1>0. DOMAIN machine = Machines /\ DOMAIN task = Machines /\ Newer(m)
  BY DEF AdvertInv
<1>2. r.next # NoBinary /\ r.by \in Tasks => semver_greater(r.next.ver, r.ver)
  BY <1>0 DEF Newer
<1>3. \A t \in Tasks : DOMAIN k[t] = TaskFields
  BY TaskFacts
<1>4. \A t \in Tasks : k[t].at \notin Resting => semver_greater(k[t].want, r.ver)
  BY TaskFacts
<1>5. AdvertInv'
  BY <1>2, <1>3, <1>4, MachineStep
<1>6. \A n \in Machines : Same(n)
  BY <1>0 DEF Same
<1> QED
  BY <1>5, <1>6 DEF StepOK

\* The same, with no task involved.
LEMMA AloneStep ==
  ASSUME AdvertInv, NEW m \in Machines, NEW r, machine' = [machine EXCEPT ![m] = r], task' = task,
         DOMAIN r = MachineFields, r.ver = machine[m].ver,
         \/ r.next = NoBinary \/ r.by \notin Tasks
         \/ r.next = machine[m].next /\ r.by = machine[m].by
  PROVE  StepOK
<1>1. PICK k : k = task[m]
  OBVIOUS
<1>2. DOMAIN task = Machines /\ DOMAIN k = Tasks
  BY <1>1 DEF AdvertInv
<1> QED
  BY <1>1, <1>2, OtherStep

LEMMA SwapStep ==
  ASSUME AdvertInv, NEW m \in Machines, NEW t \in Tasks, Swap(m, t)
  PROVE  StepOK
<1>0. /\ DOMAIN task[m] = Tasks /\ DOMAIN machine[m] = MachineFields /\ DOMAIN task = Machines
      /\ task[m][t].at \notin Resting => semver_greater(task[m][t].want, machine[m].ver)
  BY TaskFacts
<1>1. PICK q : q = IF t = "loop" THEN [Idle EXCEPT !.at = "over"] ELSE Idle
  OBVIOUS
<1>2. PICK b : b = [ver |-> task[m][t].want, kind |-> task[m][t].kind]
  OBVIOUS
<1>3. /\ task[m][t].at = "swap" /\ task' = [task EXCEPT ![m][t] = q] /\ handle_self_update(m, b, t)
  BY <1>1, <1>2 DEF Swap, Step, Doing
<1>4. DOMAIN q = TaskFields /\ q.at \in Resting
  BY <1>1 DEF Idle, TaskFields, Resting
<1>5. PICK k : k = [task[m] EXCEPT ![t] = q]
  OBVIOUS
<1>6. task' = [task EXCEPT ![m] = k] /\ DOMAIN k = Tasks /\ k[t] = q
      /\ \A s \in Tasks \ {t} : k[s] = task[m][s]
  BY <1>0, <1>3, <1>5
<1>7. semver_greater(b.ver, machine[m].ver)
  BY <1>0, <1>2, <1>3 DEF Resting
<1>8. PICK r : /\ machine' = [machine EXCEPT ![m] = r] /\ DOMAIN r = MachineFields
               /\ r.next = b /\ r.ver = machine[m].ver
  BY <1>0, <1>3, TakenIs DEF Taken
<1>9. \A s \in Tasks : k[s] = task[m][s] \/ (DOMAIN k[s] = TaskFields /\ k[s].at \in Resting)
  BY <1>4, <1>6
<1>10. semver_greater(r.next.ver, r.ver)
  BY <1>7, <1>8
<1>m. DOMAIN task' = Machines /\ task'[m] = k /\ \A n \in Machines \ {m} : task'[n] = task[n]
  BY <1>0, <1>6
<1> QED
  BY <1>6, <1>m, <1>8, <1>9, <1>10, OtherStep

LEMMA RefusedStep ==
  ASSUME AdvertInv, NEW m \in Machines, NEW t \in Tasks, SwapRefused(m, t)
  PROVE  StepOK
<1>0. DOMAIN task[m] = Tasks /\ DOMAIN machine[m] = MachineFields /\ DOMAIN task = Machines
  BY TaskFacts
<1>1. PICK k : k = [task[m] EXCEPT ![t] = Idle]
  OBVIOUS
<1>2. task' = [task EXCEPT ![m] = k] /\ Disarmed(m)
  BY <1>0, <1>1 DEF SwapRefused, Step
<1>3. /\ DOMAIN k = Tasks
      /\ \A s \in Tasks : k[s] = task[m][s] \/ (DOMAIN k[s] = TaskFields /\ k[s].at \in Resting)
  BY <1>0, <1>1, IdleIs
<1>4. PICK r : /\ machine' = [machine EXCEPT ![m] = r] /\ DOMAIN r = MachineFields
               /\ r.next = machine[m].next /\ r.by = machine[m].by /\ r.ver = machine[m].ver
  BY <1>0, <1>2, DisarmedIs
<1>m. DOMAIN task' = Machines /\ task'[m] = k /\ \A n \in Machines \ {m} : task'[n] = task[n]
  BY <1>0, <1>2
<1>5. \A s \in Tasks : k[s] = task[m][s] \/ (DOMAIN k[s] = TaskFields /\ k[s].at \in Resting)
  BY <1>3
<1>6. /\ machine' = [machine EXCEPT ![m] = r] /\ DOMAIN r = MachineFields /\ r.ver = machine[m].ver
      /\ \/ r.next = NoBinary \/ r.by \notin Tasks
         \/ r.next = machine[m].next /\ r.by = machine[m].by
         \/ semver_greater(r.next.ver, r.ver)
  BY <1>4
<1> QED
  BY <1>m, <1>3, <1>5, <1>6, OtherStep, ZenonT(30)

LEMMA RestartStep ==
  ASSUME AdvertInv, NEW m \in Machines, Restart(m)
  PROVE  StepOK
<1>0. /\ DOMAIN machine[m] = MachineFields /\ DOMAIN machine = Machines /\ Newer(m)
  BY DEF AdvertInv
<1>1. PICK k : k = [t \in Tasks |-> Idle]
  OBVIOUS
<1>b. PICK b : b = machine[m].next
  OBVIOUS
<1>u. PICK u : u = Fits(b.kind, world.machine[m].os)
  OBVIOUS
<1>w. PICK w : w = IF machine[m].watch = "clear" THEN "clear" ELSE "probing"
  OBVIOUS
<1>2. PICK r : r = [machine[m] EXCEPT !.ver = b.ver, !.kind = b.kind, !.next = NoBinary, !.up = u,
                                      !.watch = w]
  OBVIOUS
<1>e. machine' = [machine EXCEPT ![m] = [@ EXCEPT !.ver = b.ver, !.kind = b.kind, !.next = NoBinary,
                                                  !.up = u, !.watch = w]]
  BY <1>b, <1>u, <1>w DEF Restart
<1>3. machine' = [machine EXCEPT ![m] = r] /\ task' = [task EXCEPT ![m] = k] /\ machine[m].next # NoBinary
  <2>1. machine' = [machine EXCEPT ![m] = r]
    BY <1>e, <1>2
  <2>2. task' = [task EXCEPT ![m] = k] /\ machine[m].next # NoBinary
    BY <1>1 DEF Restart
  <2> QED
    BY <2>1, <2>2
<1>4. DOMAIN r = MachineFields /\ r.next = NoBinary /\ r.ver = machine[m].next.ver
  BY <1>0, <1>b, <1>2 DEF MachineFields
<1>5. /\ DOMAIN k = Tasks /\ \A s \in Tasks : DOMAIN k[s] = TaskFields /\ k[s].at \in Resting
  BY <1>1, IdleIs
<1>m. DOMAIN task' = Machines /\ task'[m] = k /\ \A n \in Machines \ {m} : task'[n] = task[n]
  <2>1. DOMAIN task = Machines
    BY DEF AdvertInv
  <2> QED
    BY <1>3, <2>1
<1>6. /\ r.next # NoBinary /\ r.by \in Tasks => semver_greater(r.next.ver, r.ver)
      /\ \A s \in Tasks : DOMAIN k[s] = TaskFields
      /\ \A s \in Tasks : k[s].at \notin Resting => semver_greater(k[s].want, r.ver)
  BY <1>4, <1>5
<1>7. AdvertInv'
  BY <1>3, <1>4, <1>5, <1>6, <1>m, MachineStep
<1>8. \A n \in Machines \ {m} : Same(n)
  BY <1>0, <1>3 DEF Same
<1>9. Forward(m)
  <2>1. machine'[m].ver = machine[m].next.ver
    BY <1>0, <1>3, <1>4
  <2> QED
    BY <1>0, <1>3, <2>1 DEF Forward, Newer
<1> QED
  BY <1>7, <1>8, <1>9 DEF StepOK

LEMMA AdvertStep ==
  ASSUME AdvertInv, AdvertNext
  PROVE  StepOK
<1>1. CASE publish_version \/ PublishTold
  BY <1>1, QuietStep DEF publish_version, PublishTold
<1>2. ASSUME NEW n, handle_publish_version(n) \/ PublishLost(n) PROVE StepOK
  BY <1>2, QuietStep DEF handle_publish_version, PublishLost
<1>3. ASSUME NEW s, RdvRestart(s) PROVE StepOK
  BY <1>3, QuietStep DEF RdvRestart
<1>4. ASSUME NEW m \in Machines,
             \/ MachineSteps(m) \/ Pull(m) \/ SwapFails(m)
             \/ \E t \in Tasks : FetchFails(m, t) \/ SwapRefused(m, t)
      PROVE  StepOK
  <2>0. DOMAIN machine[m] = MachineFields
    BY DEF AdvertInv
  <2>1. CASE MachineSteps(m)
    <3>1. CASE Disarmed(m) /\ task' = task
      <4>1. PICK r : /\ machine' = [machine EXCEPT ![m] = r] /\ DOMAIN r = MachineFields
                     /\ r.next = machine[m].next /\ r.by = machine[m].by /\ r.ver = machine[m].ver
        BY <2>0, <3>1, DisarmedIs
      <4> QED
        BY <3>1, <4>1, AloneStep
    <3>2. CASE Rollback(m) /\ ~Disarmed(m)
      <4>1. PICK r : r = [machine[m] EXCEPT !.watch = "clear", !.next = machine[m].old,
                                            !.old = NoBinary, !.by = "rollback"]
        OBVIOUS
      <4>2. DOMAIN r = MachineFields /\ r.ver = machine[m].ver /\ r.by \notin Tasks
        BY <2>0, <4>1 DEF MachineFields, Tasks
      <4>3. task' = task /\ machine' = [machine EXCEPT ![m] = r]
        BY <3>2, <4>1 DEF Rollback
      <4> QED
        BY <4>2, <4>3, AloneStep
    <3>3. CASE WatchdogClears(m)
      BY <3>1, <3>3 DEF WatchdogClears
    <3>4. CASE Rollback(m)
      BY <3>1, <3>2, <3>4 DEF Rollback
    <3> QED
      BY <2>1, <3>3, <3>4, JitterStep, FetchStep, SwapStep, RestartStep DEF MachineSteps
  <2>2. CASE Pull(m)
    BY <2>2, PullStep DEF Pull
  <2>3. CASE SwapFails(m)
    <3>1. PICK b : /\ machine' = [machine EXCEPT ![m] = [@ EXCEPT !.next = b, !.by = "none"]]
                   /\ task' = task
      BY <2>3 DEF SwapFails
    <3>2. PICK r : r = [machine[m] EXCEPT !.next = b, !.by = "none"]
      OBVIOUS
    <3>3. DOMAIN r = MachineFields /\ r.ver = machine[m].ver /\ r.by \notin Tasks
      BY <2>0, <3>2 DEF MachineFields, Tasks
    <3>4. machine' = [machine EXCEPT ![m] = r]
      BY <3>1, <3>2
    <3> QED
      BY <3>1, <3>3, <3>4, AloneStep
  <2>4. ASSUME NEW t \in Tasks, FetchFails(m, t) PROVE StepOK
    <3>1. machine' = machine /\ task[m][t].at = "fetch" /\ task' = [task EXCEPT ![m][t] = Idle]
      BY <2>4 DEF FetchFails, Doing, Step
    <3> QED
      BY <3>1, TaskGoesOn DEF Resting
  <2> QED
    BY <1>4, <2>1, <2>2, <2>3, <2>4, RefusedStep
<1> QED
  BY <1>1, <1>2, <1>3, <1>4, LoopStep DEF AdvertNext

\* What the operator's command changes of a machine is not a task's.
Operated(m) ==
  \E r : /\ machine' = [machine EXCEPT ![m] = r]
         /\ DOMAIN r = MachineFields /\ r.ver = machine[m].ver
         /\ r.by \notin Tasks \/ (r.next = machine[m].next /\ r.by = machine[m].by)

LEMMA PushedStep ==
  ASSUME AdvertInv, task' = task, NEW m,
         m \in Machines => Operated(m),
         m \notin Machines => \E x : machine' = [machine EXCEPT ![m] = x]
  PROVE  StepOK
<1>1. CASE m \in Machines
  <2>1. PICK r : /\ machine' = [machine EXCEPT ![m] = r]
                 /\ DOMAIN r = MachineFields /\ r.ver = machine[m].ver
                 /\ r.by \notin Tasks \/ (r.next = machine[m].next /\ r.by = machine[m].by)
    BY <1>1 DEF Operated
  <2> QED
    BY <1>1, <2>1, AloneStep
<1>2. CASE m \notin Machines
  <2>1. DOMAIN machine = Machines
    BY DEF AdvertInv
  <2>2. DOMAIN machine' = DOMAIN machine /\ \A n \in Machines : machine'[n] = machine[n]
    BY <1>2, <2>1
  <2> QED
    BY <2>2, QuietStep
<1> QED
  BY <1>1, <1>2

LEMMA FleetAdvertStep ==
  ASSUME AdvertInv, FleetNext
  PROVE  StepOK
<1>0. \A m \in Machines : DOMAIN machine[m] = MachineFields
  BY DEF AdvertInv
<1>1. CASE machine' = machine /\ task' = task
  BY <1>1, QuietStep
<1>2. CASE UpdateStep /\ machine' # machine
  <2>1. PICK m : m = op.via
    OBVIOUS
  <2>2. task' = task
    BY <1>2 DEF UpdateStep, SelfUpdate, SelfUpdateFails, QuicUpdate
  <2>3. CASE handle_self_update(m, Pushed, "push")
    <3>1. m \in Machines => Operated(m)
      BY <1>0, <2>3, TakenIs DEF Taken, Operated, Tasks
    <3>2. \E x : machine' = [machine EXCEPT ![m] = x]
      BY <2>3 DEF handle_self_update
    <3> QED
      BY <2>2, <3>1, <3>2, PushedStep
  <2>4. CASE Disarmed(m)
    <3>1. m \in Machines => Operated(m)
      BY <1>0, <2>4, DisarmedIs DEF Operated
    <3>2. \E x : machine' = [machine EXCEPT ![m] = x]
      BY <2>4 DEF Disarmed
    <3> QED
      BY <2>2, <3>1, <3>2, PushedStep
  <2>5. CASE Schtask(m)
    <3>1. PICK b : machine' = [machine EXCEPT ![m] = [@ EXCEPT !.next = b, !.by = "schtask"]]
      BY <2>5 DEF Schtask
    <3>2. PICK r : r = [machine[m] EXCEPT !.next = b, !.by = "schtask"]
      OBVIOUS
    <3>3. machine' = [machine EXCEPT ![m] = r]
      BY <3>1, <3>2
    <3>4. m \in Machines => DOMAIN r = MachineFields /\ r.ver = machine[m].ver /\ r.by \notin Tasks
      BY <1>0, <3>2 DEF MachineFields, Tasks
    <3> QED
      BY <2>2, <3>3, <3>4, PushedStep DEF Operated
  <2> QED
    BY <1>2, <2>1, <2>3, <2>4, <2>5 DEF UpdateStep, SelfUpdate, SelfUpdateFails, QuicUpdate
<1>3. CASE UpdateStep /\ machine' = machine
  BY <1>1, <1>3 DEF UpdateStep, SelfUpdate, SelfUpdateFails, QuicUpdate
<1>4. CASE UNCHANGED advertVars
  BY <1>1, <1>4 DEF advertVars
<1> QED
  BY <1>2, <1>3, <1>4, AdvertStep DEF FleetNext

-----------------------------------------------------------------------------
(* The fleet command: what its rows, plans and results say of the machines. *)

RowFields == {"name", "at", "id", "hint", "inConf", "online", "ver", "caps", "rdv", "fresh"}
OpFields == {"at", "rows", "unprobed", "i", "plans", "via", "polls", "saw", "results", "exit"}
IsSeq(s) == \E S : s \in Seq(S)

Odd(m) == world.machine[m].os \in Apart
Suits(kind, m) == Fits(kind, world.machine[m].os) \/ Odd(m)
\* Nothing but the operator changes what runs on m.
Left(m) == ~ByItself(m)
SentTo == {s.to : s \in sent}
Expected(m, v) ==
  v # NoVersion /\ (Left(m) => v = world.machine[m].ver \/ (v = Target /\ m \in SentTo))
\* A binary m may come to run.
Binary(m, b) == b # NoBinary => Expected(m, b.ver) /\ (Orderly => Suits(b.kind, m))

OfferFits(kind, plat) ==
  \A os \in OsKind \ {"linux-aarch64"} : plat = canonical_build_platform(os) => Fits(kind, os)
OffersTrue == \A s \in Range(RdvServers), k \in Keys :
  adverts[s][k].kind # "none" => OfferFits(adverts[s][k].kind, k[1])
TaskTrue(m, t) ==
  /\ task[m][t].at \notin Resting => task[m][t].want # NoVersion /\ ~Left(m)
  /\ TruePlatforms /\ task[m][t].at = "swap" => Suits(task[m][t].kind, m)
MachineGood(m, r) ==
  /\ Expected(m, r.ver) /\ Binary(m, r.next) /\ Binary(m, r.old)
  /\ r.up => Fits(r.kind, world.machine[m].os)
  /\ Orderly => r.up \/ Odd(m)
MachineTrue(m) == MachineGood(m, machine[m])
Machinery ==
  /\ world \in AdvertWorlds /\ DOMAIN spent = {"restarts", "pulls", "lost"} /\ spent.pulls \in Nat
  /\ DOMAIN adverts = Range(RdvServers) /\ \A s \in Range(RdvServers) : DOMAIN adverts[s] = Keys
  /\ TruePlatforms => OffersTrue
  /\ \A m \in Machines : MachineTrue(m) /\ \A t \in Tasks : TaskTrue(m, t)

\* What x says of itself while it runs a binary of that kind.
CapsOf(x, kind) ==
  (IF kind = "windows" THEN {"window"} ELSE IF world.machine[x].legacy THEN {} ELSE {"linux", kind})
  \cup {"system"} \cup (IF world.machine[x].cap THEN {"self-update"} ELSE {})
SaidBy(x, kind, caps) == Fits(kind, world.machine[x].os) /\ caps = CapsOf(x, kind)

\* What a probe wrote into a row is true of one of the machines the row leads to, and an update
\* is planned for a row that stands for it.
RowTrue(r) ==
  /\ DOMAIN r = RowFields /\ Reaches(r) \subseteq Machines
  /\ r.ver # NoVersion => \E x \in Reaches(r) : Expected(x, r.ver) /\ \E kind : SaidBy(x, kind, r.caps)
HintTrue(r) ==
  r.hint # "none" => \E k \in 1 .. Len(conf) : conf[k].hint = r.hint /\ Reaches(conf[k]) = Reaches(r)
PlanTrue(p) == \E k \in 1 .. Len(op.rows) :
  Acts(op.rows[k]) /\ p = [name |-> op.rows[k].name, os |-> classify_os(op.rows[k])]
Updating == op.at \in {"update", "pushed", "pushedQuic", "verify", "verifyQuic"}
Planning == op.at \in {"start", "probing", "again"}
ResultTrue(r) ==
  /\ DOMAIN r = {"name", "to", "success", "old", "new"}
  /\ r.success => r.to # Nobody /\ r.new # NoVersion /\ (r.new # r.old /\ Left(r.to) => r.new = Target)
SentTrue(s) ==
  /\ \E j \in 1 .. Len(op.plans) : op.plans[j].name = s.row
  /\ Orderly => LET w == world.machine[s.to]
                IN  \/ Fits(s.kind, w.os)
                    \/ w.os = "linux-musl" /\ s.kind = "linux" /\ "linux-musl" \notin job.bins
                    \/ w.os \in Apart /\ w.legacy
RowsTrue ==
  /\ IsSeq(op.rows) /\ IsSeq(conf)
  /\ \A k \in 1 .. Len(op.rows) : RowTrue(op.rows[k]) /\ HintTrue(op.rows[k])
  /\ op.at = "start" => op.rows = <<>> /\ conf = job.conf
  /\ op.at \in {"probing", "again"} => job.cmd \in {"status", "update", "drift"}
  /\ op.at = "again" => job.cmd = "update"
  /\ op.at = "drift" => job.cmd = "drift"
  /\ Planning => sent = {} /\ op.results = <<>> /\ op.i = 1 /\ op.via = Nobody /\ ~op.saw.online
UpdateTrue ==
  /\ job.cmd = "update" /\ ~job.dry /\ op.i = Len(op.results) + 1 /\ op.i <= Len(op.plans) + 1
  /\ \A j \in 1 .. Len(op.plans) : PlanTrue(op.plans[j])
  /\ op.saw.online => op.at = "verify" /\ (Orderly => op.saw.ver = TheRow.ver)
  /\ op.at \in {"pushed", "pushedQuic", "verify", "verifyQuic"} =>
       op.i <= Len(op.plans) /\ op.via \in Machines \ {Nobody} /\ (Orderly => op.via \in Reaches(TheRow))
  /\ op.at \in {"pushed", "pushedQuic"} =>
       [to |-> op.via, kind |-> pick(ThePlan.os), row |-> ThePlan.name] \in sent
FleetInv ==
  /\ job \in FleetJobs /\ DOMAIN op = OpFields /\ DOMAIN op.saw = {"online", "ver"} /\ IsSeq(op.plans)
  /\ RowsTrue
  /\ Updating => UpdateTrue
  /\ job.dry \/ job.cmd # "update" => sent = {}
  /\ \A s \in sent : SentTrue(s)
  /\ job.cmd = "update" => /\ IsSeq(op.results)
                           /\ Orderly => \A j \in 1 .. Len(op.results) : ResultTrue(op.results[j])
  /\ (job.cmd = "update" /\ op.at = "done" /\ op.exit = "ok" /\ ~job.dry) =>
       Len(op.results) = Len(op.plans)

-----------------------------------------------------------------------------
(* Sequences. *)

LEMMA SeqFacts ==
  ASSUME NEW s, IsSeq(s)
  PROVE  /\ Len(s) \in Nat /\ DOMAIN s = 1 .. Len(s)
         /\ \A e : IsSeq(Append(s, e)) /\ Len(Append(s, e)) = Len(s) + 1
                   /\ Append(s, e)[Len(s) + 1] = e
                   /\ \A i \in 1 .. Len(s) : Append(s, e)[i] = s[i]
<1>1. PICK S : s \in Seq(S)
  BY DEF IsSeq
<1>2. Len(s) \in Nat /\ DOMAIN s = 1 .. Len(s)
  BY <1>1
<1>3. ASSUME NEW e
      PROVE /\ IsSeq(Append(s, e)) /\ Len(Append(s, e)) = Len(s) + 1
            /\ Append(s, e)[Len(s) + 1] = e
            /\ \A i \in 1 .. Len(s) : Append(s, e)[i] = s[i]
  <2>1. s \in Seq(S \cup {e}) /\ e \in S \cup {e}
    BY <1>1
  <2>2. Append(s, e) \in Seq(S \cup {e})
    BY <2>1
  <2> QED
    BY <2>1, <2>2 DEF IsSeq
<1> QED
  BY <1>2, <1>3

LEMMA SeqExcept ==
  ASSUME NEW s, IsSeq(s), NEW i \in 1 .. Len(s), NEW e, NEW t, t = [s EXCEPT ![i] = e]
  PROVE  /\ IsSeq(t) /\ Len(t) = Len(s) /\ t[i] = e
         /\ \A j \in 1 .. Len(s) \ {i} : t[j] = s[j]
<1>1. PICK S : s \in Seq(S)
  BY DEF IsSeq
<1>2. s \in Seq(S \cup {e}) /\ e \in S \cup {e}
  BY <1>1
<1>3. t \in Seq(S \cup {e}) /\ Len(t) = Len(s)
  BY <1>2
<1> QED
  BY <1>1, <1>3 DEF IsSeq

\* A recursive function, one element after the other, from its equations.
LEMMA PlansAre ==
  ASSUME NEW rows, Len(rows) \in Nat
  PROVE  /\ IsSeq(plan_fleet_update(rows))
         /\ \A j \in 1 .. Len(plan_fleet_update(rows)) : \E k \in 1 .. Len(rows) :
              /\ Acts(rows[k])
              /\ plan_fleet_update(rows)[j] = [name |-> rows[k].name, os |-> classify_os(rows[k])]
<1> DEFINE n == Len(rows)
           Planned(i) == [name |-> rows[i].name, os |-> classify_os(rows[i])]
           Next1(s, i) == IF Acts(rows[i]) THEN Append(s, Planned(i)) ELSE s
           Def(f) == f = [i \in 0 .. n |-> IF i = 0 THEN <<>>
                                           ELSE IF Acts(rows[i]) THEN Append(f[i - 1], Planned(i)) ELSE f[i - 1]]
           Pre(f, m) == /\ DOMAIN f = 0 .. m /\ f = [i \in 0 .. m |-> f[i]] /\ f[0] = <<>>
                        /\ \A i \in 1 .. m : f[i] = Next1(f[i - 1], i)
           Lacks == {m \in Nat : ~\E f : Pre(f, m)}
<1>1. Lacks = {}
  <2>1. SUFFICES ASSUME Lacks # {} PROVE FALSE
    OBVIOUS
  <2>2. PICK m \in Lacks : \A k \in Lacks : m <= k
    BY <2>1, LeastNumber
  <2>3. CASE m = 0
    <3> DEFINE f == [i \in 0 .. 0 |-> <<>>]
    <3>1. Pre(f, 0)
      OBVIOUS
    <3> QED
      BY <2>3, <2>2, <3>1
  <2>4. CASE m # 0
    <3>1. m \in Nat /\ m - 1 \in Nat /\ m - 1 \notin Lacks
      BY <2>2, <2>4
    <3>2. PICK f : Pre(f, m - 1)
      BY <3>1
    <3> DEFINE g == [i \in 0 .. m |-> IF i = m THEN Next1(f[m - 1], m) ELSE f[i]]
    <3>3. DOMAIN g = 0 .. m /\ g = [i \in 0 .. m |-> g[i]] /\ g[0] = <<>>
      BY <3>1, <3>2, <2>4
    <3>4. ASSUME NEW i \in 1 .. m PROVE g[i] = Next1(g[i - 1], i)
      <4> HIDE DEF Next1
      <4>1. g[i - 1] = f[i - 1]
        BY <3>1
      <4>2. CASE i = m
        BY <4>1, <4>2, <3>1
      <4>3. CASE i # m
        <5>1. i \in 1 .. m - 1 /\ g[i] = f[i]
          BY <4>3, <3>1
        <5> QED
          BY <5>1, <4>1, <3>2
      <4> QED
        BY <4>2, <4>3
    <3>5. Pre(g, m)
      BY <3>3, <3>4, Zenon
    <3> QED
      BY <3>5, <2>2
  <2> QED
    BY <2>3, <2>4
<1>2. PICK f : Pre(f, n)
  BY <1>1
<1>3. Def(f)
  <2>1. \A i \in 0 .. n : f[i] = IF i = 0 THEN <<>> ELSE Next1(f[i - 1], i)
    <3> HIDE DEF Next1
    <3>1. f[0] = <<>> /\ \A i \in 1 .. n : f[i] = Next1(f[i - 1], i)
      BY <1>2, Zenon
    <3> QED
      BY <3>1
  <2>2. f = [i \in 0 .. n |-> IF i = 0 THEN <<>> ELSE Next1(f[i - 1], i)]
    <3> HIDE DEF Next1
    <3> QED
      BY <2>1, <1>2
  <2> QED
    BY <2>2, Zenon
<1> DEFINE g == CHOOSE h : Def(h)
<1>4. Def(g)
  BY <1>3, Zenon
<1>5. plan_fleet_update(rows) = g[n]
  BY Zenon DEF plan_fleet_update
<1> HIDE DEF g
<1>6. g[0] = <<>> /\ \A i \in 1 .. n : g[i] = Next1(g[i - 1], i)
  <2>1. \A i \in 0 .. n : g[i] = IF i = 0 THEN <<>> ELSE Next1(g[i - 1], i)
    BY <1>4, Zenon
  <2> HIDE DEF Next1
  <2> QED
    BY <2>1
<1> DEFINE Good(s) == IsSeq(s) /\ \A j \in 1 .. Len(s) : \E k \in 1 .. n : Acts(rows[k]) /\ s[j] = Planned(k)
           Bad == {i \in 0 .. n : ~Good(g[i])}
<1>7. Good(<<>>)
  <2>1. <<>> \in Seq({}) /\ Len(<<>>) = 0
    OBVIOUS
  <2> QED
    BY <2>1 DEF IsSeq
<1>8. ASSUME NEW s, Good(s), NEW i \in 1 .. n PROVE Good(Next1(s, i))
  <2>1. CASE ~Acts(rows[i])
    BY <2>1, <1>8
  <2>2. CASE Acts(rows[i])
    <3> DEFINE e == Planned(i)
    <3> PICK t : t = Append(s, e)
      OBVIOUS
    <3> HIDE DEF Planned
    <3>1. /\ IsSeq(t) /\ Len(s) \in Nat /\ Len(t) = Len(s) + 1 /\ t[Len(s) + 1] = e
          /\ \A j \in 1 .. Len(s) : t[j] = s[j]
      BY <1>8, SeqFacts
    <3>2. \A j \in 1 .. Len(t) : \E k \in 1 .. n : Acts(rows[k]) /\ t[j] = Planned(k)
      BY <3>1, <2>2, <1>8
    <3> QED
      BY <3>1, <3>2, <2>2
  <2> QED
    BY <2>1, <2>2
<1>9. Bad = {}
  <2> HIDE DEF Good, Next1
  <2>1. SUFFICES ASSUME Bad # {} PROVE FALSE
    OBVIOUS
  <2>0. Bad \subseteq Nat
    OBVIOUS
  <2>2. PICK i \in Bad : \A k \in Bad : i <= k
    <3> HIDE DEF Bad
    <3> QED
      BY <2>0, <2>1, LeastNumber
  <2>3. i \in 1 .. n /\ i - 1 \in 0 .. n
    BY <2>2, <1>6, <1>7
  <2>4. Good(g[i - 1])
    BY <2>2, <2>3
  <2>5. Good(g[i])
    BY <2>3, <2>4, <1>6, <1>8
  <2> QED
    BY <2>5, <2>2
<1>10. n \in 0 .. n
  OBVIOUS
<1>11. Good(g[n])
  <2> HIDE DEF Good
  <2> QED
    BY <1>9, <1>10
<1> QED
  BY <1>5, <1>11, Zenon

\* SetToSeq of a finite set lists its elements.
LEMMA ListedOnce ==
  ASSUME NEW S, IsFiniteSet(S)
  PROVE  SetToSeq(S) \in Seq(S)
<1> DEFINE n == Cardinality(S)
<1>1. n \in Nat /\ ExistsBijection(1 .. n, S)
  BY FS_CardinalityType
<1>2. \E f \in [1 .. n -> S] : IsInjective(f)
  BY <1>1 DEF ExistsBijection, Bijection, Injection, IsInjective
<1>3. SetToSeq(S) \in [1 .. n -> S]
  BY <1>2, Zenon DEF SetToSeq
<1> QED
  BY <1>1, <1>3

LEMMA AtMostOne ==
  ASSUME NEW S, IsFiniteSet(S), Cardinality(S) <= 1, NEW x \in S, NEW y \in S
  PROVE  x = y
<1>1. Cardinality(S) \in Nat /\ Cardinality(S) # 0
  BY FS_CardinalityType, FS_EmptySet
<1>2. Cardinality(S) = 1
  BY <1>1
<1>3. PICK z : S = {z}
  BY <1>2, FS_Singleton
<1> QED
  BY <1>3

LEMMA OneMachine ==
  ASSUME Orderly, NEW k \in 1 .. Len(op.rows), NEW x \in Reaches(op.rows[k]), NEW y \in Reaches(op.rows[k])
  PROVE  x = y
<1>1. Cardinality(Reaches(op.rows[k])) <= 1
  BY DEF Orderly, OwnAddresses
<1>2. IsFiniteSet({op.rows[k].at} \cup {op.rows[k].id})
  <2>1. IsFiniteSet({op.rows[k].at})
    BY FS_Singleton, Zenon
  <2> QED
    BY <2>1, FS_AddElement, Zenon
<1>3. Reaches(op.rows[k]) \in SUBSET ({op.rows[k].at} \cup {op.rows[k].id})
  BY DEF Reaches
<1>4. IsFiniteSet(Reaches(op.rows[k]))
  BY <1>2, <1>3, FS_Subset
<1> QED
  BY <1>1, <1>4, AtMostOne

\* The row that is looked up by a name: one that has it.
LEMMA LookedUp ==
  ASSUME Len(op.rows) \in Nat, NEW k \in 1 .. Len(op.rows), NEW name, op.rows[k].name = name
  PROVE  /\ \E i \in 1 .. Len(op.rows) : status_by_name(name) = op.rows[i] /\ op.rows[i].name = name
         /\ Orderly => status_by_name(name) = op.rows[k]
<1> DEFINE n == Len(op.rows)
           IsLast(i) == op.rows[i].name = name /\ \A j \in i + 1 .. n : op.rows[j].name # name
           D == {d \in 0 .. n : op.rows[n - d].name = name /\ n - d \in 1 .. n}
<1>1. n - k \in D /\ D \subseteq Nat
  OBVIOUS
<1>2. PICK d \in D : \A e \in D : d <= e
  <2> HIDE DEF D
  <2> QED
    BY <1>1, LeastNumber
<1>3. n - d \in 1 .. n /\ op.rows[n - d].name = name
  BY <1>2
<1>4. ASSUME NEW j \in n - d + 1 .. n PROVE op.rows[j].name # name
  <2>0. n \in Nat /\ d \in 0 .. n /\ n - d \in 1 .. n
    BY <1>2
  <2>1. n - j \in 0 .. n /\ n - (n - j) = j /\ j \in 1 .. n /\ ~(d <= n - j)
    <3> HIDE DEF n, D
    <3> QED
      BY <2>0
  <2>2. n - j \notin D
    <3> HIDE DEF D
    <3> QED
      BY <2>1, <1>2
  <2> QED
    BY <2>1, <2>2
<1>5. \E i \in 1 .. n : IsLast(i)
  BY <1>3, <1>4
<1> DEFINE c == CHOOSE i \in 1 .. n : IsLast(i)
<1>6. c \in 1 .. n /\ IsLast(c)
  BY <1>5, Zenon
<1>7. status_by_name(name) = op.rows[c]
  BY Zenon DEF status_by_name
<1> HIDE DEF c
<1>8. Orderly => c = k
  BY <1>6 DEF Orderly, DistinctNames
<1> QED
  BY <1>6, <1>7, <1>8

\* A binary chosen by a true hint or by true capabilities.
LEMMA RightChoice ==
  ASSUME NEW r, NEW m, world.machine[m].os \in OsKind, Acts(r),
         r.hint # "none" => r.hint = world.machine[m].os,
         NEW said, SaidBy(m, said, r.caps)
  PROVE  LET w == world.machine[m]
             kind == pick(classify_os(r))
         IN  \/ Fits(kind, w.os)
             \/ w.os = "linux-musl" /\ kind = "linux" /\ "linux-musl" \notin job.bins
             \/ w.os \in Apart /\ w.legacy
<1> PICK w : w = world.machine[m]
  OBVIOUS
<1> PICK c : c = classify_os(r)
  OBVIOUS
<1>1. pick(c) # "none"
  BY DEF Acts
<1>2. pick(c) = c \/ (c = "linux-musl" /\ pick(c) = "linux" /\ "linux-musl" \notin job.bins)
  BY <1>1 DEF pick, load_optional_binary
<1>k. said = w.os \/ (said = "linux-musl" /\ w.os = "linux")
  BY DEF SaidBy, Fits
<1>3. c = w.os \/ (w.os \in Apart /\ w.legacy) \/ (w.os = "linux" /\ c = "linux-musl")
  <2>1. CASE r.hint # "none"
    BY <2>1 DEF classify_os
  <2>2. CASE r.hint = "none"
    <3> DEFINE own == IF said = "windows" THEN {"window"} ELSE IF w.legacy THEN {} ELSE {"linux", said}
    <3>1. /\ r.caps = own \cup {"system"} \cup (IF w.cap THEN {"self-update"} ELSE {})
      BY DEF SaidBy, CapsOf
    <3>2. c = IF "linux-aarch64" \in r.caps THEN "linux-aarch64"
              ELSE IF "linux-musl" \in r.caps THEN "linux-musl"
              ELSE IF "linux" \in r.caps \/ (r.caps # {} /\ r.caps \cap WindowsOnly = {}) THEN "linux"
              ELSE "windows"
      BY <2>2 DEF classify_os
    <3>3. CASE said = "windows"
      <4>1. c = "windows"
        BY <3>1, <3>2, <3>3 DEF WindowsOnly
      <4> QED
        BY <4>1, <3>3, <1>k
    <3>4. CASE said # "windows" /\ w.legacy
      <4>1. c = "linux"
        BY <3>1, <3>2, <3>4 DEF WindowsOnly
      <4> QED
        BY <4>1, <3>4, <1>k DEF OsKind, Apart
    <3>5. CASE said # "windows" /\ ~w.legacy
      <4>1. said \in OsKind
        BY <1>k DEF OsKind
      <4>2. c = said
        BY <4>1, <3>1, <3>2, <3>5 DEF OsKind, WindowsOnly
      <4> QED
        BY <4>2, <1>k
    <3> QED
      BY <3>3, <3>4, <3>5
  <2> QED
    BY <2>1, <2>2
<1>7. CASE w.os = "linux" /\ c = "linux-musl"
  BY <1>2, <1>7 DEF Fits
<1>4. CASE w.os \in Apart /\ w.legacy
  BY <1>4
<1>5. CASE c = w.os /\ pick(c) = c
  BY <1>5 DEF Fits
<1>6. CASE c = w.os /\ c = "linux-musl" /\ pick(c) = "linux" /\ "linux-musl" \notin job.bins
  BY <1>6
<1> QED
  BY <1>2, <1>3, <1>4, <1>5, <1>6, <1>7

-----------------------------------------------------------------------------
(* What runs on the machines is what was published for them or pushed to them. *)

LEMMA OrderlyRows ==
  ASSUME world' = world, conf' = conf, Len(op'.rows) = Len(op.rows),
         \A k \in 1 .. Len(op.rows) : /\ op'.rows[k].name = op.rows[k].name
                                      /\ op'.rows[k].at = op.rows[k].at /\ op'.rows[k].id = op.rows[k].id
  PROVE  Orderly' <=> Orderly
<1>1. TrueHints' <=> TrueHints
  BY DEF TrueHints, Reaches
<1>2. DistinctNames' <=> DistinctNames
  BY DEF DistinctNames
<1>3. OwnAddresses' <=> OwnAddresses
  BY DEF OwnAddresses, Reaches
<1>4. TruePlatforms' <=> TruePlatforms
  BY DEF TruePlatforms
<1> QED
  BY <1>1, <1>2, <1>3, <1>4 DEF Orderly

LEMMA OrderlyQuiet ==
  ASSUME world' = world, conf' = conf, op' = op
  PROVE  Orderly' <=> Orderly
BY OrderlyRows

LEMMA OrderlyFirst ==
  ASSUME world' = world, conf' = conf, op.rows = <<>>, Orderly'
  PROVE  Orderly
<1>1. TrueHints /\ TruePlatforms
  BY DEF Orderly, TrueHints, TruePlatforms
<1>2. 1 .. Len(op.rows) = {}
  <2>1. Len(op.rows) = 0
    OBVIOUS
  <2> QED
    BY <2>1
<1> QED
  BY <1>1, <1>2 DEF Orderly, DistinctNames, OwnAddresses

LEMMA LeftStays ==
  ASSUME world' = world, spent.pulls \in Nat, spent'.pulls \in Nat, spent'.pulls >= spent.pulls,
         sent \subseteq sent', NEW m
  PROVE  /\ Left(m)' => Left(m)
         /\ \A v : Expected(m, v) => Expected(m, v)'
         /\ Odd(m)' <=> Odd(m)
         /\ \A k : Suits(k, m)' <=> Suits(k, m)
<1>1. Left(m)' => Left(m)
  BY DEF Left, ByItself
<1>2. SentTo \subseteq SentTo'
  BY DEF SentTo
<1>3. \A v : Expected(m, v) => Expected(m, v)'
  BY <1>1, <1>2 DEF Expected
<1> QED
  BY <1>1, <1>3 DEF Odd, Suits

\* What may run on a machine may go on to.
LEMMA GoodStays ==
  ASSUME world' = world, spent.pulls \in Nat, spent'.pulls \in Nat, spent'.pulls >= spent.pulls,
         sent \subseteq sent', Orderly' => Orderly, NEW m, NEW r, MachineGood(m, r)
  PROVE  MachineGood(m, r)'
<1>1. /\ \A v : Expected(m, v) => Expected(m, v)'
      /\ (Odd(m)' <=> Odd(m)) /\ \A k : Suits(k, m)' <=> Suits(k, m)
  BY LeftStays
<1>2. \A b : Binary(m, b) => Binary(m, b)'
  BY <1>1 DEF Binary
<1> QED
  BY <1>1, <1>2 DEF MachineGood

\* A running binary is one the machine may come to run.
LEMMA RunningGood ==
  ASSUME NEW m, MachineTrue(m), machine[m].up
  PROVE  Binary(m, Running(m))
<1>1. Running(m).ver = machine[m].ver /\ Running(m).kind = machine[m].kind
  BY DEF Running
<1> QED
  BY <1>1 DEF MachineTrue, MachineGood, Binary, Suits

\* What is offered to a running machine suits it.
LEMMA KindFits ==
  ASSUME Machinery, TruePlatforms, NEW m \in Machines, machine[m].up, NEW s \in Range(RdvServers),
         NEW e, e = adverts[s][Key(m)], e.kind # "none"
  PROVE  Suits(e.kind, m)
<1> PICK kind : kind = machine[m].kind
  OBVIOUS
<1> PICK os : os = world.machine[m].os
  OBVIOUS
<1>1. os \in OsKind /\ Fits(kind, os)
  BY AdvertAssumption DEF Machinery, MachineTrue, MachineGood
<1>2. kind \in OsKind
  BY <1>1 DEF Fits, OsKind
<1>3. Key(m) \in Keys /\ Key(m)[1] = canonical_build_platform(kind)
  BY <1>2 DEF Key, Keys
<1>4. OfferFits(e.kind, canonical_build_platform(kind))
  BY <1>3 DEF Machinery, OffersTrue
<1>5. CASE kind = "linux-aarch64"
  BY <1>1, <1>5 DEF Fits, Suits, Odd, Apart
<1>6. CASE kind # "linux-aarch64"
  <2>1. Fits(e.kind, kind)
    BY <1>2, <1>4, <1>6 DEF OfferFits
  <2> QED
    BY <2>1, <1>1 DEF Fits, Suits
<1> QED
  BY <1>5, <1>6

LEMMA MachineryStep ==
  ASSUME Machinery, world' = world,
         DOMAIN spent' = DOMAIN spent, spent'.pulls \in Nat, spent'.pulls >= spent.pulls,
         Orderly' => Orderly, sent \subseteq sent',
         DOMAIN adverts' = DOMAIN adverts, \A s \in Range(RdvServers) : DOMAIN adverts'[s] = Keys,
         \A s \in Range(RdvServers), k \in Keys :
           \/ adverts'[s][k].kind \in {"none", adverts[s][k].kind}
           \/ TruePlatforms => OfferFits(adverts'[s][k].kind, k[1]),
         \A m \in Machines : machine'[m] = machine[m] \/ MachineTrue(m)',
         \A m \in Machines, t \in Tasks : task'[m][t] = task[m][t] \/ TaskTrue(m, t)'
  PROVE  Machinery'
<1>1. spent.pulls \in Nat /\ world \in AdvertWorlds
  BY DEF Machinery
<1>2. (TruePlatforms' <=> TruePlatforms) /\ Keys' = Keys
  BY DEF TruePlatforms, Keys
<1>3. TruePlatforms' => OffersTrue'
  <2>1. ASSUME TruePlatforms, NEW s \in Range(RdvServers), NEW k \in Keys, adverts'[s][k].kind # "none"
        PROVE  OfferFits(adverts'[s][k].kind, k[1])
    BY <2>1 DEF Machinery, OffersTrue
  <2> QED
    BY <2>1, <1>2 DEF OffersTrue
<1>4. ASSUME NEW m \in Machines PROVE MachineTrue(m)'
  <2>1. CASE machine'[m] = machine[m]
    <3> PICK r : r = machine[m]
      OBVIOUS
    <3>1. MachineGood(m, r)
      BY DEF Machinery, MachineTrue
    <3>2. MachineGood(m, r)'
      BY <1>1, <3>1, GoodStays
    <3>3. r = machine'[m]
      BY <2>1
    <3> QED
      BY <3>2, <3>3 DEF MachineTrue, MachineGood, Binary, Expected
  <2> QED
    BY <2>1
<1>5. ASSUME NEW m \in Machines, NEW t \in Tasks PROVE TaskTrue(m, t)'
  <2>1. CASE task'[m][t] = task[m][t]
    <3>1. TaskTrue(m, t)
      BY DEF Machinery
    <3>2. Left(m)' => Left(m)
      BY <1>1, LeftStays
    <3> QED
      BY <3>1, <3>2, <2>1, <1>2 DEF TaskTrue, Suits, Odd
  <2> QED
    BY <2>1
<1> QED
  BY <1>1, <1>2, <1>3, <1>4, <1>5 DEF Machinery

\* One task of one machine goes on, and nothing else but what is spent.
LEMMA TaskGoes ==
  ASSUME AdvertInv, Machinery, world' = world, conf' = conf, op' = op, sent' = sent,
         machine' = machine, adverts' = adverts,
         NEW m \in Machines, NEW t \in Tasks, NEW r, Step(m, t, r),
         DOMAIN spent' = DOMAIN spent, spent'.pulls \in Nat, spent'.pulls >= spent.pulls,
         r.at \notin Resting => r.want # NoVersion /\ ~Left(m)',
         TruePlatforms /\ r.at = "swap" => Suits(r.kind, m)
  PROVE  Machinery'
<1>1. Orderly' => Orderly
  BY OrderlyQuiet
<1>2. DOMAIN task = Machines /\ DOMAIN task[m] = Tasks
  BY DEF AdvertInv
<1>3. \A n \in Machines, u \in Tasks : <<n, u>> # <<m, t>> => task'[n][u] = task[n][u]
  BY <1>2 DEF Step
<1>4. task'[m][t] = r
  BY <1>2 DEF Step
<1>5. TruePlatforms' <=> TruePlatforms
  BY DEF TruePlatforms
<1>6. TaskTrue(m, t)'
  BY <1>4, <1>5 DEF TaskTrue, Suits, Odd
<1>7. \A n \in Machines, u \in Tasks : task'[n][u] = task[n][u] \/ TaskTrue(n, u)'
  BY <1>3, <1>6
<1>8. \A s \in Range(RdvServers) : DOMAIN adverts'[s] = Keys
  BY DEF Machinery
<1> QED
  BY <1>1, <1>7, <1>8, MachineryStep

LEMMA SpentIs ==
  ASSUME Machinery, NEW s, AnsweredBy(s)
  PROVE  DOMAIN spent' = DOMAIN spent /\ spent'.pulls = spent.pulls /\ spent.pulls \in Nat
BY DEF Machinery, AnsweredBy

LEMMA KnownTask ==
  ASSUME AdvertInv, Machinery, NEW m \in Machines, NEW t \in Tasks, NEW k, k = task[m][t]
  PROVE  /\ DOMAIN k = TaskFields
         /\ k.at \notin Resting => k.want # NoVersion /\ ~Left(m)
         /\ TruePlatforms /\ k.at = "swap" => Suits(k.kind, m)
<1>1. TaskTrue(m, t)
  BY DEF Machinery
<1>2. DOMAIN task[m][t] = TaskFields
  BY DEF AdvertInv
<1> QED
  BY <1>1, <1>2 DEF TaskTrue

LEMMA QueryMachinery ==
  ASSUME AdvertInv, Machinery, conf' = conf, op' = op, sent' = sent, NEW m \in Machines, NEW s \in Range(RdvServers),
         LoopQuery(m, s)
  PROVE  Machinery'
<1> PICK r : r = [Idle EXCEPT !.at = "jitter", !.want = Offer(s, m)]
  OBVIOUS
<1>1. r.at = "jitter" /\ r.want # NoVersion
  BY IdleIs DEF TaskFields, LoopQuery
<1>2. DOMAIN spent' = DOMAIN spent /\ spent'.pulls = spent.pulls /\ spent.pulls \in Nat
  BY SpentIs DEF LoopQuery
<1>3. /\ world' = world /\ machine' = machine /\ adverts' = adverts /\ Step(m, "loop", r)
      /\ world.machine[m].auto
  BY DEF LoopQuery
<1>4. ~Left(m)'
  BY <1>3 DEF Left, ByItself
<1>5. "loop" \in Tasks /\ spent'.pulls \in Nat /\ spent'.pulls >= spent.pulls
  BY <1>2 DEF Tasks
<1> QED
  BY <1>1, <1>2, <1>3, <1>4, <1>5, TaskGoes

LEMMA JitterMachinery ==
  ASSUME AdvertInv, Machinery, conf' = conf, op' = op, sent' = sent, NEW m \in Machines, LoopJitter(m)
  PROVE  Machinery'
<1> PICK k : k = task[m]["loop"]
  OBVIOUS
<1>0. "loop" \in Tasks /\ spent'.pulls \in Nat /\ spent'.pulls >= spent.pulls /\ DOMAIN spent' = DOMAIN spent
  BY DEF Tasks, LoopJitter, Machinery
<1>1. /\ DOMAIN k = TaskFields
      /\ k.at \notin Resting => k.want # NoVersion /\ ~Left(m)
  BY <1>0, KnownTask
<1>2. /\ world' = world /\ machine' = machine /\ adverts' = adverts /\ spent' = spent
      /\ k.at = "jitter" /\ Step(m, "loop", IF machine[m].watch # "clear" THEN Idle ELSE [k EXCEPT !.at = "fetch"])
  BY DEF LoopJitter, Doing
<1> PICK r : r = IF machine[m].watch # "clear" THEN Idle ELSE [k EXCEPT !.at = "fetch"]
  OBVIOUS
<1>3. r.at # "swap" /\ (r.at \notin Resting => r.want = k.want)
  BY <1>1, IdleIs DEF TaskFields
<1>4. k.want # NoVersion /\ ~Left(m)
  BY <1>1, <1>2 DEF Resting
<1>5. ~Left(m)'
  BY <1>2, <1>4 DEF Left, ByItself
<1>6. r.at \notin Resting => r.want # NoVersion
  BY <1>3, <1>4
<1> QED
  BY <1>0, <1>2, <1>3, <1>5, <1>6, TaskGoes

LEMMA FetchMachinery ==
  ASSUME AdvertInv, Machinery, conf' = conf, op' = op, sent' = sent, NEW m \in Machines, NEW t \in Tasks,
         NEW s \in Range(RdvServers), fetch_binary(m, t, s)
  PROVE  Machinery'
<1> PICK k : k = task[m][t]
  OBVIOUS
<1> PICK e : e = adverts[s][Key(m)]
  OBVIOUS
<1>1. /\ DOMAIN k = TaskFields
      /\ k.at \notin Resting => k.want # NoVersion /\ ~Left(m)
  BY KnownTask
<1> PICK r : r = IF Served(e, k.want) /\ Verified(e, world.machine[m].key, k.insecure)
                 THEN [k EXCEPT !.at = "swap", !.kind = e.kind, !.want = e.ver] ELSE Idle
  OBVIOUS
<1>2. DOMAIN spent' = DOMAIN spent /\ spent'.pulls = spent.pulls /\ spent.pulls \in Nat
  BY SpentIs DEF fetch_binary
<1>3. /\ world' = world /\ machine' = machine /\ adverts' = adverts /\ Step(m, t, r)
      /\ k.at = "fetch" /\ machine[m].up
  BY DEF fetch_binary, Doing
<1>4. r.at \notin Resting => r.want = k.want /\ r.kind = e.kind /\ e.kind # "none"
  BY <1>1, IdleIs DEF TaskFields, Served
<1>5. TruePlatforms /\ e.kind # "none" => Suits(e.kind, m)
  BY <1>3, KindFits
<1>9. k.want # NoVersion /\ ~Left(m)
  BY <1>1, <1>3 DEF Resting
<1>6. ~Left(m)'
  BY <1>2, <1>3, <1>9 DEF Left, ByItself
<1>7. spent'.pulls \in Nat /\ spent'.pulls >= spent.pulls
  BY <1>2
<1>8. /\ r.at \notin Resting => r.want # NoVersion
      /\ TruePlatforms /\ r.at = "swap" => Suits(r.kind, m)
  BY <1>4, <1>5, <1>9 DEF Resting
<1> QED
  BY <1>2, <1>3, <1>6, <1>7, <1>8, TaskGoes

LEMMA PullMachinery ==
  ASSUME AdvertInv, Machinery, conf' = conf, op' = op, sent' = sent, NEW m \in Machines, Pull(m)
  PROVE  Machinery'
<1>1. PICK s \in Range(RdvServers), pin \in {NoVersion} \cup {world.pubs[n].ver : n \in 1 .. Len(world.pubs)},
           allow \in BOOLEAN, insecure \in BOOLEAN : handle_self_update_from_rdv(m, s, pin, allow, insecure)
  BY DEF Pull
<1> PICK r : r = [Idle EXCEPT !.at = "fetch", !.want = Offer(s, m), !.insecure = insecure]
  OBVIOUS
<1> PICK refused : refused = Refused(m, Offer(s, m), pin, allow)
  OBVIOUS
<1>2. r.at = "fetch" /\ r.want = Offer(s, m)
  BY IdleIs DEF TaskFields
<1>3. /\ world' = world /\ machine' = machine /\ adverts' = adverts
      /\ spent' = [spent EXCEPT !.pulls = @ + 1]
      /\ IF refused THEN task' = task ELSE Step(m, "pull", r)
  BY <1>1 DEF handle_self_update_from_rdv
<1>4. /\ DOMAIN spent' = DOMAIN spent /\ spent'.pulls = spent.pulls + 1 /\ spent.pulls \in Nat
      /\ spent'.pulls \in Nat /\ spent'.pulls >= spent.pulls /\ spent'.pulls # 0
  BY <1>3 DEF Machinery
<1>5. ~Left(m)'
  BY <1>4 DEF Left, ByItself
<1>6. CASE refused
  <2>1. Orderly' => Orderly
    BY <1>3, OrderlyQuiet
  <2>2. \A z \in Range(RdvServers) : DOMAIN adverts'[z] = Keys
    BY <1>3 DEF Machinery
  <2> QED
    BY <2>1, <2>2, <1>3, <1>4, <1>6, MachineryStep
<1>7. CASE ~refused
  <2>1. r.want # NoVersion
    BY <1>2, <1>7 DEF Refused
  <2>2. "pull" \in Tasks
    BY DEF Tasks
  <2> QED
    BY <2>1, <2>2, <1>2, <1>3, <1>4, <1>5, <1>7, TaskGoes
<1> QED
  BY <1>6, <1>7

LEMMA FailMachinery ==
  ASSUME AdvertInv, Machinery, conf' = conf, op' = op, sent' = sent, NEW m \in Machines, NEW t \in Tasks, FetchFails(m, t)
  PROVE  Machinery'
<1>1. /\ world' = world /\ machine' = machine /\ adverts' = adverts /\ Step(m, t, Idle)
      /\ spent' = [spent EXCEPT !.lost = @ + 1]
  BY DEF FetchFails
<1>2. /\ DOMAIN spent' = DOMAIN spent /\ spent'.pulls \in Nat /\ spent'.pulls >= spent.pulls
  BY <1>1 DEF Machinery
<1> QED
  BY <1>1, <1>2, IdleIs, TaskGoes

\* One machine goes on, and its tasks as they were or at rest.
LEMMA MachineGoes ==
  ASSUME AdvertInv, Machinery, world' = world, Orderly' => Orderly, sent \subseteq sent',
         adverts' = adverts, NEW m \in Machines, NEW r, machine' = [machine EXCEPT ![m] = r],
         \A n \in Machines, u \in Tasks : task'[n][u] = task[n][u] \/ task'[n][u].at \in Resting,
         DOMAIN spent' = DOMAIN spent, spent'.pulls = spent.pulls,
         MachineGood(m, r)
  PROVE  Machinery'
<1>1. DOMAIN machine = Machines
  BY DEF AdvertInv
<1>2. machine'[m] = r /\ \A n \in Machines \ {m} : machine'[n] = machine[n]
  BY <1>1
<1>3. spent.pulls \in Nat /\ spent'.pulls \in Nat /\ spent'.pulls >= spent.pulls
  BY DEF Machinery
<1>4. MachineGood(m, r)'
  BY <1>3, GoodStays
<1>6. MachineTrue(m)'
  BY <1>2, <1>4 DEF MachineTrue, MachineGood, Binary, Expected
<1>7. ASSUME NEW n \in Machines, NEW u \in Tasks PROVE task'[n][u] = task[n][u] \/ TaskTrue(n, u)'
  <2>1. CASE task'[n][u].at \in Resting
    BY <2>1 DEF TaskTrue, Resting
  <2> QED
    BY <2>1
<1>8. \A s \in Range(RdvServers) : DOMAIN adverts'[s] = Keys
  BY DEF Machinery
<1> QED
  BY <1>2, <1>3, <1>6, <1>7, <1>8, MachineryStep

LEMMA KnownMachine ==
  ASSUME AdvertInv, Machinery, NEW m \in Machines, NEW q, q = machine[m]
  PROVE  /\ DOMAIN q = MachineFields /\ MachineGood(m, q) /\ MachineTrue(m)
         /\ Expected(m, q.ver) /\ Binary(m, q.next) /\ Binary(m, q.old)
         /\ (q.up => Fits(q.kind, world.machine[m].os)) /\ (Orderly => q.up \/ Odd(m))
<1>1. MachineTrue(m) /\ DOMAIN machine[m] = MachineFields
  BY DEF Machinery, AdvertInv
<1> QED
  BY <1>1 DEF MachineTrue, MachineGood

\* It still runs what it ran.
LEMMA SameRuns ==
  ASSUME AdvertInv, Machinery, NEW m \in Machines, NEW r,
         r.ver = machine[m].ver, r.kind = machine[m].kind, r.up = machine[m].up,
         Binary(m, r.next), Binary(m, r.old)
  PROVE  MachineGood(m, r)
<1>1. MachineTrue(m)
  BY DEF Machinery
<1> QED
  BY <1>1 DEF MachineTrue, MachineGood

LEMMA NoneWaits == \A m : Binary(m, NoBinary)
BY DEF Binary

\* handle_self_update and a disarmed watchdog.
LEMMA TakenGood ==
  ASSUME AdvertInv, Machinery, NEW m \in Machines, machine[m].up, NEW b, NEW who, Binary(m, b),
         handle_self_update(m, b, who)
  PROVE  \E r : machine' = [machine EXCEPT ![m] = r] /\ MachineGood(m, r)
<1>1. DOMAIN machine[m] = MachineFields /\ MachineTrue(m) /\ Binary(m, machine[m].next)
  BY KnownMachine
<1>2. PICK r : Taken(m, b, who, r)
  <2>1. DOMAIN machine[m] = MachineFields
    BY <1>1
  <2> QED
    BY <2>1, TakenIs
<1>3. Binary(m, Running(m))
  BY <1>1, RunningGood
<1>4. Binary(m, r.old) /\ Binary(m, r.next)
  BY <1>1, <1>2, <1>3 DEF Taken
<1> QED
  BY <1>2, <1>4, SameRuns DEF Taken

LEMMA DisarmedGood ==
  ASSUME AdvertInv, Machinery, NEW m \in Machines, Disarmed(m)
  PROVE  \E r : machine' = [machine EXCEPT ![m] = r] /\ MachineGood(m, r)
<1>1. DOMAIN machine[m] = MachineFields /\ Binary(m, machine[m].next)
  BY KnownMachine
<1>2. PICK r : /\ machine' = [machine EXCEPT ![m] = r] /\ r.next = machine[m].next
               /\ r.ver = machine[m].ver /\ r.kind = machine[m].kind /\ r.up = machine[m].up
               /\ r.old = NoBinary
  BY <1>1, DisarmedIs
<1>3. Binary(m, r.old) /\ Binary(m, r.next)
  BY <1>1, <1>2, NoneWaits
<1> QED
  BY <1>2, <1>3, SameRuns

\* A task whose swap is over.
LEMMA TaskRests ==
  ASSUME AdvertInv, NEW m \in Machines, NEW t \in Tasks, NEW q, q.at \in Resting, Step(m, t, q)
  PROVE  \A n \in Machines, u \in Tasks : task'[n][u] = task[n][u] \/ task'[n][u].at \in Resting
<1>1. DOMAIN task = Machines /\ \A n \in Machines : DOMAIN task[n] = Tasks
  BY DEF AdvertInv
<1>2. ASSUME NEW n \in Machines, NEW u \in Tasks PROVE task'[n][u] = task[n][u] \/ task'[n][u] = q
  BY <1>1 DEF Step
<1> QED
  BY <1>2

LEMMA SwapMachinery ==
  ASSUME AdvertInv, Machinery, conf' = conf, op' = op, sent' = sent, NEW m \in Machines,
         NEW t \in Tasks, Swap(m, t)
  PROVE  Machinery'
<1> PICK k : k = task[m][t]
  OBVIOUS
<1> PICK q : q = IF t = "loop" THEN [Idle EXCEPT !.at = "over"] ELSE Idle
  OBVIOUS
<1> PICK b : b = [ver |-> k.want, kind |-> k.kind]
  OBVIOUS
<1>1. /\ k.at = "swap" /\ machine[m].up /\ world' = world /\ adverts' = adverts /\ spent' = spent
      /\ Step(m, t, q) /\ handle_self_update(m, b, t)
  BY DEF Swap, Doing
<1>2. k.want # NoVersion /\ ~Left(m) /\ (TruePlatforms => Suits(k.kind, m))
  BY <1>1, KnownTask DEF Resting
<1>3. b.ver = k.want /\ b.kind = k.kind
  OBVIOUS
<1>4. Binary(m, b)
  BY <1>2, <1>3 DEF Binary, Expected, Orderly
<1>5. PICK r : machine' = [machine EXCEPT ![m] = r] /\ MachineGood(m, r)
  BY <1>1, <1>4, TakenGood
<1>6. q.at \in Resting
  BY IdleIs DEF TaskFields, Resting
<1>7. \A n \in Machines, u \in Tasks : task'[n][u] = task[n][u] \/ task'[n][u].at \in Resting
  BY <1>1, <1>6, TaskRests
<1>8. Orderly' => Orderly
  BY <1>1, OrderlyQuiet
<1> QED
  BY <1>1, <1>5, <1>7, <1>8, MachineGoes

LEMMA RefusedMachinery ==
  ASSUME AdvertInv, Machinery, conf' = conf, op' = op, sent' = sent, NEW m \in Machines,
         NEW t \in Tasks, SwapRefused(m, t)
  PROVE  Machinery'
<1>1. /\ world' = world /\ adverts' = adverts /\ spent' = [spent EXCEPT !.lost = @ + 1]
      /\ Step(m, t, Idle) /\ Disarmed(m)
  BY DEF SwapRefused
<1>2. PICK r : machine' = [machine EXCEPT ![m] = r] /\ MachineGood(m, r)
  BY <1>1, DisarmedGood
<1>3. \A n \in Machines, u \in Tasks : task'[n][u] = task[n][u] \/ task'[n][u].at \in Resting
  BY <1>1, IdleIs, TaskRests
<1>4. Orderly' => Orderly
  BY <1>1, OrderlyQuiet
<1>5. DOMAIN spent' = DOMAIN spent /\ spent'.pulls = spent.pulls
  BY <1>1 DEF Machinery
<1> QED
  BY <1>1, <1>2, <1>3, <1>4, <1>5, MachineGoes

LEMMA RestartMachinery ==
  ASSUME AdvertInv, Machinery, conf' = conf, op' = op, sent' = sent, NEW m \in Machines, Restart(m)
  PROVE  Machinery'
<1> PICK q : q = machine[m]
  OBVIOUS
<1> PICK b : b = q.next
  OBVIOUS
<1> PICK fits : fits = Fits(b.kind, world.machine[m].os)
  OBVIOUS
<1> PICK w : w = IF q.watch = "clear" THEN "clear" ELSE "probing"
  OBVIOUS
<1> PICK r : r = [q EXCEPT !.ver = b.ver, !.kind = b.kind, !.next = NoBinary, !.up = fits, !.watch = w]
  OBVIOUS
<1>1. /\ b # NoBinary /\ world' = world /\ adverts' = adverts /\ spent' = spent
      /\ task' = [task EXCEPT ![m] = [t \in Tasks |-> Idle]]
  BY DEF Restart
<1>e. machine' = [machine EXCEPT ![m] = [@ EXCEPT !.ver = b.ver, !.kind = b.kind, !.next = NoBinary,
                                                  !.up = fits, !.watch = w]]
  BY DEF Restart
<1>m. machine' = [machine EXCEPT ![m] = r]
  BY <1>e
<1>2. DOMAIN q = MachineFields /\ Binary(m, b) /\ Binary(m, q.old)
  BY KnownMachine
<1>3. r.ver = b.ver /\ r.kind = b.kind /\ r.next = NoBinary /\ r.up = fits /\ r.old = q.old
  BY <1>2 DEF MachineFields
<1>4. Suits(b.kind, m) => fits \/ Odd(m)
  BY DEF Suits
<1>5. Expected(m, b.ver) /\ (Orderly => Suits(b.kind, m))
  BY <1>1, <1>2 DEF Binary
<1>b. Binary(m, r.next) /\ Binary(m, r.old)
  BY <1>2, <1>3, NoneWaits
<1>6. MachineGood(m, r)
  BY <1>3, <1>4, <1>5, <1>b DEF MachineGood
<1>7. \A n \in Machines, u \in Tasks : task'[n][u] = task[n][u] \/ task'[n][u].at \in Resting
  <2>1. DOMAIN task = Machines
    BY DEF AdvertInv
  <2> QED
    BY <1>1, <2>1, IdleIs
<1>8. Orderly' => Orderly
  BY <1>1, OrderlyQuiet
<1>9. DOMAIN spent' = DOMAIN spent /\ spent'.pulls = spent.pulls
  BY <1>1
<1> QED
  BY <1>1, <1>m, <1>6, <1>7, <1>8, <1>9, MachineGoes

\* The script of the update fails, and the watchdog's outcomes.
LEMMA KeptMachinery ==
  ASSUME AdvertInv, Machinery, conf' = conf, op' = op, sent' = sent, NEW m \in Machines,
         SwapFails(m) \/ WatchdogClears(m) \/ Rollback(m)
  PROVE  Machinery'
<1> PICK q : q = machine[m]
  OBVIOUS
<1>1. /\ world' = world /\ adverts' = adverts /\ task' = task
      /\ DOMAIN spent' = DOMAIN spent /\ spent'.pulls = spent.pulls
  BY DEF SwapFails, WatchdogClears, Rollback, Machinery
<1>2. DOMAIN q = MachineFields /\ MachineTrue(m) /\ Binary(m, q.next) /\ Binary(m, q.old)
  BY KnownMachine
<1>3. \E r : machine' = [machine EXCEPT ![m] = r] /\ MachineGood(m, r)
  <2>1. CASE SwapFails(m)
    <3>1. PICK b \in {NoBinary, Running(m)} :
                 machine' = [machine EXCEPT ![m] = [@ EXCEPT !.next = b, !.by = "none"]]
      BY <2>1 DEF SwapFails
    <3> PICK r : r = [q EXCEPT !.next = b, !.by = "none"]
      OBVIOUS
    <3>2. machine' = [machine EXCEPT ![m] = r]
      BY <3>1
    <3>3. r.ver = q.ver /\ r.kind = q.kind /\ r.up = q.up /\ r.next = b /\ r.old = q.old
      BY <1>2 DEF MachineFields
    <3>4. machine[m].up
      BY <2>1 DEF SwapFails
    <3>5. Binary(m, b)
      BY <1>2, <3>4, NoneWaits, RunningGood
    <3>6. MachineGood(m, r)
      BY <1>2, <3>3, <3>5, SameRuns
    <3> QED
      BY <3>2, <3>6
  <2>2. CASE Disarmed(m)
    BY <2>2, DisarmedGood
  <2>3. CASE machine' = [machine EXCEPT ![m] = [@ EXCEPT !.watch = "clear", !.next = machine[m].old,
                                                         !.old = NoBinary, !.by = "rollback"]]
    <3> PICK r : r = [q EXCEPT !.watch = "clear", !.next = q.old, !.old = NoBinary, !.by = "rollback"]
      OBVIOUS
    <3>1. machine' = [machine EXCEPT ![m] = r]
      BY <2>3
    <3>2. r.ver = q.ver /\ r.kind = q.kind /\ r.up = q.up /\ r.next = q.old /\ r.old = NoBinary
      BY <1>2 DEF MachineFields
    <3>3. MachineGood(m, r)
      BY <1>2, <3>2, NoneWaits, SameRuns
    <3> QED
      BY <3>1, <3>3
  <2> QED
    BY <2>1, <2>2, <2>3 DEF WatchdogClears, Rollback
<1>4. PICK r : machine' = [machine EXCEPT ![m] = r] /\ MachineGood(m, r)
  BY <1>3
<1>5. Orderly' => Orderly
  BY <1>1, OrderlyQuiet
<1> QED
  BY <1>1, <1>4, <1>5, MachineGoes

\* The publisher and the servers.
LEMMA PublishMachinery ==
  ASSUME AdvertInv, Machinery, conf' = conf, op' = op, sent' = sent,
         \/ publish_version \/ PublishTold
         \/ \E n \in 1 .. Len(world.pubs) : handle_publish_version(n) \/ PublishLost(n)
         \/ \E s \in Range(RdvServers) : RdvRestart(s)
  PROVE  Machinery'
<1>0. /\ DOMAIN adverts = Range(RdvServers) /\ \A s \in Range(RdvServers) : DOMAIN adverts[s] = Keys
      /\ spent.pulls \in Nat /\ DOMAIN spent = {"restarts", "pulls", "lost"}
  BY DEF Machinery
<1>1. /\ world' = world /\ machine' = machine /\ task' = task
      /\ DOMAIN spent' = DOMAIN spent /\ spent'.pulls = spent.pulls
  BY <1>0 DEF publish_version, PublishTold, handle_publish_version, PublishLost, RdvRestart
<1>2. /\ DOMAIN adverts' = DOMAIN adverts /\ \A s \in Range(RdvServers) : DOMAIN adverts'[s] = Keys
      /\ \A s \in Range(RdvServers), k \in Keys :
           \/ adverts'[s][k].kind \in {"none", adverts[s][k].kind}
           \/ TruePlatforms => OfferFits(adverts'[s][k].kind, k[1])
  <2>1. CASE adverts' = adverts
    BY <1>0, <2>1
  <2>2. ASSUME NEW s \in Range(RdvServers), RdvRestart(s)
        PROVE <1>2!:
    <3>1. adverts' = [adverts EXCEPT ![s] = [k \in Keys |-> NoAdvert]]
      BY <2>2 DEF RdvRestart
    <3>2. NoAdvert.kind = "none"
      BY DEF NoAdvert
    <3> QED
      BY <1>0, <3>1, <3>2
  <2>3. ASSUME NEW n \in 1 .. Len(world.pubs), handle_publish_version(n), adverts' # adverts
        PROVE <1>2!:
    <3> PICK p : p = world.pubs[n]
      OBVIOUS
    <3> PICK e : e = [ver |-> p.ver, kind |-> p.kind, signed |-> p.signed]
      OBVIOUS
    <3>1. adverts' = [adverts EXCEPT ![p.srv][<<p.plat, p.track>>] = e]
      BY <2>3 DEF handle_publish_version
    <3>2. DOMAIN adverts' = DOMAIN adverts /\ \A s \in Range(RdvServers) : DOMAIN adverts'[s] = Keys
      BY <1>0, <3>1
    <3>3. TruePlatforms /\ p.kind # "none" => OfferFits(p.kind, p.plat)
      BY DEF TruePlatforms, OfferFits
    <3>4. ASSUME NEW s \in Range(RdvServers), NEW k \in Keys
          PROVE  \/ adverts'[s][k].kind \in {"none", adverts[s][k].kind}
                 \/ TruePlatforms => OfferFits(adverts'[s][k].kind, k[1])
      <4>1. adverts'[s][k] = adverts[s][k] \/ (adverts'[s][k] = e /\ k = <<p.plat, p.track>>)
        BY <1>0, <3>1
      <4>2. e.kind = p.kind /\ <<p.plat, p.track>>[1] = p.plat
        OBVIOUS
      <4> QED
        BY <4>1, <4>2, <3>3
    <3> QED
      BY <3>2, <3>4
  <2>4. \/ adverts' = adverts
        \/ \E s \in Range(RdvServers) : RdvRestart(s)
        \/ adverts' # adverts /\ \E n \in 1 .. Len(world.pubs) : handle_publish_version(n)
    BY DEF publish_version, PublishTold, PublishLost
  <2> QED
    BY <2>1, <2>2, <2>3, <2>4
<1>3. Orderly' => Orderly
  BY <1>1, OrderlyQuiet
<1>4. spent'.pulls \in Nat /\ spent'.pulls >= spent.pulls
  BY <1>0, <1>1
<1> QED
  BY <1>1, <1>2, <1>3, <1>4, MachineryStep

LEMMA AdvertMachinery ==
  ASSUME AdvertInv, Machinery, AdvertNext, UNCHANGED fleetVars
  PROVE  Machinery'
<1>1. conf' = conf /\ op' = op /\ sent' = sent
  BY DEF fleetVars
<1>2. CASE \/ publish_version \/ PublishTold
           \/ \E n \in 1 .. Len(world.pubs) : handle_publish_version(n) \/ PublishLost(n)
           \/ \E s \in Range(RdvServers) : RdvRestart(s)
  BY <1>1, <1>2, PublishMachinery
<1>3. ASSUME NEW m \in Machines,
             \/ \E s \in Range(RdvServers) : LoopQuery(m, s)
             \/ MachineSteps(m) \/ Pull(m) \/ SwapFails(m)
             \/ \E t \in Tasks : FetchFails(m, t) \/ SwapRefused(m, t)
      PROVE  Machinery'
  <2>1. CASE MachineSteps(m)
    BY <1>1, <2>1, JitterMachinery, FetchMachinery, SwapMachinery, RestartMachinery, KeptMachinery DEF MachineSteps
  <2> QED
    BY <1>1, <1>3, <2>1, QueryMachinery, PullMachinery, KeptMachinery, FailMachinery, RefusedMachinery
<1> QED
  BY <1>2, <1>3 DEF AdvertNext

-----------------------------------------------------------------------------
(* What a step of the fleet command leaves alone. *)

LEMMA AdvertSpends ==
  ASSUME Machinery, AdvertNext
  PROVE  world' = world /\ spent.pulls \in Nat /\ spent'.pulls \in Nat /\ spent'.pulls >= spent.pulls
<1>1. spent.pulls \in Nat /\ DOMAIN spent = {"restarts", "pulls", "lost"}
  BY DEF Machinery
<1>2. CASE publish_version \/ PublishTold
  BY <1>1, <1>2 DEF publish_version, PublishTold
<1>3. CASE \E n \in 1 .. Len(world.pubs) : handle_publish_version(n) \/ PublishLost(n)
  BY <1>1, <1>3 DEF handle_publish_version, PublishLost
<1>4. CASE \E s \in Range(RdvServers) : RdvRestart(s)
  BY <1>1, <1>4 DEF RdvRestart
<1>5. ASSUME NEW m \in Machines, NEW s \in Range(RdvServers), LoopQuery(m, s)
      PROVE  world' = world /\ spent'.pulls = spent.pulls
  <2>1. spent'.pulls = spent.pulls
    BY <1>5, SpentIs DEF LoopQuery
  <2> QED
    BY <1>5, <2>1 DEF LoopQuery
<1>6. ASSUME NEW m \in Machines, MachineSteps(m)
      PROVE  world' = world /\ spent'.pulls = spent.pulls
  <2>1. CASE \E t \in Tasks, s \in Range(RdvServers) : fetch_binary(m, t, s)
    <3>1. PICK t \in Tasks, s \in Range(RdvServers) : fetch_binary(m, t, s)
      BY <2>1
    <3>2. spent'.pulls = spent.pulls
      BY <3>1, SpentIs DEF fetch_binary
    <3> QED
      BY <3>1, <3>2 DEF fetch_binary
  <2>2. CASE LoopJitter(m) \/ (\E t \in Tasks : Swap(m, t)) \/ Restart(m) \/ WatchdogClears(m)
    BY <2>2 DEF LoopJitter, Swap, Restart, WatchdogClears
  <2>3. CASE Rollback(m)
    BY <1>1, <2>3 DEF Rollback
  <2> QED
    BY <1>6, <2>1, <2>2, <2>3 DEF MachineSteps
<1>7. ASSUME NEW m \in Machines, Pull(m)
      PROVE  world' = world /\ spent' = [spent EXCEPT !.pulls = @ + 1]
  BY <1>7 DEF Pull, handle_self_update_from_rdv
<1>8. ASSUME NEW m \in Machines, SwapFails(m) \/ \E t \in Tasks : FetchFails(m, t) \/ SwapRefused(m, t)
      PROVE  world' = world /\ spent' = [spent EXCEPT !.lost = @ + 1]
  BY <1>8 DEF SwapFails, FetchFails, SwapRefused
<1> QED
  BY <1>1, <1>2, <1>3, <1>4, <1>5, <1>6, <1>7, <1>8 DEF AdvertNext

\* What is true of the rows stays true while the machines go on.
LEMMA RowsStay ==
  ASSUME world' = world, conf' = conf, job' = job, op'.rows = op.rows, sent \subseteq sent',
         spent.pulls \in Nat, spent'.pulls \in Nat, spent'.pulls >= spent.pulls
  PROVE  /\ Orderly' <=> Orderly
         /\ \A r : RowTrue(r) => RowTrue(r)'
         /\ \A r : HintTrue(r) => HintTrue(r)'
         /\ \A p : PlanTrue(p) => PlanTrue(p)'
         /\ \A r : ResultTrue(r) => ResultTrue(r)'
<1>1. \A m : (Left(m)' => Left(m)) /\ \A v : Expected(m, v) => Expected(m, v)'
  BY LeftStays
<1>2. Orderly' <=> Orderly
  BY OrderlyRows
<1>3. \A r : RowTrue(r) => RowTrue(r)'
  <2>1. \A x, kind, c : SaidBy(x, kind, c) => SaidBy(x, kind, c)'
    BY DEF SaidBy, CapsOf
  <2> QED
    BY <1>1, <2>1 DEF RowTrue, Reaches
<1>4. \A r : HintTrue(r) => HintTrue(r)'
  BY DEF HintTrue, Reaches
<1>5. \A r : Acts(r) <=> Acts(r)'
  BY DEF Acts, Known, pick, load_optional_binary, classify_os
<1>6. \A p : PlanTrue(p) => PlanTrue(p)'
  BY <1>5 DEF PlanTrue, classify_os
<1>7. \A r : ResultTrue(r) => ResultTrue(r)'
  BY <1>1 DEF ResultTrue
<1> QED
  BY <1>2, <1>3, <1>4, <1>6, <1>7

LEMMA FleetWaits ==
  ASSUME FleetInv, world' = world, UNCHANGED <<job, conf, op, sent>>,
         spent.pulls \in Nat, spent'.pulls \in Nat, spent'.pulls >= spent.pulls
  PROVE  FleetInv'
<1>1. /\ op'.rows = op.rows /\ conf' = conf /\ job' = job /\ op' = op /\ sent' = sent
      /\ sent \subseteq sent'
  OBVIOUS
<1>2. /\ Orderly' <=> Orderly
      /\ \A r : RowTrue(r) => RowTrue(r)'
      /\ \A r : HintTrue(r) => HintTrue(r)'
      /\ \A p : PlanTrue(p) => PlanTrue(p)'
      /\ \A r : ResultTrue(r) => ResultTrue(r)'
  BY <1>1, RowsStay
<1>3. RowsTrue'
  BY <1>1, <1>2 DEF FleetInv, RowsTrue, Planning
<1>4. Updating' => UpdateTrue'
  BY <1>1, <1>2, SMTT(30) DEF FleetInv, Updating, UpdateTrue, TheRow, ThePlan, status_by_name, pick, load_optional_binary
<1>5. \A s \in sent' : SentTrue(s)'
  BY <1>1, <1>2 DEF FleetInv, SentTrue
<1> QED
  BY <1>1, <1>2, <1>3, <1>4, <1>5 DEF FleetInv

\* The command goes on, with the same rows.
LEMMA FleetGoes ==
  ASSUME FleetInv, Machinery, UNCHANGED <<world, spent, job, conf>>, sent \subseteq sent', NEW o, op' = o,
         o.rows = op.rows, DOMAIN o = OpFields, DOMAIN o.saw = {"online", "ver"}, IsSeq(o.plans),
         o.at \in {"again", "drift", "update", "pushed", "pushedQuic", "verify", "verifyQuic", "done"},
         o.at = "again" => /\ job.cmd = "update" /\ sent' = {} /\ o.results = <<>> /\ o.i = 1
                           /\ o.via = Nobody /\ ~o.saw.online,
         o.at = "drift" => job.cmd = "drift",
         Updating' => UpdateTrue',
         job.dry \/ job.cmd # "update" => sent' = {},
         \A s \in sent' : SentTrue(s)',
         job.cmd = "update" => /\ IsSeq(o.results)
                               /\ Orderly => \A j \in 1 .. Len(o.results) : ResultTrue(o.results[j]),
         (job.cmd = "update" /\ o.at = "done" /\ o.exit = "ok" /\ ~job.dry) => Len(o.results) = Len(o.plans)
  PROVE  FleetInv'
<1>1. spent.pulls \in Nat /\ spent'.pulls \in Nat /\ spent'.pulls >= spent.pulls
  BY DEF Machinery
<1>2. op'.rows = op.rows /\ conf' = conf /\ job' = job /\ world' = world
  OBVIOUS
<1>3. /\ Orderly' <=> Orderly
      /\ \A r : RowTrue(r) => RowTrue(r)'
      /\ \A r : HintTrue(r) => HintTrue(r)'
      /\ \A r : ResultTrue(r) => ResultTrue(r)'
  BY <1>1, <1>2, RowsStay
<1>4. RowsTrue'
  <2>1. /\ IsSeq(op.rows) /\ IsSeq(conf)
        /\ \A k \in 1 .. Len(op.rows) : RowTrue(op.rows[k]) /\ HintTrue(op.rows[k])
    BY DEF FleetInv, RowsTrue
  <2>2. /\ IsSeq(op.rows)' /\ IsSeq(conf)'
        /\ (\A k \in 1 .. Len(op.rows) : RowTrue(op.rows[k]) /\ HintTrue(op.rows[k]))'
    BY <1>2, <1>3, <2>1
  <2> QED
    BY <1>2, <2>2 DEF RowsTrue, Planning
<1>5. job \in FleetJobs
  BY DEF FleetInv
<1>6. job.cmd = "update" => /\ IsSeq(o.results)
                            /\ Orderly' => \A j \in 1 .. Len(o.results) : ResultTrue(o.results[j])'
  BY <1>3
<1> QED
  BY <1>2, <1>4, <1>5, <1>6 DEF FleetInv

-----------------------------------------------------------------------------
(* The rows: discovery and probes. *)

LEMMA FleetMachinery ==
  ASSUME Machinery, UNCHANGED advertVars, Orderly' => Orderly, sent \subseteq sent'
  PROVE  Machinery'
<1>1. /\ world' = world /\ spent' = spent /\ adverts' = adverts /\ machine' = machine /\ task' = task
  BY DEF advertVars
<1>2. spent.pulls \in Nat /\ \A s \in Range(RdvServers) : DOMAIN adverts[s] = Keys
  BY DEF Machinery
<1> QED
  BY <1>1, <1>2, MachineryStep

LEMMA ProbedIs ==
  ASSUME NEW r, DOMAIN r = RowFields, NEW x, NEW q, q = Probed(r, x)
  PROVE  /\ DOMAIN q = RowFields
         /\ q.name = r.name /\ q.at = r.at /\ q.id = r.id /\ q.hint = r.hint
         /\ q.online <=> x # Nobody
         /\ x # Nobody => q.ver = machine[x].ver /\ q.caps = Caps(x)
         /\ x = Nobody => q.ver = NoVersion
<1>1. CASE x = Nobody
  <2>1. q = [r EXCEPT !.online = FALSE, !.ver = NoVersion, !.caps = {}]
    BY <1>1 DEF Probed
  <2> QED
    BY <1>1, <2>1 DEF RowFields
<1>2. CASE x # Nobody
  <2> PICK c : c = Caps(x)
    OBVIOUS
  <2>1. q = [r EXCEPT !.online = TRUE, !.ver = machine[x].ver, !.caps = c]
    BY <1>2 DEF Probed
  <2> QED
    BY <1>2, <2>1 DEF RowFields
<1> QED
  BY <1>1, <1>2

\* A probe that is answered is answered by a machine the row leads to.
LEMMA ProbeTrue ==
  ASSUME Machinery, NEW r, RowTrue(r), NEW q \in probe_host(r) \cup probe_alt_ports(r)
  PROVE  /\ RowTrue(q)
         /\ q.name = r.name /\ q.at = r.at /\ q.id = r.id /\ q.hint = r.hint
         /\ q.online => \E x \in Reaches(r) : q.ver = machine[x].ver /\ Expected(x, q.ver)
<1>1. PICK x \in {y \in Reaches(r) : Answers(y)} \cup {Nobody} : q = Probed(r, x)
  <2>1. CASE q \in probe_host(r)
    BY <2>1 DEF probe_host
  <2>2. CASE q \in probe_alt_ports(r)
    BY <2>2 DEF probe_alt_ports, Reaches, Answers
  <2> QED
    BY <2>1, <2>2
<1>2. /\ DOMAIN q = RowFields
      /\ q.name = r.name /\ q.at = r.at /\ q.id = r.id /\ q.hint = r.hint
      /\ q.online <=> x # Nobody
      /\ x # Nobody => q.ver = machine[x].ver /\ q.caps = Caps(x)
      /\ x = Nobody => q.ver = NoVersion
  BY <1>1, ProbedIs DEF RowTrue
<1>3. x # Nobody => x \in Reaches(r) /\ Expected(x, machine[x].ver) /\ SaidBy(x, machine[x].kind, Caps(x))
  <2>1. x # Nobody => x \in Reaches(r) /\ x \in Machines /\ machine[x].up
    BY <1>1 DEF RowTrue, Answers
  <2>2. x # Nobody => Expected(x, machine[x].ver) /\ Fits(machine[x].kind, world.machine[x].os)
    BY <2>1 DEF Machinery, MachineTrue, MachineGood
  <2>3. Caps(x) = CapsOf(x, machine[x].kind)
    BY DEF Caps, CapsOf
  <2> QED
    BY <2>1, <2>2, <2>3 DEF SaidBy
<1>4. Reaches(q) = Reaches(r) /\ Reaches(r) \subseteq Machines
  BY <1>2 DEF Reaches, RowTrue
<1>5. RowTrue(q)
  BY <1>2, <1>3, <1>4 DEF RowTrue
<1> QED
  BY <1>2, <1>3, <1>5

LEMMA ConfRowTrue ==
  ASSUME Machinery, NEW r, RowTrue(r), NEW q \in ConfRow(r)
  PROVE  /\ RowTrue(q)
         /\ q.name = r.name /\ q.at = r.at /\ q.id = r.id /\ q.hint = r.hint
<1>1. PICK p \in probe_host(r) \cup probe_alt_ports(r) : q = p \/ q = [p EXCEPT !.online = TRUE]
  BY DEF ConfRow
<1>2. RowTrue(p) /\ p.name = r.name /\ p.at = r.at /\ p.id = r.id /\ p.hint = r.hint
  BY ProbeTrue
<1>3. CASE q = [p EXCEPT !.online = TRUE]
  <2>1. DOMAIN p = RowFields
    BY <1>2 DEF RowTrue
  <2>2. /\ DOMAIN q = RowFields /\ q.name = p.name /\ q.at = p.at /\ q.id = p.id /\ q.hint = p.hint
        /\ q.ver = p.ver /\ q.caps = p.caps
    BY <1>3, <2>1 DEF RowFields
  <2>3. Reaches(q) = Reaches(p)
    BY <2>2 DEF Reaches
  <2>4. RowTrue(q)
    BY <1>2, <2>2, <2>3 DEF RowTrue
  <2> QED
    BY <1>2, <2>2, <2>4
<1> QED
  BY <1>1, <1>2, <1>3

\* One row is probed.
LEMMA RowChanges ==
  ASSUME FleetInv, Machinery, op.at \in {"probing", "again"}, UNCHANGED <<world, spent, job, conf, sent>>,
         NEW i \in 1 .. Len(op.rows), NEW q, NEW u, RowTrue(q),
         q.name = op.rows[i].name, q.at = op.rows[i].at, q.id = op.rows[i].id, q.hint = op.rows[i].hint,
         op' = [op EXCEPT !.rows[i] = q, !.unprobed = u]
  PROVE  FleetInv' /\ (Orderly' => Orderly)
<1> PICK t : t = [op.rows EXCEPT ![i] = q]
  OBVIOUS
<1>1. DOMAIN op = OpFields /\ IsSeq(op.rows) /\ IsSeq(conf)
  BY DEF FleetInv, RowsTrue
<1>2. /\ op'.rows = t /\ DOMAIN op' = OpFields
      /\ op'.at = op.at /\ op'.i = op.i /\ op'.plans = op.plans /\ op'.via = op.via /\ op'.saw = op.saw
      /\ op'.results = op.results /\ op'.exit = op.exit
  BY <1>1 DEF OpFields
<1>3. IsSeq(t) /\ Len(t) = Len(op.rows) /\ t[i] = q /\ \A j \in 1 .. Len(op.rows) \ {i} : t[j] = op.rows[j]
  BY <1>1, SeqExcept
<1>4. \A k \in 1 .. Len(op.rows) : t[k].name = op.rows[k].name /\ t[k].at = op.rows[k].at /\ t[k].id = op.rows[k].id
  BY <1>3
<1>5. Orderly' <=> Orderly
  BY <1>2, <1>3, <1>4, OrderlyRows
<1>6. \A k \in 1 .. Len(op.rows) : RowTrue(op.rows[k]) /\ HintTrue(op.rows[k])
  BY DEF FleetInv, RowsTrue
<1>7. \A k \in 1 .. Len(t) : RowTrue(t[k]) /\ HintTrue(t[k])
  <2>1. HintTrue(q)
    <3>1. Reaches(q) = Reaches(op.rows[i])
      BY DEF Reaches
    <3> QED
      BY <3>1, <1>6 DEF HintTrue
  <2> QED
    BY <1>3, <1>6, <2>1
<1>8. \A k \in 1 .. Len(t) : RowTrue(t[k])' /\ HintTrue(t[k])'
  <2>1. \A r : RowTrue(r) <=> RowTrue(r)'
    <3>1. world' = world /\ spent' = spent /\ sent' = sent
      OBVIOUS
    <3>2. \A x, v : Expected(x, v) <=> Expected(x, v)'
      BY <3>1 DEF Expected, Left, ByItself, SentTo
    <3>3. \A x, kind, c : SaidBy(x, kind, c) <=> SaidBy(x, kind, c)'
      BY <3>1 DEF SaidBy, CapsOf
    <3> QED
      BY <3>2, <3>3 DEF RowTrue, Reaches
  <2>2. \A r : HintTrue(r) <=> HintTrue(r)'
    BY DEF HintTrue
  <2> QED
    BY <1>7, <2>1, <2>2
<1>9. /\ job.cmd \in {"status", "update", "drift"} /\ (op.at = "again" => job.cmd = "update")
      /\ sent = {} /\ op.results = <<>> /\ op.i = 1 /\ op.via = Nobody /\ ~op.saw.online
  BY DEF FleetInv, RowsTrue, Planning
<1>10. RowsTrue'
  <2>1. IsSeq(op.rows)' /\ IsSeq(conf)' /\ (\A k \in 1 .. Len(op.rows) : RowTrue(op.rows[k]) /\ HintTrue(op.rows[k]))'
    BY <1>1, <1>2, <1>3, <1>8
  <2> QED
    BY <2>1, <1>2, <1>9 DEF RowsTrue
<1>11. ~Updating'
  BY <1>2 DEF Updating
<1>12. /\ job \in FleetJobs /\ DOMAIN op.saw = {"online", "ver"} /\ IsSeq(op.plans)
  BY DEF FleetInv
<1>13. IsSeq(op'.results) /\ Len(op'.results) = 0
  <2>1. <<>> \in Seq({}) /\ Len(<<>>) = 0
    OBVIOUS
  <2> QED
    BY <1>2, <1>9, <2>1 DEF IsSeq
<1>14. op'.at # "done"
  BY <1>2
<1>15. FleetInv'
  BY <1>2, <1>9, <1>10, <1>11, <1>12, <1>13, <1>14 DEF FleetInv
<1> QED
  BY <1>5, <1>15

LEMMA ProbeStep ==
  ASSUME FleetInv, Machinery, UNCHANGED advertVars, NEW i \in 1 .. Len(op.rows), Probe(i) \/ RelayProbe(i)
  PROVE  FleetInv' /\ (Orderly' => Orderly)
<1>1. RowTrue(op.rows[i])
  BY DEF FleetInv, RowsTrue
<1>2. world' = world /\ spent' = spent
  BY DEF advertVars
<1>3. CASE Probe(i)
  <2>1. PICK r \in ConfRow(op.rows[i]) : op' = [op EXCEPT !.rows[i] = r, !.unprobed = op.unprobed \ {i}]
    BY <1>3 DEF Probe
  <2>2. RowTrue(r) /\ r.name = op.rows[i].name /\ r.at = op.rows[i].at /\ r.id = op.rows[i].id /\ r.hint = op.rows[i].hint
    BY <1>1, ConfRowTrue
  <2>3. op.at = "probing" /\ UNCHANGED <<job, conf, sent>>
    BY <1>3 DEF Probe
  <2> QED
    BY <1>2, <2>1, <2>2, <2>3, RowChanges
<1>4. CASE RelayProbe(i)
  <2>1. PICK r \in probe_host(op.rows[i]) :
           op' = [op EXCEPT !.rows[i] = IF r.online /\ r.ver # NoVersion THEN r ELSE op.rows[i],
                            !.unprobed = op.unprobed \ {i}]
    <3>1. DOMAIN op = OpFields /\ IsSeq(op.rows)
      BY DEF FleetInv, RowsTrue
    <3> QED
      BY <1>4, <3>1 DEF RelayProbe, OpFields
  <2> PICK q : q = IF r.online /\ r.ver # NoVersion THEN r ELSE op.rows[i]
    OBVIOUS
  <2>2. RowTrue(r) /\ r.name = op.rows[i].name /\ r.at = op.rows[i].at /\ r.id = op.rows[i].id /\ r.hint = op.rows[i].hint
    BY <1>1, ProbeTrue
  <2>3. op.at = "again" /\ UNCHANGED <<job, conf, sent>>
    BY <1>4 DEF RelayProbe
  <2>4. RowTrue(q) /\ q.name = op.rows[i].name /\ q.at = op.rows[i].at /\ q.id = op.rows[i].id /\ q.hint = op.rows[i].hint
    BY <1>1, <2>2
  <2>5. op' = [op EXCEPT !.rows[i] = q, !.unprobed = op.unprobed \ {i}]
    BY <2>1
  <2> QED
    BY <1>2, <2>3, <2>4, <2>5, RowChanges
<1> QED
  BY <1>3, <1>4

LEMMA ListIs ==
  ASSUME NEW n \in Nat, NEW f, f = [i \in 1 .. n |-> f[i]]
  PROVE  IsSeq(f) /\ Len(f) = n
<1> DEFINE S == {f[i] : i \in 1 .. n}
<1>1. f \in [1 .. n -> S]
  OBVIOUS
<1>2. f \in Seq(S) /\ Len(f) = n
  <2> HIDE DEF S
  <2> QED
    BY <1>1
<1> QED
  BY <1>2 DEF IsSeq

LEMMA ListedTrue ==
  ASSUME NEW m \in Machines, job.listed[m] \in Machines \cup {Nobody}, NEW r, \E seen : r = ListedRow(m, seen)
  PROVE  RowTrue(r) /\ HintTrue(r)
<1>1. DOMAIN r = RowFields /\ r.at = job.listed[m] /\ r.id = m /\ r.hint = "none" /\ r.ver = NoVersion
  BY DEF ListedRow, RowFields
<1>2. Reaches(r) \subseteq Machines
  BY <1>1 DEF Reaches
<1> QED
  BY <1>1, <1>2 DEF RowTrue, HintTrue

LEMMA ListedRows ==
  ASSUME NEW S, \A m \in S : m \in Machines /\ job.listed[m] \in Machines \cup {Nobody},
         NEW others \in Seq(S), NEW fresh, NEW t,
         t = [i \in 1 .. Len(others) |-> ListedRow(others[i], others[i] \in fresh)]
  PROVE  IsSeq(t) /\ \A k \in 1 .. Len(t) : RowTrue(t[k]) /\ HintTrue(t[k])
<1>1. Len(others) \in Nat
  OBVIOUS
<1>2. t = [i \in 1 .. Len(others) |-> t[i]] /\ \A k \in 1 .. Len(others) : \E seen : t[k] = ListedRow(others[k], seen)
  BY Zenon
<1>3. IsSeq(t) /\ Len(t) = Len(others)
  BY <1>1, <1>2, ListIs
<1>4. \A k \in 1 .. Len(others) : others[k] \in S
  OBVIOUS
<1>5. ASSUME NEW k \in 1 .. Len(t) PROVE RowTrue(t[k]) /\ HintTrue(t[k])
  <2>1. others[k] \in Machines /\ job.listed[others[k]] \in Machines \cup {Nobody}
    BY <1>3, <1>4
  <2> PICK r : r = t[k]
    OBVIOUS
  <2> PICK m : m = others[k]
    OBVIOUS
  <2>2. \E seen : r = ListedRow(m, seen)
    BY <1>2, <1>3, Zenon
  <2>3. m \in Machines /\ job.listed[m] \in Machines \cup {Nobody}
    BY <2>1
  <2>4. RowTrue(r) /\ HintTrue(r)
    BY <2>2, <2>3, ListedTrue, Zenon
  <2> QED
    BY <2>4
<1> QED
  BY <1>3, <1>5

LEMMA ConfRows ==
  ASSUME IsSeq(conf), \A k \in 1 .. Len(conf) : {conf[k].at, conf[k].id} \subseteq Machines \cup {Nobody},
         NEW s, DOMAIN s = 1 .. Len(conf), s = [i \in 1 .. Len(conf) |-> s[i]],
         \A k \in 1 .. Len(conf) : \E rdv, fresh : s[k] = [Row(conf[k]) EXCEPT !.rdv = rdv, !.fresh = fresh]
  PROVE  IsSeq(s) /\ \A k \in 1 .. Len(s) : RowTrue(s[k]) /\ HintTrue(s[k])
<1>1. Len(conf) \in Nat
  BY SeqFacts
<1>2. IsSeq(s) /\ Len(s) = Len(conf)
  BY <1>1, ListIs
<1>3. ASSUME NEW k \in 1 .. Len(s) PROVE RowTrue(s[k]) /\ HintTrue(s[k])
  <2> PICK r : r = s[k]
    OBVIOUS
  <2> PICK c : c = conf[k]
    OBVIOUS
  <2>1. k \in 1 .. Len(conf)
    BY <1>2
  <2>2. DOMAIN r = RowFields /\ r.at = c.at /\ r.id = c.id /\ r.hint = c.hint /\ r.ver = NoVersion
    <3>1. PICK rdv, fresh : r = [Row(c) EXCEPT !.rdv = rdv, !.fresh = fresh]
      BY <2>1
    <3> QED
      BY <3>1 DEF Row, RowFields
  <2>3. Reaches(r) = Reaches(c) /\ Reaches(c) \subseteq Machines
    BY <2>1, <2>2 DEF Reaches
  <2>4. RowTrue(r)
    BY <2>2, <2>3 DEF RowTrue
  <2>5. HintTrue(r)
    BY <2>1, <2>2, <2>3 DEF HintTrue
  <2> QED
    BY <2>4, <2>5
<1> QED
  BY <1>2, <1>3

LEMMA RowsJoin ==
  ASSUME NEW s, IsSeq(s), \A k \in 1 .. Len(s) : RowTrue(s[k]) /\ HintTrue(s[k]),
         NEW t, IsSeq(t), \A k \in 1 .. Len(t) : RowTrue(t[k]) /\ HintTrue(t[k]),
         NEW rows, rows = s \o t
  PROVE  IsSeq(rows) /\ \A k \in 1 .. Len(rows) : RowTrue(rows[k]) /\ HintTrue(rows[k])
<1>1. /\ IsSeq(rows) /\ Len(rows) = Len(s) + Len(t) /\ Len(s) \in Nat /\ Len(t) \in Nat
      /\ \A k \in 1 .. Len(s) : rows[k] = s[k]
      /\ \A k \in 1 .. Len(rows) : k > Len(s) => k - Len(s) \in 1 .. Len(t) /\ rows[k] = t[k - Len(s)]
  <2>1. PICK S, T : s \in Seq(S) /\ t \in Seq(T)
    BY DEF IsSeq
  <2>2. s \in Seq(S \cup T) /\ t \in Seq(S \cup T)
    BY <2>1
  <2>3. /\ rows \in Seq(S \cup T) /\ Len(rows) = Len(s) + Len(t) /\ Len(s) \in Nat /\ Len(t) \in Nat
        /\ \A k \in 1 .. Len(s) + Len(t) : rows[k] = IF k <= Len(s) THEN s[k] ELSE t[k - Len(s)]
    BY <2>2
  <2>4. IsSeq(rows)
    BY <2>3 DEF IsSeq
  <2> QED
    BY <2>3, <2>4
<1>2. ASSUME NEW k \in 1 .. Len(rows) PROVE RowTrue(rows[k]) /\ HintTrue(rows[k])
  <2>1. CASE k <= Len(s)
    <3>1. k \in 1 .. Len(s)
      BY <2>1, <1>1
    <3> QED
      BY <3>1, <1>1
  <2>2. CASE k > Len(s)
    <3>1. k - Len(s) \in 1 .. Len(t) /\ rows[k] = t[k - Len(s)]
      BY <2>2, <1>1
    <3> QED
      BY <3>1
  <2> QED
    BY <2>1, <2>2, <1>1
<1> QED
  BY <1>1, <1>2

LEMMA DiscoverStep ==
  ASSUME FleetInv, Machinery, UNCHANGED advertVars, Discover
  PROVE  FleetInv' /\ (Orderly' => Orderly)
<1>0. PICK peers \in list_peers : \E fresh \in SUBSET peers :
         LET known(c) == c.id \in peers
             confRows == [i \in 1 .. Len(conf) |->
                             [Row(conf[i]) EXCEPT
                                !.rdv = IF known(conf[i]) THEN reported[conf[i].id] ELSE NoVersion,
                                !.fresh = conf[i].id \in fresh]]
             others == SetToSeq({m \in peers : ~InConf(m)})
         IN  op' = [op EXCEPT !.at = "probing",
                              !.rows = confRows \o [i \in 1 .. Len(others) |->
                                                       ListedRow(others[i], others[i] \in fresh)],
                              !.unprobed = 1 .. Len(conf)]
  BY DEF Discover
<1>1. PICK fresh \in SUBSET peers :
         LET known(c) == c.id \in peers
             confRows == [i \in 1 .. Len(conf) |->
                             [Row(conf[i]) EXCEPT
                                !.rdv = IF known(conf[i]) THEN reported[conf[i].id] ELSE NoVersion,
                                !.fresh = conf[i].id \in fresh]]
             others == SetToSeq({m \in peers : ~InConf(m)})
         IN  op' = [op EXCEPT !.at = "probing",
                              !.rows = confRows \o [i \in 1 .. Len(others) |->
                                                       ListedRow(others[i], others[i] \in fresh)],
                              !.unprobed = 1 .. Len(conf)]
  BY <1>0
<1> DEFINE Conf1(i) == [Row(conf[i]) EXCEPT
                          !.rdv = IF conf[i].id \in peers THEN reported[conf[i].id] ELSE NoVersion,
                          !.fresh = conf[i].id \in fresh]
<1> PICK S : S = {m \in peers : ~InConf(m)}
  OBVIOUS
<1> PICK others : others = SetToSeq(S)
  OBVIOUS
<1> PICK s : s = [i \in 1 .. Len(conf) |-> Conf1(i)]
  OBVIOUS
<1> PICK t : t = [i \in 1 .. Len(others) |-> ListedRow(others[i], others[i] \in fresh)]
  OBVIOUS
<1>2. op' = [op EXCEPT !.at = "probing", !.rows = s \o t, !.unprobed = 1 .. Len(conf)]
  BY <1>1
<1>3. /\ op.at = "start" /\ job.cmd \in {"status", "update", "drift"}
      /\ job' = job /\ conf' = conf /\ sent' = sent /\ world' = world /\ spent' = spent
  BY DEF Discover, advertVars
<1>4. /\ DOMAIN op = OpFields /\ op.rows = <<>> /\ conf = job.conf /\ IsSeq(conf) /\ job \in FleetJobs
      /\ sent = {} /\ op.results = <<>> /\ op.i = 1 /\ op.via = Nobody /\ ~op.saw.online
      /\ DOMAIN op.saw = {"online", "ver"} /\ IsSeq(op.plans)
  BY <1>3 DEF FleetInv, RowsTrue, Planning
<1>5. /\ op'.at = "probing" /\ op'.rows = s \o t /\ DOMAIN op' = OpFields
      /\ op'.i = op.i /\ op'.plans = op.plans /\ op'.via = op.via /\ op'.saw = op.saw
      /\ op'.results = op.results
  BY <1>2, <1>4 DEF OpFields
<1>6. Orderly' => Orderly
  BY <1>3, <1>4, OrderlyFirst
<1>7. /\ DOMAIN job.listed \subseteq Machines
      /\ \A m \in DOMAIN job.listed : job.listed[m] \in Machines \cup {Nobody}
      /\ \A c \in Range(conf) : {c.at, c.id} \subseteq Machines \cup {Nobody}
      /\ conf \in Seq(Range(conf))
  BY <1>4, FleetAssumption
<1>8. others \in Seq(S) /\ S \subseteq peers /\ peers \subseteq DOMAIN job.listed
  <2>1. peers \subseteq DOMAIN job.listed
    BY DEF list_peers, handle_list_peers
  <2>2. IsFiniteSet(Machines) /\ S \subseteq Machines
    BY <2>1, <1>7, AdvertAssumption
  <2>3. IsFiniteSet(S)
    BY <2>2, FS_Subset
  <2> QED
    BY <2>1, <2>3, ListedOnce
<1>9. Len(conf) \in Nat /\ Len(others) \in Nat /\ DOMAIN conf = 1 .. Len(conf)
  <2>1. IsSeq(others)
    BY <1>8 DEF IsSeq
  <2> QED
    BY <2>1, <1>4, SeqFacts
<1>10. IsSeq(s) /\ \A k \in 1 .. Len(s) : RowTrue(s[k]) /\ HintTrue(s[k])
  <2>1. s = [i \in 1 .. Len(conf) |-> s[i]] /\ DOMAIN s = 1 .. Len(conf)
    BY Zenon
  <2>2. \A k \in 1 .. Len(conf) : \E rdv, fsh : s[k] = [Row(conf[k]) EXCEPT !.rdv = rdv, !.fresh = fsh]
    BY Zenon
  <2>3. \A k \in 1 .. Len(conf) : {conf[k].at, conf[k].id} \subseteq Machines \cup {Nobody}
    BY <1>7, <1>9 DEF Range
  <2>4. IsSeq(conf)
    BY <1>4
  <2> QED
    BY <2>1, <2>2, <2>3, <2>4, ConfRows, Zenon
<1>11. IsSeq(t) /\ \A k \in 1 .. Len(t) : RowTrue(t[k]) /\ HintTrue(t[k])
  <2>1. \A m \in S : m \in Machines /\ job.listed[m] \in Machines \cup {Nobody}
    BY <1>7, <1>8
  <2> QED
    BY <1>8, <2>1, ListedRows, Zenon
<1> HIDE DEF Conf1
<1> PICK rows : rows = s \o t
  OBVIOUS
<1>12. IsSeq(rows) /\ \A k \in 1 .. Len(rows) : RowTrue(rows[k]) /\ HintTrue(rows[k])
  BY <1>10, <1>11, RowsJoin, ZenonT(60)
<1>13. \A k \in 1 .. Len(rows) : RowTrue(rows[k])' /\ HintTrue(rows[k])'
  <2>1. \A r : RowTrue(r) <=> RowTrue(r)'
    <3>1. world' = world /\ spent' = spent /\ sent' = sent
      BY <1>3
    <3>2. \A x, v : Expected(x, v) <=> Expected(x, v)'
      BY <3>1 DEF Expected, Left, ByItself, SentTo
    <3>3. \A x, kind, c : SaidBy(x, kind, c) <=> SaidBy(x, kind, c)'
      BY <3>1 DEF SaidBy, CapsOf
    <3> QED
      BY <3>2, <3>3 DEF RowTrue, Reaches
  <2>2. \A r : HintTrue(r) <=> HintTrue(r)'
    BY <1>3 DEF HintTrue
  <2> QED
    BY <1>12, <2>1, <2>2
<1>14. RowsTrue'
  <2>1. IsSeq(op.rows)' /\ IsSeq(conf)' /\ (\A k \in 1 .. Len(op.rows) : RowTrue(op.rows[k]) /\ HintTrue(op.rows[k]))'
    BY <1>3, <1>4, <1>5, <1>12, <1>13
  <2> QED
    BY <2>1, <1>3, <1>4, <1>5 DEF RowsTrue
<1>15. ~Updating'
  BY <1>5 DEF Updating
<1>16. IsSeq(op'.results) /\ Len(op'.results) = 0
  <2>1. <<>> \in Seq({}) /\ Len(<<>>) = 0
    OBVIOUS
  <2> QED
    BY <1>4, <1>5, <2>1 DEF IsSeq
<1>17. FleetInv'
  BY <1>3, <1>4, <1>5, <1>14, <1>15, <1>16 DEF FleetInv
<1> QED
  BY <1>6, <1>17

-----------------------------------------------------------------------------
(* The command ends, or the update begins. *)

LEMMA SentStays ==
  ASSUME world' = world, job' = job, conf' = conf, op'.rows = op.rows, op'.plans = op.plans
  PROVE  \A s : SentTrue(s) => SentTrue(s)'
<1>1. Orderly' <=> Orderly
  BY OrderlyRows
<1> QED
  BY <1>1 DEF SentTrue

LEMMA FleetEnds ==
  ASSUME FleetInv, Machinery, UNCHANGED <<world, spent, job, conf, sent>>, NEW o, op' = o,
         o.rows = op.rows, o.saw = op.saw, DOMAIN o = OpFields, o.at = "done", IsSeq(o.plans),
         o.plans = op.plans \/ sent = {},
         job.cmd = "update" => o.results = op.results,
         (job.cmd = "update" /\ o.exit = "ok" /\ ~job.dry) => Len(o.results) = Len(o.plans)
  PROVE  FleetInv'
<1>1. /\ DOMAIN op.saw = {"online", "ver"} /\ (job.dry \/ job.cmd # "update" => sent = {})
      /\ \A s \in sent : SentTrue(s)
      /\ job.cmd = "update" => /\ IsSeq(op.results)
                               /\ Orderly => \A j \in 1 .. Len(op.results) : ResultTrue(op.results[j])
  BY DEF FleetInv
<1>2. /\ sent' = sent /\ DOMAIN o.saw = {"online", "ver"} /\ (job.dry \/ job.cmd # "update" => sent' = {})
      /\ job.cmd = "update" => /\ IsSeq(o.results)
                               /\ Orderly => \A j \in 1 .. Len(o.results) : ResultTrue(o.results[j])
  BY <1>1
<1>3. \A s \in sent' : SentTrue(s)'
  <2>1. CASE sent = {}
    BY <2>1
  <2>2. CASE o.plans = op.plans
    <3>1. \A s : SentTrue(s) => SentTrue(s)'
      BY <2>2, SentStays
    <3> QED
      BY <1>1, <3>1
  <2> QED
    BY <2>1, <2>2
<1>4. ~Updating' /\ o.at \in {"again", "drift", "update", "pushed", "pushedQuic", "verify", "verifyQuic", "done"}
      /\ o.at # "again" /\ o.at # "drift"
  BY DEF Updating
<1> QED
  BY <1>2, <1>3, <1>4, FleetGoes

LEMMA DoneIs ==
  ASSUME DOMAIN op = OpFields, NEW e, NEW o, o = Done(e)
  PROVE  /\ DOMAIN o = OpFields /\ o.at = "done" /\ o.exit = e
         /\ o.rows = op.rows /\ o.saw = op.saw /\ o.plans = op.plans /\ o.results = op.results
BY DEF Done, OpFields

LEMMA FleetFacts ==
  ASSUME FleetInv
  PROVE  /\ DOMAIN op = OpFields /\ DOMAIN op.saw = {"online", "ver"} /\ IsSeq(op.plans) /\ IsSeq(op.rows)
         /\ job.cmd = "update" => IsSeq(op.results)
         /\ op.at = "start" => op.rows = <<>> /\ conf = job.conf
         /\ op.at = "probing" => job.cmd \in {"status", "update", "drift"}
         /\ op.at = "again" => job.cmd = "update"
         /\ op.at = "drift" => job.cmd = "drift"
         /\ op.at \in {"start", "probing", "again"} =>
              sent = {} /\ op.results = <<>> /\ op.i = 1 /\ op.via = Nobody /\ ~op.saw.online
         /\ op.at \in {"update", "pushed", "pushedQuic", "verify", "verifyQuic"} => UpdateTrue
BY DEF FleetInv, RowsTrue, Planning, Updating

LEMMA LoadStep ==
  ASSUME FleetInv, Machinery, UNCHANGED advertVars, LoadFails
  PROVE  FleetInv' /\ (Orderly' => Orderly)
<1> PICK o : o = Done("error")
  OBVIOUS
<1>1. /\ op' = o /\ UNCHANGED <<world, spent, job, conf, sent>>
  BY DEF LoadFails, advertVars
<1>2. /\ DOMAIN o = OpFields /\ o.at = "done" /\ o.exit = "error"
      /\ o.rows = op.rows /\ o.saw = op.saw /\ o.plans = op.plans /\ o.results = op.results
      /\ IsSeq(op.plans)
  BY DoneIs, FleetFacts
<1>3. Orderly' => Orderly
  BY <1>1, <1>2, OrderlyRows
<1>4. FleetInv'
  BY <1>1, <1>2, FleetEnds
<1> QED
  BY <1>3, <1>4

LEMMA GroupStep ==
  ASSUME FleetInv, Machinery, UNCHANGED advertVars, DiscoverGroup
  PROVE  FleetInv' /\ (Orderly' => Orderly)
<1>1. PICK e, l : op' = Done(e) \/ op' = [Done(e) EXCEPT !.results = l]
  BY DEF DiscoverGroup
<1>2. UNCHANGED <<world, spent, job, conf, sent>> /\ job.cmd = "discover"
  BY DEF DiscoverGroup, advertVars
<1> PICK d : d = Done(e)
  OBVIOUS
<1> PICK o : o = op'
  OBVIOUS
<1>3. /\ DOMAIN d = OpFields /\ d.at = "done" /\ d.exit = e
      /\ d.rows = op.rows /\ d.saw = op.saw /\ d.plans = op.plans /\ IsSeq(op.plans)
  BY DoneIs, FleetFacts
<1>4. o = d \/ o = [d EXCEPT !.results = l]
  BY <1>1
<1>5. DOMAIN o = OpFields /\ o.at = "done" /\ o.rows = op.rows /\ o.saw = op.saw /\ o.plans = op.plans
  BY <1>3, <1>4 DEF OpFields
<1>6. Orderly' => Orderly
  BY <1>2, <1>5, OrderlyRows
<1>7. job.cmd # "update"
  BY <1>2
<1>8. FleetInv'
  BY <1>2, <1>3, <1>5, <1>7, FleetEnds
<1> QED
  BY <1>6, <1>8

LEMMA DriftStep ==
  ASSUME FleetInv, Machinery, UNCHANGED advertVars, DriftCheck
  PROVE  FleetInv' /\ (Orderly' => Orderly)
<1> PICK d : d = Done("ok")
  OBVIOUS
<1>1. PICK l : op' = [d EXCEPT !.results = l]
  BY DEF DriftCheck
<1>2. UNCHANGED <<world, spent, job, conf, sent>> /\ op.at = "drift"
  BY DEF DriftCheck, advertVars
<1> PICK o : o = op'
  OBVIOUS
<1>3. /\ DOMAIN d = OpFields /\ d.at = "done" /\ d.rows = op.rows /\ d.saw = op.saw /\ d.plans = op.plans
      /\ IsSeq(op.plans) /\ job.cmd = "drift"
  BY <1>2, DoneIs, FleetFacts
<1>4. DOMAIN o = OpFields /\ o.at = "done" /\ o.rows = op.rows /\ o.saw = op.saw /\ o.plans = op.plans
  BY <1>1, <1>3 DEF OpFields
<1>5. Orderly' => Orderly
  BY <1>2, <1>4, OrderlyRows
<1>6. job.cmd # "update"
  BY <1>3
<1>7. FleetInv'
  BY <1>2, <1>3, <1>4, <1>6, FleetEnds
<1> QED
  BY <1>5, <1>7

LEMMA UpdateDoneStep ==
  ASSUME FleetInv, Machinery, UNCHANGED advertVars, UpdateDone
  PROVE  FleetInv' /\ (Orderly' => Orderly)
<1> PICK o : o = Done("ok")
  OBVIOUS
<1>1. op' = o /\ UNCHANGED <<world, spent, job, conf, sent>> /\ op.at = "update" /\ op.i > Len(op.plans)
  BY DEF UpdateDone, advertVars
<1>2. /\ DOMAIN o = OpFields /\ o.at = "done" /\ o.rows = op.rows /\ o.saw = op.saw
      /\ o.plans = op.plans /\ o.results = op.results /\ IsSeq(op.plans) /\ UpdateTrue
  BY <1>1, DoneIs, FleetFacts
<1>3. Len(op.results) = Len(op.plans)
  <2>1. job.cmd = "update" /\ op.i = Len(op.results) + 1 /\ op.i <= Len(op.plans) + 1
    BY <1>2 DEF UpdateTrue
  <2>2. Len(op.plans) \in Nat /\ Len(op.results) \in Nat
    BY <2>1, FleetFacts, SeqFacts
  <2> QED
    BY <1>1, <2>1, <2>2
<1>4. Orderly' => Orderly
  BY <1>1, <1>2, OrderlyRows
<1>5. FleetInv'
  BY <1>1, <1>2, <1>3, FleetEnds
<1> QED
  BY <1>4, <1>5

LEMMA ConfigStep ==
  ASSUME FleetInv, Machinery, UNCHANGED advertVars, ConfigSet
  PROVE  FleetInv' /\ (Orderly' => Orderly)
<1>1. PICK e, m : op' = Done(e) /\
        (conf' = conf \/ conf' = Append(conf, [name |-> m, at |-> m, id |-> Nobody, hint |-> "none"]))
  BY DEF ConfigSet
<1> PICK o : o = Done(e)
  OBVIOUS
<1> PICK c : c = [name |-> m, at |-> m, id |-> Nobody, hint |-> "none"]
  OBVIOUS
<1>2. /\ world' = world /\ spent' = spent /\ job' = job /\ sent' = sent /\ op.at = "start" /\ job.cmd = "set"
      /\ op' = o
  BY <1>1 DEF ConfigSet, advertVars
<1>3. /\ DOMAIN o = OpFields /\ o.at = "done" /\ o.rows = op.rows /\ o.saw = op.saw
      /\ o.plans = op.plans /\ o.results = op.results
      /\ IsSeq(op.plans) /\ IsSeq(op.rows) /\ op.rows = <<>> /\ DOMAIN op.saw = {"online", "ver"} /\ sent = {}
  BY <1>2, DoneIs, FleetFacts
<1>4. IsSeq(conf)
  BY DEF FleetInv, RowsTrue
<1>5. IsSeq(conf)' /\ (TrueHints' => TrueHints)
  <2>1. CASE conf' = conf
    BY <1>2, <1>4, <2>1 DEF TrueHints
  <2>2. CASE conf' = Append(conf, c)
    <3>1. /\ IsSeq(conf') /\ Len(conf') = Len(conf) + 1 /\ Len(conf) \in Nat
          /\ \A k \in 1 .. Len(conf) : conf'[k] = conf[k]
      BY <1>4, <2>2, SeqFacts
    <3>2. TrueHints' => TrueHints
      BY <1>2, <3>1 DEF TrueHints, Reaches
    <3> QED
      BY <3>1, <3>2
  <2> QED
    BY <1>1, <2>1, <2>2
<1>6. Len(op.rows) = 0
  BY <1>3
<1>7. Orderly' => Orderly
  <2>1. TruePlatforms' => TruePlatforms
    BY <1>2 DEF TruePlatforms
  <2>2. DistinctNames /\ OwnAddresses
    BY <1>6 DEF DistinctNames, OwnAddresses
  <2> QED
    BY <1>5, <2>1, <2>2 DEF Orderly
<1>8. RowsTrue'
  BY <1>2, <1>3, <1>5, <1>6 DEF RowsTrue, Planning
<1>9. ~Updating' /\ job.cmd # "update" /\ job \in FleetJobs
  BY <1>2, <1>3 DEF Updating, FleetInv
<1>10. FleetInv'
  BY <1>2, <1>3, <1>8, <1>9 DEF FleetInv
<1> QED
  BY <1>7, <1>10

LEMMA StatusStep ==
  ASSUME FleetInv, Machinery, UNCHANGED advertVars, StatusDone
  PROVE  FleetInv' /\ (Orderly' => Orderly)
<1>1. UNCHANGED <<world, spent, job, conf, sent>> /\ op.at = "probing"
  BY DEF StatusDone, advertVars
<1>2. /\ job.cmd \in {"status", "update", "drift"}
      /\ DOMAIN op = OpFields /\ DOMAIN op.saw = {"online", "ver"} /\ IsSeq(op.plans)
      /\ sent = {} /\ op.results = <<>> /\ op.i = 1 /\ op.via = Nobody /\ ~op.saw.online
      /\ job.cmd = "update" => IsSeq(op.results)
  BY <1>1, FleetFacts
<1> PICK o : o = op'
  OBVIOUS
<1>3. CASE job.cmd = "status"
  <2>1. o = Done("ok")
    BY <1>3 DEF StatusDone
  <2>2. /\ DOMAIN o = OpFields /\ o.at = "done" /\ o.rows = op.rows /\ o.saw = op.saw /\ o.plans = op.plans
        /\ job.cmd # "update"
    BY <1>2, <1>3, <2>1, DoneIs
  <2>3. Orderly' => Orderly
    BY <1>1, <2>2, OrderlyRows
  <2>4. FleetInv'
    BY <1>1, <1>2, <2>2, FleetEnds
  <2> QED
    BY <2>3, <2>4
<1>4. CASE job.cmd # "status"
  <2>1. PICK a, u : o = [op EXCEPT !.at = a, !.unprobed = u] /\ (a = "drift" \/ a = "again")
                    /\ (a = "drift" => job.cmd = "drift") /\ (a = "again" => job.cmd = "update")
    <3>1. CASE job.cmd = "drift"
      <4>1. o = [op EXCEPT !.at = "drift", !.unprobed = op.unprobed]
        BY <1>2, <3>1 DEF StatusDone, OpFields
      <4> QED
        BY <3>1, <4>1
    <3>2. CASE job.cmd = "update"
      <4>1. o = [op EXCEPT !.at = "again",
                            !.unprobed = {i \in 1 .. Len(op.rows) : needs_relay_probe(op.rows[i])}]
        BY <3>2 DEF StatusDone
      <4> QED
        BY <3>2, <4>1
    <3> QED
      BY <1>2, <1>4, <3>1, <3>2
  <2>2. /\ DOMAIN o = OpFields /\ o.at = a /\ o.rows = op.rows /\ o.saw = op.saw /\ o.plans = op.plans
        /\ o.results = op.results /\ o.i = op.i /\ o.via = op.via
    BY <1>2, <2>1 DEF OpFields
  <2>3. Orderly' => Orderly
    BY <1>1, <2>2, OrderlyRows
  <2>4. ~Updating' /\ o.at # "done"
    BY <2>1, <2>2 DEF Updating
  <2>5. Len(o.results) = 0
    BY <1>2, <2>2
  <2>6. /\ job.cmd = "update" => /\ IsSeq(o.results)
                                 /\ Orderly => \A j \in 1 .. Len(o.results) : ResultTrue(o.results[j])
        /\ job.dry \/ job.cmd # "update" => sent' = {}
        /\ sent' = {}
    BY <1>1, <1>2, <2>2, <2>5
  <2>7. /\ o.at \in {"again", "drift", "update", "pushed", "pushedQuic", "verify", "verifyQuic", "done"}
        /\ o.at = "again" => /\ job.cmd = "update" /\ sent' = {} /\ o.results = <<>> /\ o.i = 1
                             /\ o.via = Nobody /\ ~o.saw.online
        /\ o.at = "drift" => job.cmd = "drift"
        /\ IsSeq(o.plans) /\ DOMAIN o.saw = {"online", "ver"}
    BY <1>2, <2>1, <2>2, <2>6
  <2>8. UNCHANGED <<world, spent, job, conf>> /\ sent \subseteq sent'
    BY <1>1
  <2>9. FleetInv'
    BY <2>2, <2>4, <2>6, <2>7, <2>8, FleetGoes
  <2> QED
    BY <2>3, <2>9
<1> QED
  BY <1>3, <1>4

LEMMA PlanStep ==
  ASSUME FleetInv, Machinery, UNCHANGED advertVars, Plan
  PROVE  FleetInv' /\ (Orderly' => Orderly)
<1> PICK plans : plans = plan_fleet_update(op.rows)
  OBVIOUS
<1> PICK o : o = op'
  OBVIOUS
<1>1. /\ UNCHANGED <<world, spent, job, conf, sent>> /\ op.at = "again"
      /\ o = IF job.dry THEN [Done("ok") EXCEPT !.plans = plans]
             ELSE [op EXCEPT !.at = "update", !.plans = plans]
  BY DEF Plan, advertVars
<1>2. /\ DOMAIN op = OpFields /\ DOMAIN op.saw = {"online", "ver"} /\ IsSeq(op.rows)
      /\ sent = {} /\ op.results = <<>> /\ op.i = 1 /\ op.via = Nobody /\ ~op.saw.online
      /\ job.cmd = "update"
  BY <1>1, FleetFacts
<1>3. /\ IsSeq(plans)
      /\ \A j \in 1 .. Len(plans) : \E k \in 1 .. Len(op.rows) :
           Acts(op.rows[k]) /\ plans[j] = [name |-> op.rows[k].name, os |-> classify_os(op.rows[k])]
  <2> PICK rows : rows = op.rows
    OBVIOUS
  <2>1. Len(rows) \in Nat
    BY <1>2, SeqFacts
  <2>2. plans = plan_fleet_update(rows)
    OBVIOUS
  <2> QED
    BY <2>1, <2>2, PlansAre, SMTT(30)
<1>4. CASE job.dry
  <2> PICK d : d = Done("ok")
    OBVIOUS
  <2>1. o = [d EXCEPT !.plans = plans]
    BY <1>1, <1>4
  <2>2. DOMAIN d = OpFields /\ d.at = "done" /\ d.rows = op.rows /\ d.saw = op.saw /\ d.results = op.results
    BY <1>2, DoneIs
  <2>3. /\ DOMAIN o = OpFields /\ o.at = "done" /\ o.rows = op.rows /\ o.saw = op.saw /\ o.plans = plans
        /\ o.results = op.results
    BY <2>1, <2>2 DEF OpFields
  <2>4. Orderly' => Orderly
    BY <1>1, <2>3, OrderlyRows
  <2>5. FleetInv'
    BY <1>1, <1>2, <1>3, <1>4, <2>3, FleetEnds, ZenonT(60)
  <2> QED
    BY <2>4, <2>5
<1>5. CASE ~job.dry
  <2>1. /\ DOMAIN o = OpFields /\ o.at = "update" /\ o.rows = op.rows /\ o.saw = op.saw /\ o.plans = plans
        /\ o.results = op.results /\ o.i = op.i /\ o.via = op.via
    BY <1>1, <1>2, <1>5 DEF OpFields
  <2>2. Orderly' => Orderly
    BY <1>1, <2>1, OrderlyRows
  <2>3. Len(o.results) = 0 /\ IsSeq(o.results) /\ Len(o.plans) \in Nat
    <3>1. <<>> \in Seq({}) /\ Len(<<>>) = 0
      OBVIOUS
    <3>2. Len(plans) \in Nat
      BY <1>3, SeqFacts
    <3> QED
      BY <1>2, <2>1, <3>1, <3>2 DEF IsSeq
  <2>4. \A j \in 1 .. Len(plans) : PlanTrue(plans[j])'
    <3>1. spent.pulls \in Nat /\ spent'.pulls \in Nat /\ spent'.pulls >= spent.pulls
      BY <1>1 DEF Machinery
    <3>2. op'.rows = op.rows
      BY <2>1
    <3>3. \A p : PlanTrue(p) => PlanTrue(p)'
      BY <1>1, <3>1, <3>2, RowsStay
    <3>4. \A j \in 1 .. Len(plans) : PlanTrue(plans[j])
      BY <1>3 DEF PlanTrue
    <3> QED
      BY <3>3, <3>4
  <2>5. UpdateTrue'
    <3>1. (\A j \in 1 .. Len(op.plans) : PlanTrue(op.plans[j]))'
      BY <2>1, <2>4
    <3>2. /\ job'.cmd = "update" /\ ~job'.dry /\ op'.i = Len(op'.results) + 1 /\ op'.i <= Len(op'.plans) + 1
          /\ ~op'.saw.online /\ op'.at = "update"
      BY <1>1, <1>2, <1>5, <2>1, <2>3
    <3> QED
      BY <3>1, <3>2 DEF UpdateTrue
  <2>6. /\ job.cmd = "update" => /\ IsSeq(o.results)
                                 /\ Orderly => \A j \in 1 .. Len(o.results) : ResultTrue(o.results[j])
        /\ job.dry \/ job.cmd # "update" => sent' = {}
        /\ sent' = {} /\ o.at \in {"again", "drift", "update", "pushed", "pushedQuic", "verify", "verifyQuic", "done"}
        /\ o.at # "again" /\ o.at # "drift" /\ o.at # "done"
        /\ IsSeq(o.plans) /\ DOMAIN o.saw = {"online", "ver"}
    BY <1>1, <1>2, <1>3, <2>1, <2>3
  <2>7. UNCHANGED <<world, spent, job, conf>> /\ sent \subseteq sent'
    BY <1>1
  <2>8. FleetInv'
    BY <2>1, <2>5, <2>6, <2>7, FleetGoes
  <2> QED
    BY <2>2, <2>8
<1> QED
  BY <1>4, <1>5

-----------------------------------------------------------------------------
(* The update of one host. *)

\* The row an update is for, and under Orderly the machine behind it.
LEMMA TheRowIs ==
  ASSUME FleetInv, op.at \in {"update", "pushed", "pushedQuic", "verify", "verifyQuic"}, op.i <= Len(op.plans)
  PROVE  /\ op.i \in 1 .. Len(op.plans) /\ op.i = Len(op.results) + 1 /\ Len(op.results) \in Nat
         /\ Len(op.plans) \in Nat
         /\ RowTrue(TheRow) /\ TheRow.name = ThePlan.name
         /\ Orderly => /\ HintTrue(TheRow) /\ Acts(TheRow) /\ ThePlan.os = classify_os(TheRow)
                       /\ \A x, y \in Reaches(TheRow) : x = y
<1>1. UpdateTrue /\ IsSeq(op.rows) /\ IsSeq(op.plans) /\ (job.cmd = "update" => IsSeq(op.results))
  BY FleetFacts
<1>2. /\ job.cmd = "update" /\ op.i = Len(op.results) + 1 
      /\ \A j \in 1 .. Len(op.plans) : PlanTrue(op.plans[j])
  BY <1>1 DEF UpdateTrue
<1>3. Len(op.results) \in Nat /\ Len(op.plans) \in Nat /\ Len(op.rows) \in Nat
  BY <1>1, <1>2, SeqFacts
<1>4. op.i \in 1 .. Len(op.plans)
  BY <1>2, <1>3
<1>5. PICK k \in 1 .. Len(op.rows) :
         Acts(op.rows[k]) /\ ThePlan = [name |-> op.rows[k].name, os |-> classify_os(op.rows[k])]
  BY <1>2, <1>4 DEF PlanTrue, ThePlan
<1>6. op.rows[k].name = ThePlan.name /\ ThePlan.os = classify_os(op.rows[k])
  BY <1>5
<1>7. /\ \E i \in 1 .. Len(op.rows) : TheRow = op.rows[i] /\ op.rows[i].name = ThePlan.name
      /\ Orderly => TheRow = op.rows[k]
  BY <1>3, <1>6, LookedUp DEF TheRow
<1>8. \A i \in 1 .. Len(op.rows) : RowTrue(op.rows[i]) /\ HintTrue(op.rows[i])
  BY DEF FleetInv, RowsTrue
<1>9. Orderly => \A x, y \in Reaches(op.rows[k]) : x = y
  BY OneMachine
<1> QED
  BY <1>2, <1>3, <1>4, <1>5, <1>6, <1>7, <1>8, <1>9

LEMMA PushStep ==
  ASSUME FleetInv, Machinery, UNCHANGED advertVars, Push \/ PushQuic
  PROVE  FleetInv' /\ (Orderly' => Orderly)
<1>0. PICK m, next : PushTo(m, next) /\ m \in Reaches(TheRow) /\ next \in {"pushed", "pushedQuic"}
  <2>1. CASE Push
    BY <2>1 DEF Push
  <2>2. CASE PushQuic
    <3>1. PushTo(TheRow.at, "pushedQuic") /\ TheRow.at # Nobody
      BY <2>2 DEF PushQuic, PushTo, Answers
    <3>2. TheRow.at \in Reaches(TheRow)
      BY <3>1 DEF Reaches
    <3> QED
      BY <3>1, <3>2
  <2> QED
    BY <2>1, <2>2
<1>1. /\ Answers(m)
      /\ sent' = sent \cup {[to |-> m, kind |-> pick(ThePlan.os), row |-> ThePlan.name]}
      /\ op' = [op EXCEPT !.at = next, !.via = m]
  BY <1>0 DEF PushTo
<1>2. /\ UNCHANGED <<world, spent, job, conf>> /\ op.at = "update" /\ op.i <= Len(op.plans)
      /\ sent \subseteq sent'
  BY <1>0, <1>1 DEF Push, PushQuic, HostLeft, PushTo, advertVars
<1>3. /\ DOMAIN op = OpFields /\ DOMAIN op.saw = {"online", "ver"} /\ IsSeq(op.plans) /\ UpdateTrue
  BY <1>2, FleetFacts
<1> PICK o : o = op'
  OBVIOUS
<1> PICK s : s = [to |-> m, kind |-> pick(ThePlan.os), row |-> ThePlan.name]
  OBVIOUS
<1>4. /\ DOMAIN o = OpFields /\ o.at = next /\ o.via = m /\ o.rows = op.rows /\ o.saw = op.saw
      /\ o.plans = op.plans /\ o.results = op.results /\ o.i = op.i
  BY <1>1, <1>3 DEF OpFields
<1>5. Orderly' <=> Orderly
  BY <1>2, <1>4, OrderlyRows
<1>6. /\ op.i \in 1 .. Len(op.plans)
      /\ RowTrue(TheRow) /\ TheRow.name = ThePlan.name
      /\ Orderly => /\ HintTrue(TheRow) /\ Acts(TheRow) /\ ThePlan.os = classify_os(TheRow)
                    /\ \A x, y \in Reaches(TheRow) : x = y
  BY <1>2, TheRowIs
<1>7. m \in Reaches(TheRow) /\ m \in Machines \ {Nobody}
  BY <1>0, <1>1, <1>6 DEF RowTrue, Answers
<1>8. TheRow' = TheRow /\ ThePlan' = ThePlan /\ pick(ThePlan.os)' = pick(ThePlan.os)
  BY <1>2, <1>4 DEF TheRow, ThePlan, status_by_name, pick, load_optional_binary
<1>9. /\ job.cmd = "update" /\ ~job.dry /\ op.i = Len(op.results) + 1 /\ op.i <= Len(op.plans) + 1
      /\ \A j \in 1 .. Len(op.plans) : PlanTrue(op.plans[j])
      /\ ~op.saw.online
  BY <1>2, <1>3 DEF UpdateTrue
<1>10. UpdateTrue'
  <2>1. \A p : PlanTrue(p) => PlanTrue(p)'
    <3>1. spent.pulls \in Nat /\ spent'.pulls \in Nat /\ spent'.pulls >= spent.pulls
      BY <1>2 DEF Machinery
    <3> QED
      BY <1>2, <1>4, <3>1, RowsStay
  <2>2. (\A j \in 1 .. Len(op.plans) : PlanTrue(op.plans[j]))'
    BY <1>4, <1>9, <2>1
  <2>3. op'.via \in Reaches(TheRow')
    BY <1>4, <1>7, <1>8
  <2>4. [to |-> op.via, kind |-> pick(ThePlan.os), row |-> ThePlan.name]' = s
    BY <1>4, <1>8
  <2>5. s \in sent'
    BY <1>1
  <2>6. /\ job'.cmd = "update" /\ ~job'.dry /\ op'.i = Len(op'.results) + 1 /\ op'.i <= Len(op'.plans) + 1
        /\ ~op'.saw.online /\ op'.at \in {"pushed", "pushedQuic"}
        /\ op'.i <= Len(op'.plans) /\ op'.via \in Machines \ {Nobody}
    BY <1>0, <1>2, <1>4, <1>7, <1>9
  <2> QED
    BY <2>2, <2>3, <2>4, <2>5, <2>6 DEF UpdateTrue, Reaches
<1>11. SentTrue(s)'
  <2>1. s.to = m /\ s.kind = pick(ThePlan.os) /\ s.row = ThePlan.name
    OBVIOUS
  <2>2. (\E j \in 1 .. Len(op.plans) : op.plans[j].name = s.row)'
    BY <1>4, <1>6, <2>1 DEF ThePlan
  <2>3. ASSUME Orderly
        PROVE  LET w == world.machine[m]
               IN  \/ Fits(s.kind, w.os)
                   \/ w.os = "linux-musl" /\ s.kind = "linux" /\ "linux-musl" \notin job.bins
                   \/ w.os \in Apart /\ w.legacy
    <3> PICK r : r = TheRow
      OBVIOUS
    <3>1. Acts(r) /\ RowTrue(r) /\ HintTrue(r) /\ m \in Reaches(r) /\ ThePlan.os = classify_os(r)
          /\ \A x, y \in Reaches(r) : x = y
      BY <1>6, <1>7, <2>3
    <3>2. PICK said : SaidBy(m, said, r.caps)
      BY <3>1 DEF RowTrue, Acts
    <3>3. r.hint # "none" => r.hint = world.machine[m].os
      BY <3>1, <2>3 DEF HintTrue, Orderly, TrueHints
    <3>4. world.machine[m].os \in OsKind
      BY <1>7, AdvertAssumption DEF Machinery
    <3> QED
      BY <2>1, <3>1, <3>2, <3>3, <3>4, RightChoice
  <2> QED
    BY <1>2, <1>5, <2>1, <2>2, <2>3 DEF SentTrue
<1>12. \A z \in sent' : SentTrue(z)'
  <2>1. \A z \in sent : SentTrue(z)
    BY DEF FleetInv
  <2>2. \A z : SentTrue(z) => SentTrue(z)'
    BY <1>2, <1>4, SentStays
  <2> QED
    BY <1>1, <1>11, <2>1, <2>2
<1>13. /\ job.cmd = "update" => /\ IsSeq(o.results)
                                /\ Orderly => \A j \in 1 .. Len(o.results) : ResultTrue(o.results[j])
  BY <1>4 DEF FleetInv
<1>14. FleetInv'
  BY <1>0, <1>2, <1>3, <1>4, <1>9, <1>10, <1>12, <1>13, FleetGoes
<1> QED
  BY <1>5, <1>14

\* The result of a host is added, and the next one is next.
LEMMA ResultStep ==
  ASSUME FleetInv, Machinery, UNCHANGED <<world, spent, job, conf, sent>>,
         op.at \in {"update", "pushed", "pushedQuic", "verify", "verifyQuic"}, op.i <= Len(op.plans),
         NEW r, Orderly => ResultTrue(r),
         op' = [op EXCEPT !.results = Append(op.results, r), !.at = "update", !.i = op.i + 1,
                          !.via = Nobody, !.polls = 0, !.saw = [online |-> FALSE, ver |-> NoVersion]]
  PROVE  FleetInv' /\ (Orderly' => Orderly)
<1>1. /\ DOMAIN op = OpFields /\ DOMAIN op.saw = {"online", "ver"} /\ IsSeq(op.plans) /\ UpdateTrue
      /\ job.cmd = "update" => IsSeq(op.results)
  BY FleetFacts
<1>2. /\ job.cmd = "update" /\ ~job.dry
      /\ \A j \in 1 .. Len(op.plans) : PlanTrue(op.plans[j])
  BY <1>1 DEF UpdateTrue
<1> PICK o : o = op'
  OBVIOUS
<1> PICK l : l = Append(op.results, r)
  OBVIOUS
<1> PICK w : w = [online |-> FALSE, ver |-> NoVersion]
  OBVIOUS
<1>3. DOMAIN w = {"online", "ver"} /\ ~w.online
  OBVIOUS
<1>4. /\ DOMAIN o = OpFields /\ o.at = "update" /\ o.via = Nobody /\ o.rows = op.rows /\ o.saw = w
      /\ o.plans = op.plans /\ o.results = l /\ o.i = op.i + 1
  BY <1>1 DEF OpFields
<1>5. Orderly' <=> Orderly
  BY <1>4, OrderlyRows
<1>6. /\ IsSeq(l) /\ Len(l) = Len(op.results) + 1 /\ l[Len(l)] = r
      /\ \A j \in 1 .. Len(op.results) : l[j] = op.results[j]
  BY <1>1, <1>2, SeqFacts
<1>7. /\ op.i \in 1 .. Len(op.plans) /\ op.i = Len(op.results) + 1 /\ Len(op.results) \in Nat
      /\ Len(op.plans) \in Nat
  BY TheRowIs
<1>8. UpdateTrue'
  <2>1. \A p : PlanTrue(p) => PlanTrue(p)'
    <3>1. spent.pulls \in Nat /\ spent'.pulls \in Nat /\ spent'.pulls >= spent.pulls
      BY DEF Machinery
    <3> QED
      BY <1>4, <3>1, RowsStay
  <2>2. (\A j \in 1 .. Len(op.plans) : PlanTrue(op.plans[j]))'
    BY <1>2, <1>4, <2>1
  <2>3. /\ job'.cmd = "update" /\ ~job'.dry /\ op'.i = Len(op'.results) + 1 /\ op'.i <= Len(op'.plans) + 1
        /\ ~op'.saw.online /\ op'.at = "update"
    BY <1>2, <1>3, <1>4, <1>6, <1>7
  <2> QED
    BY <2>2, <2>3 DEF UpdateTrue
<1>9. /\ IsSeq(o.results)
      /\ Orderly => \A j \in 1 .. Len(o.results) : ResultTrue(o.results[j])
  <2>1. Orderly => \A j \in 1 .. Len(op.results) : ResultTrue(op.results[j])
    BY <1>2 DEF FleetInv
  <2>2. \A j \in 1 .. Len(l) : j = Len(l) \/ j \in 1 .. Len(op.results)
    BY <1>6, <1>7
  <2> QED
    BY <1>4, <1>6, <2>1, <2>2
<1>10. \A s \in sent' : SentTrue(s)'
  <2>1. \A s \in sent : SentTrue(s)
    BY DEF FleetInv
  <2>2. \A s : SentTrue(s) => SentTrue(s)'
    BY <1>4, SentStays
  <2> QED
    BY <2>1, <2>2
<1>11. FleetInv'
  BY <1>1, <1>2, <1>3, <1>4, <1>8, <1>9, <1>10, FleetGoes
<1> QED
  BY <1>5, <1>11

\* The host has failed, whatever its machine has done.
LEMMA FailsStep ==
  ASSUME FleetInv, Machinery, UNCHANGED <<world, spent, job, conf, sent>>,
         op.at \in {"update", "pushed", "pushedQuic", "verify", "verifyQuic"},
         op.at = "update" => op.i <= Len(op.plans), op' = Result(FALSE, NoVersion)
  PROVE  FleetInv' /\ (Orderly' => Orderly)
<1> PICK r : r = [name |-> ThePlan.name, to |-> op.via, success |-> FALSE, old |-> TheRow.ver, new |-> NoVersion]
  OBVIOUS
<1>2. op.i <= Len(op.plans)
  BY FleetFacts DEF UpdateTrue
<1>3. ResultTrue(r)
  BY DEF ResultTrue
<1>4. DOMAIN op = OpFields
  BY DEF FleetInv
<1>5. op' = [op EXCEPT !.results = Append(op.results, r), !.at = "update", !.i = op.i + 1,
                       !.via = Nobody, !.polls = 0, !.saw = [online |-> FALSE, ver |-> NoVersion]]
  BY <1>4 DEF Result, OpFields
<1> QED
  BY <1>2, <1>3, <1>5, ResultStep

LEMMA PushFailsStep ==
  ASSUME FleetInv, Machinery, UNCHANGED advertVars, PushFails
  PROVE  FleetInv' /\ (Orderly' => Orderly)
<1>1. /\ UNCHANGED <<world, spent, job, conf, sent>> /\ op.at = "update" /\ op.i <= Len(op.plans)
      /\ op' = Result(FALSE, NoVersion)
  BY DEF PushFails, HostLeft, advertVars
<1> QED
  BY <1>1, FailsStep

\* A version that is not the old one is the operator's, if nothing else changes the machine.
LEMMA NewIsTarget ==
  ASSUME Acts(TheRow), RowTrue(TheRow), \A x, y \in Reaches(TheRow) : x = y,
         NEW x \in Reaches(TheRow), NEW v, Expected(x, v), Left(x), v # TheRow.ver
  PROVE  v = Target
<1>1. TheRow.ver # NoVersion /\ TheRow.ver # Target
  BY DEF Acts, Known
<1>2. PICK y \in Reaches(TheRow) : Expected(y, TheRow.ver)
  BY <1>1 DEF RowTrue
<1>3. y = x
  OBVIOUS
<1> QED
  BY <1>1, <1>2, <1>3 DEF Expected

\* A host is reported with the version a probe has seen.
LEMMA SeenTrue ==
  ASSUME FleetInv, Machinery, UNCHANGED <<world, spent, job, conf, sent>>, op.at \in {"verify", "verifyQuic"},
         NEW q \in probe_host(TheRow), q.online, op' = Result(TRUE, q.ver)
  PROVE  FleetInv' /\ (Orderly' => Orderly)
<1>3. DOMAIN op = OpFields /\ UpdateTrue
  BY FleetFacts
<1>4. /\ op.i <= Len(op.plans) /\ op.via \in Machines \ {Nobody} /\ (Orderly => op.via \in Reaches(TheRow))
  BY <1>3 DEF UpdateTrue
<1>5. /\ RowTrue(TheRow)
      /\ Orderly => Acts(TheRow) /\ \A x, y \in Reaches(TheRow) : x = y
  BY <1>4, TheRowIs
<1> PICK r : r = [name |-> ThePlan.name, to |-> op.via, success |-> TRUE, old |-> TheRow.ver, new |-> q.ver]
  OBVIOUS
<1>6. /\ DOMAIN r = {"name", "to", "success", "old", "new"}
      /\ r.to = op.via /\ r.old = TheRow.ver /\ r.new = q.ver
  OBVIOUS
<1>7. op' = [op EXCEPT !.results = Append(op.results, r), !.at = "update", !.i = op.i + 1,
                       !.via = Nobody, !.polls = 0, !.saw = [online |-> FALSE, ver |-> NoVersion]]
  BY <1>3 DEF Result, OpFields
<1>8. PICK x \in Reaches(TheRow) : Expected(x, q.ver)
  BY <1>5, ProbeTrue
<1>9. ASSUME Orderly PROVE ResultTrue(r)
  <2>1. x = op.via /\ q.ver # NoVersion
    BY <1>4, <1>5, <1>8, <1>9 DEF Expected
  <2>2. Left(op.via) /\ q.ver # TheRow.ver => q.ver = Target
    BY <1>5, <1>8, <1>9, <2>1, NewIsTarget
  <2> QED
    BY <1>4, <1>6, <2>1, <2>2 DEF ResultTrue
<1> QED
  BY <1>4, <1>7, <1>9, ResultStep

LEMMA VerifyPollStep ==
  ASSUME FleetInv, Machinery, UNCHANGED advertVars, VerifyPoll
  PROVE  FleetInv' /\ (Orderly' => Orderly)
<1>1. PICK q \in probe_host(TheRow) :
         op' = IF q.online /\ q.ver # TheRow.ver THEN Result(TRUE, q.ver)
               ELSE [op EXCEPT !.polls = @ + 1,
                               !.saw = [online |-> q.online, ver |-> IF q.online THEN q.ver ELSE @.ver]]
  BY DEF VerifyPoll
<1>2. UNCHANGED <<world, spent, job, conf, sent>> /\ op.at = "verify"
  BY DEF VerifyPoll, advertVars
<1>3. /\ DOMAIN op = OpFields /\ IsSeq(op.plans) /\ UpdateTrue /\ DOMAIN op.saw = {"online", "ver"}
      /\ job.cmd = "update" => IsSeq(op.results)
  BY <1>2, FleetFacts
<1>4. /\ op.i <= Len(op.plans) /\ op.via \in Machines \ {Nobody} /\ (Orderly => op.via \in Reaches(TheRow))
      /\ job.cmd = "update" /\ ~job.dry /\ op.i = Len(op.results) + 1 /\ op.i <= Len(op.plans) + 1
      /\ \A j \in 1 .. Len(op.plans) : PlanTrue(op.plans[j])
  BY <1>2, <1>3 DEF UpdateTrue
<1>5. /\ RowTrue(TheRow)
      /\ Orderly => Acts(TheRow) /\ \A x, y \in Reaches(TheRow) : x = y
  BY <1>2, <1>4, TheRowIs
<1>7. CASE q.online /\ q.ver # TheRow.ver
  BY <1>1, <1>2, <1>7, SeenTrue
<1>8. CASE ~(q.online /\ q.ver # TheRow.ver)
  <2> PICK o : o = op'
    OBVIOUS
  <2>1. PICK w, p : /\ o = [op EXCEPT !.polls = p, !.saw = w]
                    /\ DOMAIN w = {"online", "ver"} /\ (w.online => w.ver = TheRow.ver)
    <3> PICK v : v = IF q.online THEN q.ver ELSE op.saw.ver
      OBVIOUS
    <3> PICK w : w = [online |-> q.online, ver |-> v]
      OBVIOUS
    <3>1. o = [op EXCEPT !.polls = op.polls + 1, !.saw = w]
      BY <1>1, <1>3, <1>8 DEF OpFields
    <3>2. DOMAIN w = {"online", "ver"} /\ w.online = q.online /\ w.ver = v
      OBVIOUS
    <3>3. w.online => w.ver = TheRow.ver
      BY <1>8, <3>2
    <3> QED
      BY <3>1, <3>2, <3>3
  <2>2. /\ DOMAIN o = OpFields /\ o.at = "verify" /\ o.via = op.via /\ o.rows = op.rows /\ o.saw = w
        /\ o.plans = op.plans /\ o.results = op.results /\ o.i = op.i
    BY <1>2, <1>3, <2>1 DEF OpFields
  <2>3. Orderly' <=> Orderly
    BY <1>2, <2>2, OrderlyRows
  <2>4. TheRow' = TheRow
    BY <1>2, <2>2 DEF TheRow, ThePlan, status_by_name
  <2>5. UpdateTrue'
    <3>1. \A p1 : PlanTrue(p1) => PlanTrue(p1)'
      <4>1. spent.pulls \in Nat /\ spent'.pulls \in Nat /\ spent'.pulls >= spent.pulls
        BY <1>2 DEF Machinery
      <4> QED
        BY <1>2, <2>2, <4>1, RowsStay
    <3>2. (\A j \in 1 .. Len(op.plans) : PlanTrue(op.plans[j]))'
      BY <1>4, <2>2, <3>1
    <3>3. /\ job'.cmd = "update" /\ ~job'.dry /\ op'.i = Len(op'.results) + 1 /\ op'.i <= Len(op'.plans) + 1
          /\ op'.at = "verify" /\ op'.i <= Len(op'.plans) /\ op'.via \in Machines \ {Nobody}
          /\ op'.via = op.via /\ op'.saw = w
      BY <1>2, <1>4, <2>2
    <3>4. /\ (op.saw.online => op.saw.ver = TheRow.ver)'
          /\ (Orderly => op.via \in Reaches(TheRow))'
      BY <1>4, <2>1, <2>3, <2>4, <3>3 DEF Reaches
    <3> QED
      BY <3>2, <3>3, <3>4 DEF UpdateTrue
  <2>6. \A s \in sent' : SentTrue(s)'
    <3>1. \A s \in sent : SentTrue(s)
      BY DEF FleetInv
    <3>2. \A s : SentTrue(s) => SentTrue(s)'
      BY <1>2, <2>2, SentStays
    <3> QED
      BY <1>2, <3>1, <3>2
  <2>7. /\ IsSeq(o.results)
        /\ Orderly => \A j \in 1 .. Len(o.results) : ResultTrue(o.results[j])
    BY <1>4, <2>2 DEF FleetInv
  <2>8. FleetInv'
    BY <1>2, <1>3, <1>4, <2>1, <2>2, <2>5, <2>6, <2>7, FleetGoes
  <2> QED
    BY <2>3, <2>8
<1> QED
  BY <1>7, <1>8

LEMMA VerifyEndsStep ==
  ASSUME FleetInv, Machinery, UNCHANGED advertVars, VerifyEnds
  PROVE  FleetInv' /\ (Orderly' => Orderly)
<1>1. /\ UNCHANGED <<world, spent, job, conf, sent>> /\ op.at = "verify"
      /\ op' = IF op.saw.online THEN Result(TRUE, op.saw.ver) ELSE Result(FALSE, NoVersion)
  BY DEF VerifyEnds, advertVars
<1>2. DOMAIN op = OpFields /\ UpdateTrue
  BY <1>1, FleetFacts
<1>3. /\ op.i <= Len(op.plans) /\ op.via \in Machines \ {Nobody}
      /\ op.saw.online => (Orderly => op.saw.ver = TheRow.ver)
  BY <1>1, <1>2 DEF UpdateTrue
<1>4. Orderly => Acts(TheRow)
  BY <1>1, <1>3, TheRowIs
<1>5. CASE op.saw.online
  <2> PICK v : v = op.saw.ver
    OBVIOUS
  <2> PICK r : r = [name |-> ThePlan.name, to |-> op.via, success |-> TRUE, old |-> TheRow.ver, new |-> v]
    OBVIOUS
  <2>1. /\ DOMAIN r = {"name", "to", "success", "old", "new"}
        /\ r.to = op.via /\ r.old = TheRow.ver /\ r.new = v
    OBVIOUS
  <2>2. op' = [op EXCEPT !.results = Append(op.results, r), !.at = "update", !.i = op.i + 1,
                         !.via = Nobody, !.polls = 0, !.saw = [online |-> FALSE, ver |-> NoVersion]]
    BY <1>1, <1>2, <1>5 DEF Result, OpFields
  <2>3. Orderly => ResultTrue(r)
    BY <1>3, <1>4, <1>5, <2>1 DEF ResultTrue, Acts
  <2> QED
    BY <1>1, <1>3, <2>2, <2>3, ResultStep
<1>6. CASE ~op.saw.online
  BY <1>1, <1>6, FailsStep
<1> QED
  BY <1>5, <1>6

LEMMA VerifyQuicStep ==
  ASSUME FleetInv, Machinery, UNCHANGED advertVars, VerifyQuic
  PROVE  FleetInv' /\ (Orderly' => Orderly)
<1>1. PICK q \in probe_host(TheRow) :
         op' = IF q.online THEN Result(TRUE, q.ver) ELSE Result(FALSE, NoVersion)
  BY DEF VerifyQuic
<1>2. UNCHANGED <<world, spent, job, conf, sent>> /\ op.at = "verifyQuic"
  BY DEF VerifyQuic, advertVars
<1>3. CASE q.online
  BY <1>1, <1>2, <1>3, SeenTrue
<1>4. CASE ~q.online
  BY <1>1, <1>2, <1>4, FailsStep
<1> QED
  BY <1>3, <1>4

\* The machine has the binary, and answers or not.
LEMMA AskedStep ==
  ASSUME FleetInv, Machinery, UNCHANGED <<world, spent, job, conf, sent>>, op.at \in {"pushed", "pushedQuic"},
         NEW next \in {"verify", "verifyQuic"}, op' = [op EXCEPT !.at = next]
  PROVE  FleetInv' /\ (Orderly' => Orderly)
<1>2. /\ DOMAIN op = OpFields /\ DOMAIN op.saw = {"online", "ver"} /\ IsSeq(op.plans) /\ UpdateTrue
  BY FleetFacts
<1> PICK o : o = op'
  OBVIOUS
<1>3. /\ DOMAIN o = OpFields /\ o.at = next /\ o.via = op.via /\ o.rows = op.rows /\ o.saw = op.saw
      /\ o.plans = op.plans /\ o.results = op.results /\ o.i = op.i
  BY <1>2 DEF OpFields
<1>4. Orderly' <=> Orderly
  BY <1>3, OrderlyRows
<1>5. /\ op.i <= Len(op.plans) /\ op.via \in Machines \ {Nobody} /\ (Orderly => op.via \in Reaches(TheRow))
      /\ job.cmd = "update" /\ ~job.dry /\ op.i = Len(op.results) + 1 /\ op.i <= Len(op.plans) + 1
      /\ \A j \in 1 .. Len(op.plans) : PlanTrue(op.plans[j])
      /\ ~op.saw.online
  BY <1>2 DEF UpdateTrue
<1>6. TheRow' = TheRow
  BY <1>3 DEF TheRow, ThePlan, status_by_name
<1>7. UpdateTrue'
  <2>1. \A p : PlanTrue(p) => PlanTrue(p)'
    <3>1. spent.pulls \in Nat /\ spent'.pulls \in Nat /\ spent'.pulls >= spent.pulls
      BY DEF Machinery
    <3> QED
      BY <1>3, <3>1, RowsStay
  <2>2. (\A j \in 1 .. Len(op.plans) : PlanTrue(op.plans[j]))'
    BY <1>3, <1>5, <2>1
  <2>3. /\ job'.cmd = "update" /\ ~job'.dry /\ op'.i = Len(op'.results) + 1 /\ op'.i <= Len(op'.plans) + 1
        /\ op'.at \in {"verify", "verifyQuic"} /\ op'.i <= Len(op'.plans) /\ op'.via \in Machines \ {Nobody}
        /\ op'.via = op.via /\ ~op'.saw.online
    BY <1>3, <1>5
  <2>4. (Orderly => op.via \in Reaches(TheRow))'
    BY <1>4, <1>5, <1>6, <2>3 DEF Reaches
  <2> QED
    BY <2>2, <2>3, <2>4 DEF UpdateTrue
<1>8. \A s \in sent' : SentTrue(s)'
  <2>1. \A s \in sent : SentTrue(s)
    BY DEF FleetInv
  <2>2. \A s : SentTrue(s) => SentTrue(s)'
    BY <1>3, SentStays
  <2> QED
    BY <2>1, <2>2
<1>9. /\ IsSeq(o.results)
      /\ Orderly => \A j \in 1 .. Len(o.results) : ResultTrue(o.results[j])
  BY <1>3, <1>5 DEF FleetInv
<1>10. FleetInv'
  BY <1>2, <1>3, <1>5, <1>7, <1>8, <1>9, FleetGoes
<1> QED
  BY <1>4, <1>10

LEMMA UpdateFleet ==
  ASSUME FleetInv, Machinery, UpdateStep
  PROVE  FleetInv' /\ (Orderly' => Orderly)
<1>1. UNCHANGED <<world, spent, job, conf, sent>> /\ op.at \in {"pushed", "pushedQuic"}
  BY DEF UpdateStep, SelfUpdate, SelfUpdateFails, QuicUpdate
<1>2. op' = Result(FALSE, NoVersion) \/ \E next \in {"verify", "verifyQuic"} : op' = [op EXCEPT !.at = next]
  BY DEF UpdateStep, SelfUpdate, SelfUpdateFails, QuicUpdate
<1> QED
  BY <1>1, <1>2, AskedStep, FailsStep

LEMMA UpdateMachinery ==
  ASSUME AdvertInv, FleetInv, Machinery, UpdateStep, Orderly' => Orderly
  PROVE  Machinery'
<1> PICK m : m = op.via
  OBVIOUS
<1> PICK k : k = pick(ThePlan.os)
  OBVIOUS
<1>1. /\ op.at \in {"pushed", "pushedQuic"} /\ world' = world /\ adverts' = adverts /\ spent' = spent
      /\ task' = task /\ sent' = sent /\ UNCHANGED <<wire, pub>>
  BY DEF UpdateStep, SelfUpdate, SelfUpdateFails, QuicUpdate
<1>2. UpdateTrue
  BY <1>1, FleetFacts
<1>3. /\ m \in Machines /\ [to |-> m, kind |-> k, row |-> ThePlan.name] \in sent
  BY <1>1, <1>2 DEF UpdateTrue
<1> PICK s : s = [to |-> m, kind |-> k, row |-> ThePlan.name]
  OBVIOUS
<1>4. s \in sent /\ s.to = m /\ s.kind = k
  BY <1>3
<1>5. Pushed.ver = Target /\ Pushed.kind = k
  BY DEF Pushed
<1>6. Binary(m, Pushed)
  <2>1. m \in SentTo
    BY <1>4 DEF SentTo
  <2>2. Expected(m, Target)
    BY <2>1, FleetAssumption DEF Expected
  <2>3. SentTrue(s)
    BY <1>4 DEF FleetInv
  <2>4. Orderly => Suits(k, m)
    BY <1>4, <2>3 DEF SentTrue, Suits, Odd, Apart
  <2> QED
    BY <1>5, <2>2, <2>4 DEF Binary
<1>7. \/ machine' = machine
      \/ machine[m].up /\ (handle_self_update(m, Pushed, "push") \/ Disarmed(m) \/ Schtask(m))
  BY DEF UpdateStep, SelfUpdate, SelfUpdateFails, QuicUpdate, Answers
<1>8. CASE machine' = machine
  BY <1>1, <1>8, FleetMachinery DEF advertVars
<1>9. ASSUME machine[m].up, handle_self_update(m, Pushed, "push") \/ Disarmed(m) \/ Schtask(m)
      PROVE  \E r : machine' = [machine EXCEPT ![m] = r] /\ MachineGood(m, r)
  <2>1. CASE handle_self_update(m, Pushed, "push")
    BY <1>3, <1>6, <1>9, <2>1, TakenGood
  <2>2. CASE Disarmed(m)
    BY <1>3, <2>2, DisarmedGood
  <2>3. CASE Schtask(m)
    <3>1. PICK b \in {Pushed, Running(m)} :
                 machine' = [machine EXCEPT ![m] = [@ EXCEPT !.next = b, !.by = "schtask"]]
      BY <2>3 DEF Schtask
    <3> PICK q : q = machine[m]
      OBVIOUS
    <3> PICK r : r = [q EXCEPT !.next = b, !.by = "schtask"]
      OBVIOUS
    <3>2. machine' = [machine EXCEPT ![m] = r]
      BY <3>1
    <3>3. DOMAIN q = MachineFields /\ MachineTrue(m) /\ Binary(m, q.old)
      BY <1>3, KnownMachine
    <3>4. r.ver = q.ver /\ r.kind = q.kind /\ r.up = q.up /\ r.next = b /\ r.old = q.old
      BY <3>3 DEF MachineFields
    <3>5. Binary(m, b)
      BY <1>6, <1>9, <3>3, RunningGood
    <3>6. MachineGood(m, r)
      BY <1>3, <3>3, <3>4, <3>5, SameRuns
    <3> QED
      BY <3>2, <3>6
  <2> QED
    BY <1>9, <2>1, <2>2, <2>3
<1>10. CASE machine' # machine
  <2>1. PICK r : machine' = [machine EXCEPT ![m] = r] /\ MachineGood(m, r)
    BY <1>7, <1>9, <1>10
  <2>2. /\ \A n \in Machines, u \in Tasks : task'[n][u] = task[n][u] \/ task'[n][u].at \in Resting
        /\ DOMAIN spent' = DOMAIN spent /\ spent'.pulls = spent.pulls /\ sent \subseteq sent'
    BY <1>1
  <2> QED
    BY <1>1, <1>3, <2>1, <2>2, MachineGoes
<1> QED
  BY <1>8, <1>10

LEMMA FleetStepTrue ==
  ASSUME FleetInv, Machinery, FleetStep, UNCHANGED advertVars
  PROVE  FleetInv' /\ (Orderly' => Orderly)
<1>1. CASE \E i \in 1 .. Len(op.rows) : Probe(i) \/ RelayProbe(i)
  BY <1>1, ProbeStep
<1>2. CASE LoadFails \/ Discover \/ StatusDone \/ Plan \/ UpdateDone
  BY <1>2, LoadStep, DiscoverStep, StatusStep, PlanStep, UpdateDoneStep
<1>3. CASE Push \/ PushQuic \/ PushFails \/ VerifyPoll \/ VerifyEnds \/ VerifyQuic
  BY <1>3, PushStep, PushFailsStep, VerifyPollStep, VerifyEndsStep, VerifyQuicStep
<1>4. CASE ConfigSet \/ DriftCheck \/ DiscoverGroup
  BY <1>4, ConfigStep, DriftStep, GroupStep
<1> QED
  BY <1>1, <1>2, <1>3, <1>4 DEF FleetStep

LEMMA SentGrows ==
  ASSUME FleetStep
  PROVE  sent \subseteq sent'
<1>1. CASE \E i \in 1 .. Len(op.rows) : Probe(i) \/ RelayProbe(i)
  BY <1>1 DEF Probe, RelayProbe
<1>2. CASE LoadFails \/ Discover \/ StatusDone \/ Plan \/ UpdateDone
  BY <1>2 DEF LoadFails, Discover, StatusDone, Plan, UpdateDone
<1>3. CASE Push \/ PushQuic
  BY <1>3 DEF Push, PushQuic, PushTo
<1>4. CASE PushFails \/ VerifyPoll \/ VerifyEnds \/ VerifyQuic
  BY <1>4 DEF PushFails, VerifyPoll, VerifyEnds, VerifyQuic
<1>5. CASE ConfigSet \/ DriftCheck \/ DiscoverGroup
  BY <1>5 DEF ConfigSet, DriftCheck, DiscoverGroup
<1> QED
  BY <1>1, <1>2, <1>3, <1>4, <1>5 DEF FleetStep

LEMMA FleetTrueStep ==
  ASSUME AdvertInv, Machinery, FleetInv, FleetNext \/ UNCHANGED <<advertVars, fleetVars>>
  PROVE  Machinery' /\ FleetInv'
<1>1. CASE FleetStep /\ UNCHANGED advertVars
  BY <1>1, FleetStepTrue, FleetMachinery, SentGrows
<1>2. CASE UpdateStep
  BY <1>2, UpdateFleet, UpdateMachinery
<1>3. CASE UNCHANGED advertVars /\ UNCHANGED <<job, conf, op, sent>>
  <2>1. /\ world' = world /\ conf' = conf /\ op' = op
        /\ spent.pulls \in Nat /\ spent'.pulls \in Nat /\ spent'.pulls >= spent.pulls
    BY <1>3 DEF advertVars, Machinery
  <2>2. Orderly' => Orderly
    BY <2>1, OrderlyQuiet
  <2> QED
    BY <1>3, <2>1, <2>2, FleetWaits, FleetMachinery
<1>4. CASE (\E m \in Machines : Register(m)) /\ UNCHANGED advertVars
  <2>1. UNCHANGED <<job, conf, op, sent>>
    BY <1>4 DEF Register
  <2> QED
    BY <1>3, <1>4, <2>1
<1>5. CASE UNCHANGED <<advertVars, fleetVars>>
  <2>1. UNCHANGED advertVars /\ UNCHANGED <<job, conf, op, sent>>
    BY <1>5 DEF fleetVars
  <2> QED
    BY <1>3, <2>1
<1>6. CASE AdvertNext /\ UNCHANGED fleetVars
  <2>1. /\ world' = world /\ UNCHANGED <<job, conf, op, sent>>
        /\ spent.pulls \in Nat /\ spent'.pulls \in Nat /\ spent'.pulls >= spent.pulls
    BY <1>6, AdvertSpends DEF fleetVars
  <2> QED
    BY <1>6, <2>1, FleetWaits, AdvertMachinery
<1> QED
  BY <1>1, <1>2, <1>4, <1>5, <1>6 DEF FleetNext

LEMMA FleetKeeps ==
  ASSUME AdvertInv, Machinery, FleetInv, [FleetNext]_<<advertVars, fleetVars>>
  PROVE  (AdvertInv /\ Machinery /\ FleetInv)'
<1>1. StepOK
  <2>1. CASE UNCHANGED <<advertVars, fleetVars>>
    BY <2>1, QuietStep DEF advertVars
  <2> QED
    BY <2>1, FleetAdvertStep
<1>2. AdvertInv'
  BY <1>1 DEF StepOK
<1> QED
  BY <1>2, FleetTrueStep

LEMMA FleetTrueStart ==
  ASSUME AdvertInit, FleetInit
  PROVE  Machinery /\ FleetInv
<1>1. /\ world \in AdvertWorlds
      /\ \A m \in Machines : world.machine[m].os \in OsKind /\ world.machine[m].ver # NoVersion
  BY AdvertAssumption DEF AdvertInit
<1>2. Machinery
  <2>1. spent = [restarts |-> 0, pulls |-> 0, lost |-> 0]
    BY DEF AdvertInit
  <2>2. DOMAIN spent = {"restarts", "pulls", "lost"} /\ spent.pulls \in Nat
    BY <2>1
  <2>3. /\ DOMAIN adverts = Range(RdvServers)
        /\ \A s \in Range(RdvServers) : DOMAIN adverts[s] = Keys /\ \A k \in Keys : adverts[s][k] = NoAdvert
    BY DEF AdvertInit
  <2>4. OffersTrue
    BY <2>3 DEF OffersTrue, NoAdvert
  <2>5. ASSUME NEW m \in Machines PROVE MachineTrue(m)
    <3>1. /\ machine[m].ver = world.machine[m].ver /\ machine[m].next = NoBinary /\ machine[m].up
          /\ machine[m].kind = world.machine[m].os /\ machine[m].old = NoBinary
      BY DEF AdvertInit
    <3> QED
      BY <1>1, <3>1, NoneWaits DEF MachineTrue, MachineGood, Expected, Fits
  <2>6. ASSUME NEW m \in Machines, NEW t \in Tasks PROVE TaskTrue(m, t)
    <3>1. task[m][t].at = "idle"
      BY DEF AdvertInit, Idle
    <3> QED
      BY <3>1 DEF TaskTrue, Resting
  <2> QED
    BY <1>1, <2>2, <2>3, <2>4, <2>5, <2>6 DEF Machinery
<1>3. /\ job \in FleetJobs /\ conf = job.conf /\ IsSeq(conf) /\ sent = {}
  BY FleetAssumption DEF FleetInit, IsSeq
<1>4. /\ DOMAIN op = OpFields /\ DOMAIN op.saw = {"online", "ver"} /\ ~op.saw.online /\ op.rows = <<>>
      /\ op.plans = <<>> /\ op.results = <<>> /\ op.i = 1 /\ op.via = Nobody
      /\ op.at \in {"start", "done"} /\ (op.at = "done" => job.cmd = "none")
  BY DEF FleetInit, OpFields
<1>5. IsSeq(<<>>) /\ Len(<<>>) = 0
  <2>1. <<>> \in Seq({}) /\ Len(<<>>) = 0
    OBVIOUS
  <2> QED
    BY <2>1 DEF IsSeq
<1>6. RowsTrue
  BY <1>3, <1>4, <1>5 DEF RowsTrue
<1>7. ~Updating
  BY <1>4 DEF Updating
<1>8. FleetInv
  BY <1>3, <1>4, <1>5, <1>6, <1>7 DEF FleetInv
<1> QED
  BY <1>2, <1>8

LEMMA FleetIsTrue ==
  ASSUME Machinery, FleetInv
  PROVE  FleetTrue
<1>1. RightBinary
  <2>1. Orderly => \A m \in Machines : machine[m].up \/ world.machine[m].os \in Apart
    BY DEF Machinery, MachineTrue, MachineGood, Odd
  <2>2. Orderly => \A s \in sent :
          LET w == world.machine[s.to]
          IN  \/ Fits(s.kind, w.os)
              \/ w.os = "linux-musl" /\ s.kind = "linux" /\ "linux-musl" \notin job.bins
              \/ w.os \in Apart /\ w.legacy
    BY DEF FleetInv, SentTrue
  <2> QED
    BY <2>1, <2>2 DEF RightBinary
<1>2. ResultsTrue
  <2>1. \A s \in sent : \E j \in 1 .. Len(op.plans) : op.plans[j].name = s.row
    BY DEF FleetInv, SentTrue
  <2>2. (job.cmd = "update" /\ Orderly) => \A j \in Results : ResultTrue(op.results[j])
    BY DEF FleetInv, Results
  <2>3. (job.cmd = "update" /\ Orderly) => \A j \in Results :
          LET r == op.results[j] IN
          r.success => /\ r.to # Nobody /\ r.new # NoVersion
                       /\ (r.new # r.old /\ ~ByItself(r.to)) => r.new = Target
    BY <2>2 DEF ResultTrue, Left
  <2>5. ASSUME NEW m \in Machines, machine[m].ver # world.machine[m].ver, ~ByItself(m)
        PROVE  \E s \in sent : s.to = m
    <3>1. Expected(m, machine[m].ver)
      BY DEF Machinery, MachineTrue, MachineGood
    <3> QED
      BY <2>5, <3>1 DEF Expected, Left, SentTo
  <2>4. /\ job.dry \/ job.cmd # "update" => sent = {}
        /\ (job.cmd = "update" /\ op.at = "done" /\ op.exit = "ok" /\ ~job.dry) =>
              Len(op.results) = Len(op.plans)
    BY DEF FleetInv
  <2> QED
    BY <2>1, <2>3, <2>4, <2>5 DEF ResultsTrue
<1> QED
  BY <1>1, <1>2 DEF FleetTrue

-----------------------------------------------------------------------------
(* The processes of a machine. *)

LEMMA DeadIs ==
  /\ DOMAIN Dead = ProcFields /\ Dead.role = "free" /\ Dead.at = "gone"
  /\ Dead.found = {} /\ Dead.saw = {}
BY DEF Dead, ProcFields

LEMMA FreshIs ==
  ASSUME NEW f, RoomFor(f)
  PROVE  Fresh(f) \in Pids /\ f[Fresh(f)].at = "gone"
<1> DEFINE S == {p \in Pids : f[p].at = "gone"}
<1>1. S # {} /\ S \subseteq Nat
  BY PidsAssumption DEF RoomFor
<1>2. \E x \in S : \A y \in S : x <= y
  <2> HIDE DEF S
  <2> QED
    BY <1>1, LeastNumber
<1>3. Min(S) \in S
  <2> HIDE DEF S
  <2> QED
    BY <1>2 DEF Min
<1> QED
  BY <1>3 DEF Fresh

LEMMA BeginIs ==
  ASSUME NEW r, r # "free"
  PROVE  /\ DOMAIN Begin(r) = ProcFields /\ Begin(r).role = r
         /\ Begin(r).found = {} /\ Begin(r).saw = {}
         /\ r = "other" => Begin(r).at = "run"
         /\ r # "install" => Begin(r).at \in {"heal", "load", "run", "scan1"}
         /\ Begin(r).at \in {"heal", "load", "run", "scan1", "create"}
<1> PICK a, b : /\ a = CASE r = "mrsh" /\ Windows -> "heal"
                         [] r = "debug" -> "load"
                         [] r \in Foreign \cup {"client"} -> "run"
                         [] r = "install" -> "create"
                         [] OTHER -> "scan1"
                /\ b = IF r \in Foreign THEN [Closed EXCEPT !["command"] = "open"] ELSE Closed
  OBVIOUS
<1>1. Begin(r) = [Dead EXCEPT !.role = r, !.at = a, !.sock = b]
  BY DEF Begin
<1>2. /\ DOMAIN Begin(r) = ProcFields /\ Begin(r).role = r /\ Begin(r).at = a
      /\ Begin(r).found = {} /\ Begin(r).saw = {}
  BY <1>1, DeadIs DEF ProcFields
<1>3. r = "other" => r \in Foreign \cup {"client"} /\ r # "mrsh" /\ r # "debug"
  BY DEF Foreign
<1> QED
  BY <1>2, <1>3

\* A process is started: its number is forgotten by all others.
LEMMA SpawnOne ==
  ASSUME NEW f, ProcsInv(f), RoomFor(f), NEW r, r # "free"
  PROVE  /\ DOMAIN Spawn(f, r) = Pids
         /\ Spawn(f, r)[Fresh(f)] = Begin(r)
         /\ \A q \in Pids \ {Fresh(f)} :
              /\ DOMAIN Spawn(f, r)[q] = ProcFields
              /\ Spawn(f, r)[q].role = f[q].role /\ Spawn(f, r)[q].at = f[q].at
              /\ Spawn(f, r)[q].found = f[q].found \ {Fresh(f)}
              /\ Spawn(f, r)[q].saw = f[q].saw \ {Fresh(f)}
<1>1. Fresh(f) \in Pids
  BY FreshIs
<1>2. \A q \in Pids : DOMAIN f[q] = ProcFields
  BY DEF ProcsInv, OneInv
<1> DEFINE g == Spawn(f, r)
<1>3. DOMAIN g = Pids /\ g[Fresh(f)] = Begin(r)
  BY <1>1 DEF Spawn
<1>4. \A q \in Pids \ {Fresh(f)} :
        g[q] = [f[q] EXCEPT !.found = @ \ {Fresh(f)}, !.saw = @ \ {Fresh(f)}]
  BY DEF Spawn
<1> QED
  BY <1>2, <1>3, <1>4 DEF ProcFields

LEMMA SpawnOK ==
  ASSUME NEW f, ProcsInv(f), RoomFor(f), NEW r, r # "free"
  PROVE  ProcsInv(Spawn(f, r))
<1>1. PICK x : x = Fresh(f)
  OBVIOUS
<1>2. PICK g : g = Spawn(f, r)
  OBVIOUS
<1>3. x \in Pids /\ f[x].at = "gone"
  BY <1>1, FreshIs
<1>4. /\ DOMAIN g = Pids /\ g[x] = Begin(r)
      /\ \A q \in Pids \ {x} :
           /\ DOMAIN g[q] = ProcFields
           /\ g[q].role = f[q].role /\ g[q].at = f[q].at
           /\ g[q].found = f[q].found \ {x} /\ g[q].saw = f[q].saw \ {x}
  BY <1>1, <1>2, SpawnOne
<1>5. \A i \in Pids : OneInv(f, i) /\ SeenInv(f, i)
  BY DEF ProcsInv
<1>6. OneInv(g, x) /\ SeenInv(g, x)
  BY <1>3, <1>4, BeginIs DEF OneInv, SeenInv
<1>7. ASSUME NEW q \in Pids \ {x} PROVE OneInv(g, q) /\ SeenInv(g, q)
  <2>1. OneInv(g, q)
    BY <1>4, <1>5 DEF OneInv
  <2>2. SeenInv(g, q)
    BY <1>4, <1>5 DEF SeenInv, OneInv
  <2> QED
    BY <2>1, <2>2
<1>8. ProcsInv(g)
  BY <1>4, <1>6, <1>7 DEF ProcsInv
<1> QED
  BY <1>2, <1>8

LEMMA SpawnOthers ==
  ASSUME NEW f, ProcsInv(f), RoomFor(f), NEW r, r # "free"
  PROVE  /\ \A w : UnitsInv(f, w) => UnitsInv(Spawn(f, r), w)
         /\ OtherInv(f) => OtherInv(Spawn(f, r))
         /\ Fresh(f) \in Pids /\ Spawn(f, r)[Fresh(f)].role = r
<1>1. PICK x : x = Fresh(f)
  OBVIOUS
<1>2. PICK g : g = Spawn(f, r)
  OBVIOUS
<1>3. x \in Pids /\ f[x].at = "gone"
  BY <1>1, FreshIs
<1>4. f[x].role = "free"
  BY <1>3 DEF ProcsInv, OneInv
<1>5. g[x] = Begin(r) /\ \A q \in Pids \ {x} : g[q].role = f[q].role
  BY <1>1, <1>2, SpawnOne
<1>6. g[x].role = r
  BY <1>5, BeginIs
<1>7. ASSUME NEW w, UnitsInv(f, w) PROVE UnitsInv(g, w)
  <2>1. \A u \in Units : w[u].pid # NoPid => w[u].pid # x /\ w[u].pid \in Pids
    BY <1>4, <1>7 DEF UnitsInv, Units
  <2> QED
    BY <1>5, <1>7, <2>1 DEF UnitsInv
<1>8. OtherInv(f) => OtherInv(g)
  BY <1>4, <1>5 DEF OtherInv
<1> QED
  BY <1>1, <1>2, <1>3, <1>6, <1>7, <1>8

\* One process goes on.
LEMMA OneOK ==
  ASSUME NEW f, ProcsInv(f), NEW p \in Pids, NEW r,
         DOMAIN r = ProcFields, r.found \subseteq r.saw, r.saw \subseteq Pids,
         r.at \notin {"kill1", "kill2"} => r.found = {},
         r.at = "gone" => r.role = "free",
         r.role = "other" => r.at = "run",
         r.at \in {"create", "taskkill", "register", "legacy"} => r.role = "install",
         r.role = f[p].role,
         \A j \in r.saw \ r.found : f[j].role \in Servers => site.denied
  PROVE  /\ ProcsInv([f EXCEPT ![p] = r])
         /\ \A w : UnitsInv(f, w) => UnitsInv([f EXCEPT ![p] = r], w)
         /\ OtherInv(f) => OtherInv([f EXCEPT ![p] = r])
<1>1. PICK g : g = [f EXCEPT ![p] = r]
  OBVIOUS
<1>2. DOMAIN f = Pids /\ \A i \in Pids : OneInv(f, i) /\ SeenInv(f, i)
  BY DEF ProcsInv
<1>3. DOMAIN g = Pids /\ g[p] = r /\ \A q \in Pids \ {p} : g[q] = f[q]
  BY <1>1, <1>2
<1>4. \A q \in Pids : g[q].role = f[q].role
  BY <1>3
<1>5. OneInv(g, p)
  BY <1>3 DEF OneInv
<1>6. SeenInv(g, p)
  <2>1. \A j \in r.saw \ r.found : g[j].role \in Servers => site.denied
    BY <1>4
  <2> QED
    BY <1>3, <2>1 DEF SeenInv
<1>7. ASSUME NEW q \in Pids \ {p} PROVE OneInv(g, q) /\ SeenInv(g, q)
  <2>1. g[q] = f[q] /\ OneInv(f, q) /\ SeenInv(f, q)
    BY <1>2, <1>3
  <2>2. OneInv(g, q)
    BY <2>1 DEF OneInv
  <2>3. SeenInv(g, q)
    BY <1>4, <2>1 DEF SeenInv, OneInv
  <2> QED
    BY <2>2, <2>3
<1>8. ProcsInv(g)
  BY <1>3, <1>5, <1>6, <1>7 DEF ProcsInv
<1>9. \A w : UnitsInv(f, w) => UnitsInv(g, w)
  BY <1>4 DEF UnitsInv
<1>10. OtherInv(f) => OtherInv(g)
  BY <1>4 DEF OtherInv
<1> QED
  BY <1>1, <1>8, <1>9, <1>10

\* Processes end, none of them somebody else's program.
Ended(f, K) == [p \in Pids |-> IF p \in K THEN Dead ELSE f[p]]
LEMMA EndedOK ==
  ASSUME NEW f, ProcsInv(f), NEW K, \A p \in K : f[p].role # "other"
  PROVE  /\ ProcsInv(Ended(f, K))
         /\ OtherInv(f) => OtherInv(Ended(f, K))
         /\ \A w : UnitsInv(f, w) /\ (\A u \in Units : w[u].pid \notin K) => UnitsInv(Ended(f, K), w)
<1>1. PICK g : g = Ended(f, K)
  OBVIOUS
<1>2. DOMAIN f = Pids /\ \A i \in Pids : OneInv(f, i) /\ SeenInv(f, i)
  BY DEF ProcsInv
<1>3. /\ DOMAIN g = Pids /\ \A q \in Pids \cap K : g[q] = Dead
      /\ \A q \in Pids \ K : g[q] = f[q]
  BY <1>1 DEF Ended
<1>4. \A q \in Pids : g[q].role = f[q].role \/ g[q].role = "free"
  BY <1>3, DeadIs
<1>5. ASSUME NEW q \in Pids PROVE OneInv(g, q) /\ SeenInv(g, q)
  <2>1. CASE q \in K
    <3>1. g[q] = Dead
      BY <1>3, <2>1
    <3> QED
      BY <3>1, DeadIs DEF OneInv, SeenInv
  <2>2. CASE q \notin K
    <3>1. g[q] = f[q] /\ OneInv(f, q) /\ SeenInv(f, q)
      BY <1>2, <1>3, <2>2
    <3>2. OneInv(g, q)
      BY <3>1 DEF OneInv
    <3>3. "free" \notin Servers
      BY DEF Servers, Units
    <3>4. SeenInv(g, q)
      BY <1>4, <3>1, <3>3 DEF SeenInv, OneInv
    <3> QED
      BY <3>2, <3>4
  <2> QED
    BY <2>1, <2>2
<1>6. ProcsInv(g)
  BY <1>3, <1>5 DEF ProcsInv
<1>7. OtherInv(f) => OtherInv(g)
  BY <1>3 DEF OtherInv
<1>8. \A w : UnitsInv(f, w) /\ (\A u \in Units : w[u].pid \notin K) => UnitsInv(g, w)
  BY <1>3 DEF UnitsInv
<1> QED
  BY <1>1, <1>6, <1>7, <1>8

\* The manager loses sight of processes.
LEMMA UnitsKeep ==
  ASSUME NEW f, NEW w, UnitsInv(f, w), NEW v, DOMAIN v = Units,
         \A u \in Units : DOMAIN v[u] = UnitFields /\ v[u].pid \in {w[u].pid, NoPid}
  PROVE  UnitsInv(f, v)
BY DEF UnitsInv

LEMMA DeadOK ==
  ASSUME NEW f, NEW w, SiteOK(f, w), NEW p \in Pids, f[p].role # "other", NEW v, DOMAIN v = Units,
         \A u \in Units : /\ DOMAIN v[u] = UnitFields /\ v[u].pid \in {w[u].pid, NoPid}
                          /\ v[u].pid # p
  PROVE  SiteOK([f EXCEPT ![p] = Dead], v)
<1>1. UnitsInv(f, v)
  BY UnitsKeep DEF SiteOK
<1>2. DOMAIN f = Pids
  BY DEF SiteOK, ProcsInv
<1>3. [f EXCEPT ![p] = Dead] = Ended(f, {p})
  BY <1>2 DEF Ended
<1>4. /\ ProcsInv(Ended(f, {p})) /\ OtherInv(Ended(f, {p}))
      /\ UnitsInv(Ended(f, {p}), v)
  BY <1>1, EndedOK DEF SiteOK
<1> QED
  BY <1>3, <1>4 DEF SiteOK

LEMMA KilledOK ==
  ASSUME NEW f, SiteOK(f, unit), NEW K \in SUBSET Pids, \A p \in K : f[p].role # "other"
  PROVE  SiteOK(Ended(f, K), UnitsAfterKill(K))
<1>1. PICK v : v = UnitsAfterKill(K)
  OBVIOUS
<1>2. \A u \in Units : DOMAIN unit[u] = UnitFields
  BY DEF SiteOK, UnitsInv
<1>3. NoPid \notin K
  BY PidsAssumption DEF NoPid
<1>4. /\ DOMAIN v = Units
      /\ \A u \in Units : /\ DOMAIN v[u] = UnitFields /\ v[u].pid \in {unit[u].pid, NoPid}
                          /\ v[u].pid \notin K
  BY <1>1, <1>2, <1>3 DEF UnitsAfterKill, UnitFields
<1>5. UnitsInv(f, v)
  BY <1>4, UnitsKeep DEF SiteOK
<1>6. /\ ProcsInv(Ended(f, K)) /\ OtherInv(Ended(f, K))
      /\ UnitsInv(Ended(f, K), v)
  BY <1>4, <1>5, EndedOK DEF SiteOK
<1> QED
  BY <1>1, <1>6 DEF SiteOK

\* A process goes on, and has seen nobody.
LEMMA GoesOn ==
  ASSUME NEW f, NEW w, SiteOK(f, w), NEW p \in Pids, NEW r,
         DOMAIN r = ProcFields, r.role = f[p].role, r.found = f[p].found, r.saw = f[p].saw,
         \/ r.at = f[p].at
         \/ /\ f[p].at \notin {"kill1", "kill2", "run"}
            /\ r.at \notin {"kill1", "kill2", "gone"}
            /\ r.at \in {"create", "taskkill", "register", "legacy"} => f[p].role = "install"
  PROVE  SiteOK([f EXCEPT ![p] = r], w)
<1>1. OneInv(f, p) /\ SeenInv(f, p) /\ ProcsInv(f)
  BY DEF SiteOK, ProcsInv
<1>2. /\ r.found \subseteq r.saw /\ r.saw \subseteq Pids
      /\ r.at \notin {"kill1", "kill2"} => r.found = {}
      /\ r.at = "gone" => r.role = "free"
      /\ r.role = "other" => r.at = "run"
      /\ r.at \in {"create", "taskkill", "register", "legacy"} => r.role = "install"
  BY <1>1 DEF OneInv
<1>3. \A j \in r.saw \ r.found : f[j].role \in Servers => site.denied
  BY <1>1 DEF SeenInv
<1>4. /\ ProcsInv([f EXCEPT ![p] = r])
      /\ \A v : UnitsInv(f, v) => UnitsInv([f EXCEPT ![p] = r], v)
      /\ OtherInv(f) => OtherInv([f EXCEPT ![p] = r])
  BY <1>1, <1>2, <1>3, OneOK
<1> QED
  BY <1>4 DEF SiteOK

LEMMA ProcIs ==
  ASSUME NEW f, NEW w, SiteOK(f, w)
  PROVE  /\ DOMAIN f = Pids
         /\ \A p \in Pids :
              /\ DOMAIN f[p] = ProcFields
              /\ f[p].at \notin {"gone", "run"} => f[p].role # "other"
              /\ f[p].at \in {"create", "taskkill", "register", "legacy"} => f[p].role = "install"
BY DEF SiteOK, ProcsInv, OneInv

LEMMA SetAt ==
  ASSUME NEW f, NEW w, SiteOK(f, w), NEW p \in Pids, NEW a,
         f[p].at \notin {"kill1", "kill2", "run"}, a \notin {"kill1", "kill2", "gone"},
         a \in {"create", "taskkill", "register", "legacy"} => f[p].role = "install"
  PROVE  SiteOK([f EXCEPT ![p].at = a], w)
<1>1. DOMAIN f[p] = ProcFields
  BY ProcIs
<1>2. PICK r : r = [f[p] EXCEPT !.at = a]
  OBVIOUS
<1>3. /\ DOMAIN r = ProcFields /\ r.role = f[p].role /\ r.found = f[p].found /\ r.saw = f[p].saw
      /\ r.at = a
  BY <1>1, <1>2 DEF ProcFields
<1>4. SiteOK([f EXCEPT ![p] = r], w)
  BY <1>3, GoesOn
<1> QED
  BY <1>2, <1>4

LEMMA SetCancel ==
  ASSUME NEW f, NEW w, SiteOK(f, w), NEW p \in Pids
  PROVE  SiteOK([f EXCEPT ![p].cancel = TRUE], w)
<1>1. DOMAIN f[p] = ProcFields
  BY ProcIs
<1>2. PICK r : r = [f[p] EXCEPT !.cancel = TRUE]
  OBVIOUS
<1>3. /\ DOMAIN r = ProcFields /\ r.role = f[p].role /\ r.found = f[p].found /\ r.saw = f[p].saw
      /\ r.at = f[p].at
  BY <1>1, <1>2 DEF ProcFields
<1>4. SiteOK([f EXCEPT ![p] = r], w)
  BY <1>3, GoesOn
<1> QED
  BY <1>2, <1>4

LEMMA SetSock ==
  ASSUME NEW f, NEW w, SiteOK(f, w), NEW p \in Pids, NEW k, NEW s
  PROVE  SiteOK([f EXCEPT ![p].sock[k] = s], w)
<1>1. DOMAIN f[p] = ProcFields
  BY ProcIs
<1>2. PICK r : r = [f[p] EXCEPT !.sock[k] = s]
  OBVIOUS
<1>3. /\ DOMAIN r = ProcFields /\ r.role = f[p].role /\ r.found = f[p].found /\ r.saw = f[p].saw
      /\ r.at = f[p].at
  BY <1>1, <1>2 DEF ProcFields
<1>4. SiteOK([f EXCEPT ![p] = r], w)
  BY <1>3, GoesOn
<1> QED
  BY <1>2, <1>4

LEMMA SpawnSite ==
  ASSUME NEW f, NEW w, SiteOK(f, w), RoomFor(f), NEW r, r # "free"
  PROVE  SiteOK(Spawn(f, r), w)
<1>1. ProcsInv(f) /\ UnitsInv(f, w) /\ OtherInv(f)
  BY DEF SiteOK
<1>2. ProcsInv(Spawn(f, r))
  BY <1>1, SpawnOK
<1>3. UnitsInv(Spawn(f, r), w) /\ OtherInv(Spawn(f, r))
  BY <1>1, SpawnOthers
<1> QED
  BY <1>2, <1>3 DEF SiteOK

LEMMA TraySite ==
  ASSUME NEW f, NEW w, SiteOK(f, w)
  PROVE  SiteOK(RunTray(f), w)
BY SpawnSite DEF RunTray

\* SiteInv after a step, put together.
StepSite == site' = site /\ SiteOK(proc', unit')
LEMMA SitePrime ==
  ASSUME StepSite
  PROVE  SiteInv'
BY DEF StepSite, SiteInv, SiteOK, ProcsInv, UnitsInv, OtherInv, OneInv, SeenInv

LEMMA SiteStart ==
  ASSUME SiteInit
  PROVE  SiteInv
<1>1. PICK f : f = [p \in Pids |-> Dead]
  OBVIOUS
<1>2. ProcsInv(f)
  BY <1>1, DeadIs DEF ProcsInv, OneInv, SeenInv
<1>3. RoomFor(f)
  BY <1>1, DeadIs, PidsAssumption DEF RoomFor
<1>4. UnitsInv(f, unit) /\ \A u \in Units : unit[u].pid = NoPid
  BY DEF SiteInit, UnitsInv, UnitFields
<1>5. CASE site.other # "none"
  <2>0. PICK x : x = site.other
    OBVIOUS
  <2>1. proc = Spawn(f, x)
    BY <1>1, <1>5, <2>0 DEF SiteInit
  <2>2. x \in Foreign
    BY <1>5, <2>0, SitesAssumption DEF SiteInit
  <2>3. x \notin Servers /\ x # "free" /\ x # "install"
    BY <2>2 DEF Foreign, Servers, Units
  <2>4. ProcsInv(proc)
    BY <1>2, <1>3, <2>1, <2>3, SpawnOK
  <2>5. UnitsInv(proc, unit) /\ Fresh(f) \in Pids /\ proc[Fresh(f)].role = x
    BY <1>2, <1>3, <1>4, <2>1, <2>3, SpawnOthers
  <2> QED
    BY <2>0, <2>4, <2>5 DEF SiteInv, SiteOK, OtherInv
<1>6. CASE site.other = "none"
  <2>1. proc = f
    BY <1>1, <1>6 DEF SiteInit
  <2> QED
    BY <1>2, <1>4, <1>6, <2>1 DEF SiteInv, SiteOK, OtherInv
<1> QED
  BY <1>5, <1>6

LEMMA ManagerSite ==
  ASSUME SiteInv, NEW u \in Units, ManagerStarts(u)
  PROVE  StepSite
<1>1. PICK f : f = Spawn(proc, u)
  OBVIOUS
<1>2. u # "free" /\ RoomFor(proc) /\ SiteOK(proc, unit) /\ ProcsInv(proc)
  BY DEF Units, ManagerStarts, SiteInv, SiteOK
<1>3. SiteOK(f, unit)
  BY <1>1, <1>2, SpawnSite
<1>4. Fresh(proc) \in Pids /\ f[Fresh(proc)].role = u
  BY <1>1, <1>2, SpawnOthers
<1>5. /\ proc' = f /\ site' = site
      /\ unit' = [unit EXCEPT ![u].pid = Fresh(proc), ![u].wait = FALSE, ![u].gaveUp = FALSE]
  BY <1>1 DEF ManagerStarts
<1>6. DOMAIN unit = Units /\ \A v \in Units : DOMAIN unit[v] = UnitFields
  BY <1>2 DEF SiteOK, UnitsInv
<1>7. /\ DOMAIN unit' = Units /\ DOMAIN unit'[u] = UnitFields /\ unit'[u].pid = Fresh(proc)
      /\ \A v \in Units \ {u} : unit'[v] = unit[v]
  BY <1>5, <1>6 DEF UnitFields
<1>8. UnitsInv(f, unit')
  BY <1>3, <1>4, <1>7 DEF SiteOK, UnitsInv
<1> QED
  BY <1>3, <1>5, <1>8 DEF StepSite, SiteOK

LEMMA EnsureSite ==
  ASSUME SiteInv, NEW p \in Pids, ensure_tray_task(p)
  PROVE  StepSite
<1>1. PICK f : f = IF proc[p].at = "heal" THEN [proc EXCEPT ![p].at = "scan1"] ELSE proc
  OBVIOUS
<1>2. SiteOK(proc, unit)
  BY DEF SiteInv
<1>3. SiteOK(f, unit)
  <2>1. proc[p].at = "heal" => SiteOK([proc EXCEPT ![p].at = "scan1"], unit)
    BY <1>2, SetAt
  <2> QED
    BY <1>1, <1>2, <2>1
<1>4. (proc' = f \/ proc' = RunTray(f)) /\ site' = site /\ unit' = unit
  BY <1>1 DEF ensure_tray_task
<1> QED
  BY <1>3, <1>4, TraySite DEF StepSite

LEMMA FindSite ==
  ASSUME SiteInv, NEW p \in Pids, find_listeners(p)
  PROVE  StepSite
<1>1. SiteOK(proc, unit) /\ ProcsInv(proc) /\ OneInv(proc, p) /\ SeenInv(proc, p)
  BY DEF SiteInv, SiteOK, ProcsInv
<1>2. PICK found : found = {q \in Pids \ {p} : ListensOn(q, Base(proc[p].role), ScanOf[proc[p].at])}
  OBVIOUS
<1>3. PICK r : r = [proc[p] EXCEPT !.found = found, !.saw = @ \cup found, !.at = After[@]]
  OBVIOUS
<1>4. proc' = [proc EXCEPT ![p] = r] /\ unit' = unit /\ site' = site /\ proc[p].at \in {"scan1", "scan2"}
  BY <1>2, <1>3 DEF find_listeners
<1>5. found \subseteq Pids /\ After[proc[p].at] \in {"kill1", "kill2"}
  BY <1>2, <1>4 DEF After
<1>6. /\ DOMAIN r = ProcFields /\ r.role = proc[p].role /\ r.found = found
      /\ r.saw = proc[p].saw \cup found /\ r.at \in {"kill1", "kill2"}
  BY <1>1, <1>3, <1>5 DEF OneInv, ProcFields
<1>7. proc[p].found = {} /\ proc[p].saw \subseteq Pids /\ proc[p].role # "other"
  BY <1>1, <1>4 DEF OneInv
<1>8. \A j \in r.saw \ r.found : proc[j].role \in Servers => site.denied
  BY <1>1, <1>6, <1>7 DEF SeenInv
<1>9. /\ r.found \subseteq r.saw /\ r.saw \subseteq Pids
      /\ r.at \notin {"kill1", "kill2"} => r.found = {}
      /\ r.at = "gone" => r.role = "free"
      /\ r.role = "other" => r.at = "run"
      /\ r.at \in {"create", "taskkill", "register", "legacy"} => r.role = "install"
  BY <1>5, <1>6, <1>7
<1>10. SiteOK([proc EXCEPT ![p] = r], unit)
  BY <1>1, <1>6, <1>8, <1>9, OneOK DEF SiteOK
<1> QED
  BY <1>4, <1>10 DEF StepSite

\* What was found is killed before it is forgotten.
LEMMA KillSite ==
  ASSUME SiteInv, NEW p \in Pids, kill_zombie_listeners(p)
  PROVE  StepSite
<1>1. SiteOK(proc, unit) /\ ProcsInv(proc) /\ OneInv(proc, p) /\ SeenInv(proc, p)
  BY DEF SiteInv, SiteOK, ProcsInv
<1>2. PICK Z : Z = {q \in proc[p].found : is_mrsh_process(q)}
  OBVIOUS
<1>3. PICK r : r = [proc[p] EXCEPT !.at = After[@], !.found = {}]
  OBVIOUS
<1>4. PICK K \in SUBSET Z : (site.denied \/ K = Z) /\ Killed(K, [proc EXCEPT ![p] = r])
  BY <1>2, <1>3 DEF kill_zombie_listeners
<1>5. site' = site /\ proc[p].at \in {"kill1", "kill2"}
  BY DEF kill_zombie_listeners
<1>6. K \in SUBSET Pids /\ \A q \in K : proc[q].role # "other"
  BY <1>1, <1>2, <1>4 DEF OneInv, is_mrsh_process
<1>7. PICK g : g = Ended(proc, K)
  OBVIOUS
<1>8. SiteOK(g, UnitsAfterKill(K))
  BY <1>1, <1>6, <1>7, KilledOK
<1>9. unit' = UnitsAfterKill(K) /\ proc' = Ended([proc EXCEPT ![p] = r], K)
  BY <1>4 DEF Killed, Ended
<1>10. DOMAIN proc = Pids
  BY <1>1 DEF ProcsInv
<1>11. CASE p \in K
  <2>1. proc' = g
    BY <1>7, <1>9, <1>10, <1>11 DEF Ended
  <2> QED
    BY <1>5, <1>8, <1>9, <2>1 DEF StepSite
<1>12. CASE p \notin K
  <2>1. proc' = [g EXCEPT ![p] = r]
    BY <1>7, <1>9, <1>10, <1>12 DEF Ended
  <2>2. g[p] = proc[p] /\ \A q \in Pids : g[q] = IF q \in K THEN Dead ELSE proc[q]
    BY <1>7, <1>12 DEF Ended
  <2>3. /\ DOMAIN r = ProcFields /\ r.role = proc[p].role /\ r.found = {}
        /\ r.saw = proc[p].saw /\ r.at \in {"scan2", "load"}
    BY <1>1, <1>3, <1>5 DEF OneInv, ProcFields, After
  <2>4. proc[p].role # "other" /\ proc[p].saw \subseteq Pids /\ proc[p].found \subseteq proc[p].saw
    BY <1>1, <1>5 DEF OneInv
  <2>5. ASSUME NEW j \in r.saw \ r.found, g[j].role \in Servers PROVE site.denied
    <3>1. j \in Pids /\ j \in proc[p].saw
      BY <2>3, <2>4
    <3>2. j \notin K /\ g[j] = proc[j]
      BY <2>2, <2>5, <3>1, DeadIs DEF Servers, Units
    <3>3. proc[j].role \in Servers
      BY <2>5, <3>2
    <3>4. CASE j \notin proc[p].found
      BY <1>1, <3>1, <3>3, <3>4 DEF SeenInv
    <3>5. CASE j \in proc[p].found
      <4>1. OneInv(proc, j)
        BY <1>1, <3>1 DEF ProcsInv
      <4>2. proc[j].at # "gone" /\ proc[j].role # "other"
        BY <3>3, <4>1 DEF OneInv, Servers, Units
      <4>3. j \in Z
        BY <1>2, <3>5, <4>2 DEF is_mrsh_process, Alive
      <4> QED
        BY <1>4, <3>2, <4>3
    <3> QED
      BY <3>4, <3>5
  <2>6. /\ r.found \subseteq r.saw /\ r.saw \subseteq Pids
        /\ r.at \notin {"kill1", "kill2"} => r.found = {}
        /\ r.at = "gone" => r.role = "free"
        /\ r.role = "other" => r.at = "run"
        /\ r.at \in {"create", "taskkill", "register", "legacy"} => r.role = "install"
        /\ r.role = g[p].role
    BY <2>2, <2>3, <2>4
  <2>7. \A j \in r.saw \ r.found : g[j].role \in Servers => site.denied
    BY <2>5
  <2>8. SiteOK([g EXCEPT ![p] = r], UnitsAfterKill(K))
    BY <1>8, <2>3, <2>6, <2>7, OneOK DEF SiteOK
  <2> QED
    BY <1>5, <1>9, <2>1, <2>8 DEF StepSite
<1> QED
  BY <1>11, <1>12

LEMMA ExitSite ==
  ASSUME SiteInv, NEW p \in Pids, Exits(p), site' = site, proc[p].role # "other"
  PROVE  StepSite
<1>1. SiteOK(proc, unit) /\ \A u \in Units : DOMAIN unit[u] = UnitFields
  BY DEF SiteInv, SiteOK, UnitsInv
<1>2. p # NoPid
  BY PidsAssumption DEF NoPid
<1>3. /\ DOMAIN unit' = Units
      /\ \A u \in Units : /\ DOMAIN unit'[u] = UnitFields /\ unit'[u].pid \in {unit[u].pid, NoPid}
                          /\ unit'[u].pid # p
  BY <1>1, <1>2 DEF Exits, UnitFields
<1>4. SiteOK([proc EXCEPT ![p] = Dead], unit')
  BY <1>1, <1>3, DeadOK
<1> QED
  BY <1>4 DEF Exits, StepSite

LEMMA ServerSite ==
  ASSUME SiteInv, NEW p \in Pids, ServerStep(p)
  PROVE  StepSite
<1>0. SiteOK(proc, unit) /\ proc[p].at \notin {"gone", "run"} => proc[p].role # "other"
  BY ProcIs DEF SiteInv
<1>1. SiteOK(proc, unit)
  BY DEF SiteInv
<1>2. CASE find_listeners(p)
  BY <1>2, FindSite
<1>3. CASE kill_zombie_listeners(p)
  BY <1>3, KillSite
<1>4. CASE Load(p)
  <2>1. CASE Exits(p)
    BY <1>0, <1>1, <1>4, <2>1, ExitSite DEF Load
  <2>2. CASE proc' = [proc EXCEPT ![p].at = "serve"] /\ UNCHANGED unit
    <3>1. SiteOK([proc EXCEPT ![p].at = "serve"], unit)
      BY <1>1, <1>4, SetAt DEF Load
    <3> QED
      BY <1>4, <2>2, <3>1 DEF Load, StepSite
  <2> QED
    BY <1>4, <2>1, <2>2 DEF Load
<1>5. ASSUME NEW k \in Listeners, Bind(p, k) \/ ListenerEnds(p, k) PROVE StepSite
  <2>1. PICK s : proc' = [proc EXCEPT ![p].sock[k] = s]
    BY <1>5 DEF Bind, ListenerEnds
  <2>2. unit' = unit /\ site' = site
    BY <1>5 DEF Bind, ListenerEnds
  <2> QED
    BY <1>1, <2>1, <2>2, SetSock DEF StepSite
<1>6. CASE run_server_returns(p)
  BY <1>0, <1>1, <1>6, ExitSite DEF run_server_returns
<1> QED
  BY <1>2, <1>3, <1>4, <1>5, <1>6 DEF ServerStep

LEMMA UnitIs ==
  ASSUME SiteInv
  PROVE  /\ DOMAIN unit = Units /\ SiteOK(proc, unit)
         /\ \A u \in Units : /\ DOMAIN unit[u] = UnitFields
                             /\ unit[u].pid # NoPid => unit[u].pid \in Pids /\ proc[unit[u].pid].role = u
BY DEF SiteInv, SiteOK, UnitsInv

LEMMA StoppedSite ==
  ASSUME SiteInv, site' = site, NEW u \in Units, NEW r, DOMAIN r = UnitFields, r.pid = unit[u].pid,
         Stopped(u, r)
  PROVE  StepSite
<1>0. /\ DOMAIN unit = Units /\ SiteOK(proc, unit)
      /\ \A v \in Units : /\ DOMAIN unit[v] = UnitFields
                          /\ unit[v].pid # NoPid => unit[v].pid \in Pids /\ proc[unit[v].pid].role = v
  BY UnitIs
<1>1. PICK p : p = unit[u].pid
  OBVIOUS
<1>2. PICK s : s = [r EXCEPT !.on = FALSE, !.wait = FALSE]
  OBVIOUS
<1>3. PICK off : off = [unit EXCEPT ![u] = s]
  OBVIOUS
<1>4. DOMAIN s = UnitFields /\ s.pid = p
  BY <1>1, <1>2 DEF UnitFields
<1>5. /\ DOMAIN off = Units /\ \A v \in Units : DOMAIN off[v] = UnitFields /\ off[v].pid = unit[v].pid
      /\ off[u] = s
  BY <1>0, <1>1, <1>3, <1>4
<1>6. SiteOK(proc, off)
  <2>1. UnitsInv(proc, off)
    BY <1>0, <1>5, UnitsKeep DEF SiteOK
  <2> QED
    BY <1>0, <2>1 DEF SiteOK
<1>7. CASE unit' = off /\ UNCHANGED proc
  BY <1>6, <1>7 DEF StepSite
<1>8. CASE p # NoPid /\ unit' = off /\ proc' = [proc EXCEPT ![p].cancel = TRUE]
  <2>1. SiteOK([proc EXCEPT ![p].cancel = TRUE], off)
    BY <1>0, <1>1, <1>6, <1>8, SetCancel
  <2> QED
    BY <1>8, <2>1 DEF StepSite
<1>9. CASE p # NoPid /\ unit' = [off EXCEPT ![u].pid = NoPid] /\ proc' = [proc EXCEPT ![p] = Dead]
  <2>1. p \in Pids /\ proc[p].role = u /\ u # "other"
    BY <1>0, <1>1, <1>9 DEF Units
  <2>2. /\ DOMAIN unit' = Units /\ DOMAIN unit'[u] = UnitFields /\ unit'[u].pid = NoPid
        /\ \A v \in Units \ {u} : unit'[v] = off[v]
    BY <1>5, <1>9 DEF UnitFields
  <2>3. \A v \in Units \ {u} : unit[v].pid # p
    BY <1>0, <1>9, <2>1
  <2>4. \A v \in Units : /\ DOMAIN unit'[v] = UnitFields /\ unit'[v].pid \in {unit[v].pid, NoPid}
                         /\ unit'[v].pid # p
    BY <1>5, <1>9, <2>2, <2>3
  <2>5. SiteOK([proc EXCEPT ![p] = Dead], unit')
    BY <1>0, <2>1, <2>2, <2>4, DeadOK
  <2> QED
    BY <1>9, <2>5 DEF StepSite
<1> QED
  BY <1>1, <1>2, <1>3, <1>7, <1>8, <1>9 DEF Stopped

\* The manager's processes stay, and nothing else of its records matters.
LEMMA UnitSite ==
  ASSUME NEW f, NEW w, SiteOK(f, w), NEW u \in Units, NEW s, DOMAIN s = UnitFields, s.pid = w[u].pid
  PROVE  SiteOK(f, [w EXCEPT ![u] = s])
<1>1. PICK v : v = [w EXCEPT ![u] = s]
  OBVIOUS
<1>2. DOMAIN w = Units /\ \A t \in Units : DOMAIN w[t] = UnitFields
  BY DEF SiteOK, UnitsInv
<1>3. DOMAIN v = Units /\ \A t \in Units : DOMAIN v[t] = UnitFields /\ v[t].pid \in {w[t].pid, NoPid}
  BY <1>1, <1>2
<1>4. UnitsInv(f, v)
  BY <1>3, UnitsKeep DEF SiteOK
<1> QED
  BY <1>1, <1>4 DEF SiteOK

\* A program that is no unit's, and not somebody else's, ends.
LEMMA EndsSite ==
  ASSUME NEW f, NEW w, SiteOK(f, w), NEW p \in Pids, f[p].role \notin Units \cup {"other"}
  PROVE  SiteOK([f EXCEPT ![p] = Dead], w)
<1>1. /\ DOMAIN w = Units
      /\ \A u \in Units : /\ DOMAIN w[u] = UnitFields /\ w[u].pid \in {w[u].pid, NoPid}
                          /\ w[u].pid # p
  BY PidsAssumption DEF SiteOK, UnitsInv, NoPid
<1> QED
  BY <1>1, DeadOK

LEMMA InstallSite ==
  ASSUME SiteInv, NEW p \in Pids, InstallStep(p)
  PROVE  StepSite
<1>0. /\ SiteOK(proc, unit) /\ DOMAIN unit = Units /\ "mrsh" \in Units /\ "rsh" \in Units
      /\ \A u \in Units : DOMAIN unit[u] = UnitFields
  BY UnitIs DEF Units
<1>1. /\ DOMAIN proc = Pids
      /\ proc[p].at \in {"create", "taskkill", "register", "legacy"} => proc[p].role = "install"
  BY <1>0, ProcIs
<1>2. PICK s : s = [unit["mrsh"] EXCEPT !.there = TRUE]
  OBVIOUS
<1>3. DOMAIN s = UnitFields /\ s.pid = unit["mrsh"].pid
  BY <1>0, <1>2 DEF UnitFields
<1>4. CASE CreateService(p)
  <2>1. SiteOK([proc EXCEPT ![p].at = "taskkill"], unit)
    BY <1>0, <1>1, <1>4, SetAt DEF CreateService
  <2>2. SiteOK([proc EXCEPT ![p].at = "taskkill"], [unit EXCEPT !["mrsh"] = s])
    BY <1>0, <1>3, <2>1, UnitSite
  <2>3. /\ proc' = [proc EXCEPT ![p].at = "taskkill"] /\ unit' = [unit EXCEPT !["mrsh"] = s]
        /\ site' = site
    BY <1>2, <1>4 DEF CreateService
  <2> QED
    BY <2>2, <2>3 DEF StepSite
<1>5. CASE TaskKill(p)
  <2>1. PICK f : f = [proc EXCEPT ![p].at = "register"]
    OBVIOUS
  <2>2. SiteOK(f, unit)
    BY <1>0, <1>1, <1>5, <2>1, SetAt DEF TaskKill
  <2>3. PICK K : K = {q \in Pids : named_mrsh(q)} \ (IF site.image = "mrsh" THEN {} ELSE {p})
    OBVIOUS
  <2>4. \A q \in Pids : f[q].role = proc[q].role
    <3>1. DOMAIN proc[p] = ProcFields
      BY <1>0, ProcIs
    <3> QED
      BY <1>1, <2>1, <3>1 DEF ProcFields
  <2>5. K \in SUBSET Pids /\ \A q \in K : f[q].role # "other"
    BY <2>3, <2>4 DEF named_mrsh, Foreign
  <2>6. proc' = Ended(f, K) /\ unit' = UnitsAfterKill(K) /\ site' = site
    BY <1>5, <2>1, <2>3 DEF TaskKill, Killed, Ended
  <2>7. SiteOK(Ended(f, K), UnitsAfterKill(K))
    BY <2>2, <2>5, KilledOK
  <2> QED
    BY <2>6, <2>7 DEF StepSite
<1>6. CASE register_tray_logon_task(p)
  <2>1. SiteOK([proc EXCEPT ![p] = Dead], unit)
    BY <1>0, <1>1, <1>6, EndsSite DEF register_tray_logon_task, Units
  <2>2. SiteOK(RunTray([proc EXCEPT ![p] = Dead]), unit)
    BY <2>1, TraySite
  <2> QED
    BY <1>6, <2>2 DEF register_tray_logon_task, StepSite
<1>7. CASE CopyBinary(p)
  <2>0. proc[p].at = "create" /\ proc[p].role = "install" /\ unit' = unit /\ site' = site
    BY <1>1, <1>7 DEF CopyBinary
  <2>1. CASE unit["mrsh"].pid # NoPid
    <3>1. proc' = [proc EXCEPT ![p] = Dead]
      BY <1>7, <2>1 DEF CopyBinary
    <3>2. SiteOK([proc EXCEPT ![p] = Dead], unit)
      BY <1>0, <2>0, EndsSite DEF Units
    <3> QED
      BY <2>0, <3>1, <3>2 DEF StepSite
  <2>2. CASE unit["mrsh"].pid = NoPid
    <3>1. proc' = [proc EXCEPT ![p].at = "legacy"]
      BY <1>7, <2>2 DEF CopyBinary
    <3>2. SiteOK([proc EXCEPT ![p].at = "legacy"], unit)
      BY <1>0, <2>0, SetAt
    <3> QED
      BY <2>0, <3>1, <3>2 DEF StepSite
  <2> QED
    BY <2>1, <2>2
<1>8. CASE RemoveLegacy(p)
  <2>1. PICK r : r = [unit["rsh"] EXCEPT !.there = FALSE]
    OBVIOUS
  <2>2. DOMAIN r = UnitFields /\ r.pid = unit["rsh"].pid
    BY <1>0, <2>1 DEF UnitFields
  <2>3. Stopped("rsh", r) /\ site' = site
    BY <1>8, <2>1 DEF RemoveLegacy
  <2> QED
    BY <1>0, <2>2, <2>3, StoppedSite
<1>9. CASE WriteUnit(p)
  <2>1. SiteOK([proc EXCEPT ![p] = Dead], unit)
    BY <1>0, <1>1, <1>9, EndsSite DEF WriteUnit, Units
  <2>2. SiteOK([proc EXCEPT ![p] = Dead], [unit EXCEPT !["mrsh"] = s])
    BY <1>0, <1>3, <2>1, UnitSite
  <2>3. /\ proc' = [proc EXCEPT ![p] = Dead] /\ unit' = [unit EXCEPT !["mrsh"] = s] /\ site' = site
    BY <1>2, <1>9 DEF WriteUnit
  <2> QED
    BY <2>2, <2>3 DEF StepSite
<1> QED
  BY <1>4, <1>5, <1>6, <1>7, <1>8, <1>9 DEF InstallStep

LEMMA OperateSite ==
  ASSUME SiteInv, Operate
  PROVE  StepSite
<1>0. /\ SiteOK(proc, unit) /\ DOMAIN unit = Units /\ "mrsh" \in Units
      /\ \A u \in Units : DOMAIN unit[u] = UnitFields
  BY UnitIs DEF Units
<1>1. CASE StartByHand
  <2>1. PICK r \in {"console", "debug", "client", "install"} :
            RoomFor(proc) /\ proc' = Spawn(proc, r) /\ unit' = unit /\ site' = site
    BY <1>1 DEF StartByHand
  <2>2. SiteOK(Spawn(proc, r), unit)
    BY <1>0, <2>1, SpawnSite
  <2> QED
    BY <2>1, <2>2 DEF StepSite
<1>2. CASE QuitTray
  <2>1. PICK p \in Pids : proc' = [proc EXCEPT ![p].cancel = TRUE]
    BY <1>2 DEF QuitTray
  <2>2. unit' = unit /\ site' = site
    BY <1>2 DEF QuitTray
  <2> QED
    BY <1>0, <2>1, <2>2, SetCancel DEF StepSite
<1>3. CASE CtrlC
  <2>1. PICK p \in Pids :
          \/ proc[p].role = "console" /\ Killed({p}, proc)
          \/ proc[p].role = "debug" /\ proc' = [proc EXCEPT ![p].cancel = TRUE] /\ UNCHANGED unit
    BY <1>3 DEF CtrlC
  <2>2. site' = site
    BY <1>3 DEF CtrlC
  <2>3. CASE proc[p].role = "console" /\ Killed({p}, proc)
    <3>1. SiteOK(Ended(proc, {p}), UnitsAfterKill({p}))
      BY <1>0, <2>3, KilledOK
    <3> QED
      BY <2>2, <2>3, <3>1 DEF Killed, Ended, StepSite
  <2>4. CASE proc' = [proc EXCEPT ![p].cancel = TRUE] /\ UNCHANGED unit
    BY <1>0, <2>2, <2>4, SetCancel DEF StepSite
  <2> QED
    BY <2>1, <2>3, <2>4
<1>4. CASE Logon
  BY <1>0, <1>4, SpawnSite DEF Logon, StepSite
<1>5. CASE StopUnit
  BY <1>0, <1>5, StoppedSite DEF StopUnit
<1>6. CASE EnableUnit
  <2>1. PICK s : s = [unit["mrsh"] EXCEPT !.on = TRUE, !.wait = unit["mrsh"].pid = NoPid]
    OBVIOUS
  <2>2. DOMAIN s = UnitFields /\ s.pid = unit["mrsh"].pid
    BY <1>0, <2>1 DEF UnitFields
  <2>3. unit' = [unit EXCEPT !["mrsh"] = s] /\ proc' = proc /\ site' = site
    BY <1>6, <2>1 DEF EnableUnit
  <2> QED
    BY <1>0, <2>2, <2>3, UnitSite DEF StepSite
<1>7. CASE uninstall_service
  <2>0. site' = site
    BY <1>7 DEF uninstall_service
  <2>1. PICK s : s = [unit["mrsh"] EXCEPT !.there = FALSE, !.on = FALSE, !.wait = FALSE]
    OBVIOUS
  <2>2. DOMAIN s = UnitFields /\ s.pid = unit["mrsh"].pid
    BY <1>0, <2>1 DEF UnitFields
  <2>3. PICK r : r = [unit["mrsh"] EXCEPT !.there = FALSE]
    OBVIOUS
  <2>4. DOMAIN r = UnitFields /\ r.pid = unit["mrsh"].pid
    BY <1>0, <2>3 DEF UnitFields
  <2>5. CASE Stopped("mrsh", r)
    BY <1>0, <2>0, <2>4, <2>5, StoppedSite
  <2>6. CASE unit' = [unit EXCEPT !["mrsh"] = s] /\ UNCHANGED proc
    BY <1>0, <2>0, <2>2, <2>6, UnitSite DEF StepSite
  <2>7. Stopped("mrsh", r) \/ (unit' = [unit EXCEPT !["mrsh"] = s] /\ UNCHANGED proc)
    BY <1>7, <2>1, <2>3 DEF uninstall_service
  <2> QED
    BY <2>5, <2>6, <2>7
<1> QED
  BY <1>1, <1>2, <1>3, <1>4, <1>5, <1>6, <1>7 DEF Operate

LEMMA SiteStep ==
  ASSUME SiteInv, SiteNext
  PROVE  SiteInv'
<1>1. SiteOK(proc, unit)
  BY DEF SiteInv
<1>2. ASSUME NEW p \in Pids, ClientEnds(p) PROVE StepSite
  <2>1. SiteOK([proc EXCEPT ![p] = Dead], unit)
    BY <1>1, <1>2, EndsSite DEF ClientEnds, Units
  <2> QED
    BY <1>2, <2>1 DEF ClientEnds, StepSite
<1>3. StepSite
  BY <1>2, ManagerSite, EnsureSite, ServerSite, InstallSite, OperateSite DEF SiteNext
<1> QED
  BY <1>3, SitePrime

LEMMA SiteUnchanged ==
  ASSUME SiteInv, UNCHANGED siteVars
  PROVE  SiteInv'
<1>1. StepSite
  BY DEF StepSite, SiteInv, siteVars
<1> QED
  BY <1>1, SitePrime

LEMMA SiteIsSound ==
  ASSUME SiteInv
  PROVE  StaleGone
BY DEF SiteInv, SiteOK, ProcsInv, OneInv, SeenInv, OtherInv, StaleGone
-----------------------------------------------------------------------------
(* All of it. *)

\* Whatever adverts are published, overwritten, delayed or lost, and whatever an operator
\* pushes meanwhile: the loop and `self-update-from-rdv` of a machine never install anything
\* that is not newer, in the server's order, than what runs there.
THEOREM MachinesNeverGoBack == FleetSpec => NeverBack
<1>1. AdvertInit => AdvertInv
  BY AdvertStart
<1>2. AdvertInv /\ [FleetNext]_<<advertVars, fleetVars>> =>
        AdvertInv' /\ [\A m \in Machines :
            (machine[m].by \in Tasks /\ machine'[m].ver # machine[m].ver)
               => semver_greater(machine'[m].ver, machine[m].ver)]_machine
  <2> SUFFICES ASSUME AdvertInv, [FleetNext]_<<advertVars, fleetVars>>
               PROVE  AdvertInv' /\ \A m \in Machines :
                        (machine[m].by \in Tasks /\ machine'[m].ver # machine[m].ver)
                           => semver_greater(machine'[m].ver, machine[m].ver)
    OBVIOUS
  <2>1. StepOK
    <3>1. CASE UNCHANGED <<advertVars, fleetVars>>
      BY <3>1, QuietStep DEF advertVars
    <3> QED
      BY <3>1, FleetAdvertStep
  <2> QED
    BY <2>1 DEF StepOK, Same, Forward
<1> QED
  BY <1>1, <1>2, PTL DEF FleetSpec, NeverBack

\* Whatever an operator's command does while machines register, upgrade themselves, are rolled
\* back and lose answers: if the hints, names, addresses and publications are true, no machine is
\* given a binary that does not start on it (but for the systems the code does not tell apart), a
\* success is reported only with what a probe of that machine saw, and a machine to which the
\* command sent nothing, and that does not upgrade itself, runs what it ran.
THEOREM FleetAlwaysTrue == FleetSpec => []FleetTrue
<1>1. AdvertInit /\ FleetInit => AdvertInv /\ Machinery /\ FleetInv
  BY AdvertStart, FleetTrueStart
<1>2. AdvertInv /\ Machinery /\ FleetInv /\ [FleetNext]_<<advertVars, fleetVars>> =>
        (AdvertInv /\ Machinery /\ FleetInv)'
  BY FleetKeeps
<1>3. Machinery /\ FleetInv => FleetTrue
  BY FleetIsTrue
<1> QED
  BY <1>1, <1>2, <1>3, PTL DEF FleetSpec

\* The same where the run checks it: while the processes of the machines go on as well.
THEOREM FleetTrueOnHosts == HostsSpec => []FleetTrue
<1>1. HostsInit => AdvertInv /\ Machinery /\ FleetInv
  <2>1. HostsInit => AdvertInit /\ FleetInit
    BY Zenon DEF HostsInit
  <2> QED
    BY <2>1, AdvertStart, FleetTrueStart
<1>2. AdvertInv /\ Machinery /\ FleetInv /\ [HostsNext]_hostsVars =>
        (AdvertInv /\ Machinery /\ FleetInv)'
  <2> SUFFICES ASSUME AdvertInv, Machinery, FleetInv, [HostsNext]_hostsVars
               PROVE  (AdvertInv /\ Machinery /\ FleetInv)'
    OBVIOUS
  <2>1. [FleetNext]_<<advertVars, fleetVars>>
    BY DEF HostsNext, hostsVars
  <2> QED
    BY <2>1, FleetKeeps
<1>3. Machinery /\ FleetInv => FleetTrue
  BY FleetIsTrue
<1> QED
  BY <1>1, <1>2, <1>3, PTL DEF HostsSpec

\* On any machine, however its servers start, replace each other, fail and are stopped: once a
\* server serves, none of the servers it found on its ports still runs, unless it could not be
\* killed, and programs of others without "rsh" in their name or path are left alone.
THEOREM StaleAlwaysGone == SiteInit /\ [][SiteNext]_siteVars => []StaleGone
<1>1. SiteInit => SiteInv
  BY SiteStart
<1>2. SiteInv /\ [SiteNext]_siteVars => SiteInv'
  BY SiteStep, SiteUnchanged
<1>3. SiteInv => StaleGone
  BY SiteIsSound
<1> QED
  BY <1>1, <1>2, <1>3, PTL

\* For any length of the channel: a tray that has missed nothing counts the open sessions once
\* it has read its events, and the icon is red exactly if its count is not zero.
THEOREM IconAlwaysTrue == TrayInit /\ [][TrayNext]_trayVars => []IconTrue
<1>1. TrayInit => TrayInv
  BY TrayStart
<1>2. TrayInv /\ [TrayNext]_trayVars => TrayInv'
  BY TrayStep, TrayUnchanged
<1>3. TrayInv => IconTrue
  BY DEF TrayInv
<1> QED
  BY <1>1, <1>2, <1>3, PTL

\* The same of the machines together, as the run checks them.
THEOREM HostsAlwaysSound == HostsSpec => []HostsSound
<1>1. HostsInit => SiteInv /\ TrayInv
  <2>1. HostsInit => SiteInit /\ TrayInit
    BY Zenon DEF HostsInit
  <2> QED
    BY <2>1, SiteStart, TrayStart
<1>2. SiteInv /\ TrayInv /\ [HostsNext]_hostsVars => (SiteInv /\ TrayInv)'
  <2> SUFFICES ASSUME SiteInv, TrayInv, [HostsNext]_hostsVars PROVE (SiteInv /\ TrayInv)'
    OBVIOUS
  <2>1. SiteNext \/ UNCHANGED siteVars
    BY DEF HostsNext, hostsVars
  <2>2. TrayNext \/ UNCHANGED trayVars
    BY DEF HostsNext, hostsVars
  <2> QED
    BY <2>1, <2>2, SiteStep, SiteUnchanged, TrayStep, TrayUnchanged
<1>3. SiteInv /\ TrayInv => HostsSound
  BY SiteIsSound DEF TrayInv, HostsSound
<1> QED
  BY <1>1, <1>2, <1>3, PTL DEF HostsSpec
=============================================================================
