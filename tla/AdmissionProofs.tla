-------------------------- MODULE AdmissionProofs ---------------------------
(***************************************************************************)
(* Theorems about the admission of connections and the rate limiter, for   *)
(* every number of connections and addresses and every value of the        *)
(* limits, the window and the ban.                                         *)
(***************************************************************************)
EXTENDS Admission, FiniteSetTheorems, TLAPS

LEMMA TypeInit == Init => TypeOK
  BY ConnsAssumption, LimitsAssumption
  DEF Init, TypeOK, Places, AtListener, Running

\* The two lists of the rate limiter keep their type when a failure is recorded.
LEMMA RecordFailureType ==
  ASSUME TypeOK, NEW i \in Ips, NEW c \in Conns, RecordFailure(i, c)
  PROVE  /\ failures' \in [Ips -> SUBSET (Nat \X Conns)]
         /\ banned' \in [Ips -> Nat]
  <1> USE LimitsAssumption DEF TypeOK
  <1>1. CASE IsBanned(i)
    BY <1>1 DEF RecordFailure
  <1>2. CASE ~IsBanned(i)
    <2> DEFINE new == Recent(i, IF banned[i] # 0 THEN {} ELSE failures[i])
                        \cup {<<now, c>>}
    <2>1. new \in SUBSET (Nat \X Conns)
      BY DEF Recent
    <2>2. /\ failures' = [failures EXCEPT ![i] = new]
          /\ banned' = [banned EXCEPT
                          ![i] = IF Cardinality(new) >= MaxFailures
                                 THEN now + Ban ELSE 0]
      BY <1>2 DEF RecordFailure
    <2> HIDE DEF new
    <2> QED
      BY <2>1, <2>2
  <1> QED
    BY <1>1, <1>2

LEMMA TypeStep == TypeOK /\ [Next]_vars => TypeOK'
  <1> SUFFICES ASSUME TypeOK, [Next]_vars PROVE TypeOK'
    OBVIOUS
  <1> USE ConnsAssumption, LimitsAssumption
      DEF TypeOK, Places, AtListener, Running, Go, limiter, rate
  <1>1. ASSUME NEW c \in Conns, Accept(c) PROVE TypeOK'
    BY <1>1 DEF Accept
  <1>2. ASSUME NEW c \in Conns, AskStartups(c) PROVE TypeOK'
    BY <1>2 DEF AskStartups
  <1>3. ASSUME NEW c \in Conns, AskGlobal(c) PROVE TypeOK'
    BY <1>3 DEF AskGlobal
  <1>4. ASSUME NEW c \in Conns, AskIp(c) PROVE TypeOK'
    BY <1>4 DEF AskIp
  <1>5. ASSUME NEW c \in Conns, Peek(c) \/ Tls(c) \/ CheckBan(c) \/ Request(c) \/ Answer(c) \/ ServeEnds(c)
        PROVE TypeOK'
    BY <1>5 DEF Peek, Tls, CheckBan, Request, Answer, ServeEnds
  <1>6. ASSUME NEW c \in Conns, AuthFails(c) PROVE TypeOK'
    BY <1>6, RecordFailureType DEF AuthFails
  <1>7. ASSUME NEW c \in Conns, AuthSucceeds(c) PROVE TypeOK'
    BY <1>7 DEF AuthSucceeds
  <1>8. ASSUME NEW c \in Conns, DropSlot(c) PROVE TypeOK'
    BY <1>8 DEF DropSlot
  <1>9. ASSUME NEW c \in Conns, DropPermit(c) PROVE TypeOK'
    BY <1>9 DEF DropPermit
  <1>10. ASSUME NEW c \in Conns, Hangup(c) PROVE TypeOK'
    BY <1>10 DEF Hangup
  <1>11. CASE Tick
    BY <1>11 DEF Tick
  <1>12. CASE UNCHANGED vars
    BY <1>12 DEF vars
  <1> QED
    BY <1>1, <1>2, <1>3, <1>4, <1>5, <1>6, <1>7, <1>8, <1>9, <1>10, <1>11, <1>12
    DEF Next, Listen, Task

\* The state of the limiter, of the rate limiter and of the tasks always has
\* its type; in particular no counter of listener.rs goes below zero.
THEOREM TypeCorrect == Spec => []TypeOK
  BY TypeInit, TypeStep, PTL DEF Spec

-----------------------------------------------------------------------------
(***************************************************************************)
(* The limits.  LimitsAddUp is inductive together with TypeOK: a task      *)
(* enters or leaves the set of the holders in the step that moves the      *)
(* counter.  The lemmas below say what the moves do to the two counts.     *)
(***************************************************************************)
LEMMA HoldersAreFinite ==
  /\ IsFiniteSet(HoldsPermit) /\ Cardinality(HoldsPermit) \in Nat
  /\ \A i \in Ips : IsFiniteSet(HoldsSlot(i)) /\ Cardinality(HoldsSlot(i)) \in Nat
  BY ConnsAssumption, FS_Subset, FS_CardinalityType DEF HoldsPermit, HoldsSlot

PermitPlaces == Running \cup {"ip?", "drop", "permit"}
SlotPlaces == Running \cup {"drop"}

PermitsAddUp == permits + Cardinality(HoldsPermit) = MaxGlobal
SlotsAddUp ==
  \A i \in Ips : perIp[i] = Cardinality(HoldsSlot(i)) /\ perIp[i] <= MaxPerIp

LEMMA PermitsKept ==
  ASSUME PermitsAddUp, UNCHANGED permits,
         \A c \in Conns : pc'[c] \in PermitPlaces <=> pc[c] \in PermitPlaces
  PROVE  PermitsAddUp'
  <1>1. HoldsPermit' = HoldsPermit
    BY DEF HoldsPermit, PermitPlaces
  <1> QED
    BY <1>1 DEF PermitsAddUp

\* A connection comes to hold a permit that was there to be taken.
LEMMA PermitTaken ==
  ASSUME TypeOK, PermitsAddUp, permits > 0, permits' = permits - 1,
         NEW c \in Conns, pc[c] \notin PermitPlaces, NEW to \in PermitPlaces,
         pc' = [pc EXCEPT ![c] = to]
  PROVE  PermitsAddUp'
  <1>1. c \notin HoldsPermit /\ HoldsPermit' = HoldsPermit \cup {c}
    BY DEF HoldsPermit, PermitPlaces, TypeOK
  <1>2. Cardinality(HoldsPermit') = Cardinality(HoldsPermit) + 1
    BY <1>1, HoldersAreFinite, FS_AddElement
  <1> QED
    BY <1>2, HoldersAreFinite, LimitsAssumption DEF PermitsAddUp, TypeOK

LEMMA PermitReturned ==
  ASSUME TypeOK, PermitsAddUp, permits' = permits + 1,
         NEW c \in Conns, pc[c] \in PermitPlaces,
         pc' = [pc EXCEPT ![c] = "end"]
  PROVE  PermitsAddUp'
  <1>1. c \in HoldsPermit /\ HoldsPermit' = HoldsPermit \ {c}
    BY DEF HoldsPermit, PermitPlaces, Running, TypeOK
  <1>2. Cardinality(HoldsPermit') = Cardinality(HoldsPermit) - 1
    BY <1>1, HoldersAreFinite, FS_RemoveElement
  <1> QED
    BY <1>2, HoldersAreFinite, LimitsAssumption DEF PermitsAddUp, TypeOK

LEMMA SlotsKept ==
  ASSUME SlotsAddUp, UNCHANGED perIp,
         \A c \in Conns : pc'[c] \in SlotPlaces <=> pc[c] \in SlotPlaces
  PROVE  SlotsAddUp'
  <1>1. \A i \in Ips : HoldsSlot(i)' = HoldsSlot(i)
    BY DEF HoldsSlot, SlotPlaces
  <1> QED
    BY <1>1 DEF SlotsAddUp

LEMMA SlotTaken ==
  ASSUME TypeOK, SlotsAddUp, NEW c \in Conns, perIp[IpOf[c]] < MaxPerIp,
         perIp' = [perIp EXCEPT ![IpOf[c]] = @ + 1],
         pc[c] \notin SlotPlaces, NEW to \in SlotPlaces,
         pc' = [pc EXCEPT ![c] = to]
  PROVE  SlotsAddUp'
  <1> USE ConnsAssumption, LimitsAssumption DEF TypeOK
  <1>1. ASSUME NEW i \in Ips
        PROVE perIp'[i] = Cardinality(HoldsSlot(i)') /\ perIp'[i] <= MaxPerIp
    <2>1. CASE i = IpOf[c]
      <3>1. c \notin HoldsSlot(i) /\ HoldsSlot(i)' = HoldsSlot(i) \cup {c}
        BY <2>1 DEF HoldsSlot, SlotPlaces
      <3>2. Cardinality(HoldsSlot(i)') = Cardinality(HoldsSlot(i)) + 1
        BY <3>1, HoldersAreFinite, FS_AddElement
      <3> QED
        BY <2>1, <3>2 DEF SlotsAddUp
    <2>2. CASE i # IpOf[c]
      <3>1. HoldsSlot(i)' = HoldsSlot(i)
        BY <2>2 DEF HoldsSlot
      <3> QED
        BY <2>2, <3>1 DEF SlotsAddUp
    <2> QED
      BY <2>1, <2>2
  <1> QED
    BY <1>1 DEF SlotsAddUp

\* The saturating decrement of Drop for ConnectionPermit never saturates.
LEMMA SlotReturned ==
  ASSUME TypeOK, SlotsAddUp, NEW c \in Conns, DropSlot(c)
  PROVE  SlotsAddUp'
  <1> USE ConnsAssumption, LimitsAssumption DEF TypeOK, DropSlot, Go
  <1>1. ASSUME NEW i \in Ips
        PROVE perIp'[i] = Cardinality(HoldsSlot(i)') /\ perIp'[i] <= MaxPerIp
    <2>1. CASE i = IpOf[c]
      <3>1. c \in HoldsSlot(i) /\ HoldsSlot(i)' = HoldsSlot(i) \ {c}
        BY <2>1 DEF HoldsSlot, Running
      <3>2. Cardinality(HoldsSlot(i)') = Cardinality(HoldsSlot(i)) - 1
        BY <3>1, HoldersAreFinite, FS_RemoveElement
      <3>3. Cardinality(HoldsSlot(i)) # 0
        BY <3>1, HoldersAreFinite, FS_EmptySet
      <3> QED
        BY <2>1, <3>2, <3>3 DEF SlotsAddUp
    <2>2. CASE i # IpOf[c]
      <3>1. HoldsSlot(i)' = HoldsSlot(i)
        BY <2>2 DEF HoldsSlot
      <3> QED
        BY <2>2, <3>1 DEF SlotsAddUp
    <2> QED
      BY <2>1, <2>2
  <1> QED
    BY <1>1 DEF SlotsAddUp

LimitInv == TypeOK /\ PermitsAddUp /\ SlotsAddUp

LEMMA LimitInit == Init => LimitInv
  <1> SUFFICES ASSUME Init PROVE LimitInv
    OBVIOUS
  <1>1. HoldsPermit = {} /\ \A i \in Ips : HoldsSlot(i) = {}
    BY DEF Init, HoldsPermit, HoldsSlot, Running
  <1>2. PermitsAddUp
    BY <1>1, FS_EmptySet, LimitsAssumption DEF Init, PermitsAddUp
  <1>3. SlotsAddUp
    BY <1>1, FS_EmptySet, LimitsAssumption DEF Init, SlotsAddUp
  <1> QED
    BY <1>2, <1>3, TypeInit DEF LimitInv

LEMMA LimitStep == LimitInv /\ [Next]_vars => LimitInv'
  <1> SUFFICES ASSUME LimitInv, [Next]_vars PROVE LimitInv'
    OBVIOUS
  <1>0. TypeOK'
    BY TypeStep DEF LimitInv
  <1> USE ConnsAssumption
      DEF LimitInv, TypeOK, Go, limiter, PermitPlaces, SlotPlaces, Running
  <1>1. ASSUME NEW c \in Conns, Accept(c) PROVE PermitsAddUp' /\ SlotsAddUp'
    BY <1>1, PermitsKept, SlotsKept DEF Accept
  <1>2. ASSUME NEW c \in Conns, AskStartups(c) PROVE PermitsAddUp' /\ SlotsAddUp'
    BY <1>2, PermitsKept, SlotsKept DEF AskStartups
  <1>3. ASSUME NEW c \in Conns, AskGlobal(c) PROVE PermitsAddUp' /\ SlotsAddUp'
    <2>1. CASE permits = 0
      BY <1>3, <2>1, PermitsKept, SlotsKept DEF AskGlobal
    <2>2. CASE permits > 0
      BY <1>3, <2>2, PermitTaken, SlotsKept DEF AskGlobal
    <2> QED
      BY <2>1, <2>2
  <1>4. ASSUME NEW c \in Conns, AskIp(c) PROVE PermitsAddUp' /\ SlotsAddUp'
    <2>1. CASE perIp[IpOf[c]] >= MaxPerIp
      BY <1>4, <2>1, PermitReturned, SlotsKept, LimitsAssumption DEF AskIp
    <2>2. CASE perIp[IpOf[c]] < MaxPerIp
      BY <1>4, <2>2, PermitsKept, SlotTaken, LimitsAssumption DEF AskIp
    <2> QED
      BY <2>1, <2>2, LimitsAssumption
  <1>5. ASSUME NEW c \in Conns, Peek(c) \/ Tls(c) \/ CheckBan(c) \/ Request(c) \/ Answer(c) \/ ServeEnds(c)
        PROVE PermitsAddUp' /\ SlotsAddUp'
    BY <1>5, PermitsKept, SlotsKept DEF Peek, Tls, CheckBan, Request, Answer, ServeEnds
  <1>6. ASSUME NEW c \in Conns, AuthFails(c) \/ AuthSucceeds(c)
        PROVE PermitsAddUp' /\ SlotsAddUp'
    BY <1>6, PermitsKept, SlotsKept DEF AuthFails, AuthSucceeds
  <1>7. ASSUME NEW c \in Conns, DropSlot(c) PROVE PermitsAddUp' /\ SlotsAddUp'
    <2>1. PermitsAddUp'
      BY <1>7, PermitsKept DEF DropSlot
    <2> QED
      BY <1>7, <2>1, SlotReturned
  <1>8. ASSUME NEW c \in Conns, DropPermit(c) PROVE PermitsAddUp' /\ SlotsAddUp'
    BY <1>8, PermitReturned, SlotsKept DEF DropPermit
  <1>9. ASSUME NEW c \in Conns, Hangup(c) PROVE PermitsAddUp' /\ SlotsAddUp'
    BY <1>9, PermitsKept, SlotsKept DEF Hangup
  <1>10. CASE Tick
    BY <1>0, <1>10, PermitsKept, SlotsKept DEF Tick
  <1>11. CASE UNCHANGED vars
    BY <1>0, <1>11, PermitsKept, SlotsKept DEF vars
  <1> QED
    BY <1>0, <1>1, <1>2, <1>3, <1>4, <1>5, <1>6, <1>7, <1>8, <1>9, <1>10, <1>11
    DEF Next, Listen, Task

\* However connections arrive, are refused between the two limits, fail or
\* end, the semaphore and the per-IP counters count exactly the connections
\* that hold them, and no address has more than max_per_ip.
THEOREM LimitsAlwaysAddUp == Spec => []LimitsAddUp
  <1>1. LimitInv => LimitsAddUp
    BY DEF LimitInv, LimitsAddUp, PermitsAddUp, SlotsAddUp
  <1> QED
    BY <1>1, LimitInit, LimitStep, PTL DEF Spec

-----------------------------------------------------------------------------
(***************************************************************************)
(* The rate limiter.  BelowThreshold looks at the failures of the window   *)
(* at the time of the check and says nothing while a ban lasts, so it does *)
(* not survive the tick that ends a ban.  The inductive invariant says     *)
(* what the record holds: without a ban, fewer than MAX_FAILURES failures, *)
(* none of them in the future; with one, running or run out, only failures *)
(* that are as old as the ban.  The ban being no shorter than the window,  *)
(* they have all left the window when it ends.                             *)
(***************************************************************************)
RecordInv(i) ==
  /\ IsFiniteSet(failures[i])
  /\ \A f \in failures[i] : f[1] <= now
  /\ banned[i] = 0 => Cardinality(failures[i]) < MaxFailures
  /\ banned[i] # 0 => \A f \in failures[i] : f[1] + Ban <= banned[i]

RateInv == TypeOK /\ now >= 1 /\ \A i \in Ips : RecordInv(i)

LEMMA RateInit == Init => RateInv
  <1> SUFFICES ASSUME Init PROVE RateInv
    OBVIOUS
  <1>1. \A i \in Ips : RecordInv(i)
    BY FS_EmptySet, LimitsAssumption DEF Init, RecordInv
  <1> QED
    BY <1>1, TypeInit DEF RateInv, Init

\* The record of the address a login failed from.
LEMMA RecordFailureKeeps ==
  ASSUME RateInv, NEW i \in Ips, NEW c \in Conns, RecordFailure(i, c),
         UNCHANGED now
  PROVE  \A j \in Ips : RecordInv(j)'
  <1> USE LimitsAssumption DEF RateInv, TypeOK
  <1>1. ASSUME NEW j \in Ips, j # i PROVE RecordInv(j)'
    BY <1>1 DEF RecordFailure, RecordInv
  <1>2. CASE IsBanned(i)
    BY <1>2 DEF RecordFailure, RecordInv
  <1>3. CASE ~IsBanned(i)
    <2> DEFINE old == IF banned[i] # 0 THEN {} ELSE failures[i]
               new == Recent(i, old) \cup {<<now, c>>}
    <2>1. /\ failures' = [failures EXCEPT ![i] = new]
          /\ banned' = [banned EXCEPT
                          ![i] = IF Cardinality(new) >= MaxFailures
                                 THEN now + Ban ELSE 0]
      BY <1>3 DEF RecordFailure
    <2>2. IsFiniteSet(old) /\ \A f \in old : f[1] <= now
      BY FS_EmptySet DEF RecordInv
    <2>3. Recent(i, old) \subseteq old
      BY DEF Recent
    <2>4. IsFiniteSet(new) /\ Cardinality(new) \in Nat
      <3>1. IsFiniteSet(Recent(i, old))
        BY <2>2, <2>3, FS_Subset
      <3>2. IsFiniteSet(new)
        BY <3>1, FS_AddElement
      <3> QED
        BY <3>2, FS_CardinalityType
    <2>5. \A f \in new : f[1] <= now
      BY <2>2, <2>3
    <2>6. failures'[i] = new
      BY <2>1
    <2>7. banned'[i] = IF Cardinality(new) >= MaxFailures THEN now + Ban ELSE 0
      BY <2>1
    <2>8. new \in SUBSET (Nat \X Conns)
      BY DEF Recent
    <2> HIDE DEF new
    <2>9. RecordInv(i)'
      BY <2>4, <2>5, <2>6, <2>7, <2>8 DEF RecordInv
    <2> QED
      BY <1>1, <2>9
  <1> QED
    BY <1>2, <1>3

LEMMA RateStep == RateInv /\ [Next]_vars => RateInv'
  <1> SUFFICES ASSUME RateInv, [Next]_vars PROVE RateInv'
    OBVIOUS
  <1>0. TypeOK'
    BY TypeStep DEF RateInv
  <1> USE LimitsAssumption DEF RateInv, TypeOK
  <1>1. ASSUME UNCHANGED <<now, failures, banned>> PROVE RateInv'
    BY <1>0, <1>1 DEF RecordInv
  <1>2. ASSUME NEW c \in Conns, AuthFails(c) PROVE RateInv'
    <2>1. IpOf[c] \in Ips /\ UNCHANGED now
      BY <1>2, ConnsAssumption DEF AuthFails
    <2> QED
      BY <1>0, <1>2, <2>1, RecordFailureKeeps DEF AuthFails
  <1>3. ASSUME NEW c \in Conns, AuthSucceeds(c) PROVE RateInv'
    <2>1. UNCHANGED now /\ failures' = [failures EXCEPT ![IpOf[c]] = {}]
          /\ banned' = [banned EXCEPT ![IpOf[c]] = 0]
      BY <1>3 DEF AuthSucceeds
    <2>2. ASSUME NEW j \in Ips PROVE RecordInv(j)'
      BY <2>1, FS_EmptySet DEF RecordInv
    <2> QED
      BY <1>0, <2>1, <2>2
  <1>4. CASE Tick
    <2>1. now' = now + 1 /\ UNCHANGED <<failures, banned>>
      BY <1>4 DEF Tick, rate
    <2>2. ASSUME NEW j \in Ips PROVE RecordInv(j)'
      BY <2>1 DEF RecordInv
    <2> QED
      BY <1>0, <2>1, <2>2
  <1>5. ASSUME NEW c \in Conns,
               Listen(c) \/ Peek(c) \/ Tls(c) \/ CheckBan(c) \/ Request(c) \/ Answer(c) \/ ServeEnds(c)
                 \/ DropSlot(c) \/ DropPermit(c) \/ Hangup(c)
        PROVE UNCHANGED <<now, failures, banned>>
    BY <1>5 DEF Listen, Accept, AskStartups, AskGlobal, AskIp, Peek, Tls,
                CheckBan, Request, Answer, ServeEnds, DropSlot, DropPermit, Hangup, rate
  <1>6. CASE UNCHANGED vars
    BY <1>1, <1>6 DEF vars
  <1> QED
    BY <1>1, <1>2, <1>3, <1>4, <1>5, <1>6 DEF Next, Task

\* An address that may log in has always fewer than MAX_FAILURES failures in
\* the window, whatever mixture of failures, successes, bans and their expiry
\* led there: a ban that runs out leaves nothing behind that counts.
THEOREM AlwaysBelowThreshold == Spec => []BelowThreshold
  <1>1. RateInv => BelowThreshold
    <2> SUFFICES ASSUME RateInv, NEW i \in Ips, ~IsBanned(i)
                 PROVE Cardinality(Recent(i, failures[i])) < MaxFailures
      BY DEF BelowThreshold
    <2> USE LimitsAssumption DEF RateInv, TypeOK
    <2>1. IsFiniteSet(failures[i]) /\ Cardinality(failures[i]) \in Nat
      BY FS_CardinalityType DEF RecordInv
    <2>2. /\ Cardinality(Recent(i, failures[i])) <= Cardinality(failures[i])
          /\ Cardinality(Recent(i, failures[i])) \in Nat
      BY <2>1, FS_Subset, FS_CardinalityType DEF Recent
    <2>3. CASE banned[i] = 0
      BY <2>1, <2>2, <2>3 DEF RecordInv
    <2>4. CASE banned[i] # 0
      <3>1. now >= banned[i]
        BY <2>4 DEF IsBanned
      <3>2. ASSUME NEW f \in failures[i] PROVE ~(now - f[1] < Window)
        <4>1. f[1] \in Nat /\ f[1] + Ban <= banned[i]
          BY <2>4 DEF RecordInv
        <4> QED
          BY <3>1, <4>1
      <3>3. Recent(i, failures[i]) = {}
        BY <3>2 DEF Recent
      <3> QED
        BY <3>3, FS_EmptySet
    <2> QED
      BY <2>3, <2>4
  <1> QED
    BY <1>1, RateInit, RateStep, PTL DEF Spec

=============================================================================
