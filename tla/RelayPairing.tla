----------------------------- MODULE RelayPairing -----------------------------
(***************************************************************************)
(* What the relay promises its clients, with no waiting room, no channel   *)
(* and no limits: a connection asks once, for one UUID; two connections    *)
(* that asked for the same UUID may become a pair; a connection is in at   *)
(* most one pair, for ever; a connection that was let go is never paired.  *)
(***************************************************************************)
CONSTANTS Conns, Uuids, NoUuid

VARIABLES
  ask,    \* the UUID each connection asked for
  pairs,  \* the pairs made so far: <<first to ask, second to ask>>
  gone    \* connections the relay has closed

vars == <<ask, pairs, gone>>

Paired == {p[1] : p \in pairs} \cup {p[2] : p \in pairs}

Init ==
  /\ ask = [c \in Conns |-> NoUuid]
  /\ pairs = {}
  /\ gone = {}

Ask(c, u) ==
  /\ ask[c] = NoUuid
  /\ c \notin gone
  /\ ask' = [ask EXCEPT ![c] = u]
  /\ UNCHANGED <<pairs, gone>>

Pair(c, d) ==
  /\ c # d
  /\ ask[c] = ask[d]
  /\ ask[c] \in Uuids
  /\ {c, d} \cap (Paired \cup gone) = {}
  /\ pairs' = pairs \cup {<<c, d>>}
  /\ UNCHANGED <<ask, gone>>

\* A pair is closed as a whole; an unpaired connection is closed alone.
LetGo(S) ==
  /\ S \cap gone = {}
  /\ \/ \E c \in Conns \ Paired : S = {c}
     \/ \E p \in pairs : S = {p[1], p[2]}
  /\ gone' = gone \cup S
  /\ UNCHANGED <<ask, pairs>>

Next ==
  \/ \E c \in Conns, u \in Uuids : Ask(c, u)
  \/ \E c, d \in Conns : Pair(c, d)
  \/ \E S \in SUBSET Conns : LetGo(S)

Spec == Init /\ [][Next]_vars
=============================================================================
