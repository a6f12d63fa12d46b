------------------------ MODULE BoundedFanOut_proofs ------------------------
(***************************************************************************)
(* What BoundedFanOut promises, proved of it: for every set of items and   *)
(* every limit.  process, stream and dispatch_tool_calls implement it      *)
(* (Process_proofs, Stream_proofs, Dispatch_proofs), and promise as much.  *)
(***************************************************************************)
EXTENDS BoundedFanOut, FiniteSetTheorems, TLAPS

-----------------------------------------------------------------------------
(* The inductive invariant: the running items are counted.                 *)

FanInv == limit \in Int /\ IsFiniteSet(In("running")) /\ WithinLimit /\ EndsWhole

\* Every call begins in the invariant.
LEMMA FanInitInv == ASSUME Init PROVE FanInv
<1>1. In("running") = {} /\ phase = "open" /\ limit \in Int
  BY DEF Init, In
<1>2. IsFiniteSet({})
  BY FS_EmptySet
<1> QED BY <1>1, <1>2 DEF FanInv, WithinLimit, EndsWhole

\* Fewer items run than before: they are within the limit if those were.
LEMMA FewerRun ==
  ASSUME FanInv, limit' = limit, In("running")' \subseteq In("running")
  PROVE  IsFiniteSet(In("running")') /\ WithinLimit'
<1>1. PICK R, S : R = In("running") /\ S = In("running")' /\ S \subseteq R /\ IsFiniteSet(R)
  BY DEF FanInv
<1>2. IsFiniteSet(S) /\ Cardinality(S) <= Cardinality(R)
      /\ Cardinality(S) \in Nat /\ Cardinality(R) \in Nat
  BY <1>1, FS_Subset, FS_CardinalityType
<1>3. ASSUME S # {} PROVE Cardinality(S) <= limit
  <2>1. Cardinality(R) <= limit /\ limit \in Int
    BY <1>1, <1>3 DEF FanInv, WithinLimit
  <2> QED BY <1>2, <2>1
<1> QED BY <1>1, <1>2, <1>3 DEF WithinLimit


\* An item begins: there was room for it.
LEMMA BeginStays ==
  ASSUME FanInv, NEW i \in DOMAIN work, Begin(i)
  PROVE  FanInv'
<1>1. PICK R : R = In("running") /\ IsFiniteSet(R) /\ limit \in Int
  BY DEF FanInv
<1>2. work' = [work EXCEPT ![i] = "running"] /\ limit' = limit /\ phase' = phase /\ phase = "open"
      /\ Cardinality(R) < limit
  BY <1>1 DEF Begin
<1>3. In("running")' = R \cup {i} /\ i \notin R
  BY <1>1, <1>2 DEF Begin, In
<1>4. IsFiniteSet(R \cup {i}) /\ Cardinality(R \cup {i}) = Cardinality(R) + 1
      /\ Cardinality(R) \in Nat
  BY <1>1, <1>3, FS_AddElement, FS_CardinalityType
<1>5. Cardinality(R \cup {i}) <= limit
  BY <1>1, <1>2, <1>4
<1> QED BY <1>1, <1>2, <1>3, <1>4, <1>5 DEF FanInv, WithinLimit, EndsWhole

\* A running item's slot is taken over: as many run as before.
LEMMA RelayStays ==
  ASSUME FanInv, NEW i \in DOMAIN work, NEW j \in DOMAIN work, Relay(i, j)
  PROVE  FanInv'
<1>1. PICK R : R = In("running") /\ IsFiniteSet(R) /\ limit \in Int /\ i \in R /\ j \notin R
  BY DEF FanInv, Relay, In
<1>2. work' = [work EXCEPT ![i] = "kept", ![j] = "running"]
      /\ limit' = limit /\ phase' = phase /\ phase = "open" /\ i # j
  BY DEF Relay
<1>3. In("running")' = (R \ {i}) \cup {j}
  BY <1>1, <1>2 DEF In
<1>4. PICK Q : Q = R \ {i} /\ IsFiniteSet(Q) /\ Cardinality(Q) = Cardinality(R) - 1
               /\ j \notin Q /\ Cardinality(R) \in Nat
  BY <1>1, FS_RemoveElement, FS_CardinalityType
<1>5. IsFiniteSet(Q \cup {j}) /\ Cardinality(Q \cup {j}) = Cardinality(R)
  <2>1. IsFiniteSet(Q \cup {j}) /\ Cardinality(Q \cup {j}) = Cardinality(Q) + 1
    BY <1>4, FS_AddElement
  <2> QED BY <1>4, <2>1
<1>6. Cardinality(R) <= limit
  BY <1>1 DEF FanInv, WithinLimit
<1>7. IsFiniteSet(In("running")') /\ Cardinality(In("running")') <= limit
  BY <1>3, <1>4, <1>5, <1>6
<1> QED BY <1>1, <1>2, <1>7 DEF FanInv, WithinLimit, EndsWhole

\* Every step keeps the invariant.
LEMMA FanStepInv == ASSUME FanInv, [Next]_vars PROVE FanInv'
<1>1. ASSUME NEW i \in DOMAIN work, Begin(i) PROVE FanInv'
  BY <1>1, BeginStays
<1>2. ASSUME NEW i \in DOMAIN work, Keep(i) PROVE FanInv'
  <2>1. In("running")' \subseteq In("running") /\ limit' = limit /\ phase' = phase
        /\ In("running") # {}
    BY <1>2 DEF Keep, In
  <2>2. phase = "open"
    BY <2>1 DEF FanInv, EndsWhole
  <2> QED BY <2>1, <2>2, FewerRun DEF FanInv, EndsWhole
<1>3. ASSUME NEW i \in DOMAIN work, Lose(i) PROVE FanInv'
  <2>1. In("running")' \subseteq In("running") /\ limit' = limit /\ phase' = phase
        /\ In("running") # {}
    BY <1>3 DEF Lose, In
  <2>2. phase = "open"
    BY <2>1 DEF FanInv, EndsWhole
  <2> QED BY <2>1, <2>2, FewerRun DEF FanInv, EndsWhole
<1>4. ASSUME NEW i \in DOMAIN work, Drop(i) PROVE FanInv'
  <2>1. In("running")' \subseteq In("running") /\ limit' = limit /\ phase' = phase
    BY <1>4 DEF Drop, In
  <2>2. i \notin In("kept")
    BY <1>4 DEF Drop, In
  <2>3. phase # "returned"
    BY <2>2 DEF FanInv, EndsWhole
  <2> QED BY <2>1, <2>3, FewerRun DEF FanInv, EndsWhole
<1>5. ASSUME NEW i \in DOMAIN work, NEW j \in DOMAIN work, Relay(i, j) PROVE FanInv'
  BY <1>5, RelayStays
<1>6. CASE Doom
  <2>1. work' = work /\ limit' = limit /\ phase' = phase
    BY <1>6 DEF Doom
  <2> QED BY <2>1 DEF FanInv, WithinLimit, EndsWhole, In
<1>7. CASE Return
  <2>1. /\ work' = work /\ limit' = limit /\ phase' = "returned"
        /\ In("kept") = DOMAIN work
    BY <1>7 DEF Return
  <2>2. In("running") = {}
    BY <2>1 DEF In
  <2> QED BY <2>1, <2>2 DEF FanInv, WithinLimit, EndsWhole, In
<1>8. CASE Raise
  <2>1. work' = work /\ limit' = limit /\ phase' = "raised" /\ In("running") = {}
    BY <1>8 DEF Raise
  <2> QED BY <2>1 DEF FanInv, WithinLimit, EndsWhole, In
<1>9. CASE UNCHANGED vars
  BY <1>9 DEF vars, FanInv, WithinLimit, EndsWhole, In
<1> QED BY <1>1, <1>2, <1>3, <1>4, <1>5, <1>6, <1>7, <1>8, <1>9 DEF Next

\* The inductive invariant holds of every call.
THEOREM FanInvariance == Spec => []FanInv
BY FanInitInv, FanStepInv, PTL DEF Spec

-----------------------------------------------------------------------------

\* No more items ever run at once than the caller asked for.
THEOREM LimitAlwaysHolds == Spec => []WithinLimit
<1>1. FanInv => WithinLimit
  BY DEF FanInv
<1> QED BY <1>1, FanInvariance, PTL

\* A call that ends has a kept result for every item or raises, and leaves
\* nothing running.
THEOREM EveryEndIsWhole == Spec => []EndsWhole
<1>1. FanInv => EndsWhole
  BY DEF FanInv
<1> QED BY <1>1, FanInvariance, PTL

\* Every item's work is begun at most once, its outcome stands, and a call that
\* is bound to raise begins nothing more.
THEOREM EveryItemOnlyOnce == Spec => [][OnlyOnce]_vars
<1>1. ASSUME FanInv, Next PROVE OnlyOnce
  <2>1. ASSUME NEW i \in DOMAIN work, Begin(i) \/ Keep(i) \/ Lose(i) \/ Drop(i) PROVE OnlyOnce
    BY <2>1 DEF OnlyOnce, Begin, Keep, Lose, Drop, In
  <2>2. ASSUME NEW i \in DOMAIN work, NEW j \in DOMAIN work, Relay(i, j) PROVE OnlyOnce
    BY <2>2 DEF OnlyOnce, Relay, In
  <2>3. CASE Doom \/ Return \/ Raise
    <3>1. work' = work /\ phase = "open"
      BY <2>3 DEF Doom, Return, Raise
    <3>2. doomed => doomed'
      BY <2>3, Zenon DEF Doom, Return, Raise
    <3>3. In("running")' = In("running")
      BY <3>1 DEF In
    <3> QED BY <3>1, <3>2, <3>3 DEF OnlyOnce
  <2> QED BY <1>1, <2>1, <2>2, <2>3 DEF Next
<1>2. FanInv /\ [Next]_vars => [OnlyOnce]_vars
  BY <1>1
<1> QED BY <1>2, FanInvariance, PTL DEF Spec

\* Whoever implements the fan-out keeps all three promises to its caller.
THEOREM PromisesKept == Spec => Promises
BY LimitAlwaysHolds, EveryEndIsWhole, EveryItemOnlyOnce, PTL DEF Promises
=============================================================================
