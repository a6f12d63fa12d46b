-------------------------- MODULE Process_proofs --------------------------
(***************************************************************************)
(* Proofs about Process, for every set of calls: any number of items, any  *)
(* concurrency.                                                            *)
(***************************************************************************)
EXTENDS Process, FiniteSetTheorems, WellFoundedInduction, TLAPS

-----------------------------------------------------------------------------
(* The semaphore.                                                          *)

\* The states of the semaphore that the model is ever in.
SemState == [value : Nat, pc : [Items -> Positions]]

\* The arguments have the types asyncio's primitives rely on.
LEMMA CallTypes ==
  ASSUME call \in Calls
  PROVE  /\ call.n \in Nat
         /\ call.concurrency \in Int
         /\ call.return_exceptions \in BOOLEAN
         /\ Items \subseteq Nat
         /\ IsFiniteSet(Items)
<1>1. call \in Arguments
  BY CallsAssumption
<1>2. call.n \in Nat /\ call.concurrency \in Int /\ call.return_exceptions \in BOOLEAN
  BY <1>1 DEF Arguments
<1>3. Items \subseteq Nat
  BY <1>2 DEF Items
<1>4. IsFiniteSet(Items)
  BY <1>2, FS_Interval DEF Items
<1> QED BY <1>2, <1>3, <1>4

\* A set of numbers that is not empty has a least one.
LEMMA LeastOf ==
  ASSUME NEW S, S \subseteq Nat, S # {}
  PROVE  \E i \in S : \A j \in S : i <= j
<1> DEFINE R == OpToRel(<, Nat)
<1>1. IsWellFoundedOn(R, Nat)
  BY NatLessThanWellFounded
<1>2. \A x, y \in Nat : y < x => <<y, x>> \in R
  BY DEF OpToRel
<1> HIDE DEF R
<1>3. PICK i \in S : \A j \in S : <<j, i>> \notin R
  BY <1>1, WFMin
<1>4. ASSUME NEW j \in S PROVE i <= j
  <2>1. i \in Nat /\ j \in Nat
    OBVIOUS
  <2>2. ~ (j < i)
    BY <1>2, <1>3, <2>1, Zenon
  <2> QED BY <2>1, <2>2
<1> QED BY <1>4

\* A queue with live waiters has a first one: _wake_up_next always finds it.
LEMMA FirstWaiterIsLive ==
  ASSUME call \in Calls, NEW s, LiveWaiters(s) # {}
  PROVE  FirstWaiter(s) \in LiveWaiters(s)
<1>1. LiveWaiters(s) \subseteq Nat
  BY CallTypes DEF LiveWaiters
<1>2. \E i \in LiveWaiters(s) : \A j \in LiveWaiters(s) : i <= j
  BY <1>1, LeastOf
<1> QED BY <1>2 DEF FirstWaiter

\* How one run of the semaphore's code may change the other tasks' positions:
\* a live waiter is granted a slot, nothing else.
OnlyGrants(p, q) ==
  \A j \in Items :
    \/ q[j] = p[j]
    \/ p[j] = "queued" /\ ~throw[j] /\ q[j] = "granted"

\* Waking the next waiter moves that waiter alone, and only if it is live.
LEMMA WakeNextFrame ==
  ASSUME call \in Calls, NEW s \in SemState,
         LiveWaiters(s) = {} \/ s.value > 0
  PROVE  /\ WakeNext(s) \in SemState
         /\ OnlyGrants(s.pc, WakeNext(s).pc)
<1>1. CASE LiveWaiters(s) = {}
  BY <1>1 DEF WakeNext, OnlyGrants
<1>2. CASE LiveWaiters(s) # {}
  <2> DEFINE w == FirstWaiter(s)
  <2>1. w \in Items /\ s.pc[w] = "queued" /\ ~throw[w]
    BY <1>2, FirstWaiterIsLive DEF LiveWaiters
  <2> HIDE DEF w
  <2>2. WakeNext(s) = [value |-> s.value - 1, pc |-> [s.pc EXCEPT ![w] = "granted"]]
    BY <1>2 DEF WakeNext, w
  <2> QED BY <1>2, <2>1, <2>2 DEF SemState, Positions, Undone, OnlyGrants
<1> QED BY <1>1, <1>2

\* Releasing a slot changes the other tasks no more than waking the next waiter.
LEMMA ReleaseFrame ==
  ASSUME call \in Calls, NEW s \in SemState
  PROVE  /\ ReleaseSlot(s) \in SemState
         /\ OnlyGrants(s.pc, ReleaseSlot(s).pc)
<1> DEFINE t == [s EXCEPT !.value = @ + 1]
<1>1. t \in SemState /\ t.value > 0 /\ t.pc = s.pc
  BY DEF SemState
<1> HIDE DEF t
<1>2. /\ WakeNext(t) \in SemState
      /\ OnlyGrants(t.pc, WakeNext(t).pc)
  BY <1>1, WakeNextFrame
<1>3. ReleaseSlot(s) = WakeNext(t)
  BY DEF ReleaseSlot, t
<1> QED BY <1>1, <1>2, <1>3

\* Leaving a position keeps a state of the semaphore one.
LEMMA LeaveType ==
  ASSUME NEW s \in SemState, NEW i \in Items, NEW where \in Positions
  PROVE  /\ Leave(s, i, where) \in SemState
         /\ Leave(s, i, where).value = s.value
         /\ Leave(s, i, where).pc = [s.pc EXCEPT ![i] = where]
BY DEF Leave, SemState

\* A task with a slot ends on the latch, or calls fn; the others are granted
\* slots at most.
LEMMA EnterSlotFrame ==
  ASSUME call \in Calls, NEW s \in SemState, NEW i \in Items, EnterSlot(s, i)
  PROVE  /\ [value |-> value', pc |-> pc'] \in SemState
         /\ OnlyGrants([s.pc EXCEPT ![i] = IF failed THEN "ended" ELSE "calling"], pc')
<1>1. CASE failed
  <2> DEFINE t == Leave(s, i, "ended")
  <2>1. t \in SemState /\ t.pc = [s.pc EXCEPT ![i] = "ended"]
    BY LeaveType DEF Positions, Settled
  <2> HIDE DEF t
  <2>2. /\ ReleaseSlot(t) \in SemState
        /\ OnlyGrants(t.pc, ReleaseSlot(t).pc)
    BY <2>1, ReleaseFrame
  <2>3. value' = ReleaseSlot(t).value /\ pc' = ReleaseSlot(t).pc
    BY <1>1 DEF EnterSlot, Become, t
  <2> QED BY <1>1, <2>1, <2>2, <2>3 DEF SemState
<1>2. CASE ~failed
  <2> DEFINE t == Leave(s, i, "calling")
  <2>1. t \in SemState /\ t.pc = [s.pc EXCEPT ![i] = "calling"]
    BY LeaveType DEF Positions, Undone
  <2> HIDE DEF t
  <2>2. value' = t.value /\ pc' = t.pc
    BY <1>2 DEF EnterSlot, Become, t
  <2> QED BY <1>2, <2>1, <2>2 DEF SemState, OnlyGrants
<1> QED BY <1>1, <1>2

-----------------------------------------------------------------------------
(* Types.                                                                  *)

\* The semaphore's share of the type invariant.
LEMMA SemType ==
  ASSUME TypeOK
  PROVE  Sem \in SemState /\ Sem.value = value /\ Sem.pc = pc
BY DEF TypeOK, Sem, SemState

\* What each kind of item step does to the semaphore, typed.
LEMMA StartType ==
  ASSUME TypeOK, NEW i \in Items, Start(i)
  PROVE  value' \in Nat /\ pc' \in [Items -> Positions]
<1>0. call \in Calls
  BY DEF TypeOK
<1>1. CASE Locked(Sem)
  <2>1. Leave(Sem, i, "queued") \in SemState
    BY SemType, LeaveType DEF Positions, Undone
  <2>2. value' = Leave(Sem, i, "queued").value /\ pc' = Leave(Sem, i, "queued").pc
    BY <1>1 DEF Start, Become
  <2> QED BY <2>1, <2>2 DEF SemState
<1>2. CASE ~Locked(Sem)
  <2> DEFINE t == [Sem EXCEPT !.value = @ - 1]
  <2>1. Sem.value # 0
    BY <1>2 DEF Locked
  <2>2. t \in SemState
    BY <2>1, SemType DEF SemState
  <2>3. EnterSlot(t, i)
    BY <1>2 DEF Start
  <2> HIDE DEF t
  <2>4. [value |-> value', pc |-> pc'] \in SemState
    BY <1>0, <2>2, <2>3, EnterSlotFrame
  <2> QED BY <2>4 DEF SemState
<1> QED BY <1>1, <1>2

\* A granted waiter's step keeps the semaphore's state one.
LEMMA ResumeType ==
  ASSUME TypeOK, NEW i \in Items, Resume(i)
  PROVE  value' \in Nat /\ pc' \in [Items -> Positions]
<1>0. call \in Calls
  BY DEF TypeOK
<1> DEFINE t == IF value > 0 THEN WakeNext(Sem) ELSE Sem
<1>1. t \in SemState
  BY <1>0, SemType, WakeNextFrame
<1>2. EnterSlot(t, i)
  BY DEF Resume
<1> HIDE DEF t
<1>3. [value |-> value', pc |-> pc'] \in SemState
  BY <1>0, <1>1, <1>2, EnterSlotFrame
<1> QED BY <1>3 DEF SemState

\* A task that ends and gives its slot back.
LEMMA GiveBackType ==
  ASSUME TypeOK, NEW i \in Items, Become(ReleaseSlot(Leave(Sem, i, "ended")))
  PROVE  /\ value' \in Nat /\ pc' \in [Items -> Positions]
         /\ OnlyGrants([pc EXCEPT ![i] = "ended"], pc')
<1>0. call \in Calls
  BY DEF TypeOK
<1> DEFINE t == Leave(Sem, i, "ended")
<1>1. t \in SemState /\ t.pc = [pc EXCEPT ![i] = "ended"]
  BY SemType, LeaveType DEF Positions, Settled
<1>2. Become(ReleaseSlot(t))
  OBVIOUS
<1> HIDE DEF t
<1>3. ReleaseSlot(t) \in SemState /\ OnlyGrants(t.pc, ReleaseSlot(t).pc)
  BY <1>0, <1>1, ReleaseFrame
<1> QED BY <1>1, <1>2, <1>3 DEF SemState, Become

\* The verdict on a call of fn is one of the verdicts.
LEMMA VerdictType ==
  ASSUME NEW out \in Outcomes, NEW e \in BOOLEAN, NEW c, NEW stopping
  PROVE  Verdict(out, e, c, stopping) \in Verdicts
BY DEF Verdict, StrayCancellationAsError, Attributed, AfterTimeout, Verdicts, Outcomes

\* Cancelling every task that is not done keeps the types.
LEMMA AbortType ==
  ASSUME TypeOK, Abort \/ NoAbort
  PROVE  /\ throw' \in [Items -> BOOLEAN]
         /\ cancelling' \in [Items -> Nat]
         /\ aborting' \in BOOLEAN
<1>1. \A i \in Items : throw[i] \in BOOLEAN /\ cancelling[i] \in Nat
  BY DEF TypeOK
<1>2. CASE Abort
  <2>1. \A i \in Items : (throw[i] \/ pc[i] \in Undone) \in BOOLEAN
    OBVIOUS
  <2>2. \A i \in Items : (cancelling[i] + IF pc[i] \in Undone THEN 1 ELSE 0) \in Nat
    BY <1>1
  <2> QED BY <1>2, <2>1, <2>2 DEF Abort
<1>3. CASE NoAbort
  BY <1>3 DEF NoAbort, TypeOK
<1> QED BY <1>2, <1>3

\* Every step keeps the types.
LEMMA TypeStep ==
  ASSUME TypeOK, [Next]_vars
  PROVE  TypeOK'
<1>1. call' = call
  BY DEF Next, CallStep, TaskStep, FnStep, FnEnds, Refuse, ReturnEmpty, Spawn, CallerResume,
         CancelCaller, Start, CancelUnslotted, Resume, CancelGranted, Reap, Deadline,
         FnLeaksCancelCount, FnAbsorbsCancel, Settle, Terminated, vars
<1>2. Items' = Items
  BY <1>1 DEF Items
<1>3. call \in Calls
  BY DEF TypeOK
<1>4. CASE Refuse \/ ReturnEmpty
  BY <1>1, <1>2, <1>4 DEF TypeOK, Refuse, ReturnEmpty, items, group
<1>5. CASE Spawn
  <2>1. value' \in Nat
    BY <1>3, <1>5, CallTypes DEF Spawn, Refused
  <2> QED BY <1>1, <1>2, <1>5, <2>1 DEF TypeOK, Spawn, Positions, Undone
<1>6. CASE CallerResume
  <2>1. Abort \/ NoAbort
    BY <1>6 DEF CallerResume
  <2>2. status' \in {"waiting", "errors", "cancelled", "returned"}
    BY <1>6 DEF CallerResume, Ending
  <2>3. propagate' \in BOOLEAN /\ wake' \in BOOLEAN
    BY <1>6 DEF CallerResume, TypeOK
  <2> QED BY <1>1, <1>2, <1>6, <2>1, <2>2, <2>3, AbortType DEF TypeOK, CallerResume
<1>7. CASE CancelCaller
  BY <1>1, <1>2, <1>7 DEF TypeOK, CancelCaller, items
<1>8. ASSUME NEW i \in Items, Start(i)
      PROVE  TypeOK'
  BY <1>1, <1>2, <1>8, StartType DEF TypeOK, Start, group
<1>9. ASSUME NEW i \in Items, CancelUnslotted(i)
      PROVE  TypeOK'
  BY <1>1, <1>2, <1>9 DEF TypeOK, CancelUnslotted, group, Positions, Settled, Verdicts, Outcomes
<1>10. ASSUME NEW i \in Items, Resume(i)
       PROVE  TypeOK'
  BY <1>1, <1>2, <1>10, ResumeType DEF TypeOK, Resume, group
<1>11. ASSUME NEW i \in Items, CancelGranted(i)
       PROVE  TypeOK'
  <2>1. value' \in Nat /\ pc' \in [Items -> Positions]
    BY <1>11, GiveBackType DEF CancelGranted
  <2> QED BY <1>1, <1>2, <1>11, <2>1 DEF TypeOK, CancelGranted, group, Verdicts, Outcomes
<1>12. ASSUME NEW i \in Items, Reap(i)
       PROVE  TypeOK'
  <2>1. Abort \/ NoAbort
    BY <1>12 DEF Reap
  <2>2. requested' \in BOOLEAN /\ wake' \in BOOLEAN
    BY <1>12 DEF Reap, TypeOK
  <2>3. errors' \subseteq Items
    BY <1>12 DEF Reap, TypeOK
  <2>4. pc' \in [Items -> Positions]
    BY <1>12 DEF Reap, TypeOK, Positions, Settled
  <2> QED BY <1>1, <1>2, <1>12, <2>1, <2>2, <2>3, <2>4, AbortType DEF TypeOK, Reap
<1>13. ASSUME NEW i \in Items, FnStep(i)
       PROVE  TypeOK'
  <2>1. CASE Deadline(i)
    BY <1>1, <1>2, <2>1 DEF TypeOK, Deadline, group
  <2>2. CASE FnLeaksCancelCount(i)
    BY <1>1, <1>2, <2>2 DEF TypeOK, FnLeaksCancelCount, group
  <2>3. CASE FnAbsorbsCancel(i)
    BY <1>1, <1>2, <2>3 DEF TypeOK, FnAbsorbsCancel, group
  <2> QED BY <1>13, <2>1, <2>2, <2>3 DEF FnStep
<1>14. ASSUME NEW i \in Items, NEW out \in Outcomes, Settle(i, out)
       PROVE  TypeOK'
  <2> DEFINE verdict == Verdict(out, expired[i], cancelling[i], Stopping)
  <2>1. verdict \in Verdicts
    BY VerdictType DEF TypeOK
  <2>2. value' \in Nat /\ pc' \in [Items -> Positions]
    BY <1>14, GiveBackType DEF Settle
  <2>3. /\ \/ results' = results
           \/ results' = [results EXCEPT ![i] = verdict] /\ verdict \notin {"cancelled", "base"}
        /\ raised' = raised \/ raised' = [raised EXCEPT ![i] = verdict]
        /\ failed' = failed \/ failed' = TRUE
    BY <1>14 DEF Settle, IsException
  <2>4. throw' = [throw EXCEPT ![i] = FALSE]
    BY <1>14 DEF Settle
  <2>5. UNCHANGED <<call, status, cancelled, cancelling, expired, group>>
    BY <1>14 DEF Settle
  <2> HIDE DEF verdict
  <2>6. results' \in [Items -> (Verdicts \ {"cancelled", "base"}) \cup {"None"}]
    BY <2>1, <2>3 DEF TypeOK
  <2>8. raised' \in [Items -> Verdicts \cup {"none"}] /\ failed' \in BOOLEAN
    BY <2>1, <2>3 DEF TypeOK
  <2>7. throw' \in [Items -> BOOLEAN]
    BY <2>4 DEF TypeOK
  <2> QED BY <1>2, <2>2, <2>5, <2>6, <2>7, <2>8 DEF TypeOK, group
<1>15. CASE UNCHANGED vars
  BY <1>1, <1>2, <1>15 DEF TypeOK, vars, items, group
<1> QED BY <1>4, <1>5, <1>6, <1>7, <1>8, <1>9, <1>10, <1>11, <1>12, <1>13, <1>14, <1>15
        DEF Next, CallStep, TaskStep, FnEnds, Terminated

\* The initial states are typed.
LEMMA InitTypes ==
  ASSUME Init
  PROVE  TypeOK
<1>1. /\ call \in Calls /\ status = "entry" /\ value = 0 /\ errors = {}
      /\ cancelled \in BOOLEAN /\ ~failed /\ ~aborting /\ ~requested /\ ~wake /\ ~propagate
  BY DEF Init
<1>2. /\ failed \in BOOLEAN /\ aborting \in BOOLEAN /\ requested \in BOOLEAN
      /\ wake \in BOOLEAN /\ propagate \in BOOLEAN
  BY DEF Init
<1>3. /\ pc \in [Items -> Positions]
      /\ throw \in [Items -> BOOLEAN] /\ expired \in [Items -> BOOLEAN]
      /\ cancelling \in [Items -> Nat]
      /\ results \in [Items -> (Verdicts \ {"cancelled", "base"}) \cup {"None"}]
      /\ raised \in [Items -> Verdicts \cup {"none"}]
  BY DEF Init, Positions
<1> QED BY <1>1, <1>2, <1>3 DEF TypeOK

\* Type correctness of process, whatever the calls.
THEOREM TypeCorrect == Spec => []TypeOK
<1>1. Init => TypeOK
  BY InitTypes
<1>2. TypeOK /\ [Next]_vars => TypeOK'
  BY TypeStep
<1> QED BY <1>1, <1>2, PTL DEF Spec

-----------------------------------------------------------------------------
(* The inductive invariant.                                                *)

\* Tasks exist exactly while the call waits for them.
PhaseInv ==
  /\ status = "entry" => ~failed /\ ~aborting /\ \A i \in Items : pc[i] = "absent"
  /\ status = "waiting" => \A i \in Items : pc[i] # "absent"
  /\ Done => \A i \in Items : pc[i] \in {"absent", "reaped"}

\* The TaskGroup aborts for an error it collected or for the caller's
\* cancellation, and the latter is never forgotten while the call waits.
GroupInv ==
  /\ errors = {i \in Items : pc[i] = "reaped" /\ raised[i] \in Failures}
  /\ requested => aborting /\ errors # {}
  /\ propagate => aborting /\ cancelled
  /\ aborting => (propagate \/ requested) /\ (errors # {} \/ propagate)
  /\ wake => cancelled \/ requested
  /\ (status = "waiting" /\ cancelled) => wake \/ propagate \/ errors # {}

\* What an item's slot and its task's end say about each other.
ItemInv ==
  \A i \in Items :
    /\ raised[i] # "none" => pc[i] \in Settled
    /\ results[i] # "None" => pc[i] \in Settled
    /\ pc[i] \in Settled => results[i] # "None" \/ raised[i] # "none" \/ failed
    /\ \/ results[i] \in {"None", "value"}
       \/ call.return_exceptions /\ IsException(results[i])
    /\ raised[i] \in {"none", "cancelled"} \cup Failures
    /\ raised[i] \in Failures => failed
    /\ raised[i] = "cancelled" => failed \/ aborting
    /\ (throw[i] /\ pc[i] # "calling") => aborting
    /\ (aborting /\ pc[i] \in {"created", "queued", "granted"}) => throw[i]

\* What the latch stands for.
LatchInv ==
  /\ failed => cancelled \/ \E i \in Items : raised[i] \in Failures
  /\ CollectKeepsBatch

IInv == TypeOK /\ PhaseInv /\ GroupInv /\ ItemInv /\ LatchInv /\ CleanReturn

-----------------------------------------------------------------------------
(* How the item steps move the tasks.                                      *)

\* Other tasks than i stay where they are, or are granted a slot they wait for.
Others(i) ==
  \A j \in Items \ {i} : pc'[j] = pc[j] \/ (pc[j] = "queued" /\ pc'[j] = "granted")

\* A task that asks for a slot, or has just got one, begins its call of fn
\* only if the latch is not set.
LEMMA AdmitFrame ==
  ASSUME TypeOK, NEW i \in Items, Start(i) \/ Resume(i)
  PROVE  /\ pc[i] \in {"created", "granted"}
         /\ pc'[i] \in {"queued", "calling", "ended"}
         /\ pc'[i] = "calling" => ~failed
         /\ pc'[i] = "ended" => failed
         /\ Others(i)
<1>0. call \in Calls /\ pc \in [Items -> Positions]
  BY DEF TypeOK
<1> DEFINE x == IF failed THEN "ended" ELSE "calling"
<1>1. ASSUME NEW s \in SemState, EnterSlot(s, i), OnlyGrants(pc, s.pc),
             pc[i] \in {"created", "granted"}
      PROVE  /\ pc'[i] = x
             /\ Others(i)
  <2>1. OnlyGrants([s.pc EXCEPT ![i] = x], pc')
    BY <1>0, <1>1, EnterSlotFrame
  <2>2. s.pc \in [Items -> Positions]
    BY DEF SemState
  <2>3. pc'[i] = x
    BY <2>1, <2>2 DEF OnlyGrants
  <2>4. ASSUME NEW j \in Items \ {i}
        PROVE  pc'[j] = pc[j] \/ (pc[j] = "queued" /\ pc'[j] = "granted")
    <3>1. s.pc[j] = pc[j] \/ (pc[j] = "queued" /\ s.pc[j] = "granted")
      BY <1>1 DEF OnlyGrants
    <3>2. pc'[j] = s.pc[j] \/ (s.pc[j] = "queued" /\ pc'[j] = "granted")
      BY <2>1, <2>2 DEF OnlyGrants
    <3> QED BY <3>1, <3>2
  <2> QED BY <2>3, <2>4 DEF Others
<1>2. CASE Start(i) /\ Locked(Sem)
  <2>1. pc' = [pc EXCEPT ![i] = "queued"]
    <3>1. Leave(Sem, i, "queued").pc = [pc EXCEPT ![i] = "queued"]
      BY SemType, LeaveType DEF Positions, Undone
    <3> QED BY <1>2, <3>1 DEF Start, Become
  <2> QED BY <1>0, <1>2, <2>1 DEF Start, Others
<1>3. CASE Start(i) /\ ~Locked(Sem)
  <2> DEFINE t == [Sem EXCEPT !.value = @ - 1]
  <2>1. Sem.value # 0
    BY <1>3 DEF Locked
  <2>2. t \in SemState /\ t.pc = pc
    BY <2>1, SemType DEF SemState
  <2>3. EnterSlot(t, i) /\ pc[i] = "created"
    BY <1>3 DEF Start
  <2> HIDE DEF t
  <2>4. OnlyGrants(pc, t.pc)
    BY <2>2 DEF OnlyGrants
  <2> QED BY <1>1, <2>2, <2>3, <2>4
<1>4. CASE Resume(i)
  <2> DEFINE t == IF value > 0 THEN WakeNext(Sem) ELSE Sem
  <2>1. t \in SemState /\ OnlyGrants(pc, t.pc)
    BY <1>0, SemType, WakeNextFrame DEF OnlyGrants
  <2>2. EnterSlot(t, i) /\ pc[i] = "granted"
    BY <1>4 DEF Resume
  <2> HIDE DEF t
  <2> QED BY <1>1, <2>1, <2>2
<1> QED BY <1>2, <1>3, <1>4

\* A task that gives its slot back has ended.
LEMMA GiveBackFrame ==
  ASSUME TypeOK, NEW i \in Items, Become(ReleaseSlot(Leave(Sem, i, "ended")))
  PROVE  pc'[i] = "ended" /\ Others(i)
<1>1. OnlyGrants([pc EXCEPT ![i] = "ended"], pc') /\ pc \in [Items -> Positions]
  BY GiveBackType DEF TypeOK
<1> QED BY <1>1 DEF OnlyGrants, Others

-----------------------------------------------------------------------------
(* Each action preserves the invariant.                                    *)

\* Everything but the types, which TypeStep keeps.
Core == PhaseInv /\ GroupInv /\ ItemInv /\ LatchInv /\ CleanReturn

\* While an item's task is under way, the call waits.
LEMMA ItemWaits ==
  ASSUME TypeOK, PhaseInv, NEW i \in Items, pc[i] \in Undone \cup {"ended"}
  PROVE  status = "waiting" /\ ~Done
BY DEF TypeOK, PhaseInv, Done, Undone

\* A task that takes or is given a slot keeps the invariant: it calls fn only
\* while the latch is not set.
LEMMA AdmitStep ==
  ASSUME IInv, NEW i \in Items, Start(i) \/ Resume(i)
  PROVE  Core'
<1>1. /\ UNCHANGED <<call, status, cancelled, throw, results, raised, failed>>
      /\ UNCHANGED <<aborting, errors, requested, wake, propagate>>
      /\ Items' = Items
  BY DEF Start, Resume, group, Items
<1>2. /\ pc[i] \in {"created", "granted"}
      /\ pc'[i] \in {"queued", "calling", "ended"}
      /\ pc'[i] = "ended" => failed
      /\ Others(i)
  BY AdmitFrame DEF IInv
<1>3. status = "waiting" /\ ~Done
  BY <1>2, ItemWaits DEF IInv, Undone
<1>4. PhaseInv'
  BY <1>1, <1>2, <1>3 DEF IInv, PhaseInv, Others, Done
<1>5. GroupInv'
  <2>1. \A j \in Items : pc'[j] = "reaped" <=> pc[j] = "reaped"
    BY <1>2 DEF Others
  <2> QED BY <1>1, <2>1 DEF IInv, GroupInv, Failures
<1>6. ItemInv'
  <2>1. ~throw[i]
    BY DEF Start, Resume
  <2>2. \A j \in Items \ {i} : pc'[j] = pc[j] \/ (pc[j] = "queued" /\ pc'[j] = "granted")
    BY <1>2 DEF Others
  <2>3. raised[i] = "none" /\ results[i] = "None"
    BY <1>2 DEF IInv, ItemInv, Settled
  <2> QED BY <1>1, <1>2, <2>1, <2>2, <2>3 DEF IInv, ItemInv, Settled, IsException, Failures
<1>7. LatchInv'
  BY <1>1 DEF IInv, LatchInv, CollectKeepsBatch
<1>8. CleanReturn'
  BY <1>1, <1>3 DEF CleanReturn
<1> QED BY <1>4, <1>5, <1>6, <1>7, <1>8 DEF Core

\* A task that ends cancelled in the semaphore, or before its first step.
LEMMA CancelledTaskStep ==
  ASSUME IInv, NEW i \in Items, CancelUnslotted(i) \/ CancelGranted(i)
  PROVE  Core'
<1>1. /\ UNCHANGED <<call, status, cancelled, results, failed>>
      /\ UNCHANGED <<aborting, errors, requested, wake, propagate>>
      /\ Items' = Items
      /\ raised' = [raised EXCEPT ![i] = "cancelled"]
      /\ throw' = [throw EXCEPT ![i] = FALSE]
      /\ pc[i] \in {"created", "queued", "granted"}
      /\ throw[i]
  BY DEF CancelUnslotted, CancelGranted, group, Items
<1>2. pc'[i] = "ended" /\ Others(i)
  <2>1. CASE CancelUnslotted(i)
    BY <2>1 DEF CancelUnslotted, Others, IInv, TypeOK
  <2>2. CASE CancelGranted(i)
    BY <2>2, GiveBackFrame DEF CancelGranted, IInv
  <2> QED BY <2>1, <2>2
<1>3. status = "waiting" /\ ~Done
  BY <1>1, ItemWaits DEF IInv, Undone
<1>4. aborting /\ raised[i] = "none" /\ results[i] = "None"
  BY <1>1 DEF IInv, ItemInv, Settled
<1>5. PhaseInv'
  BY <1>1, <1>2, <1>3 DEF IInv, PhaseInv, Others, Done
<1>6. raised \in [Items -> Verdicts \cup {"none"}] /\ throw \in [Items -> BOOLEAN]
  BY DEF IInv, TypeOK
<1>7. GroupInv'
  <2>1. \A j \in Items : pc'[j] = "reaped" <=> pc[j] = "reaped"
    BY <1>1, <1>2 DEF Others
  <2>2. \A j \in Items : raised'[j] \in Failures <=> raised[j] \in Failures
    BY <1>1, <1>4, <1>6 DEF Failures
  <2> QED BY <1>1, <2>1, <2>2 DEF IInv, GroupInv
<1>8. ItemInv'
  <2>1. \A j \in Items \ {i} : pc'[j] = pc[j] \/ (pc[j] = "queued" /\ pc'[j] = "granted")
    BY <1>2 DEF Others
  <2> QED BY <1>1, <1>2, <1>4, <1>6, <2>1 DEF IInv, ItemInv, Settled, IsException, Failures
<1>9. LatchInv'
  <2>1. \A j \in Items : /\ raised[j] \in Failures => raised'[j] \in Failures
                         /\ raised[j] = "base" => raised'[j] = "base"
    BY <1>1, <1>4, <1>6 DEF Failures
  <2> QED BY <1>1, <2>1 DEF IInv, LatchInv, CollectKeepsBatch
<1>10. CleanReturn'
  BY <1>1, <1>3 DEF CleanReturn
<1> QED BY <1>5, <1>7, <1>8, <1>9, <1>10 DEF Core

\* The deadline, and what fn does to its own task while it runs.
LEMMA FnStepStep ==
  ASSUME IInv, NEW i \in Items, FnStep(i)
  PROVE  Core'
<1>1. /\ UNCHANGED <<call, status, cancelled, pc, results, raised, failed>>
      /\ UNCHANGED <<aborting, errors, requested, wake, propagate>>
      /\ Items' = Items
      /\ pc[i] = "calling"
      /\ \A j \in Items \ {i} : throw'[j] = throw[j]
  BY DEF FnStep, Deadline, FnLeaksCancelCount, FnAbsorbsCancel, group, Items, IInv, TypeOK
<1>2. PhaseInv' /\ GroupInv' /\ LatchInv' /\ CleanReturn'
  BY <1>1 DEF IInv, PhaseInv, Done, GroupInv, LatchInv, CollectKeepsBatch, CleanReturn, Failures
<1>3. ItemInv'
  BY <1>1 DEF IInv, ItemInv, Settled, IsException, Failures
<1> QED BY <1>2, <1>3 DEF Core

\* What a verdict that is not stored can be.
LEMMA UnstoredVerdict ==
  ASSUME NEW v \in Verdicts, v # "value"
  PROVE  v \in Failures \cup {"cancelled"}
BY DEF Verdicts, Outcomes, Failures

\* A CancelledError leaves an item's task only if the pipeline is stopping.
LEMMA CancelledVerdict ==
  ASSUME NEW out, NEW e, NEW c, NEW stopping \in BOOLEAN,
         Verdict(out, e, c, stopping) = "cancelled"
  PROVE  stopping
BY DEF Verdict, StrayCancellationAsError

\* The end of a call of fn keeps the invariant: a result is stored or the latch
\* is set, and a task ends cancelled only with the signal to show for it.
LEMMA SettleStep ==
  ASSUME IInv, NEW i \in Items, NEW out \in Outcomes, Settle(i, out)
  PROVE  Core'
<1> DEFINE verdict == Verdict(out, expired[i], cancelling[i], Stopping)
           stored == verdict = "value" \/ (call.return_exceptions /\ IsException(verdict))
<1>1. /\ UNCHANGED <<call, status, cancelled>>
      /\ UNCHANGED <<aborting, errors, requested, wake, propagate>>
      /\ Items' = Items
      /\ throw' = [throw EXCEPT ![i] = FALSE]
      /\ pc[i] = "calling"
      /\ Become(ReleaseSlot(Leave(Sem, i, "ended")))
  BY DEF Settle, group, Items
<1>2. \/ /\ stored
         /\ results' = [results EXCEPT ![i] = verdict]
         /\ UNCHANGED <<raised, failed>>
      \/ /\ ~stored
         /\ raised' = [raised EXCEPT ![i] = verdict]
         /\ failed' = TRUE
         /\ UNCHANGED results
  BY DEF Settle
<1>3. verdict \in Verdicts /\ (verdict = "cancelled" => Stopping)
  <2>1. verdict \in Verdicts
    BY VerdictType DEF IInv, TypeOK
  <2>2. Stopping \in BOOLEAN
    BY DEF Stopping, CallerCancelled, IInv, TypeOK
  <2> QED BY <2>1, <2>2, CancelledVerdict
<1> HIDE DEF verdict
<1>4. pc'[i] = "ended" /\ Others(i)
  BY <1>1, GiveBackFrame DEF IInv
<1>5. status = "waiting" /\ ~Done
  BY <1>1, ItemWaits DEF IInv, Undone
<1>6. /\ raised[i] = "none" /\ results[i] = "None"
      /\ raised \in [Items -> Verdicts \cup {"none"}]
      /\ results \in [Items -> (Verdicts \ {"cancelled", "base"}) \cup {"None"}]
      /\ throw \in [Items -> BOOLEAN]
  BY <1>1 DEF IInv, TypeOK, ItemInv, Settled
<1>7. \/ stored /\ verdict \in {"value"} \cup Failures /\ verdict # "base"
      \/ ~stored /\ verdict \in Failures \cup {"cancelled"}
  BY <1>3, UnstoredVerdict DEF IsException, Failures
<1>9. PhaseInv'
  BY <1>1, <1>4, <1>5 DEF IInv, PhaseInv, Others, Done
<1>10. GroupInv'
  <2>1. \A j \in Items : pc'[j] = "reaped" <=> pc[j] = "reaped"
    BY <1>1, <1>4 DEF Others
  <2>2. \A j \in Items \ {i} : raised'[j] = raised[j]
    BY <1>2, <1>6
  <2> QED BY <1>1, <1>4, <2>1, <2>2 DEF IInv, GroupInv
<1>11. ItemInv'
  <2>1. \A j \in Items \ {i} : pc'[j] = pc[j] \/ (pc[j] = "queued" /\ pc'[j] = "granted")
    BY <1>4 DEF Others
  <2>2. ASSUME NEW j \in Items \ {i}
        PROVE  ItemInv!(j)'
    BY <1>1, <1>2, <1>6, <2>1 DEF IInv, ItemInv, Settled
  <2>3. ItemInv!(i)'
    BY <1>1, <1>2, <1>4, <1>6, <1>7 DEF ItemInv, Settled, Failures
  <2> QED BY <1>1, <2>2, <2>3 DEF ItemInv
<1>12. LatchInv'
  <2>1. \A j \in Items : /\ raised[j] \in Failures => raised'[j] \in Failures
                         /\ raised[j] = "base" => raised'[j] = "base"
    BY <1>2, <1>6 DEF Failures
  <2>2. CASE stored
    BY <1>1, <1>2, <2>1, <2>2 DEF IInv, LatchInv, CollectKeepsBatch
  <2>3. CASE ~stored /\ verdict \in Failures
    <3>1. raised'[i] = verdict /\ failed'
      BY <1>2, <1>6, <2>3
    <3>2. call.return_exceptions => verdict = "base"
      BY <2>3 DEF Failures, IsException
    <3> QED BY <1>1, <2>3, <3>1, <3>2 DEF LatchInv, CollectKeepsBatch
  <2>4. CASE ~stored /\ verdict = "cancelled"
    <3>1. failed \/ cancelled \/ requested
      BY <1>3, <2>4 DEF Stopping, CallerCancelled
    <3>2. requested => failed
      BY DEF IInv, GroupInv, ItemInv
    <3>3. failed \/ cancelled
      BY <3>1, <3>2
    <3> QED BY <1>1, <1>2, <2>1, <3>3 DEF IInv, LatchInv, CollectKeepsBatch
  <2> QED BY <1>7, <2>2, <2>3, <2>4
<1>13. CleanReturn'
  BY <1>1, <1>5 DEF CleanReturn
<1> QED BY <1>9, <1>10, <1>11, <1>12, <1>13 DEF Core

\* The TaskGroup's callback keeps the invariant: it cancels the other tasks only
\* for an error that has latched.
LEMMA ReapStep ==
  ASSUME IInv, NEW i \in Items, Reap(i)
  PROVE  Core'
<1>1. /\ UNCHANGED <<call, status, cancelled, results, raised, failed, propagate>>
      /\ Items' = Items
      /\ pc[i] = "ended"
      /\ pc' = [pc EXCEPT ![i] = "reaped"]
      /\ pc \in [Items -> Positions]
  BY DEF Reap, Items, IInv, TypeOK
<1> DEFINE isError == raised[i] \notin {"none", "cancelled"}
<1>2. isError <=> raised[i] \in Failures
  BY DEF IInv, ItemInv, Failures
<1>3. errors' = IF raised[i] \in Failures THEN errors \cup {i} ELSE errors
  BY <1>2 DEF Reap
<1>4. \/ raised[i] \in Failures /\ ~aborting /\ Abort /\ requested' /\ wake'
      \/ aborting' = aborting /\ throw' = throw /\ UNCHANGED <<requested, wake>>
  BY <1>2 DEF Reap, NoAbort
<1>5. raised[i] \in Failures => aborting'
  BY <1>2 DEF Reap, NoAbort, Abort, IInv, GroupInv
<1>6. status = "waiting" /\ ~Done
  BY <1>1, ItemWaits DEF IInv
<1>7. PhaseInv'
  BY <1>1, <1>6 DEF IInv, PhaseInv, Done
<1>8. GroupInv'
  <2>1. errors' = {j \in Items : pc'[j] = "reaped" /\ raised'[j] \in Failures}
    BY <1>1, <1>3 DEF IInv, GroupInv
  <2>2. CASE raised[i] \in Failures /\ ~aborting /\ Abort /\ requested' /\ wake'
    BY <1>1, <1>3, <2>1, <2>2 DEF IInv, GroupInv, Abort
  <2>3. CASE aborting' = aborting /\ throw' = throw /\ UNCHANGED <<requested, wake>>
    BY <1>1, <1>3, <2>1, <2>3 DEF IInv, GroupInv
  <2> QED BY <1>1, <1>4, <2>1, <2>2, <2>3
<1>9. ItemInv'
  <2>1. aborting => aborting'
    BY <1>4 DEF Abort
  <2>2. \A j \in Items : throw'[j] /\ pc'[j] # "calling" => aborting' \/ (throw[j] /\ pc[j] # "calling")
    BY <1>1, <1>4 DEF Abort
  <2>3. \A j \in Items : aborting' /\ pc'[j] \in {"created", "queued", "granted"} =>
                            throw'[j] \/ (aborting /\ pc[j] \in {"created", "queued", "granted"})
    BY <1>1, <1>4 DEF Abort, Undone
  <2>4. \A j \in Items : throw[j] => throw'[j]
    BY <1>4 DEF Abort
  <2> QED BY <1>1, <2>1, <2>2, <2>3, <2>4 DEF IInv, ItemInv, Settled
<1>10. LatchInv'
  BY <1>1 DEF IInv, LatchInv, CollectKeepsBatch
<1>11. CleanReturn'
  BY <1>1, <1>6 DEF CleanReturn, Done
<1> QED BY <1>7, <1>8, <1>9, <1>10, <1>11 DEF Core

\* A cancellation of the caller keeps the invariant.
LEMMA CancelCallerStep ==
  ASSUME IInv, CancelCaller
  PROVE  Core'
<1>1. /\ UNCHANGED <<call, status, pc, throw, results, raised, failed>>
      /\ UNCHANGED <<aborting, errors, requested, propagate>>
      /\ Items' = Items
      /\ status = "waiting" /\ cancelled' /\ wake'
  BY DEF CancelCaller, items, Items
<1> QED BY <1>1 DEF Core, IInv, PhaseInv, Done, GroupInv, ItemInv, LatchInv, CollectKeepsBatch,
                    CleanReturn

\* When no task is left and the group ends neither with errors nor with a
\* cancellation, every item has its result.
LEMMA CleanEnding ==
  ASSUME IInv, AllReaped, errors = {}, ~propagate, ~wake \/ aborting, status = "waiting"
  PROVE  /\ ~cancelled /\ ~failed
         /\ \A i \in Items : results[i] = "value" \/
                             (call.return_exceptions /\ IsException(results[i]))
<1>1. ~aborting /\ ~wake
  BY DEF IInv, GroupInv
<1>2. ~cancelled /\ ~requested
  BY <1>1 DEF IInv, GroupInv
<1>3. \A i \in Items : raised[i] \notin Failures
  BY DEF IInv, GroupInv, AllReaped
<1>4. ~failed
  BY <1>2, <1>3 DEF IInv, LatchInv
<1>5. \A i \in Items : raised[i] = "none" /\ results[i] # "None"
  BY <1>1, <1>3, <1>4 DEF IInv, ItemInv, AllReaped, Settled
<1> QED BY <1>2, <1>4, <1>5 DEF IInv, ItemInv

\* The calling task's step keeps the invariant: it returns only when nothing is
\* left of the batch and nothing has stopped it.
LEMMA CallerResumeStep ==
  ASSUME IInv, CallerResume
  PROVE  Core'
<1> DEFINE held == propagate \/ (wake /\ ~aborting)
<1>1. /\ UNCHANGED <<call, cancelled, pc, results, raised, failed, errors, requested>>
      /\ Items' = Items
      /\ status = "waiting"
      /\ ~wake'
      /\ propagate' = held
  BY DEF CallerResume, Items
<1>2. \/ wake /\ ~aborting /\ Abort
      \/ (~wake \/ aborting) /\ aborting' = aborting /\ throw' = throw
  BY DEF CallerResume, NoAbort
<1>3. \/ AllReaped /\ status' = Ending(held)
      \/ status' = "waiting"
  BY DEF CallerResume
<1>4. PhaseInv'
  BY <1>1, <1>3 DEF IInv, PhaseInv, AllReaped, Ending, Done
<1>5. GroupInv'
  <2>1. errors' = {j \in Items : pc'[j] = "reaped" /\ raised'[j] \in Failures}
    BY <1>1 DEF IInv, GroupInv, Failures
  <2>2. CASE wake /\ ~aborting /\ Abort
    <3>1. aborting' /\ propagate' /\ cancelled /\ ~requested
      BY <1>1, <2>2 DEF Abort, IInv, GroupInv
    <3> QED BY <1>1, <2>1, <3>1 DEF GroupInv
  <2>3. CASE (~wake \/ aborting) /\ aborting' = aborting /\ throw' = throw
    <3>1. propagate' = propagate
      BY <1>1, <2>3 DEF IInv, TypeOK
    <3> QED BY <1>1, <2>1, <2>3, <3>1 DEF IInv, GroupInv
  <2> QED BY <1>2, <2>2, <2>3
<1>6. ItemInv'
  <2>1. aborting => aborting'
    BY <1>2 DEF Abort
  <2>2. \A j \in Items : throw'[j] => aborting' \/ throw[j]
    BY <1>2 DEF Abort
  <2>3. \A j \in Items : aborting' /\ pc[j] \in {"created", "queued", "granted"} =>
                            throw'[j] \/ aborting
    BY <1>2 DEF Abort, Undone
  <2>4. \A j \in Items : throw[j] => throw'[j]
    BY <1>2 DEF Abort
  <2> QED BY <1>1, <2>1, <2>2, <2>3, <2>4 DEF IInv, ItemInv
<1>7. LatchInv'
  BY <1>1 DEF IInv, LatchInv, CollectKeepsBatch
<1>8. CleanReturn'
  <2>1. SUFFICES ASSUME status' = "returned" PROVE CleanReturn'
    BY DEF CleanReturn
  <2>2. AllReaped /\ errors = {} /\ ~held
    BY <1>3, <2>1 DEF Ending
  <2>3. /\ ~cancelled /\ ~failed
        /\ \A i \in Items : results[i] = "value" \/
                            (call.return_exceptions /\ IsException(results[i]))
    BY <1>1, <2>2, CleanEnding
  <2> QED BY <1>1, <2>3 DEF CleanReturn, IsException, Verdicts, Outcomes
<1> QED BY <1>4, <1>5, <1>6, <1>7, <1>8 DEF Core

\* The argument checks, the empty batch and the start of the tasks keep it.
LEMMA EntryStep ==
  ASSUME IInv, Refuse \/ ReturnEmpty \/ Spawn
  PROVE  Core'
<1>1. /\ UNCHANGED <<call, cancelled, throw, results, raised, failed>>
      /\ UNCHANGED <<aborting, errors, requested, propagate>>
      /\ Items' = Items
      /\ status = "entry" /\ ~aborting
      /\ \A i \in Items : pc[i] = "absent"
  BY DEF Refuse, ReturnEmpty, Spawn, items, group, Items, IInv, PhaseInv
<1>2. /\ errors = {}
      /\ \A i \in Items : raised[i] = "none" /\ results[i] = "None"
  BY <1>1 DEF IInv, GroupInv, ItemInv, Settled
<1>3. \/ /\ status' \in {"refused", "returned"}
         /\ UNCHANGED <<pc, wake>>
         /\ status' = "returned" => call.n = 0
      \/ /\ status' = "waiting" /\ wake' = cancelled
         /\ pc' = [i \in Items |-> "created"]
  BY DEF Refuse, ReturnEmpty, Spawn, items, group
<1>4. PhaseInv'
  BY <1>1, <1>3 DEF PhaseInv, Done
<1>5. GroupInv'
  <2>1. ~requested /\ (aborting => propagate) /\ errors' = {}
    BY <1>1, <1>2 DEF IInv, GroupInv
  <2>2. {j \in Items : pc'[j] = "reaped" /\ raised'[j] \in Failures} = {}
    BY <1>1, <1>2 DEF Failures
  <2>3. wake' => cancelled
    BY <1>3, <2>1 DEF IInv, GroupInv
  <2>4. status' = "waiting" /\ cancelled => wake'
    BY <1>3
  <2> QED BY <1>1, <1>2, <2>1, <2>2, <2>3, <2>4 DEF IInv, GroupInv
<1>6. ItemInv'
  BY <1>1, <1>2, <1>3 DEF IInv, ItemInv, Settled, Failures
<1>7. LatchInv'
  BY <1>1 DEF IInv, LatchInv, CollectKeepsBatch
<1>8. CleanReturn'
  BY <1>1, <1>3 DEF CleanReturn
<1> QED BY <1>4, <1>5, <1>6, <1>7, <1>8 DEF Core

\* Every step keeps the invariant.
LEMMA InvStep ==
  ASSUME IInv, [Next]_vars
  PROVE  IInv'
<1>1. TypeOK'
  BY TypeStep DEF IInv
<1>2. CASE UNCHANGED vars
  <2>1. Items' = Items
    BY <1>2 DEF vars, Items
  <2> QED BY <1>1, <1>2, <2>1 DEF IInv, vars, items, group, PhaseInv, Done, GroupInv, ItemInv,
                                  LatchInv, CollectKeepsBatch, CleanReturn
<1>3. CASE CallStep \/ CancelCaller
  BY <1>1, <1>3, EntryStep, CallerResumeStep, CancelCallerStep DEF CallStep, Core, IInv
<1>4. ASSUME NEW i \in Items, TaskStep(i) \/ FnStep(i) \/ FnEnds(i)
      PROVE  IInv'
  BY <1>1, <1>4, AdmitStep, CancelledTaskStep, ReapStep, FnStepStep, SettleStep
     DEF TaskStep, FnEnds, Core, IInv
<1> QED BY <1>2, <1>3, <1>4 DEF Next, Terminated

\* The initial states satisfy the invariant.
LEMMA InvInit ==
  ASSUME Init
  PROVE  IInv
<1>1. TypeOK
  BY InitTypes
<1>2. PhaseInv
  BY DEF Init, PhaseInv, Done
<1>3. GroupInv
  BY DEF Init, GroupInv, Failures
<1>4. ItemInv
  BY DEF Init, ItemInv, Settled, Failures
<1>5. LatchInv /\ CleanReturn
  BY DEF Init, LatchInv, CollectKeepsBatch, CleanReturn
<1> QED BY <1>1, <1>2, <1>3, <1>4, <1>5 DEF IInv

\* The inductive invariant holds in every state of every call of process.
THEOREM Invariance == Spec => []IInv
<1>1. Init => IInv
  BY InvInit
<1>2. IInv /\ [Next]_vars => IInv'
  BY InvStep
<1> QED BY <1>1, <1>2, PTL DEF Spec

-----------------------------------------------------------------------------
(* What follows.                                                           *)

\* A list is returned only by a call that nobody cancelled, in which no item
\* failed the batch, and with every slot filled.
THEOREM CleanReturnHolds == Spec => []CleanReturn
<1>1. IInv => CleanReturn
  BY DEF IInv
<1> QED BY <1>1, Invariance, PTL

\* With return_exceptions only a BaseException or the caller's cancellation
\* fails the batch.
THEOREM CollectKeepsBatchHolds == Spec => []CollectKeepsBatch
<1>1. IInv => CollectKeepsBatch
  BY DEF IInv, LatchInv
<1> QED BY <1>1, Invariance, PTL

\* The pipeline never cancels its items without the signal that the items'
\* failures are judged by.
THEOREM AbortIsVisibleHolds == Spec => []AbortIsVisible
<1>1. IInv => AbortIsVisible
  BY DEF IInv, GroupInv, AbortIsVisible, Stopping, CallerCancelled
<1> QED BY <1>1, Invariance, PTL

\* A call of fn begins only by an item's own admission with the latch unset,
\* and ends only by its own settling.
LEMMA CallingFrame ==
  ASSUME IInv, [Next]_vars, NEW j \in Items
  PROVE  /\ pc'[j] = "calling" /\ pc[j] # "calling" => ~failed
         /\ pc[j] = "calling" /\ pc'[j] # "calling" => \E out \in Outcomes : Settle(j, out)
<1>1. CASE pc' = pc
  BY <1>1
<1>2. CASE Spawn
  BY <1>2 DEF Spawn, IInv, PhaseInv
<1>3. ASSUME NEW i \in Items, Start(i) \/ Resume(i)
      PROVE  /\ pc'[j] = "calling" /\ pc[j] # "calling" => ~failed
             /\ ~(pc[j] = "calling" /\ pc'[j] # "calling")
  <2>1. /\ pc[i] \in {"created", "granted"}
        /\ pc'[i] = "calling" => ~failed
        /\ Others(i)
    BY <1>3, AdmitFrame DEF IInv
  <2> QED BY <2>1 DEF Others
<1>4. ASSUME NEW i \in Items, CancelUnslotted(i) \/ Reap(i)
      PROVE  pc'[j] = "calling" <=> pc[j] = "calling"
  BY <1>4 DEF CancelUnslotted, Reap, IInv, TypeOK
<1>5. ASSUME NEW i \in Items, CancelGranted(i)
      PROVE  pc'[j] = "calling" <=> pc[j] = "calling"
  <2>1. pc[i] = "granted" /\ pc'[i] = "ended" /\ Others(i)
    BY <1>5, GiveBackFrame DEF CancelGranted, IInv
  <2> QED BY <2>1 DEF Others
<1>6. ASSUME NEW i \in Items, FnEnds(i)
      PROVE  /\ ~(pc'[j] = "calling" /\ pc[j] # "calling")
             /\ pc[j] = "calling" /\ pc'[j] # "calling" => \E out \in Outcomes : Settle(j, out)
  <2>1. pc'[i] = "ended" /\ Others(i)
    BY <1>6, GiveBackFrame DEF FnEnds, Settle, IInv
  <2> QED BY <1>6, <2>1 DEF Others, FnEnds
<1>7. Refuse \/ ReturnEmpty \/ CallerResume \/ CancelCaller \/ UNCHANGED vars => pc' = pc
  BY DEF Refuse, ReturnEmpty, CallerResume, CancelCaller, vars, items
<1>8. \A i \in Items : FnStep(i) => pc' = pc
  BY DEF FnStep, Deadline, FnLeaksCancelCount, FnAbsorbsCancel
<1> QED BY <1>1, <1>2, <1>3, <1>4, <1>5, <1>6, <1>7, <1>8
        DEF Next, CallStep, TaskStep, Terminated

\* With an item's failure on record, the step begins no call of fn.
LEMMA NoCallBegins ==
  ASSUME IInv, [Next]_vars, NEW j \in Items, raised[j] \in Failures,
         NEW i \in Items, pc'[i] = "calling"
  PROVE  pc[i] = "calling"
<1>1. failed
  BY DEF IInv, ItemInv
<1> QED BY <1>1, CallingFrame

\* Once an item's failure will fail the batch, no further call of fn begins.
THEOREM FailFastHolds == Spec => FailFast
<1>1. IInv /\ [Next]_vars =>
        [(\E j \in Items : raised[j] \in Failures) =>
           \A i \in Items : pc'[i] = "calling" => pc[i] = "calling"]_vars
  BY NoCallBegins
<1> QED BY <1>1, Invariance, PTL DEF Spec, FailFast

\* The step that ends a call of fn attributes its failure to what caused it.
LEMMA HonestEnd ==
  ASSUME IInv, [Next]_vars, NEW i \in Items, pc[i] = "calling", pc'[i] = "ended"
  PROVE  /\ VerdictOf(i)' = "PipelineTimeoutError" => expired[i]
         /\ VerdictOf(i)' = "timeout" => ~expired[i]
         /\ VerdictOf(i)' = "PipelineError" => ~(expired[i] \/ aborting \/ CallerCancelled)
<1>1. PICK out \in Outcomes : Settle(i, out)
  BY CallingFrame
<1> DEFINE verdict == Verdict(out, expired[i], cancelling[i], Stopping)
<1>2. \/ results' = [results EXCEPT ![i] = verdict] /\ raised' = raised
      \/ raised' = [raised EXCEPT ![i] = verdict] /\ results' = results
  BY <1>1 DEF Settle
<1>3. /\ raised[i] = "none" /\ results[i] = "None"
      /\ raised \in [Items -> Verdicts \cup {"none"}]
      /\ results \in [Items -> (Verdicts \ {"cancelled", "base"}) \cup {"None"}]
  <2>1. raised[i] = "none" /\ results[i] = "None"
    BY DEF IInv, ItemInv, Settled
  <2>2. TypeOK
    BY DEF IInv
  <2> QED BY <2>1, <2>2 DEF TypeOK
<1>4. verdict \in Verdicts
  BY VerdictType DEF IInv, TypeOK
<1>5. VerdictOf(i)' = verdict \/ VerdictOf(i)' \in {"none", "None"}
  BY <1>2, <1>3, <1>4 DEF VerdictOf
<1>6. /\ verdict = "PipelineTimeoutError" => expired[i]
      /\ verdict = "timeout" => ~expired[i]
      /\ verdict = "PipelineError" => ~expired[i] /\ ~Stopping
  BY <1>1 DEF Verdict, StrayCancellationAsError, Attributed, AfterTimeout, DeadlineEscaped,
              Outcomes
<1>7. aborting => Stopping
  BY DEF IInv, GroupInv, Stopping, CallerCancelled
<1> HIDE DEF verdict
<1> QED BY <1>5, <1>6, <1>7 DEF Stopping

\* A failure is attributed to what caused it.
THEOREM HonestAttributionHolds == Spec => HonestAttribution
<1>1. IInv /\ [Next]_vars =>
        [\A i \in Items : (pc[i] = "calling" /\ pc'[i] = "ended") =>
           /\ VerdictOf(i)' = "PipelineTimeoutError" => expired[i]
           /\ VerdictOf(i)' = "timeout" => ~expired[i]
           /\ VerdictOf(i)' = "PipelineError" => ~(expired[i] \/ aborting \/ CallerCancelled)]_vars
  BY HonestEnd
<1> QED BY <1>1, Invariance, PTL DEF Spec, HonestAttribution

-----------------------------------------------------------------------------
(* Slots.                                                                  *)

Held == {"granted", "calling"}

HeldBy(p) == {i \in Items : p[i] \in Held}

\* The slots of a state: those on the counter and those that items hold.
Slots(s) == s.value + Cardinality(HeldBy(s.pc))

\* One task's move counts one slot at most.
LEMMA HeldMove ==
  ASSUME call \in Calls, NEW p \in [Items -> Positions], NEW i \in Items, NEW where \in Positions
  PROVE  /\ Cardinality(HeldBy(p)) \in Nat
         /\ Cardinality(HeldBy([p EXCEPT ![i] = where])) =
              Cardinality(HeldBy(p)) + (IF where \in Held THEN 1 ELSE 0)
                                     - (IF p[i] \in Held THEN 1 ELSE 0)
<1> DEFINE q == [p EXCEPT ![i] = where]
           rest == HeldBy(p) \ {i}
<1>1. IsFiniteSet(HeldBy(p)) /\ IsFiniteSet(rest)
  BY CallTypes, FS_Subset DEF HeldBy
<1>2. Cardinality(HeldBy(p)) \in Nat /\ Cardinality(rest) \in Nat
  BY <1>1, FS_CardinalityType
<1>3. Cardinality(rest) = Cardinality(HeldBy(p)) - (IF p[i] \in Held THEN 1 ELSE 0)
  <2>1. i \in HeldBy(p) <=> p[i] \in Held
    BY DEF HeldBy
  <2>2. Cardinality(rest) = IF i \in HeldBy(p) THEN Cardinality(HeldBy(p)) - 1
                                               ELSE Cardinality(HeldBy(p))
    BY <1>1, FS_RemoveElement
  <2> QED BY <1>2, <2>1, <2>2
<1>4. HeldBy(q) = IF where \in Held THEN rest \cup {i} ELSE rest
  BY DEF HeldBy
<1>5. Cardinality(HeldBy(q)) = Cardinality(rest) + (IF where \in Held THEN 1 ELSE 0)
  <2>1. Cardinality(rest \cup {i}) = Cardinality(rest) + 1
    BY <1>1, FS_AddElement
  <2> HIDE DEF rest, q
  <2> QED BY <1>2, <1>4, <2>1
<1> QED BY <1>2, <1>3, <1>5

\* Waking a waiter moves a slot from the counter to it.
LEMMA WakeNextSlots ==
  ASSUME call \in Calls, NEW s \in SemState, LiveWaiters(s) = {} \/ s.value > 0
  PROVE  Slots(WakeNext(s)) = Slots(s)
<1>1. CASE LiveWaiters(s) = {}
  BY <1>1 DEF WakeNext
<1>2. CASE LiveWaiters(s) # {}
  <2> DEFINE w == FirstWaiter(s)
  <2>1. w \in Items /\ s.pc[w] = "queued"
    BY <1>2, FirstWaiterIsLive DEF LiveWaiters
  <2> HIDE DEF w
  <2>2. WakeNext(s) = [value |-> s.value - 1, pc |-> [s.pc EXCEPT ![w] = "granted"]]
    BY <1>2 DEF WakeNext, w
  <2>3. /\ Cardinality(HeldBy(s.pc)) \in Nat
        /\ Cardinality(HeldBy([s.pc EXCEPT ![w] = "granted"])) = Cardinality(HeldBy(s.pc)) + 1
    BY <2>1, HeldMove DEF SemState, Held, Positions, Undone
  <2> QED BY <2>2, <2>3 DEF Slots, SemState
<1> QED BY <1>1, <1>2

\* A release adds one.
LEMMA ReleaseSlots ==
  ASSUME call \in Calls, NEW s \in SemState
  PROVE  Slots(ReleaseSlot(s)) = Slots(s) + 1
<1> DEFINE t == [s EXCEPT !.value = @ + 1]
<1>1. t \in SemState /\ t.value = s.value + 1 /\ t.value > 0 /\ t.pc = s.pc
  BY DEF SemState
<1>2. ReleaseSlot(s) = WakeNext(t)
  BY DEF ReleaseSlot
<1> HIDE DEF t
<1>3. Slots(WakeNext(t)) = Slots(t)
  BY <1>1, WakeNextSlots
<1>4. Cardinality(HeldBy(s.pc)) \in Nat
  BY CallTypes, FS_Subset, FS_CardinalityType DEF HeldBy
<1>5. Slots(t) = Slots(s) + 1
  BY <1>1, <1>4 DEF Slots, SemState
<1> QED BY <1>2, <1>3, <1>5

\* Leaving a held position takes one away, entering one adds one.
LEMMA LeaveSlots ==
  ASSUME call \in Calls, NEW s \in SemState, NEW i \in Items, NEW where \in Positions
  PROVE  /\ Slots(s) \in Nat
         /\ Slots(Leave(s, i, where)) = Slots(s) + (IF where \in Held THEN 1 ELSE 0)
                                                 - (IF s.pc[i] \in Held THEN 1 ELSE 0)
<1>1. /\ Cardinality(HeldBy(s.pc)) \in Nat
      /\ Cardinality(HeldBy([s.pc EXCEPT ![i] = where])) =
           Cardinality(HeldBy(s.pc)) + (IF where \in Held THEN 1 ELSE 0)
                                     - (IF s.pc[i] \in Held THEN 1 ELSE 0)
  BY HeldMove DEF SemState
<1>2. /\ Leave(s, i, where).value = s.value
      /\ Leave(s, i, where).pc = [s.pc EXCEPT ![i] = where]
  BY LeaveType
<1>3. s.value \in Nat
  BY DEF SemState
<1> QED BY <1>1, <1>2, <1>3 DEF Slots

\* After EnterSlot the item holds the slot it was given, or has returned it.
LEMMA EnterSlotSlots ==
  ASSUME call \in Calls, NEW s \in SemState, NEW i \in Items, EnterSlot(s, i)
  PROVE  value' + Cardinality(HeldBy(pc')) =
           Slots(s) + 1 - (IF s.pc[i] \in Held THEN 1 ELSE 0)
<1>1. CASE failed
  <2> DEFINE t == Leave(s, i, "ended")
  <2>1. t \in SemState
    BY LeaveType DEF Positions, Settled
  <2>2. /\ Slots(s) \in Nat
        /\ Slots(t) = Slots(s) - (IF s.pc[i] \in Held THEN 1 ELSE 0)
    BY LeaveSlots DEF Positions, Settled, Held
  <2>3. value' = ReleaseSlot(t).value /\ pc' = ReleaseSlot(t).pc
    BY <1>1 DEF EnterSlot, Become
  <2> HIDE DEF t
  <2>4. Slots(ReleaseSlot(t)) = Slots(t) + 1
    BY <2>1, ReleaseSlots
  <2> QED BY <2>2, <2>3, <2>4 DEF Slots
<1>2. CASE ~failed
  <2> DEFINE t == Leave(s, i, "calling")
  <2>1. /\ Slots(s) \in Nat
        /\ Slots(t) = Slots(s) + 1 - (IF s.pc[i] \in Held THEN 1 ELSE 0)
    BY LeaveSlots DEF Positions, Undone, Held
  <2>2. value' = t.value /\ pc' = t.pc
    BY <1>2 DEF EnterSlot, Become
  <2> HIDE DEF t
  <2> QED BY <2>1, <2>2 DEF Slots
<1> QED BY <1>1, <1>2

\* Every step keeps the number of slots.
LEMMA SlotStep ==
  ASSUME IInv, SlotAccounting, [Next]_vars
  PROVE  SlotAccounting'
<1> USE DEF Slots
<1>1. call \in Calls /\ pc \in [Items -> Positions] /\ call' = call /\ Items' = Items
  BY DEF IInv, TypeOK, Items, Next, CallStep, TaskStep, FnStep, FnEnds, Refuse, ReturnEmpty, Spawn,
         CallerResume, CancelCaller, Start, CancelUnslotted, Resume, CancelGranted, Reap,
         Deadline, FnLeaksCancelCount, FnAbsorbsCancel, Settle, Terminated, vars
<1>2. Holding = HeldBy(pc) /\ Holding' = HeldBy(pc')
  BY <1>1 DEF Holding, HeldBy, Held
<1>3. CASE pc' = pc /\ value' = value
  BY <1>1, <1>2, <1>3 DEF SlotAccounting, Spawned
<1>4. CASE Spawn
  <2>1. HeldBy(pc') = {} /\ value' = call.concurrency
    BY <1>4 DEF Spawn, HeldBy, Held
  <2>2. Cardinality(HeldBy(pc')) = 0
    BY <2>1, FS_EmptySet
  <2> QED BY <1>1, <1>2, <2>1, <2>2, CallTypes DEF SlotAccounting
<1>5. ASSUME NEW i \in Items, pc[i] \in Undone \cup {"ended"},
             value' + Cardinality(HeldBy(pc')) = Slots(Sem)
      PROVE  SlotAccounting'
  <2>1. Slots(Sem) = call.concurrency
    BY <1>2, <1>5, SemType DEF SlotAccounting, Spawned, Undone, IInv
  <2> QED BY <1>1, <1>2, <1>5, <2>1 DEF SlotAccounting
<1>6. /\ Sem \in SemState /\ Sem.pc = pc /\ Sem.value = value
      /\ Slots(Sem) \in Nat
  <2>1. Sem \in SemState /\ Sem.pc = pc /\ Sem.value = value
    BY SemType DEF IInv
  <2>2. Cardinality(HeldBy(pc)) \in Nat
    BY <1>1, CallTypes, FS_Subset, FS_CardinalityType DEF HeldBy
  <2> QED BY <2>1, <2>2 DEF SemState
<1> HIDE DEF Slots
<1>7. ASSUME NEW i \in Items, Start(i)
      PROVE  SlotAccounting'
  <2>1. pc[i] = "created"
    BY <1>7 DEF Start
  <2>2. CASE Locked(Sem)
    <3>1. Slots(Leave(Sem, i, "queued")) = Slots(Sem)
      BY <1>1, <1>6, <2>1, LeaveSlots DEF Held, Positions, Undone
    <3>2. value' = Leave(Sem, i, "queued").value /\ pc' = Leave(Sem, i, "queued").pc
      BY <1>7, <2>2 DEF Start, Become
    <3> QED BY <1>5, <2>1, <3>1, <3>2 DEF Slots, Undone
  <2>3. CASE ~Locked(Sem)
    <3> DEFINE t == [Sem EXCEPT !.value = @ - 1]
    <3>1. Sem.value # 0
      BY <2>3 DEF Locked
    <3>2. t \in SemState /\ t.pc = pc /\ t.value = Sem.value - 1
      BY <1>6, <3>1 DEF SemState
    <3>3. EnterSlot(t, i)
      BY <1>7, <2>3 DEF Start
    <3> HIDE DEF t
    <3>4. value' + Cardinality(HeldBy(pc')) = Slots(t) + 1
      BY <1>1, <2>1, <3>2, <3>3, EnterSlotSlots, LeaveSlots DEF Held, Positions
    <3>5. Slots(t) + 1 = Slots(Sem)
      <4>1. Cardinality(HeldBy(pc)) \in Nat /\ Sem.value \in Nat
        BY <1>1, <1>6, HeldMove DEF SemState, Positions
      <4> QED BY <1>6, <3>2, <4>1 DEF Slots
    <3> QED BY <1>5, <2>1, <3>4, <3>5 DEF Undone
  <2> QED BY <2>2, <2>3
<1>8. ASSUME NEW i \in Items, Resume(i)
      PROVE  SlotAccounting'
  <2>1. pc[i] = "granted"
    BY <1>8 DEF Resume
  <2> DEFINE t == IF value > 0 THEN WakeNext(Sem) ELSE Sem
  <2>2. t \in SemState /\ OnlyGrants(pc, t.pc) /\ Slots(t) = Slots(Sem)
    BY <1>1, <1>6, WakeNextFrame, WakeNextSlots DEF OnlyGrants
  <2>3. EnterSlot(t, i)
    BY <1>8 DEF Resume
  <2> HIDE DEF t
  <2>4. t.pc[i] \in Held
    BY <2>1, <2>2 DEF OnlyGrants, Held
  <2>5. value' + Cardinality(HeldBy(pc')) = Slots(t)
    BY <1>1, <1>6, <2>2, <2>3, <2>4, EnterSlotSlots
  <2> QED BY <1>5, <2>1, <2>2, <2>5 DEF Undone
<1>9. ASSUME NEW i \in Items, pc[i] \in Held, Become(ReleaseSlot(Leave(Sem, i, "ended")))
      PROVE  SlotAccounting'
  <2> DEFINE t == Leave(Sem, i, "ended")
  <2>1. t \in SemState
    BY <1>6, LeaveType DEF Positions, Settled
  <2>2. Slots(t) = Slots(Sem) - 1
    BY <1>1, <1>6, <1>9, LeaveSlots DEF Held, Positions, Settled
  <2>3. value' = ReleaseSlot(t).value /\ pc' = ReleaseSlot(t).pc
    BY <1>9 DEF Become
  <2> HIDE DEF t
  <2>4. Slots(ReleaseSlot(t)) = Slots(t) + 1
    BY <1>1, <2>1, ReleaseSlots
  <2>5. value' + Cardinality(HeldBy(pc')) = Slots(Sem)
    BY <1>6, <2>2, <2>3, <2>4 DEF Slots
  <2> QED BY <1>5, <1>9, <2>5 DEF Undone, Held
<1>10. ASSUME NEW i \in Items, CancelUnslotted(i) \/ Reap(i)
       PROVE  SlotAccounting'
  <2>1. /\ HeldBy(pc') = HeldBy(pc)
        /\ value' = value
        /\ pc[i] \in Undone \cup {"ended"}
    BY <1>1, <1>10 DEF CancelUnslotted, Reap, HeldBy, Held, Undone
  <2> QED BY <1>5, <1>6, <2>1 DEF Slots
<1>11. ASSUME NEW i \in Items, TaskStep(i) \/ FnStep(i) \/ FnEnds(i)
       PROVE  SlotAccounting'
  <2>1. FnStep(i) => pc' = pc /\ value' = value
    BY DEF FnStep, Deadline, FnLeaksCancelCount, FnAbsorbsCancel
  <2>2. CancelGranted(i) \/ FnEnds(i) =>
          pc[i] \in Held /\ Become(ReleaseSlot(Leave(Sem, i, "ended")))
    BY DEF CancelGranted, FnEnds, Settle, Held
  <2> QED BY <1>3, <1>7, <1>8, <1>9, <1>10, <1>11, <2>1, <2>2 DEF TaskStep
<1>12. Refuse \/ ReturnEmpty \/ CallerResume \/ CancelCaller \/ UNCHANGED vars =>
         pc' = pc /\ value' = value
  BY DEF Refuse, ReturnEmpty, CallerResume, CancelCaller, vars, items
<1> QED BY <1>3, <1>4, <1>11, <1>12 DEF Next, CallStep, Terminated

\* Slots are neither lost nor counted twice: at most `concurrency` calls of
\* fn are in flight, for every number of items and every concurrency.
THEOREM SlotAccountingHolds == Spec => []SlotAccounting
<1>1. Init => IInv /\ SlotAccounting
  BY InvInit DEF Init, SlotAccounting, Spawned
<1>2. IInv /\ SlotAccounting /\ [Next]_vars => IInv' /\ SlotAccounting'
  BY InvStep, SlotStep
<1> QED BY <1>1, <1>2, PTL DEF Spec

-----------------------------------------------------------------------------
(* process implements BoundedFanOut.                                       *)

\* The mapping's phase and doom.
Phase == IF ~Done THEN "open" ELSE IF status = "returned" THEN "returned" ELSE "raised"
Doomed == failed \/ aborting

\* The abstract variables are functions of what they are read from.
LEMMA FanStutter ==
  ASSUME UNCHANGED <<call, status>>, Work' = Work, Doomed' = Doomed
  PROVE  UNCHANGED Fan!vars
BY DEF Fan!vars, Doomed, Done

\* A task moved among the positions before its call of fn, others granted.
LEMMA WorkFrame ==
  ASSUME NEW i \in Items, Items' = Items, Others(i), UNCHANGED results
  PROVE  \A j \in Items \ {i} : Work'[j] = Work[j]
BY DEF Others, Work, Settled

\* Where an item's task is decides its work.
LEMMA WorkOf ==
  ASSUME NEW i \in Items
  PROVE  /\ Work[i] = "running" <=> pc[i] = "calling"
         /\ pc[i] \in {"absent", "created", "queued", "granted"} => Work[i] = "pending"
         /\ pc[i] \in Settled /\ results[i] = "None" => Work[i] = "lost"
         /\ pc[i] \in Settled /\ results[i] # "None" => Work[i] = "kept"
BY DEF Work, Settled

\* An item that begins finds a slot free in the promise's terms too.
LEMMA BeginHasRoom ==
  ASSUME IInv, SlotAccounting', TypeOK', Items' = Items, call' = call,
         NEW i \in Items, pc[i] # "calling", pc'[i] = "calling",
         \A j \in Items \ {i} : pc[j] = "calling" => pc'[j] = "calling"
  PROVE  Cardinality(Fan!In("running")) < call.concurrency
<1> DEFINE R == {j \in Items : pc[j] = "calling"}
           H == HeldBy(pc')
<1>1. Fan!In("running") = R
  BY WorkOf DEF Fan!In, Work
<1>2. IsFiniteSet(Items) /\ call.concurrency \in Int
  BY CallTypes DEF IInv, TypeOK
<1>3. IsFiniteSet(R) /\ IsFiniteSet(H) /\ R \cup {i} \subseteq H
  BY <1>2, FS_Subset DEF HeldBy, Held
<1>4. Cardinality(R) \in Nat /\ Cardinality(H) \in Nat
  BY <1>3, FS_CardinalityType
<1>5. Cardinality(R \cup {i}) = Cardinality(R) + 1
  BY <1>3, FS_AddElement
<1>6. Cardinality(R \cup {i}) <= Cardinality(H)
  BY <1>3, FS_Subset
<1>7. value' + Cardinality(H) = call.concurrency /\ value' \in Nat
  <2>1. Holding' = H
    BY DEF Holding, HeldBy, Held
  <2>2. Spawned'
    BY DEF Spawned
  <2> QED BY <2>1, <2>2 DEF SlotAccounting, TypeOK
<1> HIDE DEF R, H
<1> QED BY <1>1, <1>2, <1>4, <1>5, <1>6, <1>7

\* The abstract steps, with the mapped variables written out.
LEMMA FanActions ==
  /\ Fan!vars = <<call.concurrency, Work, Doomed, Phase>>
  /\ DOMAIN Work = Items
BY DEF Fan!vars, Doomed, Phase, Work

\* A step of one item's task is a step of its work, or invisible.
LEMMA FanItemStep ==
  ASSUME IInv, IInv', SlotAccounting', NEW i \in Items, TaskStep(i) \/ FnStep(i) \/ FnEnds(i)
  PROVE  Fan!Next \/ UNCHANGED Fan!vars
<1>1. /\ call' = call /\ Items' = Items /\ status' = status
      /\ status = "waiting" /\ ~Done /\ ~Done'
  <2>1. /\ call' = call /\ status' = status
        /\ pc[i] \in Undone \cup {"ended"}
    BY DEF TaskStep, FnStep, FnEnds, Start, CancelUnslotted, Resume, CancelGranted, Reap,
           Deadline, FnLeaksCancelCount, FnAbsorbsCancel, Settle, Undone
  <2>2. status = "waiting"
    BY <2>1, ItemWaits DEF IInv
  <2> QED BY <2>1, <2>2 DEF Items, Done
<1>2. /\ raised[i] \in Verdicts \cup {"none"}
      /\ pc[i] \notin Settled => raised[i] = "none" /\ results[i] = "None"
  BY DEF IInv, TypeOK, ItemInv
<1>3. Work \in [Items -> {"pending", "running", "kept", "lost"}]
      /\ Work' \in [Items -> {"pending", "running", "kept", "lost"}]
  BY <1>1 DEF Work
<1>4. ASSUME NEW w, Work'[i] = w, \A j \in Items \ {i} : Work'[j] = Work[j]
      PROVE  Work' = [Work EXCEPT ![i] = w]
  BY <1>1, <1>3, <1>4
<1>5. CASE Start(i) \/ Resume(i)
  <2>1. /\ UNCHANGED <<results, failed, aborting>>
        /\ pc[i] \in {"created", "granted"}
        /\ pc'[i] \in {"queued", "calling", "ended"}
        /\ pc'[i] = "calling" => ~failed
        /\ pc'[i] = "ended" => failed
        /\ ~throw[i]
        /\ Others(i)
    BY <1>5, AdmitFrame DEF Start, Resume, group, IInv
  <2>2. Work[i] = "pending" /\ results[i] = "None"
    BY <1>2, <2>1, WorkOf DEF Settled
  <2>3. \A j \in Items \ {i} : Work'[j] = Work[j]
    BY <1>1, <2>1, WorkFrame
  <2>4. CASE pc'[i] = "queued"
    <3>1. Work'[i] = "pending"
      BY <1>1, <2>4 DEF Work, Settled
    <3>2. Work' = Work
      BY <1>3, <2>2, <2>3, <3>1, <1>1
    <3> QED BY <1>1, <2>1, <3>2, FanStutter DEF Doomed
  <2>5. CASE pc'[i] = "ended"
    <3>1. Work'[i] = "lost"
      BY <1>1, <2>1, <2>2, <2>5 DEF Work, Settled
    <3>2. Work' = [Work EXCEPT ![i] = "lost"]
      BY <1>4, <2>3, <3>1
    <3>3. Fan!Drop(i)
      BY <1>1, <2>1, <2>2, <2>5, <3>2 DEF Fan!Drop, Done
    <3> QED BY <3>3, FanActions DEF Fan!Next
  <2>6. CASE pc'[i] = "calling" /\ aborting
    <3>1. FALSE
      \* Aborting would have left a CancelledError on the task.
      BY <2>1, <2>6 DEF IInv, ItemInv
    <3> QED BY <3>1
  <2>7. CASE pc'[i] = "calling" /\ ~aborting
    <3>1. Work'[i] = "running"
      BY <1>1, <2>7 DEF Work, Settled
    <3>2. Work' = [Work EXCEPT ![i] = "running"]
      BY <1>4, <2>3, <3>1
    <3>3. Cardinality(Fan!In("running")) < call.concurrency
      <4>1. \A j \in Items \ {i} : pc[j] = "calling" => pc'[j] = "calling"
        BY <2>1 DEF Others
      <4>2. TypeOK'
        BY DEF IInv
      <4>3. pc[i] # "calling"
        BY <2>1
      <4> QED BY <1>1, <2>7, <4>1, <4>2, <4>3, BeginHasRoom
    <3>4. Fan!Begin(i)
      <4>1. Fan!Cardinality(Fan!In("running")) = Cardinality(Fan!In("running"))
        BY DEF Fan!Cardinality, Cardinality
      <4> QED BY <1>1, <2>1, <2>2, <2>7, <3>2, <3>3, <4>1 DEF Fan!Begin, Done
    <3> QED BY <3>4, FanActions DEF Fan!Next
  <2> QED BY <2>1, <2>4, <2>5, <2>6, <2>7
<1>6. CASE CancelUnslotted(i) \/ CancelGranted(i)
  <2>1. /\ UNCHANGED <<results, failed, aborting>>
        /\ pc[i] \in {"created", "queued", "granted"}
        /\ throw[i]
    BY <1>6 DEF CancelUnslotted, CancelGranted, group
  <2>2. pc'[i] = "ended" /\ Others(i)
    <3>1. CASE CancelUnslotted(i)
      BY <3>1 DEF CancelUnslotted, Others, IInv, TypeOK
    <3>2. CASE CancelGranted(i)
      BY <3>2, GiveBackFrame DEF CancelGranted, IInv
    <3> QED BY <1>6, <3>1, <3>2
  <2>3. aborting /\ Work[i] = "pending" /\ results[i] = "None"
    BY <1>2, <2>1, WorkOf DEF IInv, ItemInv, Settled
  <2>4. Work'[i] = "lost"
    BY <1>1, <2>1, <2>2, <2>3 DEF Work, Settled
  <2>5. Work' = [Work EXCEPT ![i] = "lost"]
    BY <1>1, <1>4, <2>1, <2>2, <2>4, WorkFrame
  <2>6. Fan!Drop(i)
    BY <1>1, <2>1, <2>3, <2>5 DEF Fan!Drop, Done
  <2> QED BY <2>6, FanActions DEF Fan!Next
<1>7. CASE FnStep(i)
  <2>1. UNCHANGED <<pc, results, failed, aborting>>
    BY <1>7 DEF FnStep, Deadline, FnLeaksCancelCount, FnAbsorbsCancel, group
  <2>2. Work' = Work
    BY <1>1, <2>1 DEF Work
  <2> QED BY <1>1, <2>1, <2>2, FanStutter DEF Doomed
<1>8. CASE Reap(i)
  <2>1. /\ UNCHANGED <<results, failed>>
        /\ pc[i] = "ended" /\ pc' = [pc EXCEPT ![i] = "reaped"]
    BY <1>8 DEF Reap
  <2>2. Work' = Work
    BY <1>1, <2>1 DEF Work, Settled, IInv, TypeOK
  <2>3. Doomed' = Doomed
    <3>1. CASE raised[i] \in {"none", "cancelled"} \/ aborting
      BY <1>8, <2>1, <3>1 DEF Doomed, Reap, NoAbort
    <3>2. CASE raised[i] \notin {"none", "cancelled"}
      BY <2>1, <3>2 DEF Doomed, IInv, ItemInv
    <3> QED BY <3>1, <3>2
  <2> QED BY <1>1, <2>2, <2>3, FanStutter
<1>9. CASE FnEnds(i)
  <2>1. PICK out \in Outcomes : Settle(i, out)
    BY <1>9 DEF FnEnds
  <2> DEFINE verdict == Verdict(out, expired[i], cancelling[i], Stopping)
  <2>2. /\ pc[i] = "calling"
        /\ UNCHANGED aborting
        /\ \/ results' = [results EXCEPT ![i] = verdict] /\ UNCHANGED failed
           \/ results' = results /\ failed'
    BY <2>1 DEF Settle, group
  <2>3. verdict \in Verdicts
    BY VerdictType DEF IInv, TypeOK
  <2> HIDE DEF verdict
  <2>4. pc'[i] = "ended" /\ Others(i)
    BY <2>1, GiveBackFrame DEF Settle, IInv
  <2>5. Work[i] = "running" /\ results[i] = "None"
    BY <1>2, <2>2, WorkOf DEF Settled
  <2>6. \A j \in Items \ {i} : Work'[j] = Work[j]
    BY <1>1, <2>2, <2>4 DEF Others, Work, Settled, IInv, TypeOK
  <2>7. CASE results' = [results EXCEPT ![i] = verdict] /\ UNCHANGED failed
    <3>1. results'[i] # "None"
      BY <2>3, <2>7 DEF Verdicts, Outcomes, IInv, TypeOK
    <3>2. Work'[i] = "kept"
      BY <1>1, <2>4, <3>1 DEF Work, Settled
    <3>3. Work' = [Work EXCEPT ![i] = "kept"]
      BY <1>4, <2>6, <3>2
    <3>4. Fan!Keep(i)
      BY <1>1, <2>2, <2>5, <2>7, <3>3 DEF Fan!Keep, Done
    <3> QED BY <3>4, FanActions DEF Fan!Next
  <2>8. CASE results' = results /\ failed'
    <3>1. Work'[i] = "lost"
      BY <1>1, <2>4, <2>5, <2>8 DEF Work, Settled
    <3>2. Work' = [Work EXCEPT ![i] = "lost"]
      BY <1>4, <2>6, <3>1
    <3>3. Fan!Lose(i)
      BY <1>1, <2>2, <2>5, <2>8, <3>2 DEF Fan!Lose, Done
    <3> QED BY <3>3, FanActions DEF Fan!Next
  <2> QED BY <2>2, <2>7, <2>8
<1> QED BY <1>5, <1>6, <1>7, <1>8, <1>9 DEF TaskStep

\* A step of the call itself opens or closes the promise, or dooms it.
LEMMA FanCallStep ==
  ASSUME IInv, CallStep \/ CancelCaller
  PROVE  Fan!Next \/ UNCHANGED Fan!vars
<1>1. call' = call /\ Items' = Items
  BY DEF CallStep, CancelCaller, Refuse, ReturnEmpty, Spawn, CallerResume, Items
<1>2. CASE CancelCaller
  <2>1. UNCHANGED <<status, pc, results, failed, aborting>>
    BY <1>2 DEF CancelCaller, items
  <2> QED BY <1>1, <2>1, FanStutter DEF Doomed, Work
<1>3. CASE Spawn
  <2>1. /\ UNCHANGED <<results, failed, aborting>>
        /\ status = "entry" /\ status' = "waiting"
        /\ pc' = [i \in Items |-> "created"] /\ \A i \in Items : pc[i] = "absent"
    BY <1>3 DEF Spawn, IInv, PhaseInv
  <2>2. Work' = Work
    BY <1>1, <2>1 DEF Work, Settled
  <2> QED BY <1>1, <2>1, <2>2 DEF Fan!vars, Done
<1>4. ASSUME Work' = Work, UNCHANGED <<failed, aborting>>, ~Done, Done',
             \A i \in Items : Work[i] # "running",
             status' = "returned" => ~failed /\ ~aborting /\ \A i \in Items : Work[i] = "kept"
      PROVE  Fan!Next
  <2>1. Fan!In("running") = {}
    BY <1>4, FanActions DEF Fan!In
  <2>2. CASE status' = "returned"
    <3>1. Fan!In("kept") = DOMAIN Work
      BY <1>4, <2>2, FanActions DEF Fan!In
    <3>2. Fan!Return
      BY <1>1, <1>4, <2>2, <3>1 DEF Fan!Return
    <3> QED BY <3>2 DEF Fan!Next
  <2>3. CASE status' # "returned"
    <3>1. Fan!Raise
      BY <1>1, <1>4, <2>1, <2>3 DEF Fan!Raise
    <3> QED BY <3>1 DEF Fan!Next
  <2> QED BY <2>2, <2>3
<1>5. CASE Refuse \/ ReturnEmpty
  <2>1. /\ UNCHANGED <<pc, results, failed, aborting>>
        /\ status = "entry" /\ status' \in {"refused", "returned"}
        /\ status' = "returned" => call.n = 0
    BY <1>5 DEF Refuse, ReturnEmpty, items, group
  <2>2. ~failed /\ ~aborting /\ \A i \in Items : pc[i] = "absent"
    BY <2>1 DEF IInv, PhaseInv
  <2>3. Work' = Work /\ \A i \in Items : Work[i] # "running"
    BY <1>1, <2>1, <2>2 DEF Work, Settled
  <2>4. status' = "returned" => Items = {}
    BY <2>1 DEF Items
  <2> QED BY <1>4, <2>1, <2>2, <2>3, <2>4 DEF Done
<1>6. CASE CallerResume
  <2> DEFINE held == propagate \/ (wake /\ ~aborting)
  <2>1. /\ UNCHANGED <<pc, results, failed>>
        /\ status = "waiting" /\ ~Done
        /\ \/ AllReaped /\ status' = Ending(held)
           \/ ~AllReaped /\ status' = "waiting"
        /\ \/ wake /\ ~aborting /\ aborting'
           \/ (~wake \/ aborting) /\ aborting' = aborting
    BY <1>6 DEF CallerResume, NoAbort, Abort, Done
  <2>2. Work' = Work
    BY <1>1, <2>1 DEF Work
  <2>3. CASE ~AllReaped
    <3>1. ~Done'
      BY <2>1, <2>3 DEF Done
    <3>2. CASE aborting' = aborting
      BY <1>1, <2>1, <2>2, <2>3, <3>2, FanStutter DEF Doomed
    <3>3. CASE ~aborting /\ aborting'
      <4>1. Fan!Doom
        BY <1>1, <2>1, <2>2, <3>1, <3>3 DEF Fan!Doom
      <4> QED BY <4>1 DEF Fan!Next
    <3> QED BY <2>1, <3>2, <3>3
  <2>4. CASE AllReaped
    <3>1. Done' /\ \A i \in Items : Work[i] # "running"
      BY <2>1, <2>4 DEF Done, Ending, Work, AllReaped, Settled
    <3>2. CASE wake /\ ~aborting /\ aborting'
      <4>1. status' # "returned"
        BY <2>1, <2>4, <3>2 DEF Ending
      <4>2. Fan!In("running") = {}
        BY <3>1, FanActions DEF Fan!In
      <4>3. Fan!Raise
        BY <1>1, <2>1, <2>2, <3>1, <3>2, <4>1, <4>2 DEF Fan!Raise
      <4> QED BY <4>3 DEF Fan!Next
    <3>3. CASE (~wake \/ aborting) /\ aborting' = aborting
      <4>1. ASSUME status' = "returned"
            PROVE  ~failed /\ ~aborting /\ \A i \in Items : Work[i] = "kept"
        <5>1. errors = {} /\ ~propagate
          BY <2>1, <2>4, <4>1 DEF Ending
        <5>2. /\ ~failed
              /\ \A i \in Items : results[i] = "value" \/
                                  (call.return_exceptions /\ IsException(results[i]))
          BY <2>1, <2>4, <3>3, <5>1, CleanEnding
        <5>3. ~aborting
          BY <5>1 DEF IInv, GroupInv
        <5>4. \A i \in Items : pc[i] = "reaped" /\ results[i] # "None"
          BY <2>4, <5>2 DEF AllReaped, IsException
        <5> QED BY <5>2, <5>3, <5>4 DEF Work, Settled
      <4> QED BY <1>4, <2>1, <2>2, <3>1, <3>3, <4>1
    <3> QED BY <2>1, <3>2, <3>3
  <2> QED BY <2>3, <2>4
<1> QED BY <1>2, <1>3, <1>5, <1>6 DEF CallStep

\* The call starts out as the promise does.
LEMMA FanInit ==
  ASSUME Init
  PROVE  Fan!Init
<1>1. call.concurrency \in Int
  BY CallTypes DEF Init
<1>2. \A i \in Items : Work[i] = "pending"
  BY DEF Init, Work, Settled
<1> QED BY <1>1, <1>2, FanActions DEF Init, Fan!Init, Done

\* Each step of process is a step of the promise or invisible to it.
LEMMA FanStep ==
  ASSUME IInv, IInv', SlotAccounting', [Next]_vars
  PROVE  [Fan!Next]_Fan!vars
<1>1. CASE UNCHANGED vars
  BY <1>1 DEF vars, items, group, Fan!vars, Work, Items, Done
<1>2. CASE Next
  BY <1>1, <1>2, FanItemStep, FanCallStep DEF Next, Terminated
<1> QED BY <1>1, <1>2

\* process keeps the promise of BoundedFanOut for every number of items and
\* every concurrency.
THEOREM FanOutImplemented == Spec => ImplementsFanOut
<1>1. Init => Fan!Init
  BY FanInit
<1>2. Init => IInv /\ SlotAccounting
  BY InvInit DEF Init, SlotAccounting, Spawned
<1>3. IInv /\ SlotAccounting /\ [Next]_vars => IInv' /\ SlotAccounting'
  BY InvStep, SlotStep
<1>4. IInv /\ IInv' /\ SlotAccounting' /\ [Next]_vars => [Fan!Next]_Fan!vars
  BY FanStep
<1> QED BY <1>1, <1>2, <1>3, <1>4, PTL DEF Spec, ImplementsFanOut, Fan!Spec

-----------------------------------------------------------------------------
(* What follows from it for a caller, by BoundedFanOut's own theorems.     *)

Promise == INSTANCE BoundedFanOut_proofs WITH
  limit  <- call.concurrency,
  work   <- Work,
  doomed <- failed \/ aborting,
  phase  <- IF ~Done THEN "open" ELSE IF status = "returned" THEN "returned" ELSE "raised"

\* A number of items is the same one in either instance of the promise.
LEMMA OneCardinality == \A S : Fan!Cardinality(S) = Promise!Cardinality(S)
BY DEF Fan!Cardinality, Promise!Cardinality

\* The specification they are proved of is the one implemented here.
LEMMA FanIsPromise == Fan!Spec => Promise!Spec
<1>1. Fan!Init => Promise!Init
  BY DEF Fan!Init, Promise!Init
<1>2. \A s : Fan!In(s) = Promise!In(s)
  BY DEF Fan!In, Promise!In
<1>3. \A i : /\ Fan!Begin(i) => Promise!Begin(i)
             /\ Fan!Keep(i) => Promise!Keep(i)
             /\ Fan!Lose(i) => Promise!Lose(i)
             /\ Fan!Drop(i) => Promise!Drop(i)
             /\ \A j : Fan!Relay(i, j) => Promise!Relay(i, j)
  BY <1>2, OneCardinality DEF Fan!Begin, Promise!Begin, Fan!Keep, Promise!Keep,
     Fan!Lose, Promise!Lose, Fan!Drop, Promise!Drop, Fan!Relay, Promise!Relay
<1>4. (Fan!Doom => Promise!Doom) /\ (Fan!Return => Promise!Return) /\ (Fan!Raise => Promise!Raise)
  BY <1>2 DEF Fan!Doom, Promise!Doom, Fan!Return, Promise!Return, Fan!Raise, Promise!Raise
<1>5. [Fan!Next]_Fan!vars => [Promise!Next]_Promise!vars
  BY <1>3, <1>4 DEF Fan!Next, Promise!Next, Fan!vars, Promise!vars
<1> QED BY <1>1, <1>5, PTL DEF Fan!Spec, Promise!Spec

\* So are the promises.
LEMMA PromiseIsFan == Promise!Promises => Fan!Promises
<1>1. \A s : Fan!In(s) = Promise!In(s)
  BY DEF Fan!In, Promise!In
<1>2. Promise!WithinLimit => Fan!WithinLimit
  BY <1>1, OneCardinality DEF Fan!WithinLimit, Promise!WithinLimit
<1>3. Promise!EndsWhole => Fan!EndsWhole
  BY <1>1 DEF Fan!EndsWhole, Promise!EndsWhole
<1>4. [Promise!OnlyOnce]_Promise!vars => [Fan!OnlyOnce]_Fan!vars
  BY DEF Fan!OnlyOnce, Promise!OnlyOnce, Fan!vars, Promise!vars, Fan!In, Promise!In
<1> QED BY <1>2, <1>3, <1>4, PTL DEF Fan!Promises, Promise!Promises

\* Of every call of process: no more than `concurrency` calls of fn run at
\* once; no item's is begun twice and no outcome is taken back, whatever fails
\* or is cancelled meanwhile; and when the call ends nothing is left running,
\* with a result for every item if it returned.
THEOREM ProcessPromises == Spec => Fan!Promises
BY FanOutImplemented, FanIsPromise, PromiseIsFan, Promise!PromisesKept, PTL DEF ImplementsFanOut
=============================================================================
