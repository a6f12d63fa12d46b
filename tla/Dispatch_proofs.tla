-------------------------- MODULE Dispatch_proofs --------------------------
(***************************************************************************)
(* Proofs about Dispatch, for every set of calls: any number of tool       *)
(* calls, any concurrency.  A call of dispatch_tool_calls takes the steps  *)
(* of Process until it ends, or fails for an unknown name before the       *)
(* first; so the invariant of Process_proofs carries over, and what is     *)
(* proved here is what the module adds.                                    *)
(***************************************************************************)
EXTENDS Dispatch, Process_proofs

-----------------------------------------------------------------------------
(* The inductive invariant.                                                *)

\* The ended tasks are in the order, once each.
OrderInv ==
  /\ order \in Seq(Items)
  /\ \A i \in Items : pc[i] \in Settled <=> \E k \in DOMAIN order : order[k] = i
  /\ Len(order) = Cardinality({i \in Items : pc[i] \in Settled})

\* What a call's tool can have done: a name that is not registered yields its
\* error and nothing else, the deadline of a dispatch that the tool ran is an
\* error, and no tool has touched what another one gets.
ToolInv ==
  /\ missing \subseteq Items
  /\ nested \subseteq Items \ missing
  /\ written = 0 /\ handed = [i \in Items |-> 0]
  /\ \A i \in missing : results[i] \in {"None", "error"}
  /\ \A i \in nested : pc[i] \in Settled /\ raised[i] \in {"none", "error"}
  /\ \A i \in Items : raised[i] = "PipelineTimeoutError" => expired[i]

\* Without the caller's cancellation, a task that ended cancelled ended after a
\* failure that explains it.
CauseInv ==
  ~cancelled =>
    \A h \in DOMAIN order :
      raised[order[h]] = "cancelled" => \E g \in 1..(h - 1) : raised[order[g]] \in Failures

\* How the call itself stands.
CallInv ==
  /\ Unresolved => status \in {"entry", "refused", "not_found"}
  /\ status = "errors" => errors # {}

\* After ToolNotFoundError nothing has happened.
Untouched ==
  /\ call \in Calls
  /\ ~failed /\ ~aborting
  /\ \A i \in Items : pc[i] = "absent"

DispatchInv ==
  /\ IF status = "not_found" THEN Untouched ELSE IInv /\ SlotAccounting
  /\ OrderInv /\ ToolInv /\ CauseInv /\ CallInv

-----------------------------------------------------------------------------
(* How the steps of a call relate to those of Process.                     *)

\* A step of dispatch is a step of process, or the refusal of an unknown name.
LEMMA StepOfProcess ==
  ASSUME [DispatchNext]_<<vars, extra>>
  PROVE  [Next]_vars \/ NotFound
<1>1. CASE DispatchCall
  BY <1>1 DEF DispatchCall, Begin, Next, CallStep
<1>2. CASE CancelCaller
  BY <1>2 DEF Next
<1>3. ASSUME NEW i \in Items, Admission(i) \/ ToolStep(i) \/ ReapInOrder(i)
      PROVE  Next
  BY <1>3 DEF Next, Admission, ToolStep, ReapInOrder, TaskStep
<1>4. ASSUME NEW i \in Items, NEW out \in Outcomes, ToolEnds(i, out)
      PROVE  Next
  BY <1>4 DEF Next, ToolEnds, FnEnds
<1>5. CASE Terminated
  BY <1>5 DEF Next
<1>6. CASE UNCHANGED <<vars, extra>>
  BY <1>6
<1> QED BY <1>1, <1>2, <1>3, <1>4, <1>5, <1>6 DEF DispatchNext

\* After ToolNotFoundError no task exists that could take a step.
LEMMA NotFoundIsFinal ==
  ASSUME status = "not_found", Untouched, [DispatchNext]_<<vars, extra>>
  PROVE  UNCHANGED <<vars, extra>>
<1>1. ~DispatchCall
  BY DEF DispatchCall, NotFound, Begin, Spawn, Refuse, ReturnEmpty, CallerResume
<1>2. ~CancelCaller
  BY DEF CancelCaller
<1>3. ASSUME NEW i \in Items
      PROVE  /\ ~Admission(i) /\ ~ToolStep(i) /\ ~ReapInOrder(i)
             /\ \A out \in Outcomes : ~ToolEnds(i, out)
  <2>1. pc[i] = "absent"
    BY DEF Untouched
  <2>2. ~Start(i) /\ ~CancelUnslotted(i) /\ ~Resume(i) /\ ~CancelGranted(i) /\ ~Reap(i)
    BY <2>1 DEF Start, CancelUnslotted, Resume, CancelGranted, Reap
  <2>3. ~FnStep(i) /\ \A out \in Outcomes : ~Settle(i, out)
    BY <2>1 DEF FnStep, Deadline, FnLeaksCancelCount, FnAbsorbsCancel, Settle
  <2> QED BY <2>2, <2>3 DEF Admission, ToolStep, ReapInOrder, ToolEnds
<1>4. CASE Terminated /\ UNCHANGED extra
  BY <1>4 DEF Terminated
<1> QED BY <1>1, <1>2, <1>3, <1>4 DEF DispatchNext

\* What is proved of process holds of the call as well, until it fails for an
\* unknown name.
LEMMA ProcessPart ==
  ASSUME IF status = "not_found" THEN Untouched ELSE IInv /\ SlotAccounting,
         [DispatchNext]_<<vars, extra>>
  PROVE  (IF status = "not_found" THEN Untouched ELSE IInv /\ SlotAccounting)'
<1>1. CASE status = "not_found"
  <2>1. UNCHANGED vars
    BY <1>1, NotFoundIsFinal
  <2> QED BY <1>1, <2>1 DEF vars, items, group, Untouched, Items
<1>2. CASE status # "not_found" /\ NotFound
  <2>1. IInv
    BY <1>2
  <2>2. status' = "not_found" /\ UNCHANGED <<call, failed, aborting, pc>> /\ status = "entry"
    BY <1>2 DEF NotFound, items, group
  <2> QED BY <2>1, <2>2 DEF IInv, TypeOK, PhaseInv, Untouched, Items
<1>3. CASE status # "not_found" /\ [Next]_vars
  <2>1. IInv' /\ SlotAccounting'
    BY <1>3, InvStep, SlotStep
  <2>2. status' # "not_found"
    BY <2>1 DEF IInv, TypeOK
  <2> QED BY <2>1, <2>2
<1> QED BY <1>1, <1>2, <1>3, StepOfProcess

-----------------------------------------------------------------------------
(* The order in which the tasks end.                                       *)

\* What a step of one call's task does to it and to the others: when it leaves a
\* CancelledError behind, the pipeline was already stopping.
LEMMA TaskEffect ==
  ASSUME IInv, NEW i \in Items,
         \/ Start(i) \/ CancelUnslotted(i) \/ Resume(i) \/ CancelGranted(i)
         \/ \E out \in Outcomes : Settle(i, out)
  PROVE  /\ UNCHANGED <<call, status, cancelled, expired, errors>>
         /\ pc[i] \in Undone /\ pc'[i] \in Undone \cup {"ended"}
         /\ Others(i)
         /\ \A j \in Items \ {i} : raised'[j] = raised[j] /\ results'[j] = results[j]
         /\ raised'[i] = "cancelled" => failed \/ aborting \/ CallerCancelled
<1> DEFINE Effect ==
         /\ UNCHANGED <<call, status, cancelled, expired, errors>>
         /\ pc[i] \in Undone /\ pc'[i] \in Undone \cup {"ended"}
         /\ Others(i)
         /\ \A j \in Items \ {i} : raised'[j] = raised[j] /\ results'[j] = results[j]
         /\ raised'[i] = "cancelled" => failed \/ aborting \/ CallerCancelled
<1>1. TypeOK /\ raised \in [Items -> Verdicts \cup {"none"}]
      /\ results \in [Items -> (Verdicts \ {"cancelled", "base"}) \cup {"None"}]
  BY DEF IInv, TypeOK
<1>2. raised[i] = "cancelled" => failed \/ aborting
  BY DEF IInv, ItemInv
<1>3. CASE Start(i) \/ Resume(i)
  <2>1. UNCHANGED <<call, status, cancelled, expired, errors, raised, results>>
    BY <1>3 DEF Start, Resume, group
  <2>2. pc[i] \in {"created", "granted"} /\ pc'[i] \in {"queued", "calling", "ended"} /\ Others(i)
    BY <1>1, <1>3, AdmitFrame
  <2> QED BY <1>2, <2>1, <2>2 DEF Undone
<1>4. CASE CancelUnslotted(i) \/ CancelGranted(i)
  <2>1. /\ UNCHANGED <<call, status, cancelled, expired, errors, results>>
        /\ raised' = [raised EXCEPT ![i] = "cancelled"]
        /\ pc[i] \in {"created", "queued", "granted"} /\ throw[i]
    BY <1>4 DEF CancelUnslotted, CancelGranted, group
  <2>2. aborting
    BY <2>1 DEF IInv, ItemInv
  <2>3. pc'[i] = "ended" /\ Others(i)
    <3>1. CASE CancelUnslotted(i)
      BY <1>1, <3>1 DEF CancelUnslotted, Others, TypeOK
    <3>2. CASE CancelGranted(i)
      BY <1>1, <3>2, GiveBackFrame DEF CancelGranted
    <3> QED BY <1>4, <3>1, <3>2
  <2> QED BY <1>1, <2>1, <2>2, <2>3 DEF Undone
<1>5. ASSUME NEW out \in Outcomes, Settle(i, out)
      PROVE  Effect
  <2> DEFINE verdict == Verdict(out, expired[i], cancelling[i], Stopping)
  <2>1. /\ UNCHANGED <<call, status, cancelled, expired, errors>>
        /\ pc[i] = "calling"
        /\ Become(ReleaseSlot(Leave(Sem, i, "ended")))
    BY <1>5 DEF Settle, group
  <2>2. \/ results' = [results EXCEPT ![i] = verdict] /\ raised' = raised
        \/ raised' = [raised EXCEPT ![i] = verdict] /\ results' = results
    BY <1>5 DEF Settle
  <2>3. pc'[i] = "ended" /\ Others(i)
    BY <1>1, <2>1, GiveBackFrame
  <2>4. verdict = "cancelled" => Stopping
    <3>1. Stopping \in BOOLEAN
      BY <1>1 DEF TypeOK, Stopping, CallerCancelled
    <3> QED BY <3>1, CancelledVerdict
  <2> HIDE DEF verdict
  <2>5. raised'[i] = "cancelled" => raised[i] = "cancelled" \/ verdict = "cancelled"
    BY <1>1, <2>2
  <2>6. \A j \in Items \ {i} : raised'[j] = raised[j] /\ results'[j] = results[j]
    BY <1>1, <2>2
  <2> QED BY <1>2, <2>1, <2>3, <2>4, <2>5, <2>6 DEF Undone, Stopping
<1> QED BY <1>3, <1>4, <1>5

\* A step that ends no task leaves the order as it is.
LEMMA OrderFrame ==
  ASSUME OrderInv, UNCHANGED <<call, order>>,
         \A j \in Items : pc'[j] \in Settled <=> pc[j] \in Settled
  PROVE  OrderInv'
<1>1. Items' = Items
  BY DEF Items
<1>2. {j \in Items : pc'[j] \in Settled} = {j \in Items : pc[j] \in Settled}
  OBVIOUS
<1> QED BY <1>1, <1>2 DEF OrderInv

\* A task that ends joins the order, behind all that ended before.
LEMMA OrderStep ==
  ASSUME OrderInv, call \in Calls, call' = call, NEW i \in Items,
         pc[i] \in Undone, pc'[i] \in Undone \cup {"ended"}, Others(i), Ended(i)
  PROVE  /\ OrderInv'
         /\ \A h \in DOMAIN order : order'[h] = order[h] /\ order[h] \in Items \ {i}
         /\ \/ pc'[i] # "ended" /\ order' = order
            \/ pc'[i] = "ended" /\ Len(order') = Len(order) + 1 /\ order'[Len(order) + 1] = i
<1> DEFINE S == {j \in Items : pc[j] \in Settled}
<1>1. Items' = Items /\ IsFiniteSet(Items) /\ order \in Seq(Items)
  BY CallTypes DEF Items, OrderInv
<1>2. \A j \in Items \ {i} : pc'[j] \in Settled <=> pc[j] \in Settled
  BY DEF Others, Settled
<1>3. pc[i] \notin Settled /\ \A h \in DOMAIN order : order[h] \in Items \ {i}
  <2>1. pc[i] \notin Settled
    BY DEF Settled, Undone
  <2>2. ASSUME NEW h \in DOMAIN order PROVE order[h] \in Items
    BY <1>1
  <2>3. \A h \in DOMAIN order : order[h] # i
    BY <2>1 DEF OrderInv
  <2> QED BY <2>1, <2>2, <2>3
<1>4. CASE pc'[i] # "ended"
  <2>1. order' = order
    BY <1>4 DEF Ended
  <2>2. pc'[i] \notin Settled
    BY <1>4 DEF Settled, Undone
  <2>3. OrderInv'
    BY <1>2, <1>3, <2>1, <2>2, OrderFrame
  <2> QED BY <1>3, <1>4, <2>1, <2>3
<1>5. CASE pc'[i] = "ended"
  <2>1. order' = Append(order, i)
    BY <1>5 DEF Ended, Undone
  <2>2. /\ order' \in Seq(Items) /\ Len(order') = Len(order) + 1
        /\ order'[Len(order) + 1] = i
        /\ \A h \in DOMAIN order : order'[h] = order[h]
    BY <1>1, <2>1
  <2>3. DOMAIN order = 1..Len(order) /\ DOMAIN order' = 1..(Len(order) + 1) /\ Len(order) \in Nat
    BY <1>1, <2>2
  <2>4. {j \in Items : pc'[j] \in Settled} = S \cup {i}
    BY <1>2, <1>5 DEF Settled
  <2>5. Cardinality(S \cup {i}) = Cardinality(S) + 1
    <3>1. IsFiniteSet(S) /\ i \notin S
      BY <1>1, <1>3, FS_Subset
    <3> QED BY <3>1, FS_AddElement
  <2>6. Len(order') = Cardinality({j \in Items : pc'[j] \in Settled})
    BY <2>2, <2>4, <2>5 DEF OrderInv
  <2>7. ASSUME NEW j \in Items
        PROVE  pc'[j] \in Settled <=> \E k \in DOMAIN order' : order'[k] = j
    <3>1. CASE j = i
      BY <1>5, <2>2, <2>3, <3>1 DEF Settled
    <3>2. CASE j # i
      <4>1. pc'[j] \in Settled <=> \E k \in DOMAIN order : order[k] = j
        BY <1>2, <3>2 DEF OrderInv
      <4>2. \A k \in DOMAIN order' : k \in DOMAIN order \/ k = Len(order) + 1
        BY <2>3
      <4> QED BY <2>2, <2>3, <3>2, <4>1, <4>2
    <3> QED BY <3>1, <3>2
  <2>8. OrderInv'
    BY <1>1, <2>2, <2>6, <2>7 DEF OrderInv
  <2> QED BY <1>3, <1>5, <2>2, <2>8
<1> QED BY <1>4, <1>5

-----------------------------------------------------------------------------
(* Each step preserves what the module adds to process.                    *)

Added == OrderInv /\ ToolInv /\ CauseInv /\ CallInv

\* While nobody cancelled the caller, the pipeline stops only for a failure
\* whose task has ended.
LEMMA FailureOnRecord ==
  ASSUME IInv, OrderInv, ~cancelled, failed \/ aborting \/ CallerCancelled
  PROVE  \E k \in DOMAIN order : raised[order[k]] \in Failures
<1>1. \E i \in Items : raised[i] \in Failures
  BY DEF IInv, GroupInv, LatchInv, CallerCancelled
<1>2. PICK i \in Items : raised[i] \in Failures
  BY <1>1
<1>3. raised[i] # "none"
  BY <1>2 DEF Failures
<1>4. pc[i] \in Settled
  BY <1>3 DEF IInv, ItemInv
<1> QED BY <1>2, <1>4 DEF OrderInv

\* A task that ends cancelled finds that failure before it in the order.
LEMMA CauseStep ==
  ASSUME IInv, Added, NEW i \in Items, Ended(i),
         \/ Start(i) \/ CancelUnslotted(i) \/ Resume(i) \/ CancelGranted(i)
         \/ \E out \in Outcomes : Settle(i, out)
  PROVE  OrderInv' /\ CauseInv'
<1>1. /\ UNCHANGED <<call, cancelled>> /\ pc[i] \in Undone /\ pc'[i] \in Undone \cup {"ended"} /\ Others(i)
      /\ \A j \in Items \ {i} : raised'[j] = raised[j]
      /\ raised'[i] = "cancelled" => failed \/ aborting \/ CallerCancelled
  BY TaskEffect
<1>2. call \in Calls /\ OrderInv
  BY DEF IInv, TypeOK, Added
<1>3. /\ OrderInv'
      /\ \A h \in DOMAIN order : order'[h] = order[h] /\ order[h] \in Items \ {i}
      /\ \/ pc'[i] # "ended" /\ order' = order
         \/ pc'[i] = "ended" /\ Len(order') = Len(order) + 1 /\ order'[Len(order) + 1] = i
  BY <1>1, <1>2, OrderStep
<1>4. DOMAIN order = 1..Len(order) /\ DOMAIN order' = 1..Len(order') /\ Len(order) \in Nat /\ Len(order') \in Nat
  BY <1>2, <1>3 DEF OrderInv
<1>5. \A h \in DOMAIN order : h \in DOMAIN order' /\ raised'[order'[h]] = raised[order[h]]
  <2>1. Len(order) <= Len(order')
    <3>1. Len(order') = Len(order) \/ Len(order') = Len(order) + 1
      BY <1>3
    <3>2. Len(order) \in Nat /\ Len(order') \in Nat
      BY <1>4
    <3> QED BY <3>1, <3>2
  <2>2. ASSUME NEW h \in DOMAIN order PROVE h \in DOMAIN order'
    BY <1>4, <2>1
  <2>3. ASSUME NEW h \in DOMAIN order PROVE raised'[order'[h]] = raised[order[h]]
    BY <1>1, <1>3
  <2> QED BY <2>2, <2>3
<1>6. ASSUME ~cancelled', NEW h \in DOMAIN order', raised'[order'[h]] = "cancelled"
      PROVE  \E g \in 1..(h - 1) : raised'[order'[g]] \in Failures
  <2>1. CASE h \in DOMAIN order
    <3>1. PICK g \in 1..(h - 1) : raised[order[g]] \in Failures
      BY <1>1, <1>5, <1>6, <2>1 DEF Added, CauseInv
    <3>2. g \in DOMAIN order
      BY <1>4, <2>1
    <3> QED BY <1>5, <3>1, <3>2
  <2>2. CASE h \notin DOMAIN order
    <3>1. h = Len(order) + 1 /\ order'[h] = i
      <4>1. h \in Nat /\ h >= 1 /\ h <= Len(order') /\ ~(h <= Len(order))
        BY <1>4, <1>6, <2>2
      <4>2. Len(order') = Len(order) + 1 /\ order'[Len(order) + 1] = i
        BY <1>3, <4>1
      <4> QED BY <1>4, <4>1, <4>2
    <3>2. PICK k \in DOMAIN order : raised[order[k]] \in Failures
      BY <1>1, <1>2, <1>6, <3>1, FailureOnRecord
    <3>3. k \in 1..(h - 1)
      BY <1>4, <3>1, <3>2
    <3> QED BY <1>5, <3>2, <3>3
  <2> QED BY <2>1, <2>2
<1>7. CauseInv'
  BY <1>6 DEF CauseInv
<1> QED BY <1>3, <1>7

\* A step that leaves the tasks' ends alone.
LEMMA AddedFrame ==
  ASSUME Added, UNCHANGED <<call, order, raised, results, missing, nested, written, handed>>,
         cancelled => cancelled',
         \A j \in Items : /\ pc'[j] \in Settled <=> pc[j] \in Settled
                          /\ expired[j] => expired'[j]
  PROVE  OrderInv' /\ ToolInv' /\ CauseInv'
<1>1. Items' = Items
  BY DEF Items
<1>2. OrderInv'
  <2>1. OrderInv /\ UNCHANGED <<call, order>>
    BY DEF Added
  <2>2. \A j \in Items : pc'[j] \in Settled <=> pc[j] \in Settled
    OBVIOUS
  <2> QED BY <2>1, <2>2, OrderFrame
<1>3. ToolInv'
  <2>1. \A j \in nested : pc'[j] \in Settled
    BY DEF Added, ToolInv
  <2> QED BY <1>1, <2>1 DEF Added, ToolInv
<1>4. CauseInv'
  BY DEF Added, CauseInv
<1> QED BY <1>2, <1>3, <1>4

\* A call that waits for its slot, gets it or is cancelled: its tool is handed
\* the arguments of the call.
LEMMA AdmissionStep ==
  ASSUME IInv, Added, NEW i \in Items, Admission(i)
  PROVE  Added'
<1>1. /\ Start(i) \/ CancelUnslotted(i) \/ Resume(i) \/ CancelGranted(i)
      /\ Ended(i) /\ HandsArguments(i) /\ UNCHANGED <<missing, nested, written>>
  BY DEF Admission
<1>2. /\ UNCHANGED <<call, status, cancelled, expired, errors>>
      /\ pc[i] \in Undone
      /\ Others(i)
      /\ \A j \in Items \ {i} : raised'[j] = raised[j]
  BY <1>1, TaskEffect
<1>3. results' = results /\ Items' = Items
  BY <1>1, <1>2 DEF Start, CancelUnslotted, Resume, CancelGranted, Items
<1>4. OrderInv' /\ CauseInv'
  BY <1>1, CauseStep
<1>5. raised'[i] \in {raised[i], "cancelled"}
  BY <1>1 DEF Start, CancelUnslotted, Resume, CancelGranted, IInv, TypeOK
<1>6. handed' = handed
  BY <1>1 DEF HandsArguments, Added, ToolInv
<1>7. \A j \in nested : pc'[j] \in Settled /\ raised'[j] = raised[j]
  <2> SUFFICES ASSUME NEW j \in nested PROVE pc'[j] \in Settled /\ raised'[j] = raised[j]
    OBVIOUS
  <2>1. j \in Items /\ pc[j] \in Settled
    BY DEF Added, ToolInv
  <2>2. j # i
    BY <1>2, <2>1 DEF Undone, Settled
  <2> QED BY <1>2, <2>1, <2>2 DEF Others, Settled
<1>8. \A j \in Items : raised'[j] = "PipelineTimeoutError" => raised[j] = "PipelineTimeoutError"
  BY <1>2, <1>5
<1>9. ToolInv'
  BY <1>1, <1>2, <1>3, <1>6, <1>7, <1>8 DEF Added, ToolInv
<1>10. CallInv'
  BY <1>1, <1>2 DEF Added, CallInv, Unresolved
<1> QED BY <1>4, <1>9, <1>10 DEF Added

\* The end of a tool: whatever it wrote to was its own copy.
LEMMA ToolEndsStep ==
  ASSUME IInv, Added, NEW i \in Items, NEW out \in Outcomes, ToolEnds(i, out)
  PROVE  Added'
<1> DEFINE verdict == Verdict(out, expired[i], cancelling[i], Stopping)
<1>1. /\ i \in missing => out = "error"
      /\ Settle(i, out) /\ Ended(i)
      /\ nested' \in IF out = "error" /\ i \notin missing THEN {nested, nested \cup {i}} ELSE {nested}
      /\ written' = (IF i \in missing THEN written ELSE WrittenToCopy)
      /\ UNCHANGED <<missing, handed>>
  BY DEF ToolEnds
<1>2. /\ UNCHANGED <<call, status, cancelled, expired, errors>>
      /\ pc[i] \in Undone
      /\ Others(i)
      /\ \A j \in Items \ {i} : raised'[j] = raised[j] /\ results'[j] = results[j]
  BY <1>1, TaskEffect
<1>3. Items' = Items /\ written' = written
  BY <1>1, <1>2 DEF Items, WrittenToCopy
<1>4. OrderInv' /\ CauseInv'
  BY <1>1, CauseStep
<1>5. \/ results' = [results EXCEPT ![i] = verdict] /\ raised' = raised
      \/ raised' = [raised EXCEPT ![i] = verdict] /\ results' = results
  BY <1>1 DEF Settle
<1>6. /\ out = "error" => verdict = "error"
      /\ verdict = "PipelineTimeoutError" => expired[i]
  BY DEF Verdict, StrayCancellationAsError, Attributed, AfterTimeout, DeadlineEscaped, Outcomes
<1> HIDE DEF verdict
<1>7. /\ raised \in [Items -> Verdicts \cup {"none"}]
      /\ results \in [Items -> (Verdicts \ {"cancelled", "base"}) \cup {"None"}]
  BY DEF IInv, TypeOK
<1>8. results'[i] \in {results[i], verdict} /\ raised'[i] \in {raised[i], verdict}
  BY <1>5, <1>7
<1>9. raised[i] = "none" /\ results[i] = "None"
  BY <1>2 DEF IInv, ItemInv, Undone, Settled
<1>10. pc'[i] \in Settled
  BY <1>1, GiveBackFrame DEF Settle, IInv, Settled
<1>11. ASSUME NEW j \in nested'
       PROVE  j \in Items \ missing /\ pc'[j] \in Settled /\ raised'[j] \in {"none", "error"}
  <2>1. CASE j = i /\ j \notin nested
    BY <1>1, <1>6, <1>8, <1>9, <1>10, <2>1
  <2>2. CASE j \in nested
    <3>1. j \in Items \ missing /\ pc[j] \in Settled /\ raised[j] \in {"none", "error"}
      BY <2>2 DEF Added, ToolInv
    <3>2. j # i
      BY <1>2, <3>1 DEF Undone, Settled
    <3> QED BY <1>2, <3>1, <3>2 DEF Others, Settled
  <2> QED BY <1>1, <2>1, <2>2
<1>12. \A j \in missing : results'[j] \in {"None", "error"}
  <2> SUFFICES ASSUME NEW j \in missing PROVE results'[j] \in {"None", "error"}
    OBVIOUS
  <2>1. CASE j = i
    BY <1>1, <1>6, <1>8, <1>9, <2>1
  <2>2. CASE j # i
    BY <1>2, <2>2 DEF Added, ToolInv
  <2> QED BY <2>1, <2>2
<1>13. \A j \in Items : raised'[j] = "PipelineTimeoutError" => expired'[j]
  <2> SUFFICES ASSUME NEW j \in Items, raised'[j] = "PipelineTimeoutError" PROVE expired'[j]
    OBVIOUS
  <2>1. CASE j = i
    BY <1>2, <1>6, <1>8, <1>9, <2>1
  <2>2. CASE j # i
    BY <1>2, <2>2 DEF Added, ToolInv
  <2> QED BY <2>1, <2>2
<1>14. ToolInv'
  BY <1>1, <1>3, <1>11, <1>12, <1>13 DEF Added, ToolInv
<1>15. CallInv'
  BY <1>1, <1>2 DEF Added, CallInv, Unresolved
<1> QED BY <1>4, <1>14, <1>15 DEF Added

\* What happens to a running tool, and its task's callback.
LEMMA RunningStep ==
  ASSUME IInv, Added, NEW i \in Items, ToolStep(i) \/ ReapInOrder(i)
  PROVE  Added'
<1>1. /\ UNCHANGED <<call, status, cancelled, raised, results>>
      /\ UNCHANGED <<missing, nested, order, written, handed>>
  BY DEF ToolStep, ReapInOrder, FnStep, Deadline, FnLeaksCancelCount, FnAbsorbsCancel, Reap,
         extra, arguments, group
<1>2. TypeOK
  BY DEF IInv
<1>3. \A j \in Items : pc'[j] \in Settled <=> pc[j] \in Settled
  <2>1. CASE ToolStep(i)
    BY <2>1 DEF ToolStep, FnStep, Deadline, FnLeaksCancelCount, FnAbsorbsCancel
  <2>2. CASE ReapInOrder(i)
    BY <1>2, <2>2 DEF ReapInOrder, Reap, Settled, TypeOK
  <2> QED BY <2>1, <2>2
<1>4. \A j \in Items : expired[j] => expired'[j]
  BY <1>2 DEF ToolStep, ReapInOrder, FnStep, Deadline, FnLeaksCancelCount, FnAbsorbsCancel, Reap, TypeOK
<1>5. errors \subseteq errors'
  BY DEF ToolStep, ReapInOrder, FnStep, Deadline, FnLeaksCancelCount, FnAbsorbsCancel, Reap, group
<1>6. OrderInv' /\ ToolInv' /\ CauseInv'
  BY <1>1, <1>3, <1>4, AddedFrame
<1>7. CallInv'
  BY <1>1, <1>5 DEF Added, CallInv, Unresolved
<1> QED BY <1>6, <1>7 DEF Added

\* The call itself, and the caller's cancellation.
LEMMA CallerStep ==
  ASSUME IInv, Added,
         DispatchCall \/ (CancelCaller /\ UNCHANGED extra) \/ UNCHANGED <<vars, extra>>
  PROVE  Added'
<1>1. /\ UNCHANGED <<call, raised, results, expired, errors>>
      /\ UNCHANGED <<missing, nested, order, written, handed>>
      /\ cancelled => cancelled'
  BY DEF DispatchCall, NotFound, Begin, Spawn, Refuse, ReturnEmpty, CallerResume, CancelCaller,
         extra, arguments, items, group, vars
<1>2. \A j \in Items : pc'[j] \in Settled <=> pc[j] \in Settled
  <2>1. CASE Spawn
    BY <2>1 DEF Spawn, IInv, PhaseInv, Settled
  <2>2. CASE ~Spawn
    BY <2>2 DEF DispatchCall, NotFound, Begin, Refuse, ReturnEmpty, CallerResume, CancelCaller,
                items, vars
  <2> QED BY <2>1, <2>2
<1>3. OrderInv' /\ ToolInv' /\ CauseInv'
  BY <1>1, <1>2, AddedFrame
<1>4. CallInv'
  <2>1. Items' = Items
    BY <1>1 DEF Items
  <2>2. CASE DispatchCall
    <3>1. Unresolved => call.n # 0
      <4>1. call.n = 0 => Items = {}
        BY DEF Items
      <4>2. missing \subseteq Items
        BY DEF Added, ToolInv
      <4> QED BY <4>1, <4>2 DEF Unresolved
    <3>2. Unresolved' <=> Unresolved
      BY <1>1 DEF Unresolved
    <3>3. Unresolved => status' \in {"refused", "not_found"}
      BY <2>2, <3>1 DEF DispatchCall, NotFound, Begin, Spawn, Refuse, ReturnEmpty, CallerResume,
                        Added, CallInv
    <3>4. status' = "errors" => errors' # {}
      BY <1>1, <2>2 DEF DispatchCall, NotFound, Begin, Spawn, Refuse, ReturnEmpty, CallerResume, Ending
    <3> QED BY <3>2, <3>3, <3>4 DEF CallInv
  <2>3. CASE ~DispatchCall
    <3>1. status' = status
      BY <2>3 DEF CancelCaller, vars
    <3> QED BY <1>1, <3>1 DEF Added, CallInv, Unresolved
  <2> QED BY <2>2, <2>3
<1> QED BY <1>3, <1>4 DEF Added

\* The invariant is inductive.
LEMMA DispatchStep ==
  ASSUME DispatchInv, [DispatchNext]_<<vars, extra>>
  PROVE  DispatchInv'
<1>1. (IF status = "not_found" THEN Untouched ELSE IInv /\ SlotAccounting)'
  BY ProcessPart DEF DispatchInv
<1>2. CASE status = "not_found"
  <2>1. UNCHANGED <<call, status, cancelled, pc, expired, raised, results, errors>>
        /\ UNCHANGED <<missing, nested, order, written, handed>>
    BY <1>2, NotFoundIsFinal DEF DispatchInv, vars, items, group, extra, arguments
  <2>2. OrderInv' /\ ToolInv' /\ CauseInv'
    BY <2>1, AddedFrame DEF DispatchInv, Added
  <2>3. CallInv'
    BY <2>1 DEF DispatchInv, CallInv, Unresolved
  <2> QED BY <1>1, <2>2, <2>3 DEF DispatchInv
<1>3. CASE status # "not_found"
  <2>1. IInv /\ Added
    BY <1>3 DEF DispatchInv, Added
  <2>2. CASE DispatchCall \/ (CancelCaller /\ UNCHANGED extra) \/ UNCHANGED <<vars, extra>>
    <3>1. Added'
      BY <2>1, <2>2, CallerStep
    <3> QED BY <1>1, <3>1 DEF DispatchInv, Added
  <2>3. ASSUME NEW i \in Items, Admission(i) PROVE DispatchInv'
    BY <1>1, <2>1, <2>3, AdmissionStep DEF DispatchInv, Added
  <2>4. ASSUME NEW i \in Items, ToolStep(i) \/ ReapInOrder(i) PROVE DispatchInv'
    BY <1>1, <2>1, <2>4, RunningStep DEF DispatchInv, Added
  <2>5. ASSUME NEW i \in Items, NEW out \in Outcomes, ToolEnds(i, out) PROVE DispatchInv'
    BY <1>1, <2>1, <2>5, ToolEndsStep DEF DispatchInv, Added
  <2>6. CASE Terminated /\ UNCHANGED extra
    BY <2>2, <2>6 DEF Terminated
  <2> QED BY <2>2, <2>3, <2>4, <2>5, <2>6 DEF DispatchNext
<1> QED BY <1>2, <1>3

\* The invariant holds when the call is made.
LEMMA DispatchInvInit ==
  ASSUME DispatchInit
  PROVE  DispatchInv
<1>1. Init /\ status = "entry" /\ missing \in SUBSET Items /\ nested = {} /\ order = <<>>
      /\ written = 0 /\ handed = [i \in Items |-> 0]
      /\ pc = [i \in Items |-> "absent"] /\ results = [i \in Items |-> "None"]
      /\ raised = [i \in Items |-> "none"]
  BY DEF DispatchInit, Init
<1>2. IInv /\ SlotAccounting
  BY <1>1, InvInit DEF SlotAccounting, Spawned
<1>3. OrderInv
  <2>1. {i \in Items : pc[i] \in Settled} = {}
    BY <1>1 DEF Settled
  <2>2. Cardinality({i \in Items : pc[i] \in Settled}) = 0
    BY <2>1, FS_EmptySet
  <2>3. order \in Seq(Items) /\ Len(order) = 0 /\ DOMAIN order = {}
    BY <1>1
  <2>4. \A i \in Items : pc[i] \notin Settled
    BY <2>1
  <2> QED BY <2>2, <2>3, <2>4 DEF OrderInv
<1>4. ToolInv
  BY <1>1 DEF ToolInv
<1>5. CauseInv
  <2>1. DOMAIN order = {}
    BY <1>1
  <2> QED BY <2>1 DEF CauseInv
<1>6. CallInv
  BY <1>1 DEF CallInv
<1> QED BY <1>1, <1>2, <1>3, <1>4, <1>5, <1>6 DEF DispatchInv

-----------------------------------------------------------------------------
(* The theorems.                                                           *)

\* The inductive invariant holds in every state of every call.
THEOREM DispatchInvariance == DispatchSpec => []DispatchInv
<1>1. DispatchInit => DispatchInv
  BY DispatchInvInit
<1>2. DispatchInv /\ [DispatchNext]_<<vars, extra>> => DispatchInv'
  BY DispatchStep
<1> QED BY <1>1, <1>2, PTL DEF DispatchSpec

\* Types; the order lists each ended task once; and with a name that is not
\* registered, a call that must fail for it never starts (#90).
THEOREM DispatchTyped == DispatchSpec => []DispatchTypeOK
<1>1. DispatchInv => DispatchTypeOK
  <2> SUFFICES ASSUME DispatchInv PROVE DispatchTypeOK
    OBVIOUS
  <2>1. status \in {"entry", "waiting", "refused", "not_found", "returned", "errors", "cancelled"}
    BY DEF DispatchInv, IInv, TypeOK
  <2>2. OrderInv /\ ToolInv /\ CallInv
    BY DEF DispatchInv
  <2>3. written \in Nat /\ handed \in [Items -> Nat]
    BY <2>2 DEF ToolInv
  <2> QED BY <2>1, <2>2, <2>3 DEF OrderInv, ToolInv, CallInv, DispatchTypeOK
<1> QED BY <1>1, DispatchInvariance, PTL

\* A returned list has a result for every call: a ToolNotFoundError for an
\* unknown name, for another what its tool made of the arguments as they were
\* passed (#102).
THEOREM ResultPerCallHolds == DispatchSpec => []ResultPerCall
<1>1. DispatchInv => ResultPerCall
  <2> SUFFICES ASSUME DispatchInv, status = "returned" PROVE ResultPerCall
    BY DEF ResultPerCall
  <2>1. IInv /\ ToolInv
    BY DEF DispatchInv
  <2>2. call.n > 0 \/ Items = {}
    BY <2>1, CallTypes DEF IInv, TypeOK, Items
  <2>3. \A i \in Items : results[i] \in Verdicts
    BY <2>1, <2>2 DEF IInv, CleanReturn
  <2>4. "None" \notin Verdicts
    BY DEF Verdicts, Outcomes
  <2>5. \A i \in Items : results[i] # "None"
    BY <2>3, <2>4
  <2>6. Returned = Items
    BY <2>5 DEF Returned
  <2>7. \A i \in Items : IF i \in missing THEN results[i] = "error" ELSE handed[i] = 0
    BY <2>1, <2>5 DEF ToolInv
  <2> QED BY <2>6, <2>7 DEF ResultPerCall
<1> QED BY <1>1, DispatchInvariance, PTL

\* eg.exceptions[0] exists where the code reads it, and is the first of those
\* caught in the order in which the tasks ended.
LEMMA FirstCaught ==
  ASSUME DispatchInv, Caught # {}, errors \subseteq {i \in Items : pc[i] \in Settled}
  PROVE  \E k \in CaughtAt : First = order[k] /\ \A h \in CaughtAt : k <= h
<1>1. OrderInv
  BY DEF DispatchInv
<1>2. CaughtAt # {}
  BY <1>1 DEF Caught, CaughtAt, OrderInv
<1>3. CaughtAt \subseteq Nat
  BY <1>1 DEF CaughtAt, OrderInv
<1>4. \E k \in CaughtAt : \A h \in CaughtAt : k <= h
  BY <1>2, <1>3, LeastOf
<1> QED BY <1>4 DEF First

\* Where the call ended with errors, they are those of its failed tasks.
LEMMA ErrorsAreFailures ==
  ASSUME DispatchInv, status = "errors"
  PROVE  /\ errors = {i \in Items : raised[i] \in Failures}
         /\ errors # {}
         /\ \A i \in errors : pc[i] \in Settled
         /\ \A i \in Items : raised[i] \in {"none", "cancelled"} \cup Failures
<1>1. IInv /\ CallInv
  BY DEF DispatchInv
<1>2. \A i \in Items : pc[i] \in {"absent", "reaped"}
  BY <1>1 DEF IInv, PhaseInv, Done
<1>3. \A i \in Items : raised[i] \in Failures => pc[i] = "reaped"
  <2>1. \A i \in Items : raised[i] # "none" => pc[i] \in Settled
    BY <1>1 DEF IInv, ItemInv
  <2> QED BY <1>2, <2>1 DEF Settled, Failures
<1>4. errors = {i \in Items : pc[i] = "reaped" /\ raised[i] \in Failures}
  BY <1>1 DEF IInv, GroupInv
<1>5. \A i \in Items : raised[i] \in {"none", "cancelled"} \cup Failures
  BY <1>1 DEF IInv, ItemInv
<1>6. errors # {}
  BY <1>1 DEF CallInv
<1> QED BY <1>3, <1>4, <1>5, <1>6 DEF Settled

\* The deadline error that leaves unwrapped is this call's own, of a tool whose
\* deadline fired (#155).
THEOREM DeadlineIsOwnHolds == DispatchSpec => []DeadlineIsOwn
<1>1. DispatchInv => DeadlineIsOwn
  <2> SUFFICES ASSUME DispatchInv, status = "errors", Surfaced = "PipelineTimeoutError"
               PROVE  First \notin nested /\ expired[First]
    BY DEF DeadlineIsOwn
  <2>1. Caught # {} /\ raised[First] = "PipelineTimeoutError"
    BY DEF Surfaced, OwnDeadline
  <2>2. \E k \in CaughtAt : First = order[k]
    BY <2>1, ErrorsAreFailures, FirstCaught
  <2>3. First \in Items
    BY <2>2, ErrorsAreFailures DEF CaughtAt, Caught
  <2> QED BY <2>1, <2>3 DEF DispatchInv, ToolInv
<1> QED BY <1>1, DispatchInvariance, PTL

\* The exception the caller sees is the failure that brought the batch down: no
\* task ended before it but those that had nothing to raise.
THEOREM SurfacesCauseHolds == DispatchSpec => []SurfacesCause
<1>1. DispatchInv => SurfacesCause
  <2> SUFFICES ASSUME DispatchInv, status = "errors", Caught = errors, ~cancelled
               PROVE  \E k \in DOMAIN order :
                        order[k] = First /\ \A h \in 1..(k - 1) : raised[order[h]] = "none"
    BY DEF SurfacesCause
  <2>1. PICK k \in CaughtAt : First = order[k] /\ \A h \in CaughtAt : k <= h
    BY ErrorsAreFailures, FirstCaught
  <2>2. DOMAIN order = 1..Len(order) /\ Len(order) \in Nat /\ \A h \in DOMAIN order : order[h] \in Items
    <3>1. order \in Seq(Items)
      BY DEF DispatchInv, OrderInv
    <3> QED BY <3>1
  <2>3. k \in DOMAIN order
    BY <2>1 DEF CaughtAt
  <2>4. ASSUME NEW h \in 1..(k - 1) PROVE h \in DOMAIN order /\ raised[order[h]] \notin Failures
    <3>1. h \in DOMAIN order /\ ~(k <= h)
      BY <2>2, <2>3
    <3>2. order[h] \notin Caught
      BY <2>1, <3>1 DEF CaughtAt
    <3> QED BY <2>2, <3>1, <3>2, ErrorsAreFailures
  <2>5. ASSUME NEW h \in 1..(k - 1) PROVE raised[order[h]] # "cancelled"
    <3>1. SUFFICES ASSUME raised[order[h]] = "cancelled" PROVE FALSE
      OBVIOUS
    <3>2. PICK g \in 1..(h - 1) : raised[order[g]] \in Failures
      BY <2>4, <3>1 DEF DispatchInv, CauseInv
    <3>3. g \in 1..(k - 1)
      BY <2>2, <2>3, <3>2
    <3> QED BY <2>4, <3>2, <3>3
  <2>6. ASSUME NEW h \in 1..(k - 1) PROVE raised[order[h]] = "none"
    <3>1. order[h] \in Items
      BY <2>2, <2>4
    <3> QED BY <2>4, <2>5, <3>1, ErrorsAreFailures
  <2> QED BY <2>1, <2>3, <2>6
<1> QED BY <1>1, DispatchInvariance, PTL

\* A call of dispatch_tool_calls accounts for its slots as process does.
THEOREM DispatchSlots == DispatchSpec => []SlotAccounting
<1>1. DispatchInv => SlotAccounting
  BY DEF DispatchInv, Untouched, SlotAccounting, Spawned
<1> QED BY <1>1, DispatchInvariance, PTL

\* With a failure on record, no further tool begins.
THEOREM DispatchFailFast == DispatchSpec => FailFast
<1>1. DispatchInv /\ [DispatchNext]_<<vars, extra>> =>
        [(\E j \in Items : raised[j] \in Failures) =>
           \A i \in Items : pc'[i] = "calling" => pc[i] = "calling"]_vars
  <2> SUFFICES ASSUME DispatchInv, [DispatchNext]_<<vars, extra>>,
                      NEW j \in Items, raised[j] \in Failures, NEW i \in Items, pc'[i] = "calling"
               PROVE  pc[i] = "calling"
    OBVIOUS
  <2>1. CASE status = "not_found" \/ NotFound
    <3>1. pc' = pc
      BY <2>1, NotFoundIsFinal DEF DispatchInv, NotFound, vars, items
    <3> QED BY <3>1
  <2>2. CASE status # "not_found" /\ [Next]_vars
    BY <2>2, NoCallBegins DEF DispatchInv
  <2> QED BY <2>1, <2>2, StepOfProcess
<1> QED BY <1>1, DispatchInvariance, PTL DEF DispatchSpec, FailFast

\* dispatch_tool_calls keeps the promise of BoundedFanOut: an unknown name is a
\* call that raises before any work began, and every other step is a step of
\* process.
THEOREM DispatchIsFanOut == DispatchSpec => ImplementsFanOut
<1>1. DispatchInit => Fan!Init
  BY FanInit DEF DispatchInit
<1>2. DispatchInv /\ DispatchInv' /\ [DispatchNext]_<<vars, extra>> => [Fan!Next]_Fan!vars
  <2> SUFFICES ASSUME DispatchInv, DispatchInv', [DispatchNext]_<<vars, extra>>
               PROVE  [Fan!Next]_Fan!vars
    OBVIOUS
  <2>1. CASE status = "not_found"
    <3>1. UNCHANGED vars
      BY <2>1, NotFoundIsFinal DEF DispatchInv
    <3> QED BY <3>1 DEF vars, items, group, Fan!vars, Work, Items, Done
  <2>2. CASE status # "not_found" /\ NotFound
    <3>1. IInv /\ status = "entry" /\ status' = "not_found"
          /\ UNCHANGED <<call, failed, aborting, pc, results>>
      BY <2>2 DEF DispatchInv, NotFound, items, group
    <3>2. \A i \in Items : pc[i] = "absent"
      BY <3>1 DEF IInv, PhaseInv
    <3>3. \A i \in Items : Work[i] = "pending"
      BY <3>2 DEF Work, Settled
    <3>4. Work' = Work
      BY <3>1 DEF Work, Items
    <3>5. Fan!In("running") = {}
      BY <3>3 DEF Fan!In, Work
    <3>6. Fan!Raise
      BY <3>1, <3>4, <3>5 DEF Fan!Raise, Done
    <3> QED BY <3>6 DEF Fan!Next
  <2>3. CASE status # "not_found" /\ [Next]_vars
    <3>1. IInv /\ SlotAccounting
      BY <2>3 DEF DispatchInv
    <3>2. IInv' /\ SlotAccounting'
      BY <2>3, <3>1, InvStep, SlotStep
    <3> QED BY <2>3, <3>1, <3>2, FanStep
  <2> QED BY <2>1, <2>2, <2>3, StepOfProcess
<1> QED BY <1>1, <1>2, DispatchInvariance, PTL DEF DispatchSpec, ImplementsFanOut, Fan!Spec

\* Of every call of dispatch_tool_calls: no more than `concurrency` tools run at
\* once; no call's tool is begun twice and no outcome is taken back; and when
\* it ends no tool is left running.
THEOREM DispatchPromises == DispatchSpec => Fan!Promises
BY DispatchIsFanOut, FanIsPromise, PromiseIsFan, Promise!PromisesKept, PTL DEF ImplementsFanOut
=============================================================================
