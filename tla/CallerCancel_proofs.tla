------------------------ MODULE CallerCancel_proofs ------------------------
(***************************************************************************)
(* Proofs about CallerCancel: for any number of pipeline calls, of         *)
(* cancellations, of children and of counts left raised, a caller that     *)
(* awaits something before it calls again inside a timeout of its own is   *)
(* cancelled exactly if somebody asked for it; and of every caller, what   *)
(* its calls can do to its count at most.                                  *)
(***************************************************************************)
EXTENDS CallerCancel, TLAPS

-----------------------------------------------------------------------------
(* The inductive invariant.                                                *)

One(condition) == IF condition THEN 1 ELSE 0

InGroup == caller = "in_group"

\* What the count stands for: what the caller brought in, every cancellation
\* anybody asked for, its timeout's request and that of the current group.
CountInv ==
  count = leaked + asked + One(block = "expiring") + One(InGroup /\ requested)

\* The caller's timeout was entered with nobody cancelling the caller.  Once
\* it fired it is on its way: as a CancelledError due, one the group holds,
\* one the group swallowed, or one the callback will send again.
BlockInv ==
  /\ block # "none" => base = leaked
  /\ (caller = "handling" /\ block = "expiring") => scheduled # NoRearm
  /\ (caller = "awaiting" /\ block = "expiring") => due \/ scheduled # NoRearm
  /\ (InGroup /\ block = "expiring") => due \/ aborting

\* Why the current group is aborting; and until the previous call's callback
\* has run, nothing has happened to it.
GroupInv ==
  InGroup =>
    /\ requested => errors /\ aborting
    /\ held => aborting
    /\ aborting => held \/ requested
    /\ scheduled # NoRearm =>
         /\ block = "none" /\ probe.rearms = rearms
         /\ ~aborting /\ ~errors

\* A probe's count was of cancellations asked for by then; without any it
\* found nothing and nothing was re-armed since.
Found(p) ==
  /\ p.entry \in leaked..(leaked + asked)
  /\ p.rearms <= rearms
  /\ asked = 0 => ~p.pending /\ p.rearms = rearms

ProbeInv ==
  /\ InGroup => Found(probe)
  /\ scheduled # NoRearm => Found(scheduled)

\* While nobody cancels the caller and its timeout has not fired, a
\* CancelledError is due only by the group's own request, and none is held.
QuietInv ==
  asked = 0 =>
    /\ caller # "cancelled"
    /\ caller = "handling" => ~due
    /\ block # "expiring" => /\ due => InGroup /\ requested
                             /\ InGroup => ~held

\* A cancellation that this probe, kept for the callback, must not let be lost.
Owes(p) == asked > p.entry - leaked \/ BroughtInLive(p)

\* A cancellation asked for is due, held by the group, or sent again by a
\* callback that is scheduled or will be.
OwedInv ==
  asked > 0 =>
    /\ caller # "finished"
    /\ caller \in {"handling", "awaiting"} => due \/ (scheduled # NoRearm /\ Owes(scheduled))
    /\ InGroup =>
         IF scheduled = NoRearm
         THEN Owes(probe) /\ (due \/ held \/ errors)
         ELSE Owes(scheduled) \/ (due /\ Owes(probe))

\* At most one re-arm per call that ended.
RearmsInv == rearms + One(scheduled # NoRearm) + One(InGroup) <= calls

IInv ==
  /\ TypeOK
  /\ CountInv /\ BlockInv /\ GroupInv /\ ProbeInv /\ QuietInv /\ OwedInv /\ RearmsInv

-----------------------------------------------------------------------------
(* What the operators do on typed states.                                  *)

\* The re-arm is sent for every call that owes a cancellation, and without one
\* only while the caller's own timeout is expiring.
LEMMA RearmDecides ==
  ASSUME TypeOK, CountInv, NEW p \in {probe, scheduled}, Found(p)
  PROVE  /\ (asked > 0 /\ Owes(p)) => StillOwed(p)
         /\ (StillOwed(p) /\ asked = 0) => block = "expiring" \/ (InGroup /\ requested)
<1>1. /\ leaked \in Nat /\ asked \in Nat /\ count \in Nat /\ rearms \in Nat
      /\ p.entry \in Int /\ p.rearms \in Nat /\ p.pending \in BOOLEAN
  BY BoundsAssumption DEF TypeOK, Findings
<1>2. count >= leaked + asked
  BY <1>1 DEF CountInv, One
<1> QED BY <1>1, <1>2 DEF CountInv, One, Found, Owes, StillOwed, BroughtInLive

-----------------------------------------------------------------------------
(* The initial states.                                                     *)

\* Nobody is owed or has invented a cancellation before the call.
LEMMA InitInv ==
  ASSUME Init
  PROVE  IInv
<1>1. leaked \in Nat /\ asked \in {0, 1} /\ MaxCancels \in Nat /\ MaxCalls \in Nat /\ Children \in Nat
  BY BoundsAssumption DEF Init
<1>2. /\ caller = "handling" /\ count = leaked + asked /\ leaked <= MaxLeaked /\ asked <= MaxCancels
      /\ rearms = 0 /\ calls = 0 /\ base = count /\ probe = NoRearm /\ scheduled = NoRearm /\ busy = 0
      /\ errors = FALSE /\ aborting = FALSE /\ requested = FALSE /\ held = FALSE
  BY <1>1 DEF Init
<1>3. due \in BOOLEAN /\ (due <=> asked = 1)
  BY DEF Init
<1>4. block \in {"none", "entered"} /\ (block # "none" => ~due)
  BY DEF Init
<1>5. asked = 0 \/ asked = 1
  BY <1>1
<1>6. block = "none" \/ (block = "entered" /\ asked = 0)
  BY <1>3, <1>4, <1>5
<1>7. NoRearm \in Findings
  BY <1>1 DEF NoRearm, Findings
<1>8. TypeOK
  <2>1. /\ count \in Nat /\ count >= leaked /\ base \in Nat /\ rearms \in 0..MaxCalls
        /\ calls \in 0..MaxCalls /\ asked \in 0..MaxCancels /\ leaked \in 0..MaxLeaked
        /\ busy \in 0..Children
    BY <1>1, <1>2
  <2>2. /\ caller = "handling" /\ block \in {"none", "entered", "expiring"} /\ due \in BOOLEAN
    BY <1>2, <1>3, <1>4
  <2>3. probe \in Findings /\ scheduled \in Findings
    BY <1>2, <1>7
  <2> QED BY <1>2, <2>1, <2>2, <2>3 DEF TypeOK
<1>9. CountInv /\ BlockInv /\ RearmsInv
  BY <1>1, <1>2, <1>6 DEF CountInv, BlockInv, RearmsInv, One, InGroup
<1>10. GroupInv /\ ProbeInv /\ QuietInv /\ OwedInv
  BY <1>2, <1>3, <1>5 DEF GroupInv, ProbeInv, QuietInv, OwedInv, InGroup
<1> QED BY <1>8, <1>9, <1>10 DEF IInv

-----------------------------------------------------------------------------
(* The steps, one lemma for each action.                                   *)

\* __aenter__: what the probe finds is what the caller has been asked.
LEMMA CallStep ==
  ASSUME IInv, ~RetryAtOnce, Call
  PROVE  IInv'
<1> USE DEF IInv, InGroup
<1>1. /\ leaked \in Nat /\ asked \in Nat /\ count \in Nat /\ rearms \in Nat /\ calls \in Nat
      /\ MaxCalls \in Nat /\ Children \in Nat
  BY BoundsAssumption DEF TypeOK
<1>2. UNCHANGED <<count, due, rearms, asked, leaked, block, base, scheduled>>
  BY DEF Call, task, world, own
<1>3. /\ caller = "handling" /\ caller' = "in_group" /\ calls' = calls + 1 /\ calls < MaxCalls
      /\ probe' = [entry |-> count, pending |-> due, rearms |-> rearms]
      /\ busy' \in 1..Children /\ errors' = FALSE /\ aborting' = FALSE /\ requested' = FALSE /\ held' = FALSE
  BY DEF Call
<1>4. block # "none" => scheduled = NoRearm
  BY DEF Call
<1>5. count = leaked + asked
  BY <1>1, <1>3, <1>4 DEF CountInv, BlockInv, One, TypeOK
<1>6. TypeOK'
  <2>1. rearms \in 0..MaxCalls /\ due \in BOOLEAN /\ calls \in 0..MaxCalls
    BY DEF TypeOK
  <2>2. count \in -1..(leaked + asked + 2)
    BY <1>1, <1>5
  <2>3. probe' \in Findings
    BY <1>3, <2>1, <2>2 DEF Findings
  <2>4. calls' \in 0..MaxCalls /\ busy' \in 0..Children
    BY <1>1, <1>3, <2>1
  <2>5. probe' \in Findings' /\ scheduled' \in Findings'
    BY <1>2, <2>3 DEF TypeOK, Findings
  <2>6. caller' \in {"handling", "in_group", "awaiting", "finished", "cancelled"} /\ block' \in {"none", "entered", "expiring"}
    BY <1>2, <1>3 DEF TypeOK
  <2>7. errors' \in BOOLEAN /\ aborting' \in BOOLEAN /\ requested' \in BOOLEAN /\ held' \in BOOLEAN
    BY <1>3, Zenon
  <2> QED BY <1>2, <2>4, <2>5, <2>6, <2>7 DEF TypeOK
<1>7. CountInv' /\ BlockInv' /\ RearmsInv'
  BY <1>1, <1>2, <1>3, <1>4, <1>5 DEF CountInv, BlockInv, RearmsInv, One, TypeOK
<1>8. GroupInv'
  BY <1>2, <1>3, <1>4 DEF GroupInv
<1>9. ProbeInv'
  BY <1>1, <1>2, <1>3, <1>5 DEF ProbeInv, Found, QuietInv
<1>10. QuietInv'
  BY <1>2, <1>3 DEF QuietInv
<1>11. OwedInv'
  BY <1>1, <1>2, <1>3 DEF OwedInv, Owes, BroughtInLive
<1> QED BY <1>6, <1>7, <1>8, <1>9, <1>10, <1>11

\* The caller goes on to its next await.
LEMMA AwaitStep ==
  ASSUME IInv, Await
  PROVE  IInv'
<1> USE DEF IInv, InGroup
<1>1. /\ caller = "handling" /\ caller' = "awaiting"
      /\ UNCHANGED <<count, due, rearms, calls, asked, leaked, block, base, probe, scheduled,
                     busy, errors, aborting, requested, held>>
  BY DEF Await, task, world, own, group
<1>2. TypeOK' /\ CountInv' /\ RearmsInv'
  BY <1>1 DEF TypeOK, Findings, CountInv, RearmsInv, One
<1>3. BlockInv' /\ GroupInv' /\ QuietInv'
  BY <1>1 DEF BlockInv, GroupInv, QuietInv
<1>4. ProbeInv' /\ OwedInv'
  BY <1>1 DEF ProbeInv, Found, OwedInv, Owes, BroughtInLive
<1> QED BY <1>2, <1>3, <1>4

\* One more cancellation, by the caller itself or by anybody while it waits.
LEMMA CancelStep ==
  ASSUME IInv, CancelSelf \/ CancelCaller
  PROVE  IInv'
<1> USE DEF IInv, InGroup
<1>1. /\ leaked \in Nat /\ asked \in Nat /\ count \in Nat /\ rearms \in Nat
      /\ MaxCancels \in Nat /\ MaxCalls \in Nat
  BY BoundsAssumption DEF TypeOK
<1>2. /\ caller \in {"handling", "in_group", "awaiting"}
      /\ asked < MaxCancels /\ asked' = asked + 1 /\ count' = count + 1 /\ due'
      /\ UNCHANGED <<caller, rearms, calls, leaked, block, base, probe, scheduled,
                     busy, errors, aborting, requested, held>>
      /\ due' \in BOOLEAN
  BY DEF CancelSelf, CancelCaller, CancelTask, Suspended, own, group
<1>3. TypeOK'
  <2>1. probe' \in Findings' /\ scheduled' \in Findings'
    BY <1>1, <1>2 DEF TypeOK, Findings
  <2> QED BY <1>1, <1>2, <2>1 DEF TypeOK
<1>4. CountInv' /\ BlockInv' /\ RearmsInv' /\ GroupInv' /\ QuietInv'
  BY <1>1, <1>2 DEF CountInv, BlockInv, RearmsInv, GroupInv, QuietInv, One, TypeOK
<1>5. ProbeInv'
  BY <1>1, <1>2 DEF ProbeInv, Found
<1>6. OwedInv'
  BY <1>1, <1>2 DEF OwedInv, Owes, BroughtInLive, ProbeInv, Found
<1> QED BY <1>3, <1>4, <1>5, <1>6

\* The caller's timeout takes back exactly its own request.
LEMMA LeaveBlockStep ==
  ASSUME IInv, LeaveBlock
  PROVE  IInv'
<1> USE DEF IInv, InGroup
<1>1. /\ leaked \in Nat /\ asked \in Nat /\ count \in Nat
  BY BoundsAssumption DEF TypeOK
<1>2. /\ caller = "handling" /\ block' = "none"
      /\ count' = IF block = "expiring" THEN Lowered(count, 1) ELSE count
      /\ UNCHANGED <<caller, due, rearms, calls, asked, leaked, base, probe, scheduled,
                     busy, errors, aborting, requested, held>>
  BY DEF LeaveBlock, world, group
<1>3. count' = leaked + asked /\ count' \in Nat
  BY <1>1, <1>2 DEF CountInv, One, Lowered, TypeOK
<1>4. TypeOK'
  BY <1>1, <1>2, <1>3 DEF TypeOK, Findings
<1>5. CountInv' /\ BlockInv' /\ GroupInv' /\ RearmsInv'
  BY <1>1, <1>2, <1>3 DEF CountInv, BlockInv, GroupInv, RearmsInv, One
<1>6. ProbeInv' /\ QuietInv' /\ OwedInv'
  BY <1>2 DEF ProbeInv, Found, QuietInv, OwedInv, Owes, BroughtInLive
<1> QED BY <1>4, <1>5, <1>6

\* A CancelledError that leaves the caller's code is a TimeoutError exactly if
\* nobody but the caller's timeout asked for it.
LEMMA UnwindDecides ==
  ASSUME IInv, Unwind, ~(InGroup /\ requested)
  PROVE  /\ count' = leaked + asked
         /\ caller' = IF block = "expiring" /\ asked = 0 THEN "handling" ELSE "cancelled"
         /\ block' = "none" /\ base' = base
<1>1. /\ leaked \in Nat /\ asked \in Nat /\ count \in Nat
  BY BoundsAssumption DEF IInv, TypeOK
<1>2. block = "expiring" => base = leaked
  BY DEF IInv, BlockInv
<1>3. count' = leaked + asked
  BY <1>1 DEF IInv, CountInv, One, Unwind, Lowered
<1>4. caller' = IF block = "expiring" /\ count' <= base THEN "handling" ELSE "cancelled"
  BY DEF Unwind
<1> QED BY <1>1, <1>2, <1>3, <1>4 DEF Unwind

\* It goes on after an await only if nothing was due, and then nothing is owed.
LEMMA ResumeStep ==
  ASSUME IInv, Resume
  PROVE  IInv'
<1> USE DEF IInv, InGroup
<1>1. /\ leaked \in Nat /\ asked \in Nat /\ count \in Nat
  BY BoundsAssumption DEF TypeOK
<1>2. /\ caller = "awaiting" /\ scheduled = NoRearm
      /\ UNCHANGED <<rearms, calls, asked, leaked, probe, scheduled,
                     busy, errors, aborting, requested, held>>
  BY DEF Resume, world, group
<1>3. CASE due
  <2>1. due' = FALSE /\ Unwind
    BY <1>3 DEF Resume
  <2>2. /\ count' = leaked + asked /\ block' = "none" /\ base' = base
        /\ caller' = IF block = "expiring" /\ asked = 0 THEN "handling" ELSE "cancelled"
    BY <1>2, <2>1, UnwindDecides
  <2>3. TypeOK'
    <3>1. caller' \in {"handling", "cancelled"} /\ count' \in Nat /\ count' >= leaked
      BY <1>1, <2>2
    <3> QED BY <1>2, <2>1, <2>2, <3>1 DEF TypeOK, Findings
  <2>4. CountInv' /\ BlockInv' /\ GroupInv' /\ ProbeInv' /\ RearmsInv'
    BY <1>1, <1>2, <2>2 DEF CountInv, BlockInv, GroupInv, ProbeInv, RearmsInv, One
  <2>5. QuietInv' /\ OwedInv'
    BY <1>1, <1>2, <1>3, <2>1, <2>2 DEF QuietInv, OwedInv
  <2> QED BY <2>3, <2>4, <2>5
<1>4. CASE ~due
  <2>1. /\ caller' \in {"handling", "finished"}
        /\ UNCHANGED <<count, due, block, base>>
    BY <1>4 DEF Resume, own
  <2>2. asked = 0 /\ block # "expiring"
    BY <1>1, <1>2, <1>4 DEF OwedInv, BlockInv
  <2>3. TypeOK'
    BY <1>1, <1>2, <2>1 DEF TypeOK, Findings
  <2>4. CountInv' /\ BlockInv' /\ GroupInv' /\ ProbeInv' /\ RearmsInv'
    BY <1>1, <1>2, <2>1, <2>2 DEF CountInv, BlockInv, GroupInv, ProbeInv, RearmsInv, One
  <2>5. QuietInv' /\ OwedInv'
    BY <1>1, <1>2, <1>4, <2>1, <2>2 DEF QuietInv, OwedInv
  <2> QED BY <2>3, <2>4, <2>5
<1> QED BY <1>3, <1>4

\* The caller's own timeout adds its request while the caller waits.
LEMMA TimeoutFiresStep ==
  ASSUME IInv, TimeoutFires
  PROVE  IInv'
<1> USE DEF IInv, InGroup
<1>1. /\ leaked \in Nat /\ asked \in Nat /\ count \in Nat
  BY BoundsAssumption DEF TypeOK
<1>2. /\ caller \in {"in_group", "awaiting"}
      /\ block = "entered" /\ block' = "expiring" /\ count' = count + 1 /\ due' = TRUE
      /\ UNCHANGED <<caller, rearms, calls, asked, leaked, base, probe, scheduled,
                     busy, errors, aborting, requested, held>>
  BY DEF TimeoutFires, Suspended, CancelTask, world, group
<1>3. TypeOK'
  BY <1>1, <1>2 DEF TypeOK, Findings
<1>4. CountInv' /\ BlockInv' /\ RearmsInv'
  BY <1>1, <1>2 DEF CountInv, BlockInv, RearmsInv, One
<1>5. GroupInv' /\ QuietInv'
  BY <1>2 DEF GroupInv, QuietInv
<1>6. ProbeInv' /\ OwedInv'
  BY <1>2 DEF ProbeInv, Found, OwedInv, Owes, BroughtInLive, GroupInv
<1> QED BY <1>3, <1>4, <1>5, <1>6

\* A failing child makes the group cancel its parent once.
LEMMA ChildEndsStep ==
  ASSUME IInv, NEW error \in BOOLEAN, ChildEnds(error)
  PROVE  IInv'
<1> USE DEF IInv, InGroup
<1>1. /\ leaked \in Nat /\ asked \in Nat /\ count \in Nat /\ rearms \in Nat /\ Children \in Nat
  BY BoundsAssumption DEF TypeOK
<1>2. /\ caller = "in_group" /\ scheduled = NoRearm /\ busy > 0 /\ busy' = busy - 1
      /\ errors' = (errors \/ error)
      /\ UNCHANGED <<caller, calls, asked, leaked, block, base, probe, scheduled, held>>
  BY DEF ChildEnds, world, own
<1>3. errors' \in BOOLEAN /\ (errors => errors') /\ (error => errors')
  BY <1>2 DEF TypeOK
<1>4. busy' \in 0..Children
  BY <1>1, <1>2 DEF TypeOK
<1>5. CASE error /\ ~aborting /\ ~requested
  <2>1. aborting' = TRUE /\ requested' = TRUE /\ count' = count + 1 /\ due' = TRUE /\ rearms' = rearms
    BY <1>5 DEF ChildEnds, CancelTask
  <2>2. TypeOK'
    BY <1>1, <1>2, <1>3, <1>4, <2>1 DEF TypeOK, Findings
  <2>3. CountInv' /\ BlockInv' /\ RearmsInv'
    BY <1>1, <1>2, <1>5, <2>1 DEF CountInv, BlockInv, RearmsInv, One
  <2>4. GroupInv' /\ QuietInv'
    BY <1>2, <1>3, <1>5, <2>1 DEF GroupInv, QuietInv
  <2>5. ProbeInv' /\ OwedInv'
    BY <1>2, <1>3, <2>1 DEF ProbeInv, Found, OwedInv, Owes, BroughtInLive
  <2> QED BY <2>2, <2>3, <2>4, <2>5
<1>6. CASE ~(error /\ ~aborting /\ ~requested)
  <2>1. UNCHANGED <<aborting, requested, count, due, rearms>>
    BY <1>6 DEF ChildEnds, task
  <2>2. TypeOK'
    BY <1>1, <1>2, <1>3, <1>4, <2>1 DEF TypeOK, Findings
  <2>3. CountInv' /\ BlockInv' /\ RearmsInv'
    BY <1>1, <1>2, <2>1 DEF CountInv, BlockInv, RearmsInv, One
  <2>4. GroupInv' /\ QuietInv'
    BY <1>2, <1>3, <2>1 DEF GroupInv, QuietInv
  <2>5. ProbeInv' /\ OwedInv'
    BY <1>2, <1>3, <2>1 DEF ProbeInv, Found, OwedInv, Owes, BroughtInLive
  <2> QED BY <2>2, <2>3, <2>4, <2>5
<1> QED BY <1>5, <1>6

\* The callback sends the swallowed cancellation again without counting it
\* twice, or leaves the task alone because nothing is owed.
LEMMA RearmStep ==
  ASSUME IInv, Rearm
  PROVE  IInv'
<1> USE DEF IInv, InGroup
<1>1. /\ leaked \in Nat /\ asked \in Nat /\ count \in Nat /\ rearms \in Nat /\ calls \in Nat
      /\ MaxCalls \in Nat
  BY BoundsAssumption DEF TypeOK
<1>2. /\ scheduled # NoRearm /\ scheduled' = NoRearm /\ caller \in {"in_group", "awaiting"}
      /\ UNCHANGED <<caller, calls, asked, leaked, block, base, probe,
                     busy, errors, aborting, requested, held>>
  BY DEF Rearm, Suspended, world, own, group
<1>3. Found(scheduled)
  BY <1>2 DEF ProbeInv
<1>4. /\ (asked > 0 /\ Owes(scheduled)) => StillOwed(scheduled)
      /\ (StillOwed(scheduled) /\ asked = 0) => block = "expiring" \/ (InGroup /\ requested)
  BY <1>3, RearmDecides
<1>5. InGroup => block = "none" /\ ~requested
  BY <1>2 DEF GroupInv
<1>6. NoRearm \in Findings
  BY <1>1 DEF NoRearm, Findings
<1>7. CASE StillOwed(scheduled)
  <2>1. count' = Lowered(count, 1) + 1 /\ due' = TRUE /\ rearms' = rearms + 1
    BY <1>7 DEF Rearm
  <2>2. asked = 0 => block = "expiring"
    BY <1>4, <1>5, <1>7
  <2>3. count' = count
    BY <1>1, <2>1, <2>2 DEF CountInv, One, Lowered
  <2>4. RearmsInv'
    BY <1>1, <1>2, <2>1 DEF RearmsInv, One
  <2>5. rearms' \in 0..MaxCalls
    BY <1>1, <1>2, <2>1 DEF RearmsInv, One, TypeOK
  <2>6. TypeOK'
    BY <1>1, <1>2, <1>6, <2>1, <2>3, <2>5 DEF TypeOK, Findings
  <2>7. CountInv' /\ BlockInv'
    BY <1>1, <1>2, <1>5, <2>1, <2>3 DEF CountInv, BlockInv, One
  <2>8. GroupInv' /\ QuietInv'
    BY <1>1, <1>2, <1>5, <2>1, <2>2 DEF GroupInv, QuietInv
  <2>9. ProbeInv'
    BY <1>1, <1>2, <1>5, <2>1, <2>2 DEF ProbeInv, Found, TypeOK, Findings
  <2>10. OwedInv'
    BY <1>1, <1>2, <2>1 DEF OwedInv, GroupInv, Owes, BroughtInLive
  <2> QED BY <2>4, <2>6, <2>7, <2>8, <2>9, <2>10
<1>8. CASE ~StillOwed(scheduled)
  <2>1. UNCHANGED <<count, due, rearms>>
    BY <1>8 DEF Rearm, task
  <2>2. block = "expiring" => due
    BY <1>1, <1>2, <1>3, <1>5, <1>8 DEF StillOwed, Found, CountInv, One, TypeOK, Findings
  <2>3. asked > 0 => ~Owes(scheduled)
    BY <1>4, <1>8
  <2>4. TypeOK'
    BY <1>1, <1>2, <1>6, <2>1 DEF TypeOK, Findings
  <2>5. CountInv' /\ BlockInv' /\ RearmsInv'
    BY <1>1, <1>2, <1>5, <2>1, <2>2 DEF CountInv, BlockInv, RearmsInv, One
  <2>6. GroupInv' /\ QuietInv'
    BY <1>2, <2>1 DEF GroupInv, QuietInv
  <2>7. ProbeInv'
    BY <1>2, <2>1 DEF ProbeInv, Found
  <2>8. OwedInv'
    BY <1>2, <2>1, <2>3 DEF OwedInv, Owes, BroughtInLive
  <2> QED BY <2>4, <2>5, <2>6, <2>7, <2>8
<1> QED BY <1>7, <1>8

\* __aexit__: what is owed is raised, or left for the callback with what the
\* probe found; without anything owed the caller goes on.
LEMMA GroupResumeStep ==
  ASSUME IInv, GroupResume
  PROVE  IInv'
<1> USE DEF IInv, InGroup
<1> DEFINE holds == held \/ (due /\ ~aborting)
<1>1. /\ leaked \in Nat /\ asked \in Nat /\ count \in Nat
  BY BoundsAssumption DEF TypeOK
<1>2. /\ caller = "in_group" /\ scheduled = NoRearm /\ (due \/ busy = 0) /\ due' = FALSE
      /\ UNCHANGED <<rearms, calls, asked, leaked, probe, busy, errors, requested>>
  BY DEF GroupResume, world
<1>3. aborting' = (aborting \/ due) /\ held' = holds
  BY DEF GroupResume
<1>4. aborting' \in BOOLEAN /\ held' \in BOOLEAN
  BY <1>3 DEF TypeOK
<1>5. requested => errors /\ aborting
  BY <1>2 DEF GroupInv
<1> HIDE DEF holds
<1>6. CASE busy > 0
  <2>1. UNCHANGED <<caller, count, block, base, scheduled>>
    BY <1>6 DEF GroupResume, own
  <2>2. due
    BY <1>2, <1>6
  <2>3. TypeOK'
    BY <1>2, <1>4, <2>1 DEF TypeOK, Findings
  <2>4. CountInv' /\ RearmsInv' /\ ProbeInv' /\ BlockInv'
    BY <1>2, <1>3, <2>1, <2>2 DEF CountInv, RearmsInv, ProbeInv, Found, BlockInv, One
  <2>5. GroupInv' /\ QuietInv' /\ OwedInv'
    BY <1>2, <1>3, <1>5, <2>1, <2>2 DEF GroupInv, QuietInv, OwedInv, Owes, BroughtInLive, holds
  <2> QED BY <2>3, <2>4, <2>5
<1>7. CASE ~(busy > 0) /\ errors
  <2>1. /\ caller' = "handling" /\ count' = Lowered(count, RequestTakenBack) /\ scheduled' = probe
        /\ UNCHANGED <<block, base>>
    BY <1>7 DEF GroupResume, EndWithErrors, own
  <2>2. count' = leaked + asked + One(block = "expiring")
    BY <1>1, <1>2, <2>1 DEF CountInv, One, Lowered, RequestTakenBack, TypeOK
  <2>3. scheduled' # NoRearm /\ Found(probe)
    BY <1>1, <1>2, <2>1 DEF ProbeInv, Found, NoRearm
  <2>4. count' \in Nat /\ count' >= leaked
    BY <1>1, <2>2 DEF One
  <2>5. TypeOK'
    BY <1>2, <1>4, <2>1, <2>4 DEF TypeOK, Findings
  <2>6. CountInv' /\ RearmsInv' /\ BlockInv' /\ GroupInv'
    BY <1>1, <1>2, <2>1, <2>2, <2>3 DEF CountInv, RearmsInv, BlockInv, GroupInv, One, TypeOK
  <2>7. ProbeInv' /\ QuietInv' /\ OwedInv'
    BY <1>2, <2>1, <2>3 DEF ProbeInv, Found, QuietInv, OwedInv, Owes, BroughtInLive
  <2> QED BY <2>5, <2>6, <2>7
<1>8. CASE ~(busy > 0) /\ ~errors /\ holds
  <2>1. Unwind /\ scheduled' = scheduled
    BY <1>8 DEF GroupResume, holds
  <2>2. ~requested
    BY <1>5, <1>8
  <2>3. /\ count' = leaked + asked /\ block' = "none" /\ base' = base
        /\ caller' = IF block = "expiring" /\ asked = 0 THEN "handling" ELSE "cancelled"
    BY <2>1, <2>2, UnwindDecides
  <2>4. caller' \in {"handling", "cancelled"} /\ count' \in Nat /\ count' >= leaked
    BY <1>1, <2>3
  <2>5. TypeOK'
    BY <1>2, <1>4, <2>1, <2>3, <2>4 DEF TypeOK, Findings
  <2>6. CountInv' /\ RearmsInv' /\ BlockInv' /\ GroupInv' /\ ProbeInv'
    BY <1>1, <1>2, <2>1, <2>3, <2>4 DEF CountInv, RearmsInv, BlockInv, GroupInv, ProbeInv, One, TypeOK
  <2>7. asked = 0 => block = "expiring"
    BY <1>2, <1>8, <2>2 DEF QuietInv, holds
  <2>8. QuietInv' /\ OwedInv'
    BY <1>1, <1>2, <2>3, <2>7 DEF QuietInv, OwedInv
  <2> QED BY <2>5, <2>6, <2>8
<1>9. CASE ~(busy > 0) /\ ~errors /\ ~holds
  <2>1. caller' = "handling" /\ UNCHANGED <<count, block, base, scheduled>>
    BY <1>9 DEF GroupResume, own, holds
  <2>2. ~requested /\ ~held /\ ~aborting /\ ~due
    BY <1>2, <1>5, <1>9 DEF GroupInv, holds
  <2>3. asked = 0 /\ block # "expiring"
    BY <1>1, <1>2, <1>9, <2>2 DEF OwedInv, BlockInv
  <2>4. TypeOK'
    BY <1>2, <1>4, <2>1 DEF TypeOK, Findings
  <2>5. CountInv' /\ RearmsInv' /\ BlockInv' /\ GroupInv' /\ ProbeInv'
    BY <1>1, <1>2, <2>1, <2>2, <2>3 DEF CountInv, RearmsInv, BlockInv, GroupInv, ProbeInv, One, TypeOK
  <2>6. QuietInv' /\ OwedInv'
    BY <1>2, <2>1, <2>3 DEF QuietInv, OwedInv
  <2> QED BY <2>4, <2>5, <2>6
<1> QED BY <1>6, <1>7, <1>8, <1>9

-----------------------------------------------------------------------------
(* The theorems.                                                           *)

\* The invariant is inductive for a caller that awaits before it retries.
LEMMA NextInv ==
  ASSUME IInv, ~RetryAtOnce, [Next]_vars
  PROVE  IInv'
<1>1. CASE Call
  BY <1>1, CallStep
<1>2. CASE Await
  BY <1>2, AwaitStep
<1>3. CASE CancelSelf \/ CancelCaller
  BY <1>3, CancelStep
<1>4. CASE LeaveBlock
  BY <1>4, LeaveBlockStep
<1>5. CASE Resume
  BY <1>5, ResumeStep
<1>6. CASE TimeoutFires
  BY <1>6, TimeoutFiresStep
<1>7. CASE \E error \in BOOLEAN : ChildEnds(error)
  BY <1>7, ChildEndsStep
<1>8. CASE Rearm
  BY <1>8, RearmStep
<1>9. CASE GroupResume
  BY <1>9, GroupResumeStep
<1>10. CASE UNCHANGED vars
  <2>1. UNCHANGED <<caller, count, due, rearms, calls, asked, leaked, block, base, probe, scheduled,
                    busy, errors, aborting, requested, held>>
    BY <1>10 DEF vars, task, world, own, group
  <2>2. TypeOK' /\ CountInv' /\ BlockInv' /\ GroupInv' /\ RearmsInv'
    BY <2>1 DEF IInv, TypeOK, Findings, CountInv, BlockInv, GroupInv, RearmsInv, InGroup, One
  <2>3. ProbeInv' /\ QuietInv' /\ OwedInv'
    BY <2>1 DEF IInv, ProbeInv, Found, QuietInv, OwedInv, Owes, BroughtInLive, InGroup
  <2> QED BY <2>2, <2>3 DEF IInv
<1> QED
  BY <1>1, <1>2, <1>3, <1>4, <1>5, <1>6, <1>7, <1>8, <1>9, <1>10 DEF Next

\* The invariant of a caller that awaits something before it calls again
\* inside a timeout of its own.
THEOREM Invariance ==
  ASSUME ~RetryAtOnce
  PROVE  Spec => []IInv
<1>1. Init => IInv
  BY InitInv
<1>2. IInv /\ [Next]_vars => IInv'
  BY NextInv
<1> QED BY <1>1, <1>2, PTL DEF Spec

\* No pipeline call and no re-arm cancels a caller that nobody cancelled
\* (#204, #206, #210).
THEOREM NoCancellationInvented ==
  ASSUME ~RetryAtOnce
  PROVE  Spec => []NoneInvented
<1>1. IInv => NoneInvented
  BY DEF IInv, QuietInv, NoneInvented, TypeOK
<1> QED BY <1>1, Invariance, PTL

\* However many pipelines fail on the way, a cancellation asked for reaches the
\* caller before it finishes (#204, #219).
THEOREM NoCancellationLost ==
  ASSUME ~RetryAtOnce
  PROVE  Spec => []NoneLost
<1>1. IInv => NoneLost
  BY DEF IInv, OwedInv, NoneLost, TypeOK
<1> QED BY <1>1, Invariance, PTL

-----------------------------------------------------------------------------
(* Of every caller, the one that retries at once included.                 *)

\* During a call the count and the re-arms never fall below what its probe
\* found, and whatever is due or was delivered has raised one of them since,
\* or was there before.
SeenInv ==
  InGroup =>
    /\ requested => errors
    /\ probe.entry <= count /\ probe.rearms <= rearms
    /\ due \/ aborting => ProbeCancelled(probe)

AnyInv == TypeOK /\ CountWithinOne /\ RearmsInv /\ SeenInv

\* The numbers of a state.
LEMMA CallerNumbers ==
  ASSUME TypeOK
  PROVE  /\ leaked \in Nat /\ asked \in Nat /\ count \in Nat /\ rearms \in Nat /\ calls \in Nat
         /\ base \in Nat /\ MaxCalls \in Nat /\ MaxCancels \in Nat /\ Children \in Nat
         /\ probe.entry \in Int /\ probe.rearms \in Nat
BY BoundsAssumption DEF TypeOK, Findings

\* A callback that finds nothing counted counts one more at most.
LEMMA RearmCounts ==
  ASSUME NEW n \in Nat
  PROVE  Lowered(n, 1) + 1 = IF n = 0 THEN 1 ELSE n
BY DEF Lowered

\* __aenter__ finds at most one more than was asked for.
LEMMA AnyCall ==
  ASSUME AnyInv, Call
  PROVE  AnyInv'
<1>1. TypeOK /\ CountWithinOne /\ RearmsInv
  BY DEF AnyInv
<1>2. UNCHANGED <<count, due, rearms, asked, leaked, block, base, scheduled>>
  BY DEF Call, task, world, own
<1>3. /\ caller = "handling" /\ caller' = "in_group" /\ calls' = calls + 1 /\ calls < MaxCalls
      /\ probe' = [entry |-> count, pending |-> due, rearms |-> rearms]
      /\ busy' \in 1..Children /\ errors' = FALSE /\ aborting' = FALSE /\ requested' = FALSE /\ held' = FALSE
  BY DEF Call
<1>4. count \in -1..(leaked + asked + 2)
  BY <1>1, <1>3, CallerNumbers DEF CountWithinOne
<1>5. probe' \in Findings' /\ scheduled' \in Findings'
  BY <1>1, <1>2, <1>3, <1>4 DEF TypeOK, Findings
<1>6. calls' \in 0..MaxCalls /\ busy' \in 0..Children
  BY <1>1, <1>3, CallerNumbers
<1>7. errors' \in BOOLEAN /\ aborting' \in BOOLEAN /\ requested' \in BOOLEAN /\ held' \in BOOLEAN
  BY <1>3, Zenon
<1>8. TypeOK'
  BY <1>1, <1>2, <1>3, <1>5, <1>6, <1>7 DEF TypeOK
<1>9. CountWithinOne'
  BY <1>1, <1>2, <1>3 DEF CountWithinOne
<1>10. RearmsInv'
  BY <1>1, <1>2, <1>3, CallerNumbers DEF RearmsInv, One, InGroup
<1>11. SeenInv'
  BY <1>1, <1>2, <1>3, CallerNumbers DEF SeenInv, InGroup, ProbeCancelled, BroughtInLive
<1> QED BY <1>8, <1>9, <1>10, <1>11 DEF AnyInv

\* A request is counted, whoever makes it.
LEMMA AnyRequest ==
  ASSUME AnyInv,
         CancelSelf \/ CancelCaller \/ TimeoutFires \/ \E error \in BOOLEAN : ChildEnds(error)
  PROVE  AnyInv'
<1>1. TypeOK /\ CountWithinOne /\ RearmsInv /\ SeenInv
  BY DEF AnyInv
<1>2. UNCHANGED <<caller, rearms, calls, leaked, base, probe, scheduled, held>>
  BY DEF CancelSelf, CancelCaller, TimeoutFires, ChildEnds, CancelTask, task, world, own, group
<1>3. RearmsInv'
  BY <1>1, <1>2 DEF RearmsInv, One, InGroup
<1>4. CASE CancelSelf \/ CancelCaller
  <2>1. /\ asked < MaxCancels /\ asked' = asked + 1 /\ count' = count + 1 /\ due' = TRUE
        /\ UNCHANGED <<block, busy, errors, aborting, requested>>
    BY <1>4 DEF CancelSelf, CancelCaller, CancelTask, own, group
  <2>2. probe' \in Findings' /\ scheduled' \in Findings'
    BY <1>1, <1>2, <2>1, CallerNumbers DEF TypeOK, Findings
  <2>3. TypeOK'
    BY <1>1, <1>2, <2>1, <2>2, CallerNumbers DEF TypeOK
  <2>4. CountWithinOne'
    BY <1>1, <1>2, <2>1, CallerNumbers DEF CountWithinOne
  <2>5. SeenInv'
    BY <1>1, <1>2, <2>1, CallerNumbers DEF SeenInv, InGroup, ProbeCancelled
  <2> QED BY <1>3, <2>3, <2>4, <2>5 DEF AnyInv
<1>5. CASE TimeoutFires
  <2>1. /\ block = "entered" /\ block' = "expiring" /\ count' = count + 1 /\ due' = TRUE
        /\ UNCHANGED <<asked, busy, errors, aborting, requested>>
    BY <1>5 DEF TimeoutFires, CancelTask, world, group
  <2>2. TypeOK'
    BY <1>1, <1>2, <2>1, CallerNumbers DEF TypeOK, Findings
  <2>3. CountWithinOne'
    BY <1>1, <1>2, <2>1, CallerNumbers DEF CountWithinOne
  <2>4. SeenInv'
    BY <1>1, <1>2, <2>1, CallerNumbers DEF SeenInv, InGroup, ProbeCancelled
  <2> QED BY <1>3, <2>2, <2>3, <2>4 DEF AnyInv
<1>6. ASSUME NEW error \in BOOLEAN, ChildEnds(error) PROVE AnyInv'
  <2>1. /\ caller = "in_group" /\ busy > 0 /\ busy' = busy - 1 /\ errors' = (errors \/ error)
        /\ UNCHANGED <<asked, block>>
    BY <1>6 DEF ChildEnds, world, own
  <2>2. busy' \in 0..Children /\ errors' \in BOOLEAN /\ (errors \/ error => errors')
    BY <1>1, <2>1, CallerNumbers DEF TypeOK
  <2>3. CASE error /\ ~requested /\ aborting' /\ requested' /\ count' = count + 1 /\ due'
             /\ {aborting', requested', due'} \subseteq BOOLEAN
    <3>1. TypeOK'
      BY <1>1, <1>2, <2>1, <2>2, <2>3, CallerNumbers DEF TypeOK, Findings
    <3>2. CountWithinOne'
      BY <1>1, <1>2, <2>1, <2>3, CallerNumbers DEF CountWithinOne
    <3>3. SeenInv'
      BY <1>1, <1>2, <2>1, <2>2, <2>3, CallerNumbers DEF SeenInv, InGroup, ProbeCancelled
    <3> QED BY <1>3, <3>1, <3>2, <3>3 DEF AnyInv
  <2>4. CASE UNCHANGED <<aborting, requested, count, due>>
    <3>1. TypeOK'
      BY <1>1, <1>2, <2>1, <2>2, <2>4 DEF TypeOK, Findings
    <3>2. CountWithinOne'
      BY <1>1, <1>2, <2>1, <2>4 DEF CountWithinOne
    <3>3. SeenInv'
      BY <1>1, <1>2, <2>1, <2>2, <2>4 DEF SeenInv, InGroup, ProbeCancelled, BroughtInLive
    <3> QED BY <1>3, <3>1, <3>2, <3>3 DEF AnyInv
  <2> QED BY <1>6, <2>3, <2>4 DEF ChildEnds, CancelTask, task
<1> QED BY <1>4, <1>5, <1>6

\* The callback adds to the count only where nothing is counted, and shows in
\* the re-arms.
LEMMA AnyRearm ==
  ASSUME AnyInv, Rearm
  PROVE  AnyInv'
<1>1. TypeOK /\ CountWithinOne /\ RearmsInv /\ SeenInv
  BY DEF AnyInv
<1>2. /\ scheduled # NoRearm /\ scheduled' = NoRearm
      /\ UNCHANGED <<caller, calls, asked, leaked, block, base, probe,
                     busy, errors, aborting, requested, held>>
  BY DEF Rearm, world, own, group
<1>3. NoRearm \in Findings /\ Findings' = Findings
  BY <1>1, <1>2, CallerNumbers DEF NoRearm, Findings
<1>4. CASE UNCHANGED <<count, due, rearms>>
  <2>1. TypeOK' /\ CountWithinOne' /\ SeenInv'
    BY <1>1, <1>2, <1>3, <1>4
    DEF TypeOK, CountWithinOne, SeenInv, InGroup, ProbeCancelled, BroughtInLive
  <2>2. RearmsInv'
    BY <1>1, <1>2, <1>4, CallerNumbers DEF RearmsInv, One, InGroup
  <2> QED BY <2>1, <2>2 DEF AnyInv
<1>5. CASE count' = Lowered(count, 1) + 1 /\ due' = TRUE /\ rearms' = rearms + 1
  <2>1. count' = IF count = 0 THEN 1 ELSE count
    BY <1>1, <1>5, RearmCounts, CallerNumbers
  <2>2. RearmsInv' /\ rearms' \in 0..MaxCalls
    BY <1>1, <1>2, <1>5, CallerNumbers DEF RearmsInv, One, InGroup, TypeOK
  <2>3. count' \in Nat /\ count' >= leaked
    BY <1>1, <2>1, CallerNumbers DEF TypeOK
  <2>4. TypeOK'
    BY <1>1, <1>2, <1>3, <1>5, <2>2, <2>3 DEF TypeOK
  <2>5. CountWithinOne'
    BY <1>1, <1>2, <2>1, CallerNumbers DEF CountWithinOne
  <2>6. SeenInv'
    BY <1>1, <1>2, <1>5, <2>1, CallerNumbers DEF SeenInv, InGroup, ProbeCancelled, BroughtInLive
  <2> QED BY <2>2, <2>4, <2>5, <2>6 DEF AnyInv
<1> QED BY <1>4, <1>5 DEF Rearm, task

\* The caller's timeout unwinds: its own request goes with it.
LEMMA AnyUnwind ==
  ASSUME TypeOK, CountWithinOne, Unwind, ~(caller = "in_group" /\ requested),
         UNCHANGED <<asked, leaked>>
  PROVE  /\ count' \in Nat /\ count' >= leaked /\ CountWithinOne'
         /\ caller' \in {"handling", "cancelled"} /\ block' = "none" /\ base' = base
<1>1. caller' \in {"handling", "cancelled"} /\ block' = "none" /\ base' = base
      /\ count' = IF block = "expiring" THEN Lowered(count, 1) ELSE count
  BY DEF Unwind
<1>2. leaked + asked <= count' /\ count' <= leaked + asked + 1 /\ count' \in Nat
  BY <1>1, CallerNumbers DEF CountWithinOne, Lowered
<1> QED BY <1>1, <1>2, CallerNumbers DEF CountWithinOne

\* What the caller does of its own.
LEMMA AnyCaller ==
  ASSUME AnyInv, Await \/ LeaveBlock \/ Resume
  PROVE  AnyInv'
<1>1. TypeOK /\ CountWithinOne /\ RearmsInv
  BY DEF AnyInv
<1>2. /\ caller # "in_group" /\ due' \in {due, FALSE}
      /\ UNCHANGED <<rearms, calls, asked, leaked, probe, scheduled,
                     busy, errors, aborting, requested, held>>
  BY DEF Await, LeaveBlock, Resume, task, world, group
<1>3. /\ caller' \in {"handling", "awaiting", "finished", "cancelled"}
      /\ count' \in Nat /\ count' >= leaked /\ CountWithinOne'
      /\ block' \in {block, "none"} /\ base' = base
  <2>1. CASE Unwind
    BY <1>1, <1>2, <2>1, AnyUnwind
  <2>2. CASE LeaveBlock
    <3>1. /\ caller' = caller /\ caller = "handling" /\ base' = base /\ block' = "none"
          /\ count' = IF block = "expiring" THEN Lowered(count, 1) ELSE count
      BY <2>2 DEF LeaveBlock
    <3>2. leaked + asked <= count' /\ count' <= leaked + asked + 1 /\ count' \in Nat
      BY <1>1, <3>1, CallerNumbers DEF CountWithinOne, Lowered
    <3> QED BY <1>1, <1>2, <3>1, <3>2, CallerNumbers DEF CountWithinOne
  <2>3. CASE /\ caller' \in {"handling", "awaiting", "finished"}
             /\ UNCHANGED <<count, block, base>>
    BY <1>1, <1>2, <2>3 DEF TypeOK, CountWithinOne
  <2> QED BY <2>1, <2>2, <2>3 DEF Await, Resume, task, own
<1>4. TypeOK'
  <2>1. caller' \in {"handling", "in_group", "awaiting", "finished", "cancelled"} /\ base' \in Nat
    BY <1>1, <1>3 DEF TypeOK
  <2>2. due' \in BOOLEAN /\ block' \in {"none", "entered", "expiring"}
    BY <1>1, <1>2, <1>3 DEF TypeOK
  <2>3. probe' \in Findings' /\ scheduled' \in Findings'
    BY <1>1, <1>2 DEF TypeOK, Findings
  <2>4. count' \in Nat /\ count' >= leaked'
    BY <1>2, <1>3
  <2>5. /\ rearms' \in 0..MaxCalls /\ calls' \in 0..MaxCalls /\ asked' \in 0..MaxCancels
        /\ leaked' \in 0..MaxLeaked /\ busy' \in 0..Children
        /\ errors' \in BOOLEAN /\ aborting' \in BOOLEAN /\ requested' \in BOOLEAN /\ held' \in BOOLEAN
    BY <1>1, <1>2 DEF TypeOK
  <2> QED BY <2>1, <2>2, <2>3, <2>4, <2>5 DEF TypeOK
<1>5. RearmsInv' /\ SeenInv'
  BY <1>1, <1>2, <1>3 DEF RearmsInv, SeenInv, One, InGroup
<1> QED BY <1>3, <1>4, <1>5 DEF AnyInv

\* __aexit__ takes back the group's own request and no other.
LEMMA AnyGroupResume ==
  ASSUME AnyInv, GroupResume
  PROVE  AnyInv'
<1>1. TypeOK /\ CountWithinOne /\ RearmsInv /\ SeenInv
  BY DEF AnyInv
<1>2. /\ caller = "in_group" /\ scheduled = NoRearm /\ due' = FALSE
      /\ aborting' = (aborting \/ due) /\ held' = (held \/ (due /\ ~aborting))
      /\ UNCHANGED <<rearms, calls, asked, leaked, probe, busy, errors, requested>>
  BY DEF GroupResume, world
<1>3. aborting' \in BOOLEAN /\ held' \in BOOLEAN
  BY <1>1, <1>2 DEF TypeOK
<1>4. CASE UNCHANGED <<caller, count, block, base, scheduled>>
  <2>1. TypeOK'
    BY <1>1, <1>2, <1>3, <1>4 DEF TypeOK, Findings
  <2>2. CountWithinOne' /\ RearmsInv'
    BY <1>1, <1>2, <1>4 DEF CountWithinOne, RearmsInv, One, InGroup
  <2>3. SeenInv'
    BY <1>1, <1>2, <1>4 DEF SeenInv, InGroup, ProbeCancelled, BroughtInLive
  <2> QED BY <2>1, <2>2, <2>3 DEF AnyInv
<1>5. CASE EndWithErrors
  <2>1. /\ caller' = "handling" /\ scheduled' = probe /\ UNCHANGED <<block, base>>
        /\ count' = Lowered(count, IF requested THEN 1 ELSE 0)
    BY <1>5 DEF EndWithErrors, RequestTakenBack, own
  <2>2. count' = count - IF requested THEN 1 ELSE 0
    BY <1>1, <1>2, <2>1, CallerNumbers DEF CountWithinOne, Lowered
  <2>3. CountWithinOne' /\ count' \in Nat /\ count' >= leaked
    BY <1>1, <1>2, <2>1, <2>2, CallerNumbers DEF CountWithinOne
  <2>4. TypeOK'
    BY <1>1, <1>2, <1>3, <2>1, <2>3 DEF TypeOK, Findings
  <2>5. RearmsInv' /\ SeenInv'
    BY <1>1, <1>2, <2>1, CallerNumbers DEF RearmsInv, SeenInv, One, InGroup
  <2> QED BY <2>3, <2>4, <2>5 DEF AnyInv
<1>6. CASE Unwind /\ ~errors /\ scheduled' = scheduled
  <2>1. /\ count' \in Nat /\ count' >= leaked /\ CountWithinOne'
        /\ caller' \in {"handling", "cancelled"} /\ block' = "none" /\ base' = base
    BY <1>1, <1>2, <1>6, AnyUnwind DEF SeenInv, InGroup
  <2>2. TypeOK'
    BY <1>1, <1>2, <1>3, <1>6, <2>1 DEF TypeOK, Findings
  <2>3. RearmsInv' /\ SeenInv'
    BY <1>1, <1>2, <1>6, <2>1, CallerNumbers DEF RearmsInv, SeenInv, One, InGroup
  <2> QED BY <2>1, <2>2, <2>3 DEF AnyInv
<1>7. CASE caller' = "handling" /\ ~errors /\ UNCHANGED <<count, block, base, scheduled>>
  <2>1. TypeOK'
    BY <1>1, <1>2, <1>3, <1>7 DEF TypeOK, Findings
  <2>2. CountWithinOne' /\ SeenInv'
    BY <1>1, <1>2, <1>7 DEF CountWithinOne, SeenInv, InGroup
  <2>3. RearmsInv'
    BY <1>1, <1>2, <1>7, CallerNumbers DEF RearmsInv, One, InGroup
  <2> QED BY <2>1, <2>2, <2>3 DEF AnyInv
<1> QED BY <1>4, <1>5, <1>6, <1>7 DEF GroupResume, own

\* The invariant of every caller.
THEOREM AnyInvariance == Spec => []AnyInv
<1>1. Init => AnyInv
  <2> SUFFICES ASSUME Init PROVE AnyInv
    OBVIOUS
  <2>1. TypeOK /\ CountInv /\ RearmsInv /\ caller = "handling"
    BY InitInv DEF IInv, Init
  <2> QED BY <2>1, CallerNumbers DEF AnyInv, CountInv, CountWithinOne, SeenInv, One, InGroup
<1>2. AnyInv /\ [Next]_vars => AnyInv'
  <2> SUFFICES ASSUME AnyInv, UNCHANGED vars PROVE AnyInv'
    BY AnyCall, AnyRequest, AnyRearm, AnyCaller, AnyGroupResume DEF Next
  <2>1. UNCHANGED <<caller, count, due, rearms, calls, asked, leaked, block, base, probe, scheduled,
                    busy, errors, aborting, requested, held>>
    BY DEF vars, task, world, own, group
  <2>2. TypeOK'
    BY <2>1 DEF AnyInv, TypeOK, Findings
  <2>3. CountWithinOne' /\ RearmsInv'
    BY <2>1 DEF AnyInv, CountWithinOne, RearmsInv, One, InGroup
  <2>4. SeenInv'
    BY <2>1 DEF AnyInv, SeenInv, InGroup, ProbeCancelled, BroughtInLive
  <2> QED BY <2>2, <2>3, <2>4 DEF AnyInv
<1> QED BY <1>1, <1>2, PTL DEF Spec

\* Types, of every caller: neither the group nor the callback ever takes the
\* count below what the caller brought in.
THEOREM Typed == Spec => []TypeOK
<1>1. AnyInv => TypeOK
  BY DEF AnyInv
<1> QED BY <1>1, AnyInvariance, PTL

\* Of every caller: a pipeline that its group tears down reads so from the
\* probe (#163, #196, #215).
THEOREM TeardownAlwaysSeen == Spec => []TeardownSeen
<1>1. AnyInv => TeardownSeen
  BY DEF AnyInv, SeenInv, TeardownSeen, InGroup
<1> QED BY <1>1, AnyInvariance, PTL

\* Of every caller: no call takes back another's request, and at most one that
\* nobody made is left on the count.
THEOREM CountAlwaysWithinOne == Spec => []CountWithinOne
<1>1. AnyInv => CountWithinOne
  BY DEF AnyInv
<1> QED BY <1>1, AnyInvariance, PTL

\* Handled failures leave task.cancelling() as the caller brought it (#204).
THEOREM CountAlwaysRestored ==
  ASSUME ~RetryAtOnce
  PROVE  Spec => []CountRestored
<1>1. IInv /\ CountWithinOne => CountRestored
  BY DEF IInv, CountInv, CountRestored, TypeOK, One, InGroup
<1> QED BY <1>1, Invariance, CountAlwaysWithinOne, PTL

\* _CallerCancelProbe.cancelled is true whenever the group cancels its
\* children, and only on the strength of a cancellation of somebody, of the
\* group's own request or of the caller's timeout (#196, #215).
THEOREM SignalAlwaysTrue ==
  ASSUME ~RetryAtOnce
  PROVE  Spec => []SignalIsTrue
<1>1. ASSUME IInv, TeardownSeen, caller = "in_group", scheduled = NoRearm, ProbeCancelled(probe)
      PROVE  asked > 0 \/ requested \/ block = "expiring"
  <2>1. leaked \in Nat /\ asked \in Nat /\ count \in Nat
    BY <1>1, BoundsAssumption DEF IInv, TypeOK
  <2>2. Found(probe) /\ probe.entry \in Int
    BY <1>1, <2>1 DEF IInv, ProbeInv, InGroup, Found
  <2> QED BY <1>1, <2>1, <2>2 DEF IInv, CountInv, One, InGroup, Found, ProbeCancelled, BroughtInLive
<1>2. IInv /\ TeardownSeen => SignalIsTrue
  BY <1>1 DEF SignalIsTrue
<1> QED BY <1>2, Invariance, TeardownAlwaysSeen, PTL
=============================================================================
