------------------------- MODULE ReportPair_proofs -------------------------
(***************************************************************************)
(* Proofs about ReportPair, for any number of runs on one directory, any   *)
(* number of temporary names and of attempts: whatever fails, whoever is   *)
(* killed, and whichever reports a user makes read-only, what a reader     *)
(* finds at an output's name is whole, keeps its permissions, and no       *)
(* temporary file outlives its run.                                        *)
(***************************************************************************)
EXTENDS ReportPair, TLAPS

-----------------------------------------------------------------------------
(* The inductive invariant.                                                *)

WithTemp == {"testing", "filling", "copying_mode", "replacing"}

\* A temporary file is there, and its own run's, exactly while that run has it.
TempInv ==
  /\ \A r \in Runs : /\ temp[r] # None <=> pc[r] \in WithTemp
                     /\ temp[r] # None => Exists(temp[r]) /\ dir[temp[r]].by = r
  /\ NoTempLeft

\* What a run is treating, and in which phase.
Target(r) == Entry(Head(todo[r]))

ProgressInv ==
  \A r \in Runs :
    /\ pc[r] \in {"testing", "looking_at_md", "looking_at_json", "probe", "probed"} => phase[r] = "check"
    /\ pc[r] \in {"filling", "copying_mode", "replacing"} => phase[r] = "write"
    /\ pc[r] \in WithTemp \cup {"naming"} => todo[r] # <<>>

\* What is renamed is the whole text of the output it goes to.
TextInv ==
  /\ \A r \in Runs : pc[r] \in {"copying_mode", "replacing"} => dir[temp[r]].text = Head(todo[r])
  /\ DestinationWhole

Custom(e)   == Exists(e) /\ dir[e].mode = "custom"
ReadOnly(e) == Exists(e) /\ dir[e].mode = "readonly"

\* Where a write has looked at its report's mode and has not renamed yet.
Writing == {"naming", "filling", "copying_mode", "replacing"}

\* A file becomes read-only or custom by no run's doing.  While a run lives, no
\* report it is writing is read-only; the mode that is about to be put in place
\* is custom exactly if the one it replaces is; and what its probe is about to
\* remove is neither.  Beside a killed run a user's chmod is free.
ModeInv ==
  /\ \A t \in Temps : ~ReadOnly(t)
  /\ \A r \in Runs :
       /\ pc[r] \in {"filling", "copying_mode"} => dir[temp[r]].mode = "umask"
       /\ r \notin killed =>
            /\ pc[r] \in Writing /\ phase[r] = "write" => ~ReadOnly(Target(r))
            /\ pc[r] = "replacing" => (Custom(temp[r]) <=> Custom(Target(r)))
            /\ pc[r] = "probed" => ~Custom("md") /\ ~ReadOnly("md")

Core == TypeOK /\ TempInv /\ ProgressInv /\ TextInv /\ ModeInv

-----------------------------------------------------------------------------
(* What the operators return on typed states.                              *)

Todos == {<<>>, <<"md">>, <<"json">>, <<"md", "json">>}

\* The next output to treat, and where it is written.
LEMMA TodoFacts ==
  ASSUME TypeOK, NEW r \in Runs, todo[r] # <<>>
  PROVE  /\ Head(todo[r]) \in Names /\ Tail(todo[r]) \in Todos
         /\ Target(r) \in Names
         /\ layout = "distinct" => Target(r) = Head(todo[r])
<1>1. todo[r] \in Todos
  BY DEF TypeOK, Todos
<1>2. CASE todo[r] = <<"md">>
  BY <1>2 DEF Todos, Names, Target, Entry
<1>3. CASE todo[r] = <<"json">>
  BY <1>3 DEF Todos, Names, Target, Entry
<1>4. CASE todo[r] = <<"md", "json">>
  BY <1>4 DEF Todos, Names, Target, Entry
<1> QED BY <1>1, <1>2, <1>3, <1>4 DEF Todos

\* The outputs a run was given, in the scripts' order.
LEMMA PlanFacts ==
  ASSUME TypeOK, NEW r \in Runs
  PROVE  /\ Plan(r) \in Todos
         /\ outputs[r] = {} => Plan(r) = <<>>
         /\ outputs[r] = {"md"} => Plan(r) = <<"md">>
         /\ outputs[r] = {"json"} => Plan(r) = <<"json">>
         /\ outputs[r] = Names => Plan(r) = <<"md", "json">>
         /\ outputs[r] \in {{}, {"md"}, {"json"}, Names}
<1>1. outputs[r] \in SUBSET Names
  BY DEF TypeOK
<1>2. outputs[r] \in {{}, {"md"}, {"json"}, Names}
  BY <1>1 DEF Names
<1>3. /\ {} # {"md"} /\ {} # {"json"} /\ {} # Names
      /\ {"md"} # {"json"} /\ {"md"} # Names /\ {"json"} # Names
  <2>1. "md" \in Names /\ "json" \in Names /\ "md" # "json"
    BY DEF Names
  <2> QED BY <2>1
<1>4. CASE outputs[r] = {}
  BY <1>3, <1>4 DEF Plan, Todos
<1>5. CASE outputs[r] = {"md"}
  BY <1>3, <1>5 DEF Plan, Todos
<1>6. CASE outputs[r] = {"json"}
  BY <1>3, <1>6 DEF Plan, Todos
<1>7. CASE outputs[r] = Names
  BY <1>3, <1>7 DEF Plan, Todos
<1> QED BY <1>2, <1>3, <1>4, <1>5, <1>6, <1>7

\* A name that exists is a file's.
LEMMA FileFacts ==
  ASSUME TypeOK, NEW e \in Names \cup Temps, Exists(e)
  PROVE  /\ dir[e] \in Files
         /\ dir[e].by \in Runs \cup {"earlier"}
         /\ dir[e].text \in Names \cup {"empty", "partial"}
         /\ dir[e].mode \in Modes
BY DEF TypeOK, Exists, Files

\* A run's temporary file, while it has one, is a file under a name of its own.
LEMMA TempFacts ==
  ASSUME Core, NEW r \in Runs, pc[r] \in WithTemp
  PROVE  /\ temp[r] \in Temps /\ Exists(temp[r]) /\ dir[temp[r]].by = r /\ dir[temp[r]] \in Files
         /\ temp[r] \notin Names /\ temp[r] # None
         /\ \A q \in Runs \ {r} : temp[q] # temp[r]
         /\ todo[r] # <<>>
<1>1. temp[r] \in Temps /\ temp[r] # None
  BY DEF Core, TempInv, TypeOK
<1>2. Exists(temp[r]) /\ dir[temp[r]].by = r
  BY <1>1 DEF Core, TempInv
<1>3. \A q \in Runs \ {r} : temp[q] # temp[r]
  BY <1>1, <1>2 DEF Core, TempInv
<1>4. todo[r] # <<>>
  BY DEF Core, ProgressInv
<1> QED BY <1>1, <1>2, <1>3, <1>4, FileFacts, NamesAssumption DEF Core

-----------------------------------------------------------------------------
(* The steps that leave the directory alone.                               *)

\* Where a run has no file in the directory that it will remove or rename.
Empty == {"target", "naming", "looking_at_md", "looking_at_json", "probe"} \cup Exits

\* A run that only goes on.
LEMMA QuietStep ==
  ASSUME Core, NEW r \in Runs, NEW w \in Empty, pc[r] \in Empty,
         UNCHANGED <<layout, outputs, dir, temp, killed>>,
         pc' = [pc EXCEPT ![r] = w],
         \A q \in Runs \ {r} : phase'[q] = phase[q] /\ todo'[q] = todo[q],
         w \in {"looking_at_md", "looking_at_json", "probe"} => phase'[r] = "check",
         w = "naming" => /\ todo'[r] # <<>>
                         /\ phase'[r] = "write" => ~ReadOnly(Entry(Head(todo'[r])))
  PROVE  TempInv' /\ ProgressInv' /\ TextInv' /\ ModeInv'
<1>1. pc \in [Runs -> Exits \cup Fallible \cup {"testing", "probed"}] /\ pc'[r] = w
      /\ \A q \in Runs \ {r} : pc'[q] = pc[q]
  BY DEF Core, TypeOK
<1>2. \A e \in Names \cup Temps : Exists(e)' <=> Exists(e)
  BY DEF Exists
<1>3. w \notin WithTemp /\ pc[r] \notin WithTemp /\ w # "probed" /\ pc[r] # "probed"
  BY DEF Empty, WithTemp, Exits
<1>4. TempInv'
  BY <1>1, <1>3 DEF Core, TempInv, NoTempLeft, Exists
<1>5. ProgressInv'
  BY <1>1, <1>3 DEF Core, ProgressInv, WithTemp
<1>6. TextInv'
  <2>1. \A q \in Runs : pc'[q] \in {"copying_mode", "replacing"} => dir[temp[q]].text = Head(todo'[q])
    BY <1>1, <1>3 DEF Core, TextInv, WithTemp
  <2>2. DestinationWhole'
    <3>1. \A q \in Runs : pc[q] = "probed" => pc'[q] = "probed"
      BY <1>1, <1>3
    <3> QED BY <1>2, <3>1 DEF Core, TextInv, DestinationWhole, Whole
  <2> QED BY <2>1, <2>2 DEF TextInv
<1>7. ModeInv'
  <2>1. \A e : (ReadOnly(e)' <=> ReadOnly(e)) /\ (Custom(e)' <=> Custom(e))
    BY DEF ReadOnly, Custom, Exists
  <2>2. \A q \in Runs \ killed : pc'[q] \in Writing /\ phase'[q] = "write" => ~ReadOnly(Target(q))'
    <3>1. ASSUME NEW q \in Runs \ {r} PROVE Target(q)' = Target(q)
      BY DEF Target, Entry
    <3>2. Target(r)' = Entry(Head(todo'[r]))
      BY DEF Target, Entry
    <3>3. w \in Writing => w = "naming"
      BY <1>3 DEF Writing, WithTemp
    <3> QED BY <1>1, <2>1, <3>1, <3>2, <3>3 DEF Core, ModeInv
  <2>3. \A q \in Runs \ {r} : Target(q)' = Target(q)
    BY DEF Target, Entry
  <2> QED BY <1>1, <1>3, <2>1, <2>2, <2>3 DEF Core, ModeInv, WithTemp
<1> QED BY <1>4, <1>5, <1>6, <1>7

-----------------------------------------------------------------------------
(* Types.                                                                  *)

Places == Exits \cup Fallible \cup {"testing", "probed"}

\* A step leaves every variable within its type: in particular, no attempt of
\* _create_temp follows the last one.
LEMMA TypeStep ==
  ASSUME Core, NEW r \in Runs, Step(r)
  PROVE  TypeOK'
<1>1. /\ layout \in Layouts /\ outputs \in [Runs -> SUBSET Names]
      /\ dir \in [Names \cup Temps -> Files \cup {None}]
      /\ pc \in [Runs -> Places] /\ phase \in [Runs -> {"check", "write"}]
      /\ todo \in [Runs -> Todos] /\ temp \in [Runs -> Temps \cup {None}]
      /\ tries \in [Runs -> 0..(TempAttempts - 1)] /\ seen \in [Runs -> BOOLEAN] /\ killed \subseteq Runs
      /\ TempAttempts \in Nat \ {0}
  BY AttemptsAssumption DEF Core, TypeOK, Places, Todos
<1>2. ASSUME NEW w \in Places PROVE [pc EXCEPT ![r] = w] \in [Runs -> Places]
  BY <1>1
<1>3. [tries EXCEPT ![r] = 0] \in [Runs -> 0..(TempAttempts - 1)]
  BY <1>1
<1>4. [phase EXCEPT ![r] = "write"] \in [Runs -> {"check", "write"}]
  BY <1>1
<1>5. Plan(r) \in Todos
  BY PlanFacts DEF Core
<1>6. [todo EXCEPT ![r] = Plan(r)] \in [Runs -> Todos]
  BY <1>1, <1>5
<1>7. todo[r] # <<>> => [todo EXCEPT ![r] = Tail(@)] \in [Runs -> Todos]
  BY <1>1, TodoFacts DEF Core
<1>8. [temp EXCEPT ![r] = None] \in [Runs -> Temps \cup {None}]
  BY <1>1
<1>9. ASSUME NEW e \in Names \cup Temps, NEW f \in Files \cup {None}
      PROVE  [dir EXCEPT ![e] = f] \in [Names \cup Temps -> Files \cup {None}]
  BY <1>1
<1>10. {"target", "naming", "looking_at_md", "looking_at_json", "probe", "filling", "copying_mode",
        "replacing", "testing", "probed", "exit0", "exit2"} \subseteq Places
  BY DEF Places, Exits, Fallible
<1>11. {"umask", "private"} \subseteq Modes /\ "md" \in Names
  BY DEF Modes, Names
<1>12. ASSUME BeginWriting(r) PROVE pc' \in [Runs -> Places] /\ phase' \in [Runs -> {"check", "write"}] /\ todo' \in [Runs -> Todos]
  BY <1>2, <1>4, <1>6, <1>10, <1>12 DEF BeginWriting, Goto
<1> DEFINE Typed ==
         /\ layout' \in Layouts /\ outputs' \in [Runs -> SUBSET Names]
         /\ dir' \in [Names \cup Temps -> Files \cup {None}]
         /\ pc' \in [Runs -> Places] /\ phase' \in [Runs -> {"check", "write"}]
         /\ todo' \in [Runs -> Todos] /\ temp' \in [Runs -> Temps \cup {None}]
         /\ tries' \in [Runs -> 0..(TempAttempts - 1)] /\ seen' \in [Runs -> BOOLEAN] /\ killed' \subseteq Runs
<1> SUFFICES Typed
  BY DEF TypeOK, Places, Todos
<1>13. CASE CheckTarget(r)
  <2>1. pc' \in [Runs -> Places] /\ tries' \in [Runs -> 0..(TempAttempts - 1)]
    BY <1>2, <1>3, <1>10, <1>13 DEF CheckTarget, Goto
  <2>2. UNCHANGED <<layout, outputs, dir, phase, todo, temp, seen, killed>>
    BY <1>13 DEF CheckTarget
  <2> QED BY <1>1, <2>1, <2>2
<1>14. ASSUME NEW t \in Temps, CreateTemp(r, t) PROVE Typed
  <2>1. CASE ~Exists(t)
    <3>1. [by |-> r, text |-> "empty", mode |-> "umask"] \in Files
      BY <1>11 DEF Files
    <3>2. dir' = [dir EXCEPT ![t] = [by |-> r, text |-> "empty", mode |-> "umask"]] /\ temp' = [temp EXCEPT ![r] = t]
          /\ UNCHANGED <<layout, outputs, phase, todo, seen, killed, tries>>
      BY <1>14, <2>1 DEF CreateTemp
    <3>3. pc' = [pc EXCEPT ![r] = "testing"] \/ pc' = [pc EXCEPT ![r] = "filling"]
      BY <1>14, <2>1 DEF CreateTemp, Goto
    <3>4. pc' \in [Runs -> Places]
      BY <1>2, <1>10, <3>3
    <3>5. dir' \in [Names \cup Temps -> Files \cup {None}]
      BY <1>1, <3>1, <3>2
    <3>6. temp' \in [Runs -> Temps \cup {None}]
      BY <1>1, <3>2
    <3> QED BY <1>1, <3>2, <3>4, <3>5, <3>6
  <2>2. CASE Exists(t)
    <3>1. UNCHANGED <<dir, temp, layout, outputs, phase, todo, seen, killed>>
      BY <1>14, <2>2 DEF CreateTemp
    <3>2. CASE OutOfAttempts(r)
      BY <1>1, <1>2, <1>10, <1>14, <2>2, <3>1, <3>2 DEF CreateTemp, Goto
    <3>3. CASE ~OutOfAttempts(r)
      <4>1. tries' = [tries EXCEPT ![r] = @ + 1] /\ pc' = pc
        BY <1>14, <2>2, <3>3 DEF CreateTemp
      <4>2. tries[r] \in 0..(TempAttempts - 1) /\ tries[r] + 1 # TempAttempts
        BY <1>1, <3>3 DEF OutOfAttempts
      <4>3. tries[r] + 1 \in 0..(TempAttempts - 1)
        BY <1>1, <4>2
      <4>4. tries' \in [Runs -> 0..(TempAttempts - 1)]
        BY <1>1, <4>1, <4>3
      <4> QED BY <1>1, <3>1, <4>1, <4>4
    <3> QED BY <3>2, <3>3
  <2> QED BY <2>1, <2>2
<1>15. CASE RemoveTestFile(r)
  <2>1. temp[r] \in Temps /\ todo[r] # <<>>
    BY <1>15, TempFacts DEF RemoveTestFile, WithTemp
  <2>2. dir' \in [Names \cup Temps -> Files \cup {None}]
    BY <1>9, <1>15, <2>1 DEF RemoveTestFile
  <2>3. todo' \in [Runs -> Todos] /\ temp' \in [Runs -> Temps \cup {None}]
    BY <1>7, <1>8, <1>15, <2>1 DEF RemoveTestFile
  <2> QED BY <1>1, <1>2, <1>10, <1>15, <2>2, <2>3 DEF RemoveTestFile, Goto
<1>16. CASE Compare(r)
  <2>1. CASE outputs[r] # Names
    BY <1>1, <1>12, <1>16, <2>1 DEF Compare
  <2>2. CASE outputs[r] = Names
    BY <1>1, <1>2, <1>10, <1>16, <2>2 DEF Compare, Goto
  <2> QED BY <2>1, <2>2
<1>17. CASE LookAtReport(r)
  <2>1. Exists("md") \in BOOLEAN
    BY DEF Exists
  <2>2. seen' \in [Runs -> BOOLEAN]
    BY <1>1, <1>17, <2>1 DEF LookAtReport
  <2> QED BY <1>1, <1>2, <1>10, <1>17, <2>2 DEF LookAtReport, Goto
<1>18. CASE LookAtResults(r)
  <2>1. CASE BeginWriting(r)
    BY <1>1, <1>12, <1>18, <2>1 DEF LookAtResults
  <2>2. CASE ~BeginWriting(r)
    <3>1. UNCHANGED <<phase, todo>> /\ (Goto(r, "probe") \/ Goto(r, "exit2"))
      BY <1>18, <2>2 DEF LookAtResults
    <3> QED BY <1>1, <1>2, <1>10, <1>18, <3>1 DEF LookAtResults, Goto
  <2> QED BY <2>1, <2>2
<1>19. CASE Probe(r)
  <2>1. [by |-> r, text |-> "empty", mode |-> "private"] \in Files
    BY <1>11 DEF Files
  <2>2. dir' \in [Names \cup Temps -> Files \cup {None}]
    BY <1>1, <1>9, <1>11, <1>19, <2>1 DEF Probe
  <2>3. pc' \in [Runs -> Places]
    BY <1>2, <1>10, <1>19 DEF Probe, Goto
  <2> QED BY <1>1, <1>19, <2>2, <2>3 DEF Probe
<1>20. CASE RemoveProbe(r)
  <2>1. dir' \in [Names \cup Temps -> Files \cup {None}]
    BY <1>9, <1>11, <1>20 DEF RemoveProbe
  <2>2. CASE layout = "alias"
    BY <1>1, <1>2, <1>10, <1>20, <2>1, <2>2 DEF RemoveProbe, Goto
  <2>3. CASE layout # "alias"
    BY <1>1, <1>12, <1>20, <2>1, <2>3 DEF RemoveProbe
  <2> QED BY <2>2, <2>3
<1>21. CASE Fill(r)
  <2>1. temp[r] \in Temps /\ dir[temp[r]] \in Files /\ Head(todo[r]) \in Names
    BY <1>21, TempFacts, TodoFacts DEF Fill, WithTemp, Core
  <2>2. [dir[temp[r]] EXCEPT !.text = "partial"] \in Files
    BY <2>1 DEF Files
  <2>3. [dir[temp[r]] EXCEPT !.text = Head(todo[r])] \in Files
    BY <2>1 DEF Files
  <2>4. dir' = [dir EXCEPT ![temp[r]] = [dir[temp[r]] EXCEPT !.text = "partial"]]
        \/ dir' = [dir EXCEPT ![temp[r]] = [dir[temp[r]] EXCEPT !.text = Head(todo[r])]]
    BY <1>21 DEF Fill
  <2>5. dir' \in [Names \cup Temps -> Files \cup {None}]
    <3>1. temp[r] \in Names \cup Temps
      BY <2>1
    <3> QED BY <1>9, <2>2, <2>3, <2>4, <3>1
  <2>6. pc' \in [Runs -> Places]
    BY <1>1, <1>2, <1>10, <1>21 DEF Fill, Goto
  <2> QED BY <1>1, <1>21, <2>5, <2>6 DEF Fill
<1>22. CASE CopyExistingMode(r)
  <2>1. temp[r] \in Temps /\ dir[temp[r]] \in Files
    BY <1>22, TempFacts DEF CopyExistingMode, WithTemp
  <2>2. Target(r) \in Names
    BY <1>22, TempFacts, TodoFacts DEF CopyExistingMode, WithTemp, Core
  <2>3. CASE Exists(Target(r))
    <3>1. dir[Target(r)].mode \in Modes
      BY <2>2, <2>3, FileFacts DEF Core
    <3>2. [dir[temp[r]] EXCEPT !.mode = dir[Target(r)].mode] \in Files
      BY <2>1, <3>1 DEF Files
    <3>3. dir' = [dir EXCEPT ![temp[r]] = [dir[temp[r]] EXCEPT !.mode = dir[Target(r)].mode]]
      BY <1>22, <2>3 DEF CopyExistingMode, Target
    <3>4. dir' \in [Names \cup Temps -> Files \cup {None}]
      BY <1>9, <2>1, <3>2, <3>3
    <3> QED BY <1>1, <1>2, <1>10, <1>22, <3>4 DEF CopyExistingMode, Goto
  <2>4. CASE ~Exists(Target(r))
    BY <1>1, <1>2, <1>10, <1>22, <2>4 DEF CopyExistingMode, Goto, Target
  <2> QED BY <2>3, <2>4
<1>23. CASE Replace(r)
  <2>1. temp[r] \in Temps /\ dir[temp[r]] \in Files /\ Target(r) \in Names /\ todo[r] # <<>>
    BY <1>23, TempFacts, TodoFacts DEF Replace, WithTemp, Core
  <2>2. dir' = [dir EXCEPT ![Target(r)] = dir[temp[r]], ![temp[r]] = None]
    BY <1>23 DEF Replace, Target
  <2>3. dir' \in [Names \cup Temps -> Files \cup {None}]
    BY <1>1, <2>1, <2>2
  <2>4. todo' \in [Runs -> Todos] /\ temp' \in [Runs -> Temps \cup {None}] /\ pc' \in [Runs -> Places]
    BY <1>2, <1>7, <1>8, <1>10, <1>23, <2>1 DEF Replace, Goto
  <2> QED BY <1>1, <1>23, <2>3, <2>4 DEF Replace
<1>24. CASE Finish(r)
  BY <1>1, <1>2, <1>10, <1>24 DEF Finish, Goto
<1>25. CASE Fail(r)
  <2>1. dir' = dir \/ (temp[r] # None /\ dir' = [dir EXCEPT ![temp[r]] = None])
    BY <1>25 DEF Fail
  <2>2. dir' \in [Names \cup Temps -> Files \cup {None}]
    BY <1>1, <1>9, <2>1
  <2> QED BY <1>1, <1>2, <1>8, <1>10, <1>25, <2>2 DEF Fail, Goto
<1>26. CASE Kill(r)
  BY <1>1, <1>26 DEF Kill
<1> QED BY <1>13, <1>14, <1>15, <1>16, <1>17, <1>18, <1>19, <1>20, <1>21, <1>22, <1>23, <1>24, <1>25,
           <1>26 DEF Step

-----------------------------------------------------------------------------
(* One run's part of the invariant.                                        *)

RunInv(r) ==
  /\ temp[r] # None <=> pc[r] \in WithTemp
  /\ temp[r] # None => Exists(temp[r]) /\ dir[temp[r]].by = r
  /\ pc[r] \in {"testing", "looking_at_md", "looking_at_json", "probe", "probed"} => phase[r] = "check"
  /\ pc[r] \in {"filling", "copying_mode", "replacing"} => phase[r] = "write"
  /\ pc[r] \in WithTemp \cup {"naming"} => todo[r] # <<>>
  /\ pc[r] \in {"copying_mode", "replacing"} => dir[temp[r]].text = Head(todo[r])
  /\ pc[r] \in {"filling", "copying_mode"} => dir[temp[r]].mode = "umask"
  /\ r \notin killed =>
       /\ pc[r] \in Writing /\ phase[r] = "write" => ~ReadOnly(Target(r))
       /\ pc[r] = "replacing" => (Custom(temp[r]) <=> Custom(Target(r)))
       /\ pc[r] = "probed" => ~Custom("md") /\ ~ReadOnly("md")

\* Every run's part follows from the invariant.
LEMMA Parts == Core => \A r \in Runs : RunInv(r)
BY DEF Core, TempInv, ProgressInv, TextInv, ModeInv, RunInv

\* After a step, the parts and what is said of the directory make it up again.
LEMMA Reassembled ==
  ASSUME TypeOK', NoTempLeft', DestinationWhole', \A t \in Temps : ~ReadOnly(t)', \A r \in Runs : RunInv(r)'
  PROVE  Core'
BY DEF Core, TempInv, ProgressInv, TextInv, ModeInv, RunInv

\* No output becomes custom or read-only, or ceases to be.
ModesStay == \A n \in Names : (Custom(n)' <=> Custom(n)) /\ (ReadOnly(n)' <=> ReadOnly(n))

\* A run's part holds on when other runs step.
LEMMA OthersStep ==
  ASSUME Core, NEW q \in Runs, ModesStay, layout' = layout, killed' = killed,
         pc'[q] = pc[q], phase'[q] = phase[q], todo'[q] = todo[q], temp'[q] = temp[q],
         temp[q] # None => dir'[temp[q]] = dir[temp[q]]
  PROVE  RunInv(q)'
<1>1. RunInv(q)
  BY Parts
<1>2. Target(q)' = Target(q)
  BY DEF Target, Entry
<1>3. pc[q] \in Writing => Target(q) \in Names
  BY <1>1, TodoFacts DEF RunInv, Core, Writing, WithTemp
<1>4. temp[q] # None => (Custom(temp[q])' <=> Custom(temp[q])) /\ (Exists(temp[q])' <=> Exists(temp[q]))
  BY DEF Custom, Exists
<1>5. "md" \in Names
  BY DEF Names
<1>6. pc[q] \in Writing => (ReadOnly(Target(q))' <=> ReadOnly(Target(q))) /\ (Custom(Target(q))' <=> Custom(Target(q)))
  BY <1>2, <1>3 DEF ModesStay
<1>7. pc[q] = "replacing" => pc[q] \in Writing
  BY DEF Writing
<1> QED BY <1>1, <1>2, <1>4, <1>5, <1>6, <1>7 DEF RunInv, ModesStay, WithTemp

\* A run writes, creates or removes the one temporary file that is its own, or
\* that was nobody's.
LEMMA FileStep ==
  ASSUME Core, NEW r \in Runs, NEW t \in Temps,
         UNCHANGED <<layout, outputs, killed>>,
         \A e \in (Names \cup Temps) \ {t} : dir'[e] = dir[e],
         \A q \in Runs \ {r} : /\ pc'[q] = pc[q] /\ phase'[q] = phase[q] /\ todo'[q] = todo[q]
                               /\ temp'[q] = temp[q] /\ temp[q] # t,
         temp[r] \in {t, None},
         pc[r] # "probed",
         Exists(t)' => temp'[r] = t /\ dir'[t].by = r /\ dir'[t].mode # "readonly"
  PROVE  /\ NoTempLeft' /\ DestinationWhole'
         /\ \A s \in Temps : ~ReadOnly(s)'
         /\ ModesStay
         /\ \A q \in Runs \ {r} : RunInv(q)'
<1>1. \A n \in Names : dir'[n] = dir[n]
  BY NamesAssumption
<1>2. ModesStay
  BY <1>1 DEF ModesStay, Custom, ReadOnly, Exists
<1>3. NoTempLeft'
  <2> SUFFICES ASSUME NEW s \in Temps, Exists(s)' PROVE dir'[s].by \in Runs /\ temp'[dir'[s].by] = s
    BY DEF NoTempLeft
  <2>1. CASE s = t
    BY <2>1
  <2>2. CASE s # t
    <3>1. dir'[s] = dir[s] /\ Exists(s)
      BY <2>2 DEF Exists
    <3>2. dir[s].by \in Runs /\ temp[dir[s].by] = s
      BY <3>1 DEF Core, TempInv, NoTempLeft
    <3>3. s # None
      BY NamesAssumption
    <3>4. dir[s].by # r
      BY <2>2, <3>2, <3>3
    <3> QED BY <3>1, <3>2, <3>4
  <2> QED BY <2>1, <2>2
<1>4. DestinationWhole'
  <2>1. \A q \in Runs : pc[q] = "probed" => pc'[q] = "probed"
    OBVIOUS
  <2>2. DestinationWhole
    BY DEF Core, TextInv
  <2> QED BY <1>1, <2>1, <2>2 DEF DestinationWhole, Whole, Exists
<1>5. ASSUME NEW s \in Temps PROVE ~ReadOnly(s)'
  <2>1. ~ReadOnly(s)
    BY DEF Core, ModeInv
  <2>2. CASE s = t
    BY <2>2 DEF ReadOnly
  <2>3. CASE s # t
    BY <2>1, <2>3 DEF ReadOnly, Exists
  <2> QED BY <2>2, <2>3
<1>6. ASSUME NEW q \in Runs \ {r} PROVE RunInv(q)'
  <2>1. temp[q] \in Temps \cup {None}
    BY DEF Core, TypeOK
  <2>2. temp[q] # None => dir'[temp[q]] = dir[temp[q]]
    BY <2>1
  <2> QED BY <1>2, <2>2, OthersStep
<1> QED BY <1>2, <1>3, <1>4, <1>5, <1>6

\* The temporary file a run creates is its own, empty and with plain
\* permissions, and no other run's.
LEMMA CreateTempStep ==
  ASSUME Core, NEW r \in Runs \ killed, NEW t \in Temps, CreateTemp(r, t), ~Exists(t)
  PROVE  Core' /\ ModesStay
<1>1. /\ dir' = [dir EXCEPT ![t] = [by |-> r, text |-> "empty", mode |-> "umask"]]
      /\ temp' = [temp EXCEPT ![r] = t]
      /\ pc' = [pc EXCEPT ![r] = IF phase[r] = "check" THEN "testing" ELSE "filling"]
      /\ pc[r] = "naming"
      /\ UNCHANGED <<layout, outputs, phase, todo, killed>>
  BY DEF CreateTemp, Goto
<1>2. /\ dir \in [Names \cup Temps -> Files \cup {None}] /\ temp \in [Runs -> Temps \cup {None}]
      /\ pc \in [Runs -> Places] /\ phase \in [Runs -> {"check", "write"}]
  BY DEF Core, TypeOK, Places
<1>3. /\ dir'[t] = [by |-> r, text |-> "empty", mode |-> "umask"]
      /\ \A e \in (Names \cup Temps) \ {t} : dir'[e] = dir[e]
      /\ temp'[r] = t /\ pc'[r] = (IF phase[r] = "check" THEN "testing" ELSE "filling")
  BY <1>1, <1>2
<1>4. \A q \in Runs \ {r} : pc'[q] = pc[q] /\ phase'[q] = phase[q] /\ todo'[q] = todo[q] /\ temp'[q] = temp[q]
  BY <1>1, <1>2
<1>5. t # None
  BY NamesAssumption
<1>6. \A q \in Runs : temp[q] # t
  BY <1>5 DEF Core, TempInv
<1>7. temp[r] = None
  BY <1>1 DEF Core, TempInv, WithTemp
<1>8. /\ NoTempLeft' /\ DestinationWhole'
      /\ \A s \in Temps : ~ReadOnly(s)'
      /\ ModesStay
      /\ \A q \in Runs \ {r} : RunInv(q)'
  BY <1>1, <1>3, <1>4, <1>6, <1>7, FileStep
<1>9. RunInv(r)'
  <2>1. RunInv(r)
    BY Parts
  <2>2. Target(r)' = Target(r) /\ Target(r) \in Names /\ todo[r] # <<>>
        /\ (phase[r] = "write" => ~ReadOnly(Target(r)))
    BY <1>1, <2>1, TodoFacts DEF Target, Entry, RunInv, Core, Writing
  <2>3. phase[r] = "write" => ~ReadOnly(Target(r))'
    BY <1>8, <2>2 DEF ModesStay
  <2>4. [by |-> r, text |-> "empty", mode |-> "umask"] \in Files
    BY DEF Files, Names, Modes
  <2>5. Exists(t)'
    BY <1>3, <2>4, NoneAssumption DEF Exists
  <2>6. phase[r] \in {"check", "write"} /\ phase' = phase /\ todo' = todo
    BY <1>1, <1>2
  <2> QED BY <1>3, <1>5, <2>2, <2>3, <2>5, <2>6 DEF RunInv, WithTemp
<1>10. TypeOK'
  BY TypeStep DEF Step
<1> QED BY <1>8, <1>9, <1>10, Reassembled

\* A run removes its temporary file: check_writable at once, atomic_write_text
\* in its `finally`.
LEMMA RemoveStep ==
  ASSUME Core, NEW r \in Runs, pc[r] \in WithTemp, NEW w \in {"target", "exit2"}, TypeOK',
         UNCHANGED <<layout, outputs, phase, killed>>,
         dir' = [dir EXCEPT ![temp[r]] = None],
         temp' = [temp EXCEPT ![r] = None],
         pc' = [pc EXCEPT ![r] = w],
         \A q \in Runs \ {r} : todo'[q] = todo[q]
  PROVE  Core' /\ ModesStay
<1>1. /\ dir \in [Names \cup Temps -> Files \cup {None}] /\ temp \in [Runs -> Temps \cup {None}]
      /\ pc \in [Runs -> Places]
  BY DEF Core, TypeOK, Places
<1>2. PICK t \in Temps : t = temp[r] /\ \A q \in Runs \ {r} : temp[q] # t
  BY TempFacts
<1>3. /\ dir'[t] = None /\ \A e \in (Names \cup Temps) \ {t} : dir'[e] = dir[e]
      /\ temp'[r] = None /\ pc'[r] = w
      /\ \A q \in Runs \ {r} : pc'[q] = pc[q] /\ phase'[q] = phase[q] /\ todo'[q] = todo[q] /\ temp'[q] = temp[q]
  BY <1>1, <1>2
<1>4. pc[r] # "probed" /\ ~Exists(t)'
  BY <1>3 DEF WithTemp, Exists
<1>5. /\ NoTempLeft' /\ DestinationWhole'
      /\ \A s \in Temps : ~ReadOnly(s)'
      /\ ModesStay
      /\ \A q \in Runs \ {r} : RunInv(q)'
  BY <1>2, <1>3, <1>4, FileStep
<1>6. RunInv(r)'
  BY <1>3 DEF RunInv, WithTemp, Writing
<1> QED BY <1>5, <1>6, Reassembled

\* The write of the text, in parts: the file is renamed only after the last.
LEMMA FillStep ==
  ASSUME Core, NEW r \in Runs \ killed, Fill(r)
  PROVE  Core' /\ ModesStay
<1>1. /\ dir \in [Names \cup Temps -> Files \cup {None}] /\ temp \in [Runs -> Temps \cup {None}]
      /\ pc \in [Runs -> Places]
  BY DEF Core, TypeOK, Places
<1>2. pc[r] = "filling" /\ UNCHANGED <<layout, outputs, phase, todo, temp, killed>>
  BY DEF Fill
<1>3. PICK t \in Temps : t = temp[r] /\ \A q \in Runs \ {r} : temp[q] # t
  BY <1>2, TempFacts DEF WithTemp
<1>4. Exists(t) /\ dir[t].by = r /\ dir[t] \in Files /\ dir[t].mode = "umask" /\ Target(r) \in Names
      /\ Head(todo[r]) \in Names /\ todo[r] # <<>>
  BY <1>2, <1>3, TempFacts, TodoFacts DEF WithTemp, Core, ModeInv
<1>5. \/ pc' = pc /\ dir' = [dir EXCEPT ![t] = [dir[t] EXCEPT !.text = "partial"]]
      \/ pc' = [pc EXCEPT ![r] = "copying_mode"] /\ dir' = [dir EXCEPT ![t] = [dir[t] EXCEPT !.text = Head(todo[r])]]
  BY <1>3 DEF Fill, Goto
<1>6. /\ dir'[t] \in Files /\ dir'[t].by = r /\ dir'[t].mode = "umask"
      /\ \A e \in (Names \cup Temps) \ {t} : dir'[e] = dir[e]
      /\ \A q \in Runs \ {r} : pc'[q] = pc[q]
      /\ pc'[r] = "filling" \/ (pc'[r] = "copying_mode" /\ dir'[t].text = Head(todo[r]))
  <2>1. CASE pc' = pc /\ dir' = [dir EXCEPT ![t] = [dir[t] EXCEPT !.text = "partial"]]
    BY <1>1, <1>2, <1>4, <2>1 DEF Files
  <2>2. CASE pc' = [pc EXCEPT ![r] = "copying_mode"] /\ dir' = [dir EXCEPT ![t] = [dir[t] EXCEPT !.text = Head(todo[r])]]
    BY <1>1, <1>2, <1>4, <2>2 DEF Files
  <2> QED BY <1>5, <2>1, <2>2
<1>7. Exists(t)'
  BY <1>6, NoneAssumption DEF Exists
<1>8. /\ NoTempLeft' /\ DestinationWhole'
      /\ \A s \in Temps : ~ReadOnly(s)'
      /\ ModesStay
      /\ \A q \in Runs \ {r} : RunInv(q)'
  BY <1>2, <1>3, <1>6, FileStep
<1>9. RunInv(r)'
  <2>1. RunInv(r)
    BY Parts
  <2>2. Target(r)' = Target(r) /\ ~ReadOnly(Target(r))
    BY <1>2, <2>1 DEF Target, Entry, RunInv, Writing
  <2>3. ~ReadOnly(Target(r))'
    BY <1>4, <1>8, <2>2 DEF ModesStay
  <2>4. phase[r] = "write" /\ t # None
    BY <1>2, <2>1, NamesAssumption DEF RunInv
  <2> QED BY <1>2, <1>3, <1>4, <1>6, <1>7, <2>3, <2>4 DEF RunInv, WithTemp
<1>10. TypeOK'
  BY TypeStep DEF Step
<1> QED BY <1>8, <1>9, <1>10, Reassembled

\* _copy_existing_mode: the temporary file is custom exactly if the report is.
LEMMA CopyStep ==
  ASSUME Core, NEW r \in Runs \ killed, CopyExistingMode(r)
  PROVE  Core' /\ ModesStay
<1>1. /\ dir \in [Names \cup Temps -> Files \cup {None}] /\ temp \in [Runs -> Temps \cup {None}]
      /\ pc \in [Runs -> Places]
  BY DEF Core, TypeOK, Places
<1>2. pc[r] = "copying_mode" /\ pc' = [pc EXCEPT ![r] = "replacing"]
      /\ UNCHANGED <<layout, outputs, phase, todo, temp, killed>>
  BY DEF CopyExistingMode, Goto
<1>3. PICK t \in Temps : t = temp[r] /\ \A q \in Runs \ {r} : temp[q] # t
  BY <1>2, TempFacts DEF WithTemp
<1>4. Exists(t) /\ dir[t].by = r /\ dir[t] \in Files /\ dir[t].mode = "umask" /\ Target(r) \in Names
      /\ todo[r] # <<>> /\ dir[t].text = Head(todo[r]) /\ ~ReadOnly(Target(r))
  BY <1>2, <1>3, TempFacts, TodoFacts DEF WithTemp, Writing, Core, ProgressInv, ModeInv, TextInv
<1>5. /\ dir'[t] \in Files /\ dir'[t].by = r /\ dir'[t].mode # "readonly" /\ dir'[t].text = Head(todo[r])
      /\ dir'[t].mode = "custom" <=> Custom(Target(r))
      /\ \A e \in (Names \cup Temps) \ {t} : dir'[e] = dir[e]
  <2>1. CASE Exists(Target(r))
    <3>1. dir[Target(r)].mode \in Modes
      BY <1>4, <2>1, FileFacts DEF Core
    <3>2. dir' = [dir EXCEPT ![t] = [dir[t] EXCEPT !.mode = dir[Target(r)].mode]]
      BY <1>3, <2>1 DEF CopyExistingMode, Target
    <3>3. dir'[t] = [dir[t] EXCEPT !.mode = dir[Target(r)].mode] /\ \A e \in (Names \cup Temps) \ {t} : dir'[e] = dir[e]
      BY <1>1, <3>2
    <3> QED BY <1>4, <2>1, <3>1, <3>3 DEF Files, Custom, ReadOnly
  <2>2. CASE ~Exists(Target(r))
    <3>1. dir' = dir
      BY <2>2 DEF CopyExistingMode, Target
    <3> QED BY <1>4, <2>2, <3>1 DEF Custom
  <2> QED BY <2>1, <2>2
<1>6. Exists(t)' /\ pc'[r] = "replacing" /\ \A q \in Runs \ {r} : pc'[q] = pc[q]
  BY <1>1, <1>2, <1>5, NoneAssumption DEF Exists
<1>7. /\ NoTempLeft' /\ DestinationWhole'
      /\ \A s \in Temps : ~ReadOnly(s)'
      /\ ModesStay
      /\ \A q \in Runs \ {r} : RunInv(q)'
  BY <1>2, <1>3, <1>5, <1>6, FileStep
<1>8. RunInv(r)'
  <2>1. Target(r)' = Target(r)
    BY <1>2 DEF Target, Entry
  <2>2. ~ReadOnly(Target(r))' /\ (Custom(Target(r))' <=> Custom(Target(r)))
    BY <1>4, <1>7, <2>1 DEF ModesStay
  <2>3. phase[r] = "write" /\ t # None /\ temp'[r] = t
    BY <1>2, <1>3, Parts, NamesAssumption DEF RunInv
  <2>4. Custom(t)' <=> Custom(Target(r))
    BY <1>5, <1>6 DEF Custom
  <2> QED BY <1>2, <1>4, <1>5, <1>6, <2>2, <2>3, <2>4 DEF RunInv, WithTemp
<1>9. TypeOK'
  BY TypeStep DEF Step
<1> QED BY <1>7, <1>8, <1>9, Reassembled

-----------------------------------------------------------------------------
(* The steps that touch an output's name.                                  *)

\* What a read-only output holds does not change.
ReadOnlyStays == \A n \in Names : ReadOnly(n) => dir'[n] = dir[n]

\* The probe creates the report where there was none: an empty file of its own.
LEMMA ProbeStep ==
  ASSUME Core, NEW r \in Runs \ killed, Probe(r)
  PROVE  Core' /\ ModesStay /\ ReadOnlyStays
<1>1. TypeOK'
  BY TypeStep DEF Step
<1>2. /\ dir \in [Names \cup Temps -> Files \cup {None}] /\ pc \in [Runs -> Places] /\ "md" \in Names
      /\ temp \in [Runs -> Temps \cup {None}]
      /\ pc[r] = "probe" /\ UNCHANGED <<layout, outputs, phase, todo, temp, killed>>
  BY DEF Core, TypeOK, Places, Names, Probe
<1>3. CASE Exists("md")
  <2>1. pc' = [pc EXCEPT ![r] = "exit2"] /\ dir' = dir
    BY <1>3 DEF Probe, Goto
  <2>2. TempInv' /\ ProgressInv' /\ TextInv' /\ ModeInv'
    BY <1>2, <2>1, QuietStep DEF Empty, Exits
  <2> QED BY <1>1, <2>1, <2>2 DEF Core, ModesStay, ReadOnlyStays, Custom, ReadOnly, Exists
<1>4. CASE ~Exists("md")
  <2>1. /\ dir' = [dir EXCEPT !["md"] = [by |-> r, text |-> "empty", mode |-> "private"]]
        /\ pc' = [pc EXCEPT ![r] = "probed"]
    BY <1>4 DEF Probe, Goto
  <2>2. /\ dir'["md"] = [by |-> r, text |-> "empty", mode |-> "private"]
        /\ \A e \in (Names \cup Temps) \ {"md"} : dir'[e] = dir[e]
        /\ pc'[r] = "probed" /\ \A q \in Runs \ {r} : pc'[q] = pc[q]
        /\ "md" \notin Temps
    BY <1>2, <2>1, NamesAssumption
  <2>3. ~Custom("md")' /\ ~ReadOnly("md")'
    BY <2>2 DEF Custom, ReadOnly
  <2>4. ModesStay /\ ReadOnlyStays
    BY <1>4, <2>2, <2>3 DEF ModesStay, ReadOnlyStays, Custom, ReadOnly, Exists
  <2>5. NoTempLeft'
    BY <1>2, <2>2 DEF Core, TempInv, NoTempLeft, Exists
  <2>6. DestinationWhole'
    <3> SUFFICES ASSUME NEW n \in Names, Exists(n)'
                 PROVE  \/ Whole(dir'[n]) /\ (layout = "distinct" => dir'[n].text = n)
                        \/ n = "md" /\ dir'[n].text = "empty" /\ dir'[n].by \in Runs /\ pc'[dir'[n].by] = "probed"
      BY <1>2 DEF DestinationWhole, Whole
    <3>1. CASE n = "md"
      BY <2>2, <3>1
    <3>2. CASE n # "md"
      BY <2>2, <3>2 DEF Core, TextInv, DestinationWhole, Exists
    <3> QED BY <3>1, <3>2
  <2>7. ASSUME NEW t \in Temps PROVE ~ReadOnly(t)'
    BY <2>2 DEF Core, ModeInv, ReadOnly, Exists
  <2>8. ASSUME NEW q \in Runs \ {r} PROVE RunInv(q)'
    <3>1. temp[q] # None => dir'[temp[q]] = dir[temp[q]]
      BY <1>2, <2>2
    <3> QED BY <1>2, <2>2, <2>4, <3>1, OthersStep
  <2>9. RunInv(r)'
    BY <1>2, <2>2, <2>3, Parts DEF RunInv, WithTemp
  <2> QED BY <1>1, <2>4, <2>5, <2>6, <2>7, <2>8, <2>9, Reassembled
<1> QED BY <1>3, <1>4

\* The probe removes the report it finds under its name.
LEMMA RemoveProbeStep ==
  ASSUME Core, NEW r \in Runs \ killed, RemoveProbe(r)
  PROVE  Core' /\ ModesStay /\ ReadOnlyStays
<1>1. TypeOK'
  BY TypeStep DEF Step
<1>2. /\ dir \in [Names \cup Temps -> Files \cup {None}] /\ pc \in [Runs -> Places] /\ "md" \in Names
      /\ temp \in [Runs -> Temps \cup {None}] /\ phase \in [Runs -> {"check", "write"}] /\ todo \in [Runs -> Todos]
      /\ pc[r] = "probed" /\ dir' = [dir EXCEPT !["md"] = None] /\ UNCHANGED <<layout, outputs, temp, killed>>
  BY DEF Core, TypeOK, Places, Todos, Names, RemoveProbe
<1>3. /\ pc'[r] \in {"exit2", "target"}
      /\ \A q \in Runs \ {r} : pc'[q] = pc[q] /\ phase'[q] = phase[q] /\ todo'[q] = todo[q]
  <2>1. CASE layout = "alias"
    BY <1>2, <2>1 DEF RemoveProbe, Goto
  <2>2. CASE layout # "alias"
    BY <1>2, <2>2 DEF RemoveProbe, BeginWriting, Goto
  <2> QED BY <2>1, <2>2
<1>4. /\ dir'["md"] = None
      /\ \A e \in (Names \cup Temps) \ {"md"} : dir'[e] = dir[e]
      /\ "md" \notin Temps
  BY <1>2, NamesAssumption
<1>5. ~Exists("md")'
  BY <1>4 DEF Exists
<1>6. ModesStay /\ ReadOnlyStays
  <2>1. ~Custom("md") /\ ~ReadOnly("md")
    BY <1>2 DEF Core, ModeInv
  <2> QED BY <1>4, <1>5, <2>1 DEF ModesStay, ReadOnlyStays, Custom, ReadOnly, Exists
<1>7. NoTempLeft'
  BY <1>2, <1>4 DEF Core, TempInv, NoTempLeft, Exists
<1>8. DestinationWhole'
  <2> SUFFICES ASSUME NEW n \in Names, Exists(n)'
               PROVE  Whole(dir'[n]) /\ (layout = "distinct" => dir'[n].text = n)
    BY <1>2 DEF DestinationWhole, Whole
  <2>1. n # "md"
    BY <1>5
  <2> QED BY <1>4, <2>1 DEF Core, TextInv, DestinationWhole, Exists
<1>9. ASSUME NEW t \in Temps PROVE ~ReadOnly(t)'
  BY <1>4 DEF Core, ModeInv, ReadOnly, Exists
<1>10. ASSUME NEW q \in Runs \ {r} PROVE RunInv(q)'
  <2>1. temp[q] # None => dir'[temp[q]] = dir[temp[q]]
    BY <1>2, <1>4
  <2> QED BY <1>2, <1>3, <1>6, <2>1, OthersStep
<1>11. RunInv(r)'
  BY <1>2, <1>3, Parts DEF RunInv, WithTemp, Writing
<1> QED BY <1>1, <1>6, <1>7, <1>8, <1>9, <1>10, <1>11, Reassembled

\* os.replace puts a whole text in place, with the permissions of what it
\* replaces.
LEMMA ReplaceStep ==
  ASSUME Core, NEW r \in Runs \ killed, Replace(r)
  PROVE  Core' /\ ModesStay /\ ReadOnlyStays
<1>1. TypeOK'
  BY TypeStep DEF Step
<1>2. /\ dir \in [Names \cup Temps -> Files \cup {None}] /\ pc \in [Runs -> Places]
      /\ temp \in [Runs -> Temps \cup {None}] /\ todo \in [Runs -> Todos]
      /\ pc[r] = "replacing" /\ UNCHANGED <<layout, outputs, phase, killed>>
      /\ pc' = [pc EXCEPT ![r] = "target"] /\ temp' = [temp EXCEPT ![r] = None] /\ todo' = [todo EXCEPT ![r] = Tail(@)]
  BY DEF Core, TypeOK, Places, Todos, Replace, Goto
<1>3. PICK t \in Temps : t = temp[r] /\ \A q \in Runs \ {r} : temp[q] # t
  BY <1>2, TempFacts DEF WithTemp
<1>4. PICK n \in Names : n = Target(r)
  BY <1>2, TempFacts, TodoFacts DEF WithTemp, Core
<1>5. dir[t].text = Head(todo[r]) /\ Head(todo[r]) \in Names /\ ~ReadOnly(n) /\ (Custom(t) <=> Custom(n))
      /\ ~ReadOnly(t) /\ Exists(t) /\ (layout = "distinct" => n = Head(todo[r])) /\ n \notin Temps /\ t \notin Names /\ t # None
  BY <1>2, <1>3, <1>4, TempFacts, TodoFacts, NamesAssumption DEF WithTemp, Writing, Core, ProgressInv, TextInv, ModeInv
<1>6. dir' = [dir EXCEPT ![n] = dir[t], ![t] = None]
  BY <1>3, <1>4 DEF Replace, Target
<1>7. /\ dir'[n] = dir[t] /\ dir'[t] = None /\ \A e \in (Names \cup Temps) \ {n, t} : dir'[e] = dir[e]
      /\ pc'[r] = "target" /\ temp'[r] = None
      /\ \A q \in Runs \ {r} : pc'[q] = pc[q] /\ phase'[q] = phase[q] /\ todo'[q] = todo[q] /\ temp'[q] = temp[q]
  BY <1>2, <1>5, <1>6
<1>8. ModesStay /\ ReadOnlyStays
  <2>1. (Custom(n)' <=> Custom(n)) /\ (ReadOnly(n)' <=> ReadOnly(n))
    BY <1>5, <1>7 DEF Custom, ReadOnly, Exists
  <2>2. \A k \in Names \ {n} : dir'[k] = dir[k]
    BY <1>5, <1>7
  <2> QED BY <1>5, <2>1, <2>2 DEF ModesStay, ReadOnlyStays, Custom, ReadOnly, Exists
<1>9. ~Exists(t)'
  BY <1>7 DEF Exists
<1>10. NoTempLeft'
  <2> SUFFICES ASSUME NEW s \in Temps, Exists(s)' PROVE dir'[s].by \in Runs /\ temp'[dir'[s].by] = s
    BY DEF NoTempLeft
  <2>1. s # t /\ s # n
    BY <1>5, <1>9
  <2>2. dir'[s] = dir[s] /\ Exists(s)
    BY <1>7, <2>1 DEF Exists
  <2>3. dir[s].by \in Runs /\ temp[dir[s].by] = s
    BY <2>2 DEF Core, TempInv, NoTempLeft
  <2>4. dir[s].by # r
    BY <1>3, <2>1, <2>3
  <2> QED BY <1>7, <2>2, <2>3, <2>4
<1>11. DestinationWhole'
  <2> SUFFICES ASSUME NEW k \in Names, Exists(k)'
               PROVE  \/ Whole(dir'[k]) /\ (layout = "distinct" => dir'[k].text = k)
                      \/ k = "md" /\ dir'[k].text = "empty" /\ dir'[k].by \in Runs /\ pc'[dir'[k].by] = "probed"
    BY <1>2 DEF DestinationWhole, Whole
  <2>1. CASE k = n
    BY <1>5, <1>7, <2>1 DEF Whole
  <2>2. CASE k # n
    <3>1. dir'[k] = dir[k] /\ Exists(k)
      BY <1>5, <1>7, <2>2 DEF Exists
    <3>2. \A q \in Runs : pc[q] = "probed" => pc'[q] = "probed"
      BY <1>2, <1>7
    <3> QED BY <3>1, <3>2 DEF Core, TextInv, DestinationWhole
  <2> QED BY <2>1, <2>2
<1>12. ASSUME NEW s \in Temps PROVE ~ReadOnly(s)'
  <2>1. s # n /\ ~ReadOnly(s)
    BY <1>5 DEF Core, ModeInv
  <2> QED BY <1>7, <1>9, <2>1 DEF ReadOnly, Exists
<1>13. ASSUME NEW q \in Runs \ {r} PROVE RunInv(q)'
  <2>1. temp[q] \in Temps \cup {None} /\ temp[q] # t
    BY <1>2, <1>3
  <2>2. temp[q] # None => dir'[temp[q]] = dir[temp[q]]
    BY <1>5, <1>7, <2>1
  <2> QED BY <1>2, <1>7, <1>8, <2>2, OthersStep
<1>14. RunInv(r)'
  BY <1>7 DEF RunInv, WithTemp, Writing
<1> QED BY <1>1, <1>8, <1>10, <1>11, <1>12, <1>13, <1>14, Reassembled

-----------------------------------------------------------------------------
(* Every step.                                                             *)

\* No other step changes what is at an output's name.
LEMMA NamesUntouched ==
  ASSUME Core, NEW r \in Runs, Step(r), ~Probe(r), ~RemoveProbe(r), ~Replace(r)
  PROVE  \A n \in Names : dir'[n] = dir[n]
<1>1. dir \in [Names \cup Temps -> Files \cup {None}] /\ \A t \in Temps : t \notin Names
  BY NamesAssumption DEF Core, TypeOK
<1>2. temp[r] \in Temps \cup {None} /\ (pc[r] \in WithTemp => temp[r] \in Temps)
  BY TempFacts DEF Core, TypeOK
<1>3. \/ dir' = dir
      \/ temp[r] \in Temps /\ \E f : dir' = [dir EXCEPT ![temp[r]] = f]
      \/ \E t \in Temps : \E f : dir' = [dir EXCEPT ![t] = f]
  <2>1. CASE dir' = dir
    BY <2>1
  <2>2. ASSUME NEW t \in Temps, CreateTemp(r, t) PROVE dir' = dir \/ \E f : dir' = [dir EXCEPT ![t] = f]
    BY <2>2 DEF CreateTemp
  <2>3. CASE RemoveTestFile(r)
    BY <1>2, <2>3 DEF RemoveTestFile, WithTemp
  <2>4. CASE Fill(r)
    BY <1>2, <2>4 DEF Fill, WithTemp
  <2>5. CASE CopyExistingMode(r)
    BY <1>2, <2>5 DEF CopyExistingMode, WithTemp
  <2>6. CASE Fail(r)
    BY <1>2, <2>6 DEF Fail
  <2>7. CheckTarget(r) \/ Compare(r) \/ LookAtReport(r) \/ LookAtResults(r) \/ Finish(r) \/ Kill(r) => dir' = dir
    BY DEF CheckTarget, Compare, LookAtReport, LookAtResults, Finish, Kill
  <2> QED BY <2>1, <2>2, <2>3, <2>4, <2>5, <2>6, <2>7 DEF Step
<1> QED BY <1>1, <1>3

\* A step of any run preserves the invariant, and changes no permissions.
LEMMA CoreStep ==
  ASSUME Core, NEW r \in Runs \ killed, Step(r)
  PROVE  Core' /\ ModesStay /\ ReadOnlyStays
<1>1. TypeOK'
  BY TypeStep
<1>2. /\ phase \in [Runs -> {"check", "write"}] /\ todo \in [Runs -> Todos] /\ pc \in [Runs -> Places]
      /\ temp \in [Runs -> Temps \cup {None}]
  BY DEF Core, TypeOK, Todos, Places
<1>3. ASSUME ~Probe(r), ~RemoveProbe(r), ~Replace(r) PROVE ModesStay /\ ReadOnlyStays
  BY <1>3, NamesUntouched DEF ModesStay, ReadOnlyStays, Custom, ReadOnly, Exists
<1>4. ASSUME UNCHANGED <<layout, outputs, dir, phase, todo, temp, killed>>, pc[r] \in Empty,
             NEW w \in Empty, pc' = [pc EXCEPT ![r] = w],
             w \in {"looking_at_md", "looking_at_json", "probe"} => phase[r] = "check",
             w = "naming" => todo[r] # <<>> /\ (phase[r] = "write" => ~ReadOnly(Target(r)))
      PROVE  Core' /\ ModesStay /\ ReadOnlyStays
  <2>1. \A q \in Runs \ {r} : phase'[q] = phase[q] /\ todo'[q] = todo[q]
    BY <1>4
  <2>2. w \in {"looking_at_md", "looking_at_json", "probe"} => phase'[r] = "check"
    BY <1>4
  <2>3. w = "naming" => todo'[r] # <<>> /\ (phase'[r] = "write" => ~ReadOnly(Entry(Head(todo'[r]))))
    BY <1>4 DEF Target
  <2>4. TempInv' /\ ProgressInv' /\ TextInv' /\ ModeInv'
    BY <1>4, <2>1, <2>2, <2>3, QuietStep
  <2> QED BY <1>1, <1>4, <2>4 DEF Core, ModesStay, ReadOnlyStays, Custom, ReadOnly, Exists
<1>5. ASSUME BeginWriting(r), pc[r] \in Empty, UNCHANGED <<layout, outputs, dir, temp, killed>>
      PROVE  Core' /\ ModesStay /\ ReadOnlyStays
  <2>1. pc' = [pc EXCEPT ![r] = "target"] /\ \A q \in Runs \ {r} : phase'[q] = phase[q] /\ todo'[q] = todo[q]
    BY <1>2, <1>5 DEF BeginWriting, Goto
  <2>2. TempInv' /\ ProgressInv' /\ TextInv' /\ ModeInv'
    BY <1>5, <2>1, QuietStep DEF Empty
  <2> QED BY <1>1, <1>5, <2>2 DEF Core, ModesStay, ReadOnlyStays, Custom, ReadOnly, Exists
<1>6. CASE CheckTarget(r)
  <2>1. pc[r] = "target" /\ todo[r] # <<>> /\ UNCHANGED <<layout, outputs, dir, temp, phase, todo, killed>>
    BY <1>6 DEF CheckTarget
  <2>2. CASE Refuses(r)
    <3>1. pc' = [pc EXCEPT ![r] = "exit2"]
      BY <1>6, <2>2 DEF CheckTarget, Goto
    <3> QED BY <1>4, <2>1, <3>1 DEF Empty, Exits
  <2>3. CASE ~Refuses(r)
    <3>1. pc' = [pc EXCEPT ![r] = "naming"] /\ ~ReadOnly(Target(r))
      BY <1>6, <2>3 DEF CheckTarget, Goto, Refuses, ReadOnly, Target
    <3> QED BY <1>4, <2>1, <3>1 DEF Empty
  <2> QED BY <2>2, <2>3
<1>7. ASSUME NEW t \in Temps, CreateTemp(r, t) PROVE Core' /\ ModesStay /\ ReadOnlyStays
  <2>1. CASE ~Exists(t)
    BY <1>3, <1>7, <2>1, CreateTempStep DEF CreateTemp, Probe, RemoveProbe, Replace
  <2>2. CASE Exists(t)
    <3>1. pc[r] = "naming" /\ UNCHANGED <<layout, outputs, phase, todo, dir, temp, killed>>
      BY <1>7, <2>2 DEF CreateTemp
    <3>2. todo[r] # <<>> /\ (phase[r] = "write" => ~ReadOnly(Target(r)))
      BY <3>1, Parts DEF RunInv, Writing
    <3>3. CASE OutOfAttempts(r)
      <4>1. pc' = [pc EXCEPT ![r] = "exit2"]
        BY <1>7, <2>2, <3>3 DEF CreateTemp, Goto
      <4> QED BY <1>4, <3>1, <4>1 DEF Empty, Exits
    <3>4. CASE ~OutOfAttempts(r)
      <4>1. pc' = [pc EXCEPT ![r] = "naming"]
        BY <1>2, <1>7, <2>2, <3>1, <3>4 DEF CreateTemp
      <4> QED BY <1>4, <3>1, <3>2, <4>1 DEF Empty
    <3> QED BY <3>3, <3>4
  <2> QED BY <2>1, <2>2
<1>8. CASE RemoveTestFile(r)
  <2>1. \A q \in Runs \ {r} : todo'[q] = todo[q]
    BY <1>2, <1>8 DEF RemoveTestFile
  <2>2. Core' /\ ModesStay
    <3>1. pc[r] = "testing" /\ pc' = [pc EXCEPT ![r] = "target"] /\ UNCHANGED <<layout, outputs, phase, killed>>
          /\ dir' = [dir EXCEPT ![temp[r]] = None] /\ temp' = [temp EXCEPT ![r] = None]
      BY <1>8 DEF RemoveTestFile, Goto
    <3> QED BY <1>1, <2>1, <3>1, RemoveStep DEF WithTemp
  <2> QED BY <1>3, <1>8, <2>2 DEF RemoveTestFile, Probe, RemoveProbe, Replace
<1>9. CASE Compare(r)
  <2>1. pc[r] = "target" /\ phase[r] = "check" /\ UNCHANGED <<layout, outputs, dir, temp, killed>>
    BY <1>9 DEF Compare
  <2>2. CASE BeginWriting(r)
    BY <1>5, <2>1, <2>2 DEF Empty
  <2>3. CASE ~BeginWriting(r)
    <3>1. UNCHANGED <<phase, todo>> /\ (pc' = [pc EXCEPT ![r] = "exit2"] \/ pc' = [pc EXCEPT ![r] = "looking_at_md"])
      BY <1>9, <2>3 DEF Compare, Goto
    <3>2. "exit2" \in Empty /\ "looking_at_md" \in Empty /\ pc[r] \in Empty
      BY <2>1 DEF Empty, Exits
    <3> QED BY <1>4, <2>1, <3>1, <3>2
  <2> QED BY <2>2, <2>3
<1>10. CASE LookAtReport(r)
  <2>1. phase[r] = "check" /\ pc[r] = "looking_at_md" /\ pc' = [pc EXCEPT ![r] = "looking_at_json"]
        /\ UNCHANGED <<layout, outputs, dir, phase, todo, temp, killed>>
    BY <1>10, Parts DEF RunInv, LookAtReport, Goto
  <2> QED BY <1>4, <2>1 DEF Empty
<1>11. CASE LookAtResults(r)
  <2>1. pc[r] = "looking_at_json" /\ phase[r] = "check" /\ UNCHANGED <<layout, outputs, dir, temp, killed>>
    BY <1>11, Parts DEF RunInv, LookAtResults
  <2>2. CASE BeginWriting(r)
    BY <1>5, <2>1, <2>2 DEF Empty
  <2>3. CASE ~BeginWriting(r)
    <3>1. UNCHANGED <<phase, todo>> /\ (pc' = [pc EXCEPT ![r] = "probe"] \/ pc' = [pc EXCEPT ![r] = "exit2"])
      BY <1>11, <2>3 DEF LookAtResults, Goto
    <3>2. "exit2" \in Empty /\ "probe" \in Empty /\ pc[r] \in Empty
      BY <2>1 DEF Empty, Exits
    <3> QED BY <1>4, <2>1, <3>1, <3>2
  <2> QED BY <2>2, <2>3
<1>12. CASE Probe(r)
  BY <1>12, ProbeStep
<1>13. CASE RemoveProbe(r)
  BY <1>13, RemoveProbeStep
<1>14. CASE Fill(r)
  BY <1>3, <1>14, FillStep DEF Fill, Probe, RemoveProbe, Replace
<1>15. CASE CopyExistingMode(r)
  BY <1>3, <1>15, CopyStep DEF CopyExistingMode, Probe, RemoveProbe, Replace
<1>16. CASE Replace(r)
  BY <1>16, ReplaceStep
<1>17. CASE Finish(r)
  <2>1. pc[r] = "target" /\ pc' = [pc EXCEPT ![r] = "exit0"] /\ UNCHANGED <<layout, outputs, dir, phase, todo, temp, killed>>
    BY <1>17 DEF Finish, Goto
  <2> QED BY <1>4, <2>1 DEF Empty, Exits
<1>18. CASE Fail(r)
  <2>1. pc' = [pc EXCEPT ![r] = "exit2"] /\ temp' = [temp EXCEPT ![r] = None] /\ UNCHANGED <<layout, outputs, phase, todo, killed>>
    BY <1>18 DEF Fail, Goto
  <2>2. CASE temp[r] = None
    <3>1. dir' = dir /\ temp' = temp
      BY <1>2, <1>18, <2>1, <2>2 DEF Fail
    <3>2. pc[r] \in Empty
      BY <1>18, <2>2, Parts DEF Fail, Fallible, RunInv, WithTemp, Empty
    <3> QED BY <1>4, <2>1, <3>1, <3>2 DEF Empty, Exits
  <2>3. CASE temp[r] # None
    <3>1. pc[r] \in WithTemp /\ dir' = [dir EXCEPT ![temp[r]] = None] /\ pc'[r] = "exit2"
      BY <1>2, <1>18, <2>1, <2>3, Parts DEF Fail, RunInv
    <3>2. Core' /\ ModesStay
      BY <1>1, <2>1, <3>1, RemoveStep
    <3>3. ~Probe(r) /\ ~RemoveProbe(r) /\ ~Replace(r)
      BY <1>2, <3>1 DEF WithTemp, Probe, RemoveProbe, Replace, Goto
    <3> QED BY <1>3, <3>2, <3>3
  <2> QED BY <2>2, <2>3
<1>19. CASE Kill(r)
  <2>1. UNCHANGED <<layout, outputs, dir, pc, phase, todo, temp>> /\ killed \subseteq killed'
    BY <1>19 DEF Kill
  <2>2. Core'
    BY <1>1, <2>1 DEF Core, TempInv, ProgressInv, TextInv, ModeInv, NoTempLeft, DestinationWhole, Whole,
                      Custom, ReadOnly, Target, Entry, Exists
  <2> QED BY <2>1, <2>2 DEF ModesStay, ReadOnlyStays, Custom, ReadOnly, Exists
<1> QED BY <1>6, <1>7, <1>8, <1>9, <1>10, <1>11, <1>12, <1>13, <1>14, <1>15, <1>16, <1>17, <1>18,
           <1>19 DEF Step

\* A user's chmod of a report that no live run is writing: only its mode
\* changes, and no run is left holding what it knew of it.
LEMMA ProtectStep ==
  ASSUME Core, NEW n \in Names, Protect(n)
  PROVE  /\ Core'
         /\ Exists(n) /\ dir[n].mode # "readonly" /\ dir'[n] = [dir[n] EXCEPT !.mode = "readonly"] /\ Exists(n)'
         /\ \A e \in (Names \cup Temps) \ {n} : dir'[e] = dir[e]
<1>1. /\ dir \in [Names \cup Temps -> Files \cup {None}] /\ temp \in [Runs -> Temps \cup {None}]
      /\ UNCHANGED <<layout, outputs, pc, phase, todo, temp, tries, seen, killed>>
      /\ Exists(n) /\ dir[n] \in Files /\ Whole(dir[n]) /\ dir[n].mode # "readonly" /\ ~Busy(n) /\ n \notin Temps
  BY FileFacts, NamesAssumption DEF Core, TypeOK, Protect
<1>2. /\ dir'[n] = [dir[n] EXCEPT !.mode = "readonly"]
      /\ \A e \in (Names \cup Temps) \ {n} : dir'[e] = dir[e]
  BY <1>1 DEF Protect
<1>3. dir'[n] \in Files /\ dir'[n].text = dir[n].text /\ dir'[n].by = dir[n].by
  BY <1>1, <1>2 DEF Files, Modes
<1>4. Exists(n)'
  BY <1>3, NoneAssumption DEF Exists
<1>5. TypeOK'
  <2>1. dir' = [dir EXCEPT ![n] = dir'[n]]
    BY <1>1, <1>2 DEF Protect
  <2>2. dir' \in [Names \cup Temps -> Files \cup {None}]
    BY <1>1, <1>3, <2>1
  <2> QED BY <1>1, <2>2 DEF Core, TypeOK
<1>6. \A t \in Temps \cup {None} : t # None => dir'[t] = dir[t]
  BY <1>1, <1>2
<1>7. NoTempLeft' /\ \A t \in Temps : ~ReadOnly(t)'
  <2>1. \A t \in Temps : dir'[t] = dir[t]
    BY <1>1, <1>2
  <2> QED BY <1>1, <2>1 DEF Core, TempInv, NoTempLeft, ModeInv, ReadOnly, Exists
<1>8. DestinationWhole'
  <2> SUFFICES ASSUME NEW k \in Names, Exists(k)'
               PROVE  \/ Whole(dir'[k]) /\ (layout = "distinct" => dir'[k].text = k)
                      \/ k = "md" /\ dir'[k].text = "empty" /\ dir'[k].by \in Runs /\ pc[dir'[k].by] = "probed"
    BY <1>1 DEF DestinationWhole, Whole
  <2>1. CASE k = n
    BY <1>1, <1>3, <2>1 DEF Core, TextInv, DestinationWhole, Whole, Names
  <2>2. CASE k # n
    <3>1. dir'[k] = dir[k] /\ Exists(k)
      BY <1>2, <2>2 DEF Exists
    <3> QED BY <3>1 DEF Core, TextInv, DestinationWhole
  <2> QED BY <2>1, <2>2
<1>9. ASSUME NEW q \in Runs PROVE RunInv(q)'
  <2>1. RunInv(q) /\ Target(q)' = Target(q)
    BY <1>1, Parts DEF Target, Entry
  <2>2. temp[q] # None => dir'[temp[q]] = dir[temp[q]]
    BY <1>1, <1>6
  <2>3. q \notin killed /\ pc[q] \in Writing /\ phase[q] = "write" =>
          /\ ReadOnly(Target(q))' <=> ReadOnly(Target(q))
          /\ Custom(Target(q))' <=> Custom(Target(q))
    <3> SUFFICES ASSUME q \notin killed, pc[q] \in Writing, phase[q] = "write"
                 PROVE  dir'[Target(q)] = dir[Target(q)]
      BY <2>1 DEF ReadOnly, Custom, Exists
    <3>1. todo[q] # <<>>
      BY <2>1 DEF RunInv, Writing, WithTemp
    <3>2. Target(q) \in Names
      BY <3>1, TodoFacts DEF Core
    <3>3. Target(q) # n
      BY <1>1 DEF Busy, Target, Writing
    <3> QED BY <1>2, <3>2, <3>3
  <2>4. q \notin killed /\ pc[q] = "probed" => (Custom("md")' <=> Custom("md")) /\ (ReadOnly("md")' <=> ReadOnly("md"))
    BY <1>1, <1>2 DEF Busy, Custom, ReadOnly, Exists, Names
  <2>5. pc[q] = "replacing" => pc[q] \in Writing /\ pc[q] \in WithTemp /\ phase[q] = "write"
    BY <2>1 DEF Writing, WithTemp, RunInv
  <2>6. temp[q] # None => (Exists(temp[q])' <=> Exists(temp[q])) /\ (Custom(temp[q])' <=> Custom(temp[q]))
    BY <1>1, <2>2 DEF Exists, Custom
  <2> QED BY <1>1, <2>1, <2>2, <2>3, <2>4, <2>5, <2>6 DEF RunInv, WithTemp
<1> QED BY <1>1, <1>2, <1>4, <1>5, <1>7, <1>8, <1>9, Reassembled

\* Earlier runs left whole files, and none of their temporary ones.
LEMMA CoreInit == Init => Core
<1> SUFFICES ASSUME Init PROVE Core
  OBVIOUS
<1>1. PICK f \in [Names -> {"absent", "custom", "readonly"}] :
        dir = [e \in Names \cup Temps |->
                 IF e \in Temps \/ (layout # "distinct" /\ e = "json") THEN None
                 ELSE IF f[e] = "absent" THEN None
                 ELSE [by |-> "earlier", text |-> e, mode |-> f[e]]]
  BY DEF Init
<1>2. \A t \in Temps : t \notin Names /\ dir[t] = None
  BY <1>1, NamesAssumption
<1>3. ASSUME NEW n \in Names
      PROVE  \/ dir[n] = None
             \/ dir[n] = [by |-> "earlier", text |-> n, mode |-> f[n]] /\ f[n] \in {"custom", "readonly"}
  BY <1>1, <1>2
<1>4. TypeOK
  <2>1. dir \in [Names \cup Temps -> Files \cup {None}]
    <3>1. ASSUME NEW n \in Names PROVE dir[n] \in Files \cup {None}
      <4>1. CASE dir[n] = None
        BY <4>1
      <4>2. CASE dir[n] = [by |-> "earlier", text |-> n, mode |-> f[n]] /\ f[n] \in {"custom", "readonly"}
        BY <4>2 DEF Files, Modes
      <4> QED BY <1>3, <4>1, <4>2
    <3>2. dir = [e \in Names \cup Temps |-> dir[e]]
      BY <1>1
    <3>3. \A e \in Names \cup Temps : dir[e] \in Files \cup {None}
      BY <1>2, <3>1
    <3> QED BY <3>2, <3>3
  <2>2. todo \in [Runs -> Todos]
    <3>1. outputs \in [Runs -> SUBSET Names]
      BY DEF Init
    <3>2. \A r \in Runs : Plan(r) \in Todos
      BY <3>1 DEF Plan, Todos, Names
    <3> QED BY <3>2 DEF Init
  <2>3. 0 \in 0..(TempAttempts - 1)
    BY AttemptsAssumption
  <2> QED BY <2>1, <2>2, <2>3 DEF Init, TypeOK, Todos, Exits, Fallible
<1>5. \A t \in Temps : ~Exists(t)
  BY <1>2 DEF Exists
<1>6. TempInv
  BY <1>5 DEF TempInv, NoTempLeft, Init, WithTemp
<1>7. ProgressInv
  BY DEF ProgressInv, Init, WithTemp
<1>8. TextInv
  <2>1. ASSUME NEW n \in Names, Exists(n) PROVE Whole(dir[n]) /\ (layout = "distinct" => dir[n].text = n)
    <3>1. dir[n] = [by |-> "earlier", text |-> n, mode |-> f[n]]
      BY <1>3, <2>1 DEF Exists
    <3>2. dir[n].text = n
      BY <3>1
    <3> QED BY <3>2 DEF Whole
  <2>2. DestinationWhole
    BY <2>1 DEF DestinationWhole
  <2> QED BY <2>2 DEF TextInv, Init
<1>9. ModeInv
  BY <1>5 DEF ModeInv, ReadOnly, Init, Writing
<1> QED BY <1>4, <1>6, <1>7, <1>8, <1>9 DEF Core

\* A step that changes nothing changes nothing the invariant is about.
LEMMA CoreStutter == Core /\ UNCHANGED vars => Core'
BY DEF Core, vars, TypeOK, TempInv, ProgressInv, TextInv, ModeInv, NoTempLeft, DestinationWhole, Whole,
       Custom, ReadOnly, Target, Entry, Exists

-----------------------------------------------------------------------------
(* The theorems.                                                           *)

\* The invariant holds for any number of runs of the bench scripts on one
\* directory, each of them killed or failing anywhere, and any report made
\* read-only by a user.
THEOREM PairInvariance == Spec => []Core
<1>1. Core /\ [Next]_vars => Core'
  BY CoreStep, ProtectStep, CoreStutter DEF Next
<1> QED BY <1>1, CoreInit, PTL DEF Spec

\* Every variable stays within its type: _create_temp draws no name after its
\* last attempt.
THEOREM PairTyped == Spec => []TypeOK
<1>1. Core => TypeOK
  BY DEF Core
<1> QED BY <1>1, PairInvariance, PTL

\* atomic_write_text: a reader finds no report, an earlier one or a complete
\* new one, whenever a run is killed and whatever other runs do.
THEOREM DestinationAlwaysWhole == Spec => []DestinationWhole
<1>1. Core => DestinationWhole
  BY DEF Core, TextInv
<1> QED BY <1>1, PairInvariance, PTL

\* A run that exits leaves no temporary file, and no two runs write to one.
THEOREM NoTempEverLeft == Spec => []NoTempLeft
<1>1. Core => NoTempLeft
  BY DEF Core, TempInv
<1> QED BY <1>1, PairInvariance, PTL

\* No step of any run, its probe and its renames included, changes the
\* permissions of a report that was there or the content of a read-only one,
\* whenever a user made it read-only but in the middle of its own write.
THEOREM PermissionsAlwaysKept == Spec => PermissionsKept
<1> DEFINE Kept(n) == (Exists(n) /\ dir[n].mode \in {"custom", "readonly"}) =>
                        /\ Exists(n)'
                        /\ dir[n].mode = "custom" =>
                             dir'[n].mode = "custom" \/ dir'[n] = [dir[n] EXCEPT !.mode = "readonly"]
                        /\ dir[n].mode = "readonly" => dir'[n] = dir[n]
<1>1. ASSUME Core, NEW r \in Runs \ killed, Step(r), NEW n \in Names PROVE Kept(n)
  BY <1>1, CoreStep DEF ModesStay, ReadOnlyStays, Custom, ReadOnly
<1>2. ASSUME UNCHANGED vars, NEW n \in Names PROVE Kept(n)
  BY <1>2 DEF vars, Exists
<1>3. ASSUME Core, NEW k \in Names, Protect(k), NEW n \in Names PROVE Kept(n)
  <2>1. CASE n = k
    BY <1>3, <2>1, ProtectStep
  <2>2. CASE n # k
    BY <1>3, <2>2, ProtectStep DEF Exists
  <2> QED BY <2>1, <2>2
<1>4. Core /\ [Next]_vars => [\A n \in Names : Kept(n)]_vars
  BY <1>1, <1>2, <1>3 DEF Next
<1> QED BY <1>4, PairInvariance, PTL DEF Spec, PermissionsKept

-----------------------------------------------------------------------------
(* A run that has the directory for itself: PairFromOneRun.                *)

\* The outputs that are still to be treated.
Pending(s) == IF s = <<>> THEN {} ELSE IF s = <<"md", "json">> THEN Names ELSE {Head(s)}

\* The run has not touched the outputs' names, and looks at none of them.
Aside(q) == phase[q] = "check" /\ pc[q] \in {"target", "naming", "testing"}

Alone(r) == \A q \in Runs \ {r} : Aside(q)

\* Where the run is, what it knows of the two names; what it has written is in
\* place, and the writes to come go elsewhere.
Knows(r) ==
  /\ pc[r] \in {"looking_at_md", "looking_at_json", "probe", "probed"} => layout # "symlink"
  /\ pc[r] = "looking_at_json" => (seen[r] <=> Exists("md"))
  /\ pc[r] = "probe" => ~Exists("md")
  /\ pc[r] = "exit0" => phase[r] = "write" /\ todo[r] = <<>>

Written(r) ==
  /\ layout = "distinct" \/ outputs[r] # Names
  /\ Pending(todo[r]) \subseteq outputs[r]
  /\ \A n \in outputs[r] \ Pending(todo[r]) : Wrote(r, n)

AloneInv == \A r \in Runs : Alone(r) => Knows(r) /\ (phase[r] = "write" => Written(r))

\* What remains to be treated, after one output and at the start.
LEMMA PendingFacts ==
  /\ \A s \in Todos : s # <<>> => /\ Head(s) \in Pending(s) /\ Head(s) \in Names
                                  /\ Pending(Tail(s)) = Pending(s) \ {Head(s)}
  /\ TypeOK => \A r \in Runs : Pending(Plan(r)) = outputs[r]
<1>1. ASSUME NEW s \in Todos, s # <<>>
      PROVE  Head(s) \in Pending(s) /\ Head(s) \in Names /\ Pending(Tail(s)) = Pending(s) \ {Head(s)}
  <2>1. CASE s = <<"md">>
    BY <2>1 DEF Pending, Names
  <2>2. CASE s = <<"json">>
    BY <2>2 DEF Pending, Names
  <2>3. CASE s = <<"md", "json">>
    <3>1. Tail(s) = <<"json">> /\ Head(s) = "md"
      BY <2>3
    <3> QED BY <2>3, <3>1 DEF Pending, Names
  <2> QED BY <1>1, <2>1, <2>2, <2>3 DEF Todos
<1>2. ASSUME TypeOK, NEW r \in Runs PROVE Pending(Plan(r)) = outputs[r]
  <2>1. CASE outputs[r] = {}
    BY <1>2, <2>1, PlanFacts DEF Pending
  <2>2. CASE outputs[r] = {"md"}
    <3>1. Plan(r) = <<"md">>
      BY <1>2, <2>2, PlanFacts
    <3> QED BY <2>2, <3>1 DEF Pending
  <2>3. CASE outputs[r] = {"json"}
    <3>1. Plan(r) = <<"json">>
      BY <1>2, <2>3, PlanFacts
    <3> QED BY <2>3, <3>1 DEF Pending
  <2>4. CASE outputs[r] = Names
    BY <1>2, <2>4, PlanFacts DEF Pending
  <2> QED BY <1>2, <2>1, <2>2, <2>3, <2>4, PlanFacts
<1> QED BY <1>1, <1>2

\* A run that is aside after a step was aside before it: none returns.
LEMMA AsideBack ==
  ASSUME Core, NEW q \in Runs, NEW r \in Runs, Step(r), Aside(q)'
  PROVE  Aside(q)
<1>1. phase \in [Runs -> {"check", "write"}] /\ pc \in [Runs -> Places]
  BY DEF Core, TypeOK, Places
<1>2. phase' = phase \/ phase' = [phase EXCEPT ![r] = "write"]
  BY DEF Step, CheckTarget, CreateTemp, RemoveTestFile, Compare, LookAtReport, LookAtResults, Probe, RemoveProbe,
         Fill, CopyExistingMode, Replace, Finish, Fail, Kill, BeginWriting
<1>3. phase[q] = "check" /\ (q = r => phase' = phase)
  BY <1>1, <1>2 DEF Aside
<1>4. CASE q # r
  <2>1. pc'[q] = pc[q]
    BY <1>1, <1>4 DEF Step, CheckTarget, CreateTemp, RemoveTestFile, Compare, LookAtReport, LookAtResults, Probe,
                      RemoveProbe, Fill, CopyExistingMode, Replace, Finish, Fail, Kill, BeginWriting, Goto
  <2> QED BY <1>3, <2>1 DEF Aside
<1>5. CASE q = r
  <2>1. pc[r] \in {"filling", "copying_mode", "replacing"} => phase[r] = "write"
    BY Parts DEF RunInv
  <2>2. ~BeginWriting(r)
    BY <1>1, <1>3, <1>5 DEF BeginWriting
  <2>3. pc'[r] \in {"target", "naming", "testing"}
    BY <1>5 DEF Aside
  <2>4. CASE CheckTarget(r) \/ RemoveTestFile(r) \/ \E t \in Temps : CreateTemp(r, t)
    BY <1>3, <1>5, <2>4 DEF Aside, CheckTarget, RemoveTestFile, CreateTemp
  <2>5. CASE Compare(r)
    BY <1>3, <1>5, <2>5 DEF Aside, Compare
  <2>6. ~Fill(r) /\ ~CopyExistingMode(r) /\ ~Replace(r)
    BY <1>3, <1>5, <2>1 DEF Fill, CopyExistingMode, Replace
  <2>7. ~LookAtReport(r) /\ ~LookAtResults(r) /\ ~Finish(r) /\ ~Fail(r) /\ ~Probe(r)
    BY <1>1, <2>2, <2>3 DEF LookAtReport, LookAtResults, Finish, Fail, Probe, Goto
  <2>8. ~RemoveProbe(r)
    BY <1>1, <2>2, <2>3 DEF RemoveProbe, Goto
  <2>9. CASE Kill(r)
    BY <1>5, <2>9 DEF Aside, Kill
  <2> QED BY <2>4, <2>5, <2>6, <2>7, <2>8, <2>9 DEF Step
<1> QED BY <1>4, <1>5

\* The same run's same text is at the name, or still none.
SameReport(n) ==
  /\ Exists(n)' <=> Exists(n)
  /\ Exists(n) => dir'[n].by = dir[n].by /\ dir'[n].text = dir[n].text

\* What a run knows and has written stands while the outputs do.
LEMMA WrittenStays ==
  ASSUME NEW r \in Runs, UNCHANGED <<layout, outputs, seen>>, \A n \in Names : SameReport(n), TypeOK,
         phase'[r] = phase[r], todo'[r] = todo[r]
  PROVE  /\ (Written(r)' <=> Written(r))
         /\ pc'[r] = pc[r] => (Knows(r)' <=> Knows(r))
<1>1. \A n \in Names : Entry(n) \in Names /\ (Entry(n)' = Entry(n))
  BY DEF Entry, Names
<1>2. outputs[r] \subseteq Names
  BY DEF TypeOK
<1>3. Exists("md")' <=> Exists("md")
  BY DEF SameReport, Names
<1>4. \A n \in Names : Exists(Entry(n))' <=> Exists(Entry(n))
  <2> TAKE n \in Names
  <2>1. PICK e \in Names : e = Entry(n) /\ Entry(n)' = e
    BY <1>1
  <2>2. Exists(e)' <=> Exists(e)
    BY DEF SameReport
  <2> QED BY <2>1, <2>2 DEF Exists
<1>5. \A n \in Names : Wrote(r, n)' <=> Wrote(r, n)
  <2> TAKE n \in Names
  <2>1. PICK e \in Names : e = Entry(n) /\ Entry(n)' = e
    BY <1>1
  <2>2. Exists(e) => dir'[e].by = dir[e].by /\ dir'[e].text = dir[e].text
    BY DEF SameReport
  <2> QED BY <1>4, <2>1, <2>2 DEF Wrote
<1>6. Pending(todo[r])' = Pending(todo[r])
  BY DEF Pending
<1>7. Written(r)' <=> Written(r)
  BY <1>2, <1>5, <1>6 DEF Written
<1>8. pc'[r] = pc[r] => (Knows(r)' <=> Knows(r))
  BY <1>3 DEF Knows
<1> QED BY <1>7, <1>8

\* The start of the writes: nothing is written yet, and no two outputs are one.
LEMMA BeginStep ==
  ASSUME Core, NEW r \in Runs, BeginWriting(r), UNCHANGED <<layout, outputs, dir>>,
         layout = "distinct" \/ outputs[r] # Names
  PROVE  Knows(r)' /\ Written(r)'
<1>1. pc'[r] = "target" /\ phase'[r] = "write" /\ todo'[r] = Plan(r)
  BY DEF Core, TypeOK, BeginWriting, Goto
<1>2. Pending(todo[r])' = outputs[r]
  BY <1>1, PendingFacts DEF Core, Pending
<1>3. Written(r)'
  BY <1>2 DEF Written
<1> QED BY <1>1, <1>3 DEF Knows

\* The rename adds the output to what is written, and no other goes: under a
\* link or an alias there is no other.
LEMMA ReplaceWritten ==
  ASSUME Core, NEW r \in Runs, Replace(r), Written(r)
  PROVE  Knows(r)' /\ Written(r)'
<1>1. /\ dir \in [Names \cup Temps -> Files \cup {None}] /\ pc \in [Runs -> Places] /\ todo \in [Runs -> Todos]
      /\ outputs \in [Runs -> SUBSET Names]
      /\ pc[r] = "replacing" /\ UNCHANGED <<layout, outputs>> /\ pc' = [pc EXCEPT ![r] = "target"]
      /\ todo' = [todo EXCEPT ![r] = Tail(@)]
  BY DEF Core, TypeOK, Places, Todos, Replace, Goto
<1>2. PICK t \in Temps : t = temp[r]
  BY <1>1, TempFacts DEF WithTemp
<1>3. PICK h \in Names : h = Head(todo[r])
  BY <1>1, <1>2, TempFacts, TodoFacts DEF WithTemp, Core
<1>4. /\ Exists(t) /\ dir[t].by = r /\ dir[t].text = h /\ todo[r] # <<>>
      /\ Entry(h) \in Names /\ t \notin Names
  BY <1>1, <1>2, <1>3, TempFacts, TodoFacts, NamesAssumption DEF WithTemp, Core, TextInv, Target
<1>5. dir' = [dir EXCEPT ![Entry(h)] = dir[t], ![t] = None]
  BY <1>2, <1>3 DEF Replace
<1>6. dir'[Entry(h)] = dir[t] /\ \A k \in Names \ {Entry(h)} : dir'[k] = dir[k]
  BY <1>1, <1>4, <1>5
<1>7. pc'[r] = "target" /\ Pending(todo'[r]) = Pending(todo[r]) \ {h} /\ h \in Pending(todo[r])
  BY <1>1, <1>3, <1>4, PendingFacts
<1>8. \A n \in Names : Entry(n)' = Entry(n) /\ Entry(n) \in Names
  BY <1>1 DEF Entry, Names
<1>9. ASSUME NEW n \in outputs[r] \ Pending(todo'[r])
      PROVE  dir'[Entry(n)] # None /\ dir'[Entry(n)].by = r /\ dir'[Entry(n)].text = n
  <2>1. CASE n = h
    BY <1>4, <1>6, <2>1 DEF Exists
  <2>2. CASE n # h
    <3>1. n \in outputs[r] \ Pending(todo[r]) /\ h \in outputs[r] /\ n \in Names
      BY <1>1, <1>7, <2>2 DEF Written
    <3>2. outputs[r] = Names
      BY <1>1, <2>2, <3>1 DEF Names
    <3>3. layout = "distinct"
      BY <3>2 DEF Written
    <3>4. Entry(n) # Entry(h) /\ dir'[Entry(n)] = dir[Entry(n)]
      BY <1>6, <1>8, <2>2, <3>1, <3>3 DEF Entry
    <3> QED BY <3>1, <3>4 DEF Written, Wrote, Exists
  <2> QED BY <2>1, <2>2
<1>10. Written(r)'
  <2>1. \A n \in outputs[r] : Entry(n)' = Entry(n)
    BY <1>1, <1>8
  <2>2. Pending(todo[r])' = Pending(todo'[r])
    BY DEF Pending
  <2> QED BY <1>1, <1>7, <1>9, <2>1, <2>2 DEF Written, Wrote, Exists
<1> QED BY <1>7, <1>10 DEF Knows

\* A step preserves what is said of a run that has the directory for itself.
LEMMA AloneStep ==
  ASSUME Core, AloneInv, NEW q \in Runs, Step(q), NEW r \in Runs, Alone(r)'
  PROVE  Knows(r)' /\ (phase'[r] = "write" => Written(r)')
<1>1. Alone(r)
  BY AsideBack DEF Alone
<1>2. Knows(r) /\ (phase[r] = "write" => Written(r))
  BY <1>1 DEF AloneInv
<1>3. /\ pc \in [Runs -> Places] /\ phase \in [Runs -> {"check", "write"}] /\ todo \in [Runs -> Todos]
      /\ layout \in Layouts /\ TypeOK /\ seen \in [Runs -> BOOLEAN]
  BY DEF Core, TypeOK, Places, Todos
<1>4. UNCHANGED <<layout, outputs>>
  BY DEF Step, CheckTarget, CreateTemp, RemoveTestFile, Compare, LookAtReport, LookAtResults, Probe, RemoveProbe,
         Fill, CopyExistingMode, Replace, Finish, Fail, Kill
<1>5. CASE q # r
  <2>1. Aside(q)
    BY <1>1, <1>5 DEF Alone
  <2>2. ~Probe(q) /\ ~RemoveProbe(q) /\ ~Replace(q) /\ ~LookAtReport(q)
    BY <2>1 DEF Aside, Probe, RemoveProbe, Replace, LookAtReport
  <2>3. \A n \in Names : SameReport(n)
    BY <2>2, NamesUntouched DEF SameReport, Exists
  <2>4. pc'[r] = pc[r] /\ phase'[r] = phase[r] /\ todo'[r] = todo[r] /\ seen' = seen
    BY <1>3, <1>5, <2>2 DEF Step, CheckTarget, CreateTemp, RemoveTestFile, Compare, LookAtResults,
         Fill, CopyExistingMode, Finish, Fail, Kill, BeginWriting, Goto
  <2> QED BY <1>2, <1>3, <1>4, <2>3, <2>4, WrittenStays
<1>6. CASE q = r
  <2>1. RunInv(r) /\ Step(r)
    BY <1>6, Parts
  <2>2. ASSUME ~Probe(r), ~RemoveProbe(r), ~Replace(r), phase'[r] = phase[r], todo'[r] = todo[r], seen' = seen
        PROVE  phase'[r] = "write" => Written(r)'
    <3>1. \A n \in Names : SameReport(n)
      BY <2>1, <2>2, NamesUntouched DEF SameReport, Exists
    <3> QED BY <1>2, <1>3, <1>4, <2>2, <3>1, WrittenStays
  <2>3. CASE CheckTarget(r)
    <3>1. phase'[r] = "write" => Written(r)'
      BY <2>2, <2>3 DEF CheckTarget, Probe, RemoveProbe, Replace
    <3>2. pc'[r] \in {"exit2", "naming"}
      BY <1>3, <2>3 DEF CheckTarget, Goto
    <3> QED BY <3>1, <3>2 DEF Knows
  <2>4. ASSUME NEW t \in Temps, CreateTemp(r, t) PROVE Knows(r)' /\ (phase'[r] = "write" => Written(r)')
    <3>1. phase'[r] = "write" => Written(r)'
      BY <2>2, <2>4 DEF CreateTemp, Probe, RemoveProbe, Replace
    <3>2. pc'[r] \in {"exit2", "naming", "testing", "filling"}
      BY <1>3, <2>4 DEF CreateTemp, Goto
    <3> QED BY <3>1, <3>2 DEF Knows
  <2>5. CASE RemoveTestFile(r)
    <3>1. pc'[r] = "target" /\ phase'[r] = "check"
      BY <1>3, <2>1, <2>5 DEF RemoveTestFile, Goto, RunInv
    <3> QED BY <3>1 DEF Knows
  <2>6. CASE Compare(r)
    <3>1. CASE outputs[r] # Names
      BY <1>4, <2>6, <3>1, BeginStep DEF Compare
    <3>2. CASE outputs[r] = Names
      <4>1. phase'[r] = "check" /\ (pc'[r] = "exit2" \/ (pc'[r] = "looking_at_md" /\ layout' # "symlink"))
        BY <1>3, <1>4, <2>6, <3>2 DEF Compare, Goto
      <4> QED BY <4>1 DEF Knows
    <3> QED BY <3>1, <3>2
  <2>7. CASE LookAtReport(r)
    <3>1. /\ phase'[r] = "check" /\ pc'[r] = "looking_at_json" /\ layout' # "symlink" /\ dir' = dir
          /\ seen'[r] = Exists("md")
      BY <1>2, <1>3, <1>4, <2>1, <2>7 DEF LookAtReport, Goto, RunInv, Knows
    <3> QED BY <3>1 DEF Knows, Exists
  <2>8. CASE LookAtResults(r)
    <3>1. pc[r] = "looking_at_json" /\ phase[r] = "check" /\ dir' = dir /\ layout # "symlink" /\ (seen[r] <=> Exists("md"))
      BY <1>2, <2>1, <2>8 DEF LookAtResults, RunInv, Knows
    <3>2. CASE BeginWriting(r)
      <4>1. layout = "distinct"
        <5>1. CASE layout = "alias"
          <6>1. Exists(Entry("json")) <=> Exists("md")
            BY <5>1 DEF Entry
          <6>2. (seen[r] <=> Exists(Entry("json"))) /\ seen[r] \in BOOLEAN /\ Exists(Entry("json")) \in BOOLEAN
            BY <1>3, <3>1, <6>1 DEF Exists
          <6>3. seen[r] = Exists(Entry("json"))
            BY <6>2
          <6>4. pc'[r] \in {"probe", "exit2"}
            BY <1>3, <2>8, <5>1, <6>3 DEF LookAtResults, Goto
          <6> QED BY <1>3, <3>2, <6>4 DEF BeginWriting, Goto
        <5> QED BY <1>3, <3>1, <5>1 DEF Layouts
      <4> QED BY <1>4, <3>1, <3>2, <4>1, BeginStep
    <3>3. CASE ~BeginWriting(r)
      <4>1. phase' = phase /\ (pc'[r] = "exit2" \/ (pc'[r] = "probe" /\ ~seen[r]))
        BY <1>3, <2>8, <3>3 DEF LookAtResults, Goto
      <4>2. (~Exists("md"))' <=> ~Exists("md")
        BY <3>1 DEF Exists
      <4> QED BY <1>4, <3>1, <4>1, <4>2 DEF Knows
    <3> QED BY <3>2, <3>3
  <2>9. CASE Probe(r)
    <3>1. phase'[r] = "check" /\ pc'[r] \in {"exit2", "probed"} /\ layout' # "symlink"
      BY <1>2, <1>3, <1>4, <2>1, <2>9 DEF Probe, Goto, RunInv, Knows
    <3> QED BY <3>1 DEF Knows
  <2>10. CASE RemoveProbe(r)
    <3>1. pc[r] = "probed" /\ phase[r] = "check" /\ layout # "symlink"
      BY <1>2, <2>1, <2>10 DEF RemoveProbe, RunInv, Knows
    <3>2. CASE layout = "alias"
      <4>1. phase'[r] = "check" /\ pc'[r] = "exit2"
        BY <1>3, <2>10, <3>1, <3>2 DEF RemoveProbe, Goto
      <4> QED BY <4>1 DEF Knows
    <3>3. CASE layout # "alias"
      <4>1. layout = "distinct" /\ BeginWriting(r)
        BY <1>3, <2>10, <3>1, <3>3 DEF Layouts, RemoveProbe
      <4>2. pc'[r] = "target" /\ Pending(todo[r])' = outputs[r]
        BY <1>3, <4>1, PendingFacts DEF BeginWriting, Goto, Pending
      <4> QED BY <1>4, <4>1, <4>2 DEF Knows, Written
    <3> QED BY <3>2, <3>3
  <2>11. CASE Fill(r)
    <3>1. phase'[r] = "write" => Written(r)'
      BY <2>2, <2>11 DEF Fill, Probe, RemoveProbe, Replace
    <3>2. pc'[r] \in {"filling", "copying_mode"}
      BY <1>3, <2>11 DEF Fill, Goto
    <3> QED BY <3>1, <3>2 DEF Knows
  <2>12. CASE CopyExistingMode(r)
    <3>1. phase'[r] = "write" => Written(r)'
      BY <2>2, <2>12 DEF CopyExistingMode, Probe, RemoveProbe, Replace
    <3>2. pc'[r] = "replacing"
      BY <1>3, <2>12 DEF CopyExistingMode, Goto
    <3> QED BY <3>1, <3>2 DEF Knows
  <2>13. CASE Replace(r)
    BY <1>2, <2>1, <2>13, ReplaceWritten DEF Replace, RunInv
  <2>14. CASE Finish(r)
    <3>1. phase'[r] = "write" => Written(r)'
      BY <2>2, <2>14 DEF Finish, Probe, RemoveProbe, Replace
    <3>2. pc'[r] = "exit0" /\ phase'[r] = "write" /\ todo'[r] = <<>>
      BY <1>3, <2>14 DEF Finish, Goto
    <3> QED BY <3>1, <3>2 DEF Knows
  <2>15. CASE Fail(r)
    <3>1. pc'[r] = "exit2" /\ UNCHANGED <<phase, todo, seen>>
      BY <1>3, <2>15 DEF Fail, Goto
    <3>2. ~Probe(r) /\ ~RemoveProbe(r) /\ ~Replace(r) => (phase'[r] = "write" => Written(r)')
      BY <2>2, <3>1
    <3>3. phase[r] = "write" => ~Probe(r) /\ ~RemoveProbe(r)
      BY <2>1 DEF Probe, RemoveProbe, RunInv
    <3>4. ~Replace(r)
      BY <1>3, <3>1 DEF Replace, Goto
    <3> QED BY <3>1, <3>2, <3>3, <3>4 DEF Knows
  <2>16. CASE Kill(r)
    <3>1. UNCHANGED <<layout, outputs, seen, dir, phase, todo, pc>>
      BY <2>16 DEF Kill
    <3>2. (Written(r)' <=> Written(r)) /\ (Knows(r)' <=> Knows(r))
      BY <1>3, <3>1, WrittenStays DEF SameReport, Exists
    <3> QED BY <1>2, <3>1, <3>2
  <2> QED BY <2>1, <2>3, <2>4, <2>5, <2>6, <2>7, <2>8, <2>9, <2>10, <2>11, <2>12, <2>13, <2>14, <2>15,
             <2>16 DEF Step
<1> QED BY <1>5, <1>6

\* A user's chmod changes nothing of what a run knows or has written.
LEMMA AloneProtect ==
  ASSUME Core, AloneInv, NEW n \in Names, Protect(n)
  PROVE  AloneInv'
<1>1. UNCHANGED <<layout, outputs, pc, phase, todo, temp, tries, seen, killed>> /\ TypeOK
  BY DEF Protect, Core
<1>2. ASSUME NEW k \in Names PROVE SameReport(k)
  <2>1. CASE k = n
    <3>1. Exists(n) /\ Exists(n)' /\ dir[n] \in Files /\ dir'[n] = [dir[n] EXCEPT !.mode = "readonly"]
      BY <1>1, ProtectStep, FileFacts
    <3> QED BY <2>1, <3>1 DEF SameReport, Files
  <2>2. CASE k # n
    BY <2>2, ProtectStep DEF SameReport, Exists
  <2> QED BY <2>1, <2>2
<1>3. \A r \in Runs : (Written(r)' <=> Written(r)) /\ (Knows(r)' <=> Knows(r))
  BY <1>1, <1>2, WrittenStays
<1>4. \A r \in Runs : Alone(r)' <=> Alone(r)
  BY <1>1 DEF Alone, Aside
<1> QED BY <1>1, <1>3, <1>4 DEF AloneInv

\* The raw results come last: a run whose results are in place has no output
\* left to write.
LastInv == \A r \in Runs : (Exists("json") /\ dir["json"].by = r) => phase[r] = "write" /\ todo[r] = <<>>

\* A run's step puts results in place only at the end of its writes, and
\* nothing follows the end.
LEMMA LastStep ==
  ASSUME Core, LastInv, NEW q \in Runs, Step(q)
  PROVE  LastInv'
<1>1. /\ dir \in [Names \cup Temps -> Files \cup {None}] /\ pc \in [Runs -> Places]
      /\ phase \in [Runs -> {"check", "write"}] /\ todo \in [Runs -> Todos] /\ RunInv(q)
      /\ "json" \in Names /\ "json" # "md"
  BY Parts DEF Core, TypeOK, Places, Todos, Names
<1> SUFFICES ASSUME NEW r \in Runs, Exists("json")', dir'["json"].by = r
             PROVE  phase'[r] = "write" /\ todo'[r] = <<>>
  BY DEF LastInv
<1>2. ASSUME dir'["json"] = dir["json"], r # q PROVE phase'[r] = "write" /\ todo'[r] = <<>>
  <2>1. phase[r] = "write" /\ todo[r] = <<>>
    BY <1>2 DEF LastInv, Exists
  <2>2. phase'[r] = phase[r] /\ todo'[r] = todo[r]
    BY <1>1, <1>2 DEF Step, CheckTarget, CreateTemp, RemoveTestFile, Compare, LookAtReport, LookAtResults, Probe,
                      RemoveProbe, Fill, CopyExistingMode, Replace, Finish, Fail, Kill, BeginWriting
  <2> QED BY <2>1, <2>2
<1>3. CASE Replace(q)
  <2>1. PICK t \in Temps : t = temp[q] /\ dir[t].by = q /\ t \notin Names
    BY <1>3, TempFacts DEF Replace, WithTemp
  <2>2. PICK h \in Names : h = Head(todo[q]) /\ todo[q] # <<>> /\ Entry(h) \in Names
    BY <1>3, TempFacts, TodoFacts DEF Replace, WithTemp, Core, Target
  <2>3. dir' = [dir EXCEPT ![Entry(h)] = dir[t], ![t] = None] /\ phase' = phase /\ phase[q] = "write"
        /\ todo' = [todo EXCEPT ![q] = Tail(@)]
    BY <1>1, <1>3, <2>1, <2>2 DEF Replace, RunInv
  <2>4. CASE Entry(h) = "json"
    <3>1. h = "json"
      BY <1>1, <2>4 DEF Entry
    <3>2. todo[q] = <<"json">>
      BY <1>1, <2>2, <3>1 DEF Todos
    <3>3. dir'["json"] = dir[t]
      BY <1>1, <2>1, <2>3, <2>4
    <3>4. todo'[q] = <<>>
      BY <1>1, <2>3, <3>2
    <3> QED BY <2>1, <2>3, <3>3, <3>4
  <2>5. CASE Entry(h) # "json"
    <3>1. dir'["json"] = dir["json"]
      BY <1>1, <2>1, <2>2, <2>3, <2>5
    <3>2. r # q
      BY <2>2, <3>1 DEF LastInv, Exists
    <3> QED BY <1>2, <3>1, <3>2
  <2> QED BY <2>4, <2>5
<1>4. CASE ~Replace(q)
  <2>1. dir'["json"] = dir["json"]
    <3>1. CASE Probe(q) \/ RemoveProbe(q)
      BY <1>1, <3>1 DEF Probe, RemoveProbe
    <3>2. CASE ~Probe(q) /\ ~RemoveProbe(q)
      BY <1>1, <1>4, <3>2, NamesUntouched
    <3> QED BY <3>1, <3>2
  <2>2. CASE r = q
    <3>1. phase[q] = "write" /\ todo[q] = <<>>
      BY <2>1, <2>2 DEF LastInv, Exists
    <3>2. phase' = phase /\ todo' = todo
      BY <1>1, <1>4, <3>1 DEF RunInv, WithTemp, Step, CheckTarget, CreateTemp, RemoveTestFile, Compare, LookAtReport,
                              LookAtResults, Probe, RemoveProbe, Fill, CopyExistingMode, Finish, Fail, Kill
    <3> QED BY <2>2, <3>1, <3>2
  <2> QED BY <1>2, <2>1, <2>2
<1> QED BY <1>3, <1>4

\* A run that had the directory for itself and exits 0 left each of its outputs
\* as its own file: under no link and no alias did one replace the other.  And
\* wherever it stops, its raw results stand beside no report but its own.
THEOREM PairAlwaysFromOneRun == Spec => []PairFromOneRun
<1>1. Init => AloneInv /\ LastInv
  <2> SUFFICES ASSUME Init, NEW r \in Runs
               PROVE  Knows(r) /\ phase[r] = "check" /\ ~(Exists("json") /\ dir["json"].by = r)
    BY DEF AloneInv, LastInv
  <2>1. dir["json"] = None \/ dir["json"].by = "earlier"
    BY NamesAssumption DEF Init, Names
  <2> QED BY <2>1, RunsAssumption DEF Init, Knows, Exists
<1>2. Core /\ AloneInv /\ LastInv /\ [Next]_vars => AloneInv' /\ LastInv'
  <2>1. ASSUME Core, AloneInv, NEW q \in Runs, Step(q) PROVE AloneInv'
    BY <2>1, AloneStep DEF AloneInv
  <2>2. ASSUME Core, LastInv, NEW n \in Names, Protect(n) PROVE LastInv'
    <3>1. Exists("json")' => Exists("json") /\ dir'["json"].by = dir["json"].by
      <4>1. CASE n = "json"
        <5>1. Exists(n) /\ dir[n] \in Files /\ dir'[n] = [dir[n] EXCEPT !.mode = "readonly"]
          BY <2>2, ProtectStep, FileFacts DEF Core
        <5> QED BY <4>1, <5>1 DEF Files
      <4>2. CASE n # "json"
        BY <2>2, <4>2, ProtectStep DEF Exists, Names
      <4> QED BY <4>1, <4>2
    <3>2. phase' = phase /\ todo' = todo
      BY <2>2 DEF Protect
    <3> QED BY <2>2, <3>1, <3>2 DEF LastInv
  <2>3. ASSUME AloneInv, LastInv, UNCHANGED vars PROVE AloneInv' /\ LastInv'
    BY <2>3 DEF AloneInv, LastInv, Alone, Aside, Knows, Written, Wrote, Pending, Entry, Exists, vars
  <2> QED BY <2>1, <2>2, <2>3, LastStep, AloneProtect DEF Next
<1>3. Core /\ AloneInv /\ LastInv => PairFromOneRun
  <2> SUFFICES ASSUME Core, AloneInv, LastInv, NEW r \in Runs, Undisturbed(r)
               PROVE  /\ pc[r] = "exit0" => \A n \in outputs[r] : Wrote(r, n)
                      /\ (outputs[r] = Names /\ Exists("json") /\ dir["json"].by = r) => Wrote(r, "md")
    BY DEF PairFromOneRun
  <2>1. Alone(r)
    BY DEF Undisturbed, Alone, Aside
  <2>2. ASSUME phase[r] = "write", todo[r] = <<>>, NEW n \in outputs[r] PROVE Wrote(r, n)
    BY <2>1, <2>2 DEF AloneInv, Written, Pending
  <2>3. pc[r] = "exit0" => phase[r] = "write" /\ todo[r] = <<>>
    BY <2>1 DEF AloneInv, Knows
  <2> QED BY <2>2, <2>3 DEF LastInv, Names
<1> QED BY <1>1, <1>2, <1>3, PairInvariance, PTL DEF Spec
=============================================================================
