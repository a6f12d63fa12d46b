---------------------------- MODULE ReportPair ----------------------------
(***************************************************************************)
(* How a bench script writes its markdown report and its raw results:      *)
(* check_writable on both paths, same_file, the benchmark, and an          *)
(* atomic_write_text for each, with io_utils.py modelled call by system    *)
(* call.  Several runs share one directory; between any two system calls   *)
(* another run may act, and a run may be killed.  A user may make a report *)
(* read-only, except while a run writes it: "a check at open time, not a   *)
(* lock: a chmod racing the write is not covered" (io_utils.py).           *)
(*                                                                         *)
(* os.close and os.unlink of a file just created do not fail.              *)
(***************************************************************************)
EXTENDS Integers, Sequences

CONSTANTS
  Runs,          \* the runs of a bench script
  Temps,         \* the names a random temporary name is drawn from
  TempAttempts,  \* _TEMP_ATTEMPTS
  None

ASSUME AttemptsAssumption == TempAttempts \in Nat \ {0}

Names   == {"md", "json"}
Layouts == {"distinct", "symlink", "alias"}
Modes   == {"umask", "private", "custom", "readonly"}
\* `.<base>.<random>.tmp` is the name of no output.
ASSUME NamesAssumption == Temps \cap (Names \cup {None}) = {}
ASSUME RunsAssumption == "earlier" \notin Runs

Files   == [by : Runs \cup {"earlier"}, text : Names \cup {"empty", "partial"}, mode : Modes]

ASSUME NoneAssumption == None \notin Files

VARIABLES
  layout,   \* json is a file of its own, a link to md, or the same name to the file system
  outputs,  \* run -> the paths it was given (an empty flag skips that half)
  dir,      \* directory entry -> its file, or None
  pc,       \* run -> its next system call, or its exit code
  phase,    \* run -> "check" before the benchmark, "write" after it
  todo,     \* run -> the outputs this phase still has to treat
  temp,     \* run -> the entry of its temporary file
  tries,    \* run -> names _create_temp found taken
  seen,     \* run -> same_file found the report there
  killed    \* the runs that were killed where their pc says

vars == <<layout, outputs, dir, pc, phase, todo, temp, tries, seen, killed>>

\* What a write to a path lands in: through a link, or an alias of the name.
Entry(n) == IF layout = "distinct" THEN n ELSE "md"

Exists(e) == dir[e] # None

Whole(f) == f.text \in Names

\* Defect: the raw results are written before the report.
PlanResultsFirst(r) ==
  CASE outputs[r] = {"md"}   -> <<"md">>
    [] outputs[r] = {"json"} -> <<"json">>
    [] outputs[r] = Names    -> <<"json", "md">>
    [] OTHER                 -> <<>>

\* In the scripts' order.
Plan(r) ==
  CASE outputs[r] = {"md"}   -> <<"md">>
    [] outputs[r] = {"json"} -> <<"json">>
    [] outputs[r] = Names    -> <<"md", "json">>
    [] OTHER                 -> <<>>

Exits == {"exit0", "exit2"}

Goto(r, where) == pc' = [pc EXCEPT ![r] = where]

\* The end of the preflight, the benchmark, and the first write.
BeginWriting(r) ==
  /\ Goto(r, "target")
  /\ phase' = [phase EXCEPT ![r] = "write"]
  /\ todo' = [todo EXCEPT ![r] = Plan(r)]

-----------------------------------------------------------------------------
\* The directory as earlier runs left it; a read-only report is a user's doing.
Init ==
  /\ layout \in Layouts
  /\ outputs \in [Runs -> SUBSET Names]
  /\ \E f \in [Names -> {"absent", "custom", "readonly"}] :
       dir = [e \in Names \cup Temps |->
                IF e \in Temps \/ (layout # "distinct" /\ e = "json") THEN None
                ELSE IF f[e] = "absent" THEN None
                ELSE [by |-> "earlier", text |-> e, mode |-> f[e]]]
  /\ pc = [r \in Runs |-> "target"]
  /\ phase = [r \in Runs |-> "check"]
  /\ todo = [r \in Runs |-> Plan(r)]
  /\ temp = [r \in Runs |-> None]
  /\ tries = [r \in Runs |-> 0]
  /\ seen = [r \in Runs |-> FALSE]
  /\ killed = {}

\* Defect: what the preflight found is not looked up again by the write.
RefusesOnce(r) ==
  LET e == Entry(Head(todo[r])) IN
  phase[r] = "check" /\ Exists(e) /\ dir[e].mode = "readonly"

\* _refuse_unwritable_target
Refuses(r) ==
  LET e == Entry(Head(todo[r])) IN Exists(e) /\ dir[e].mode = "readonly"

\* check_writable and atomic_write_text begin alike.
CheckTarget(r) ==
  /\ pc[r] = "target"
  /\ todo[r] # <<>>
  /\ IF Refuses(r) THEN Goto(r, "exit2") ELSE Goto(r, "naming")
  /\ tries' = [tries EXCEPT ![r] = 0]
  /\ UNCHANGED <<layout, outputs, dir, phase, todo, temp, seen, killed>>

\* Defect: one attempt too many.
OutOfAttemptsLate(r) == tries[r] = TempAttempts

OutOfAttempts(r) == tries[r] + 1 = TempAttempts

\* One attempt of _create_temp: the name is free, or another one is drawn.
CreateTemp(r, t) ==
  /\ pc[r] = "naming"
  /\ IF ~Exists(t)
     THEN /\ dir' = [dir EXCEPT ![t] = [by |-> r, text |-> "empty", mode |-> "umask"]]
          /\ temp' = [temp EXCEPT ![r] = t]
          /\ Goto(r, IF phase[r] = "check" THEN "testing" ELSE "filling")
          /\ UNCHANGED tries
     ELSE /\ IF OutOfAttempts(r)
             THEN Goto(r, "exit2") /\ UNCHANGED tries
             ELSE tries' = [tries EXCEPT ![r] = @ + 1] /\ UNCHANGED pc
          /\ UNCHANGED <<dir, temp>>
  /\ UNCHANGED <<layout, outputs, phase, todo, seen, killed>>

\* check_writable removes the temporary file again.
RemoveTestFile(r) ==
  /\ pc[r] = "testing"
  /\ dir' = [dir EXCEPT ![temp[r]] = None]
  /\ temp' = [temp EXCEPT ![r] = None]
  /\ todo' = [todo EXCEPT ![r] = Tail(@)]
  /\ Goto(r, "target")
  /\ UNCHANGED <<layout, outputs, phase, tries, seen, killed>>

-----------------------------------------------------------------------------
(* same_file(md, json), when both are given.                               *)

\* Neither realpath nor the file system may make the two names one.
Compare(r) ==
  /\ pc[r] = "target" /\ phase[r] = "check" /\ todo[r] = <<>>
  /\ IF outputs[r] # Names THEN BeginWriting(r)
     ELSE /\ Goto(r, IF layout = "symlink" THEN "exit2" ELSE "looking_at_md")
          /\ UNCHANGED <<phase, todo>>
  /\ UNCHANGED <<layout, outputs, dir, temp, tries, seen, killed>>

LookAtReport(r) ==
  /\ pc[r] = "looking_at_md"
  /\ seen' = [seen EXCEPT ![r] = Exists("md")]
  /\ Goto(r, "looking_at_json")
  /\ UNCHANGED <<layout, outputs, dir, phase, todo, temp, tries, killed>>

\* Defect (before #234): two absent names are taken for two files.
LookAtResultsOnly(r) ==
  /\ pc[r] = "looking_at_json"
  /\ IF seen[r] /\ Exists(Entry("json")) /\ layout = "alias"
     THEN Goto(r, "exit2") /\ UNCHANGED <<phase, todo>>
     ELSE BeginWriting(r)
  /\ UNCHANGED <<layout, outputs, dir, temp, tries, seen, killed>>

\* Both exist: samefile.  One does: they are two.  None does: ask by a probe.
LookAtResults(r) ==
  /\ pc[r] = "looking_at_json"
  /\ IF seen[r] # Exists(Entry("json")) THEN BeginWriting(r)
     ELSE IF ~seen[r] THEN Goto(r, "probe") /\ UNCHANGED <<phase, todo>>
     ELSE IF layout = "alias" THEN Goto(r, "exit2") /\ UNCHANGED <<phase, todo>>
     ELSE BeginWriting(r)
  /\ UNCHANGED <<layout, outputs, dir, temp, tries, seen, killed>>

\* The probe creates the report exclusively.
Probe(r) ==
  /\ pc[r] = "probe"
  /\ IF Exists("md") THEN Goto(r, "exit2") /\ UNCHANGED dir
     ELSE /\ dir' = [dir EXCEPT !["md"] = [by |-> r, text |-> "empty", mode |-> "private"]]
          /\ Goto(r, "probed")
  /\ UNCHANGED <<layout, outputs, phase, todo, temp, tries, seen, killed>>

\* It looks for the other name, and removes the one it created.
RemoveProbe(r) ==
  /\ pc[r] = "probed"
  /\ dir' = [dir EXCEPT !["md"] = None]
  /\ IF layout = "alias" THEN Goto(r, "exit2") /\ UNCHANGED <<phase, todo>> ELSE BeginWriting(r)
  /\ UNCHANGED <<layout, outputs, temp, tries, seen, killed>>

-----------------------------------------------------------------------------
(* atomic_write_text, from its temporary file on.                          *)

\* Defect: no flush and fsync before the rename.
FillUnsynced(r) ==
  /\ pc[r] = "filling"
  /\ dir' = [dir EXCEPT ![temp[r]].text = "partial"]
  /\ Goto(r, "copying_mode")
  /\ UNCHANGED <<layout, outputs, phase, todo, temp, tries, seen, killed>>

\* The text reaches the file in parts; flush and fsync wait for the last.
Fill(r) ==
  /\ pc[r] = "filling"
  /\ IF dir[temp[r]].text = "empty"
     THEN dir' = [dir EXCEPT ![temp[r]].text = "partial"] /\ UNCHANGED pc
     ELSE dir' = [dir EXCEPT ![temp[r]].text = Head(todo[r])] /\ Goto(r, "copying_mode")
  /\ UNCHANGED <<layout, outputs, phase, todo, temp, tries, seen, killed>>

\* Defect (before #124): every overwrite resets the permissions.
KeepTempMode(r) ==
  /\ pc[r] = "copying_mode"
  /\ Goto(r, "replacing")
  /\ UNCHANGED <<layout, outputs, dir, phase, todo, temp, tries, seen, killed>>

\* _copy_existing_mode
CopyExistingMode(r) ==
  LET e == Entry(Head(todo[r])) IN
  /\ pc[r] = "copying_mode"
  /\ dir' = IF Exists(e) THEN [dir EXCEPT ![temp[r]].mode = dir[e].mode] ELSE dir
  /\ Goto(r, "replacing")
  /\ UNCHANGED <<layout, outputs, phase, todo, temp, tries, seen, killed>>

Replace(r) ==
  /\ pc[r] = "replacing"
  /\ dir' = [dir EXCEPT ![Entry(Head(todo[r]))] = dir[temp[r]], ![temp[r]] = None]
  /\ temp' = [temp EXCEPT ![r] = None]
  /\ todo' = [todo EXCEPT ![r] = Tail(@)]
  /\ Goto(r, "target")
  /\ UNCHANGED <<layout, outputs, phase, tries, seen, killed>>

Finish(r) ==
  /\ pc[r] = "target" /\ phase[r] = "write" /\ todo[r] = <<>>
  /\ Goto(r, "exit0")
  /\ UNCHANGED <<layout, outputs, dir, phase, todo, temp, tries, seen, killed>>

-----------------------------------------------------------------------------
(* What goes wrong.                                                        *)

Fallible == {"target", "naming", "looking_at_md", "looking_at_json", "probe",
             "filling", "copying_mode", "replacing"}

\* Defect: no `finally`.
FailKeepingTemp(r) ==
  /\ pc[r] \in Fallible
  /\ Goto(r, "exit2")
  /\ temp' = [temp EXCEPT ![r] = None]
  /\ UNCHANGED <<layout, outputs, dir, phase, todo, tries, seen, killed>>

\* A system call raises OSError: the temporary file goes, the script exits 2.
Fail(r) ==
  /\ pc[r] \in Fallible
  /\ Goto(r, "exit2")
  /\ dir' = IF temp[r] = None THEN dir ELSE [dir EXCEPT ![temp[r]] = None]
  /\ temp' = [temp EXCEPT ![r] = None]
  /\ UNCHANGED <<layout, outputs, phase, todo, tries, seen, killed>>

\* A crash: the directory stays as it is.
Kill(r) ==
  /\ pc[r] \notin Exits
  /\ killed' = killed \cup {r}
  /\ UNCHANGED <<layout, outputs, dir, pc, phase, todo, temp, tries, seen>>

Step(r) ==
  \/ CheckTarget(r)
  \/ \E t \in Temps : CreateTemp(r, t)
  \/ RemoveTestFile(r)
  \/ Compare(r)
  \/ LookAtReport(r)
  \/ LookAtResults(r)
  \/ Probe(r)
  \/ RemoveProbe(r)
  \/ Fill(r)
  \/ CopyExistingMode(r)
  \/ Replace(r)
  \/ Finish(r)
  \/ Fail(r)
  \/ Kill(r)

\* A run has looked at n and is about to replace or remove it.
Busy(n) ==
  \E r \in Runs \ killed :
    \/ pc[r] = "probed" /\ n = "md"
    \/ /\ phase[r] = "write" /\ pc[r] \in {"naming", "filling", "copying_mode", "replacing"}
       /\ Entry(Head(todo[r])) = n

\* A user's chmod.
Protect(n) ==
  /\ Exists(n) /\ Whole(dir[n]) /\ dir[n].mode # "readonly"
  /\ ~Busy(n)
  /\ dir' = [dir EXCEPT ![n].mode = "readonly"]
  /\ UNCHANGED <<layout, outputs, pc, phase, todo, temp, tries, seen, killed>>

Ended(r) == r \in killed \/ pc[r] \in Exits

Next ==
  \/ \E r \in Runs \ killed : Step(r)
  \/ \E n \in Names : Protect(n)
  \/ (\A r \in Runs : Ended(r)) /\ UNCHANGED vars

Spec == Init /\ [][Next]_vars

-----------------------------------------------------------------------------
(* Properties.                                                             *)

\* Every variable stays within its type; _create_temp draws no name after its
\* last attempt failed.
TypeOK ==
  /\ layout \in Layouts
  /\ outputs \in [Runs -> SUBSET Names]
  /\ dir \in [Names \cup Temps -> Files \cup {None}]
  /\ pc \in [Runs -> Exits \cup Fallible \cup {"testing", "probed"}]
  /\ phase \in [Runs -> {"check", "write"}]
  /\ todo \in [Runs -> {<<>>, <<"md">>, <<"json">>, <<"md", "json">>}]
  /\ temp \in [Runs -> Temps \cup {None}]
  /\ tries \in [Runs -> 0..(TempAttempts - 1)]
  /\ seen \in [Runs -> BOOLEAN]
  /\ killed \subseteq Runs

\* Whenever a run is killed, and whatever other runs do at the same paths, a
\* reader finds no report, an earlier one or a complete new one: never one
\* half written.  The one exception is the empty file of same_file's probe.
DestinationWhole ==
  \A n \in Names : Exists(n) =>
    \/ Whole(dir[n]) /\ (layout = "distinct" => dir[n].text = n)
    \/ n = "md" /\ dir[n].text = "empty" /\ dir[n].by \in Runs /\ pc[dir[n].by] = "probed"

\* A run that exits, on whatever path, leaves no temporary file; and no two
\* runs ever write to one.
NoTempLeft ==
  \A t \in Temps : Exists(t) => dir[t].by \in Runs /\ temp[dir[t].by] = t

\* No other run did anything but start.
Undisturbed(r) == \A q \in Runs \ {r} : pc[q] = "target" /\ phase[q] = "check"

Wrote(r, n) == Exists(Entry(n)) /\ dir[Entry(n)].by = r /\ dir[Entry(n)].text = n

\* A run that had the directory for itself and exits 0 left each of its
\* outputs, as its own file: under no link and no alias did one replace the
\* other (#111, #188, #220, #234).  And wherever it stops, by an error or a
\* kill, its raw results stand beside no report but its own: what a failure
\* may leave behind is the new report beside earlier results.
PairFromOneRun ==
  \A r \in Runs : Undisturbed(r) =>
    /\ pc[r] = "exit0" => \A n \in outputs[r] : Wrote(r, n)
    /\ (outputs[r] = Names /\ Exists("json") /\ dir["json"].by = r) => Wrote(r, "md")

\* A report that was there keeps its permissions through every overwrite
\* (#124), and a read-only one is never overwritten (#246): not even one that
\* became so after the preflight, during the benchmark.
PermissionsKept ==
  [][\A n \in Names : (Exists(n) /\ dir[n].mode \in {"custom", "readonly"}) =>
       /\ Exists(n)'
       /\ dir[n].mode = "custom" =>
            dir'[n].mode = "custom" \/ dir'[n] = [dir[n] EXCEPT !.mode = "readonly"]
       /\ dir[n].mode = "readonly" => dir'[n] = dir[n]]_vars

\* same_file: "*a* is created exclusively, *b* is checked, and *a* is
\* removed".  It is removed by its name: by then it may be another run's report.
ProbeRemovesItsOwnDoc ==
  [][\A r \in Runs : (pc[r] = "probed" /\ pc'[r] # "probed") =>
       Exists("md") /\ dir["md"].by = r /\ ~Whole(dir["md"])]_vars
=============================================================================
