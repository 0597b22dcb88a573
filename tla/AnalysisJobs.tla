---------------------------- MODULE AnalysisJobs ----------------------------
(***************************************************************************)
(* The analysis of finished tasks.  apiserver's scheduler goroutine looks  *)
(* every ten seconds for DONE tasks that are not analysed, marks each as   *)
(* being analysed and runs hotmethod_analyzer.py for it, one at a time,    *)
(* to the end.  The script is a process of its own with its own            *)
(* connections: it marks the task again, downloads the raw file, uploads   *)
(* its results one by one, stores suggestions and writes the outcome.      *)
(* Meanwhile users delete tasks, statements and transfers fail, the script *)
(* is killed and apiserver crashes.                                        *)
(*                                                                         *)
(* The script reads and writes rows by plain SQL, which a soft delete does *)
(* not hide; apiserver goes through GORM, which it does.                   *)
(***************************************************************************)
EXTENDS Naturals, Sequences

CONSTANTS Tasks, Nobody, MaxFaults

ASSUME AnalysisAssumption == Nobody \notin Tasks /\ MaxFaults \in Nat

VARIABLES
  done, hasKey, deleted,  \* status = DONE, cos_key # "", deleted_at
  analysis,               \* analysis_status
  suggestions,            \* batches of analysis_suggestion rows
  objects,                \* object keys below <tid>/
  tick,                   \* runAnalysisTick: program counter, rows left, task
  script,                 \* the task's script: program counter, files sent
  starts,                 \* how often the script was started for the task
  remover,                \* DeleteTask after its UPDATE, and the keys it listed
  faults

vars == <<done, hasKey, deleted, analysis, suggestions, objects, tick, script,
          starts, remover, faults>>

Pending   == 0
Running   == 1
Succeeded == 2
Failed    == 3

(* What a run uploads, in this order. *)
Files   == <<"flamegraph", "top", "suggestions.md", "ai_suggestion.md">>
Results == {Files[i] : i \in 1..Len(Files)}

NoScript == [pc |-> "none", sent |-> 0]
Ended    == {"none", "exit0", "exit1"}
TickIdle == [pc |-> "idle", left |-> {}, at |-> Nobody]

Init ==
  /\ done = [t \in Tasks |-> FALSE]
  /\ hasKey = [t \in Tasks |-> FALSE]
  /\ deleted = [t \in Tasks |-> FALSE]
  /\ analysis = [t \in Tasks |-> Pending]
  /\ suggestions = [t \in Tasks |-> 0]
  /\ objects = [t \in Tasks |-> {}]
  /\ tick = TickIdle
  /\ script = [t \in Tasks |-> NoScript]
  /\ starts = [t \in Tasks |-> 0]
  /\ remover = [t \in Tasks |-> [pc |-> "none", keys |-> {}]]
  /\ faults = 0

Works == UNCHANGED faults
Fault == faults < MaxFaults /\ faults' = faults + 1
-----------------------------------------------------------------------------
(* A task's file is stored and the task becomes DONE, deleted or not.      *)
(* That cos_key could not be written is not noticed by the upload handler; *)
(* on a deleted row it is not.                                             *)
Finish(t) ==
  /\ ~done[t]
  /\ done' = [done EXCEPT ![t] = TRUE]
  /\ objects' = [objects EXCEPT ![t] = @ \cup {"raw"}]
  /\ \/ Works /\ hasKey' = [hasKey EXCEPT ![t] = ~deleted[t]]
     \/ Fault /\ UNCHANGED hasKey
  /\ UNCHANGED <<deleted, analysis, suggestions, tick, script, starts, remover>>

(* DeleteTask: the row is soft-deleted.  The DELETE of its suggestions     *)
(* names a column, tid, that analysis_suggestion does not have; its error  *)
(* is not looked at.                                                       *)
DeleteTask(t) ==
  /\ ~deleted[t]
  /\ deleted' = [deleted EXCEPT ![t] = TRUE]
  /\ remover' = [remover EXCEPT ![t] = [pc |-> "list", keys |-> {}]]
  /\ UNCHANGED <<done, hasKey, analysis, suggestions, objects, tick, script,
                 starts, faults>>

ListObjects(t) ==
  /\ remover[t].pc = "list"
  /\ remover' = [remover EXCEPT ![t] = [pc |-> "remove", keys |-> objects[t]]]
  /\ UNCHANGED <<done, hasKey, deleted, analysis, suggestions, objects, tick,
                 script, starts, faults>>

RemoveObjects(t) ==
  /\ remover[t].pc = "remove"
  /\ \/ Works /\ objects' = [objects EXCEPT ![t] = @ \ remover[t].keys]
     \/ Fault /\ \E kept \in SUBSET remover[t].keys :
                   objects' = [objects EXCEPT ![t] = @ \ (remover[t].keys \ kept)]
  /\ remover' = [remover EXCEPT ![t] = [pc |-> "none", keys |-> {}]]
  /\ UNCHANGED <<done, hasKey, deleted, analysis, suggestions, tick, script, starts>>
-----------------------------------------------------------------------------
(* The scheduler goroutine. *)

(* The ten seconds are over: Find.  Rows with no cos_key are passed over;  *)
(* that is decided on the row as it was found.                             *)
Waiting == {t \in Tasks : done[t] /\ analysis[t] = Pending /\ ~deleted[t]}

FindTasks ==
  /\ tick.pc = "idle"
  /\ \/ Works /\ tick' = [pc |-> "next", left |-> {t \in Waiting : hasKey[t]},
                          at |-> Nobody]
     \/ Fault /\ UNCHANGED tick
  /\ UNCHANGED <<done, hasKey, deleted, analysis, suggestions, objects, script,
                 starts, remover>>

TickEnds ==
  /\ tick.pc = "next" /\ tick.left = {}
  /\ tick' = TickIdle
  /\ UNCHANGED <<done, hasKey, deleted, analysis, suggestions, objects, script,
                 starts, remover, faults>>

(* updateAnalysisStatus(1): no row, no error, when the task is deleted. *)
GormUpdate(t, value) ==
  analysis' = IF deleted[t] THEN analysis ELSE [analysis EXCEPT ![t] = value]

(* Mutant: the task is left to the script to mark. *)
MarkAnalysisLater(t) ==
  /\ tick.pc = "next" /\ t \in tick.left
  /\ Works
  /\ tick' = [pc |-> "spawn", left |-> tick.left \ {t}, at |-> t]
  /\ UNCHANGED <<done, hasKey, deleted, analysis, suggestions, objects, script,
                 starts, remover>>

MarkAnalysis(t) ==
  /\ tick.pc = "next" /\ t \in tick.left
  /\ \/ /\ Works
        /\ GormUpdate(t, Running)
        /\ tick' = [pc |-> "spawn", left |-> tick.left \ {t}, at |-> t]
     \/ /\ Fault
        /\ tick' = [tick EXCEPT !.left = @ \ {t}]
        /\ UNCHANGED analysis
  /\ UNCHANGED <<done, hasKey, deleted, suggestions, objects, script, starts, remover>>

(* cmd.CombinedOutput(), which returns when the script has ended. *)
SpawnAnalysis ==
  /\ tick.pc = "spawn"
  /\ script' = [script EXCEPT ![tick.at] = [pc |-> "mark", sent |-> 0]]
  /\ starts' = [starts EXCEPT ![tick.at] = @ + 1]
  /\ tick' = [tick EXCEPT !.pc = "wait"]
  /\ UNCHANGED <<done, hasKey, deleted, analysis, suggestions, objects, remover,
                 faults>>

AnalysisReturns ==
  /\ tick.pc = "wait"
  /\ \/ script[tick.at].pc = "exit0" /\ Works /\ UNCHANGED analysis
     \/ script[tick.at].pc = "exit1" /\ Works /\ GormUpdate(tick.at, Failed)
     \/ script[tick.at].pc = "exit1" /\ Fault /\ UNCHANGED analysis
  /\ tick' = [tick EXCEPT !.pc = "next", !.at = Nobody]
  /\ UNCHANGED <<done, hasKey, deleted, suggestions, objects, script, starts, remover>>
-----------------------------------------------------------------------------
(* hotmethod_analyzer.py for task t. *)

Goto(t, pc) == script' = [script EXCEPT ![t].pc = pc]

(* update_analysis_status(1), outside the try: an exception ends it. *)
ScriptMark(t) ==
  /\ script[t].pc = "mark"
  /\ \/ Works /\ analysis' = [analysis EXCEPT ![t] = Running] /\ Goto(t, "fetch")
     \/ Fault /\ UNCHANGED analysis /\ Goto(t, "exit1")
  /\ UNCHANGED <<done, hasKey, deleted, suggestions, objects, tick, starts, remover>>

(* Mutant: the script exits quietly when it cannot go on. *)
ScriptFetchOrExit(t) ==
  /\ script[t].pc = "fetch"
  /\ \/ "raw" \in objects[t] /\ Works /\ Goto(t, "upload")
     \/ Works /\ Goto(t, "exit0")
  /\ UNCHANGED <<done, hasKey, deleted, analysis, suggestions, objects, tick,
                 starts, remover>>

(* get_task_info, download_file and the pipeline of the profiler type.     *)
(* There is none for a script's output, and tools fail on bad data.        *)
ScriptFetch(t) ==
  /\ script[t].pc = "fetch"
  /\ \/ "raw" \in objects[t] /\ Works /\ Goto(t, "upload")
     \/ Works /\ Goto(t, "fail")
  /\ UNCHANGED <<done, hasKey, deleted, analysis, suggestions, objects, tick,
                 starts, remover>>

(* Mutant: one file too many. *)
ScriptUploadOneMore(t) ==
  /\ script[t].pc = "upload"
  /\ Works
  /\ objects' = [objects EXCEPT ![t] = @ \cup {Files[script[t].sent + 1]}]
  /\ script' = [script EXCEPT
       ![t] = [pc |-> IF script[t].sent = Len(Files) THEN "insert" ELSE "upload",
               sent |-> script[t].sent + 1]]
  /\ UNCHANGED <<done, hasKey, deleted, analysis, suggestions, tick, starts, remover>>

(* Mutant: a failed upload is passed over. *)
ScriptUploadAnyway(t) ==
  /\ script[t].pc = "upload"
  /\ \/ Works /\ objects' = [objects EXCEPT ![t] = @ \cup {Files[script[t].sent + 1]}]
     \/ Fault /\ UNCHANGED objects
  /\ script' = [script EXCEPT
       ![t] = [pc |-> IF script[t].sent + 1 = Len(Files) THEN "insert" ELSE "upload",
               sent |-> script[t].sent + 1]]
  /\ UNCHANGED <<done, hasKey, deleted, analysis, suggestions, tick, starts, remover>>

(* upload_file of the artifacts and then of the two reports. *)
ScriptUpload(t) ==
  /\ script[t].pc = "upload"
  /\ \/ /\ Works
        /\ objects' = [objects EXCEPT ![t] = @ \cup {Files[script[t].sent + 1]}]
        /\ script' = [script EXCEPT
             ![t] = [pc |-> IF script[t].sent + 1 = Len(Files) THEN "insert" ELSE "upload",
                     sent |-> script[t].sent + 1]]
     \/ Fault /\ UNCHANGED objects /\ Goto(t, "fail")
  /\ UNCHANGED <<done, hasKey, deleted, analysis, suggestions, tick, starts, remover>>

(* insert_suggestions, one transaction; a failure is only a warning. *)
ScriptInsert(t) ==
  /\ script[t].pc = "insert"
  /\ \/ Works /\ suggestions' = [suggestions EXCEPT ![t] = @ + 1]
     \/ Fault /\ UNCHANGED suggestions
  /\ Goto(t, "succeed")
  /\ UNCHANGED <<done, hasKey, deleted, analysis, objects, tick, starts, remover>>

ScriptSucceed(t) ==
  /\ script[t].pc = "succeed"
  /\ \/ Works /\ analysis' = [analysis EXCEPT ![t] = Succeeded] /\ Goto(t, "exit0")
     \/ Fault /\ UNCHANGED analysis /\ Goto(t, "fail")
  /\ UNCHANGED <<done, hasKey, deleted, suggestions, objects, tick, starts, remover>>

(* The except clause. *)
ScriptFail(t) ==
  /\ script[t].pc = "fail"
  /\ \/ Works /\ analysis' = [analysis EXCEPT ![t] = Failed]
     \/ Fault /\ UNCHANGED analysis
  /\ Goto(t, "exit1")
  /\ UNCHANGED <<done, hasKey, deleted, suggestions, objects, tick, starts, remover>>

(* The script is killed. *)
ScriptDies(t) ==
  /\ script[t].pc \notin Ended
  /\ Fault
  /\ Goto(t, "exit1")
  /\ UNCHANGED <<done, hasKey, deleted, analysis, suggestions, objects, tick,
                 starts, remover>>

(* apiserver dies and is started again; a running script dies with its     *)
(* container or, started on a host, goes on.                               *)
ApiCrash ==
  /\ Fault
  /\ tick' = TickIdle
  /\ remover' = [t \in Tasks |-> [pc |-> "none", keys |-> {}]]
  /\ \/ UNCHANGED script
     \/ script' = [t \in Tasks |-> IF script[t].pc \in Ended THEN script[t]
                                   ELSE [script[t] EXCEPT !.pc = "exit1"]]
  /\ UNCHANGED <<done, hasKey, deleted, analysis, suggestions, objects, starts>>
-----------------------------------------------------------------------------
SchedulerStep ==
  \/ FindTasks \/ TickEnds \/ SpawnAnalysis \/ AnalysisReturns
  \/ \E t \in Tasks : MarkAnalysis(t)

ScriptStep(t) ==
  \/ ScriptMark(t) \/ ScriptFetch(t) \/ ScriptUpload(t) \/ ScriptInsert(t)
  \/ ScriptSucceed(t) \/ ScriptFail(t)

Next ==
  \/ \E t \in Tasks : Finish(t) \/ DeleteTask(t) \/ ListObjects(t) \/ RemoveObjects(t)
  \/ SchedulerStep
  \/ \E t \in Tasks : ScriptStep(t) \/ ScriptDies(t)
  \/ ApiCrash

Spec == Init /\ [][Next]_vars

(* The goroutine's ticker goes on, and every script ends: its tools run    *)
(* under timeouts.                                                         *)
Fairness ==
  /\ WF_vars(SchedulerStep)
  /\ \A t \in Tasks : WF_vars(ScriptStep(t))

FairSpec == Spec /\ Fairness
-----------------------------------------------------------------------------
(* The type invariant. *)
TypeOK ==
  /\ done \in [Tasks -> BOOLEAN]
  /\ hasKey \in [Tasks -> BOOLEAN]
  /\ deleted \in [Tasks -> BOOLEAN]
  /\ analysis \in [Tasks -> {Pending, Running, Succeeded, Failed}]
  /\ suggestions \in [Tasks -> Nat]
  /\ objects \in [Tasks -> SUBSET (Results \cup {"raw"})]
  /\ tick \in [pc : {"idle", "next", "spawn", "wait"}, left : SUBSET Tasks,
               at : Tasks \cup {Nobody}]
  /\ tick.pc \in {"spawn", "wait"} <=> tick.at \in Tasks
  /\ script \in [Tasks -> [pc : Ended \cup {"mark", "fetch", "upload", "insert",
                                            "succeed", "fail"},
                           sent : 0..Len(Files)]]
  /\ \A t \in Tasks : /\ script[t].pc \in {"mark", "fetch"} => script[t].sent = 0
                      /\ script[t].pc = "upload" => script[t].sent < Len(Files)
  /\ starts \in [Tasks -> Nat]
  /\ remover \in [Tasks -> [pc : {"none", "list", "remove"},
                            keys : SUBSET (Results \cup {"raw"})]]
  /\ faults \in Nat

(***************************************************************************)
(* analysis_status = 2 means there is something to show: all the files the *)
(* result page loads are stored, for as long as the task is visible.       *)
(***************************************************************************)
SuccessHasResults ==
  \A t \in Tasks : analysis[t] = Succeeded /\ ~deleted[t] => Results \subseteq objects[t]

(***************************************************************************)
(* A task is analysed at most once, and has at most one batch of           *)
(* suggestions, also when apiserver crashed with the script running and    *)
(* looked for work again: nothing puts a task that was once marked back to *)
(* analysis_status = 0.                                                    *)
(***************************************************************************)
AnalysedOnce == \A t \in Tasks : starts[t] <= 1 /\ suggestions[t] <= starts[t]

(***************************************************************************)
(* A DONE task with a file is analysed, successfully or not, unless it is  *)
(* deleted or something fails first: no tick and no script is waited for   *)
(* in vain.                                                                *)
(***************************************************************************)
AnalysisSettles ==
  \A t \in Tasks : (done[t] /\ hasKey[t] /\ ~deleted[t])
                     ~> (analysis[t] \in {Succeeded, Failed} \/ deleted[t] \/ faults > 0)
-----------------------------------------------------------------------------
(* What the script has stored of its results is there, or the task is gone. *)
ResultsKept(t) ==
  \/ deleted[t]
  \/ /\ script[t].pc = "upload" => \A i \in 1..script[t].sent : Files[i] \in objects[t]
     /\ script[t].pc \in {"insert", "succeed"} \/ analysis[t] = Succeeded
          => Results \subseteq objects[t]

(* What runAnalysisTick is about to start was never started, and was      *)
(* marked, or is gone.                                                     *)
TickKept ==
  /\ tick.pc = "spawn" => /\ starts[tick.at] = 0
                          /\ analysis[tick.at] # Pending \/ deleted[tick.at]
  /\ tick.at \notin tick.left

(* What it has found was never started either; a task that was is not      *)
(* Pending; and a script inserts its suggestions once.                     *)
StartedOnce(t) ==
  /\ starts[t] = 0 => script[t].pc = "none" /\ suggestions[t] = 0
  /\ starts[t] = 1 => analysis[t] # Pending \/ deleted[t]
  /\ t \in tick.left => starts[t] = 0
  /\ script[t].pc \in {"mark", "fetch", "upload", "insert"} => suggestions[t] = 0

(***************************************************************************)
(* The inductive invariant behind SuccessHasResults and AnalysedOnce: the  *)
(* mark that runAnalysisTick sets is never taken back, and only DeleteTask *)
(* removes what a script has uploaded.                                     *)
(***************************************************************************)
AnalysisInv ==
  /\ \A t \in Tasks : /\ remover[t].pc # "none" => deleted[t]
                      /\ StartedOnce(t)
                      /\ ResultsKept(t)
  /\ TickKept
  /\ AnalysedOnce
=============================================================================
