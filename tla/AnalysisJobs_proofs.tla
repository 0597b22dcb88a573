------------------------- MODULE AnalysisJobs_proofs -------------------------
(***************************************************************************)
(* Proofs about AnalysisJobs for any set of tasks and any number of        *)
(* faults.  AnalysedOnce is not inductive: that the tick starts a script   *)
(* at most once rests on the mark it sets first, which nothing ever takes  *)
(* back, and on the tick never holding a task that was started.            *)
(* SuccessHasResults needs that every file was uploaded before the script  *)
(* writes its outcome, and that objects go only after the row is hidden.   *)
(***************************************************************************)
EXTENDS AnalysisJobs, TLAPS

USE SMTT(20), ZenonT(20) DEF Pending, Running, Succeeded, Failed

(* The four files that a script uploads, one by one. *)
LEMMA FourFiles ==
  /\ Len(Files) = 4 /\ DOMAIN Files = 1..4
  /\ Results = {Files[1], Files[2], Files[3], Files[4]}
  /\ \A i \in 1..4 : Files[i] \in Results
<1>1. Len(Files) = 4 /\ DOMAIN Files = 1..4
  BY DEF Files
<1>2. 1..4 = {1, 2, 3, 4}
  OBVIOUS
<1> QED
  BY <1>1, <1>2 DEF Results

(* TypeOK by what a step changes together. *)
RowsTyped ==
  /\ done \in [Tasks -> BOOLEAN]
  /\ hasKey \in [Tasks -> BOOLEAN]
  /\ deleted \in [Tasks -> BOOLEAN]

DataTyped ==
  /\ analysis \in [Tasks -> {Pending, Running, Succeeded, Failed}]
  /\ suggestions \in [Tasks -> Nat]
  /\ objects \in [Tasks -> SUBSET (Results \cup {"raw"})]
  /\ starts \in [Tasks -> Nat]
  /\ remover \in [Tasks -> [pc : {"none", "list", "remove"},
                            keys : SUBSET (Results \cup {"raw"})]]
  /\ faults \in Nat

TickTyped ==
  /\ tick \in [pc : {"idle", "next", "spawn", "wait"}, left : SUBSET Tasks,
               at : Tasks \cup {Nobody}]
  /\ tick.pc \in {"spawn", "wait"} <=> tick.at \in Tasks

ScriptTyped ==
  /\ script \in [Tasks -> [pc : Ended \cup {"mark", "fetch", "upload", "insert",
                                            "succeed", "fail"},
                           sent : 0..Len(Files)]]
  /\ \A t \in Tasks : /\ script[t].pc \in {"mark", "fetch"} => script[t].sent = 0
                      /\ script[t].pc = "upload" => script[t].sent < Len(Files)

(* The parts make up the type invariant. *)
LEMMA TypeParts == TypeOK <=> RowsTyped /\ DataTyped /\ TickTyped /\ ScriptTyped
  BY DEF TypeOK, RowsTyped, DataTyped, TickTyped, ScriptTyped

(* Every step keeps the types of the flags of a task's row. *)
LEMMA RowsNext == RowsTyped /\ [Next]_vars => RowsTyped'
<1> SUFFICES ASSUME RowsTyped, [Next]_vars PROVE RowsTyped'
  OBVIOUS
<1> USE AnalysisAssumption DEF RowsTyped
<1>1. ASSUME NEW t \in Tasks, Finish(t) PROVE RowsTyped'
  BY <1>1, Zenon DEF Finish
<1>2. ASSUME NEW t \in Tasks, DeleteTask(t) PROVE RowsTyped'
  BY <1>2 DEF DeleteTask
<1>3. CASE UNCHANGED <<done, hasKey, deleted>>
  BY <1>3
<1> QED
  BY <1>1, <1>2, <1>3
  DEF Next, SchedulerStep, ScriptStep, vars, ListObjects, RemoveObjects,
  FindTasks, TickEnds, MarkAnalysis, SpawnAnalysis, AnalysisReturns,
  ScriptMark, ScriptFetch, ScriptUpload, ScriptInsert, ScriptSucceed,
  ScriptFail, ScriptDies, ApiCrash

(* Every step keeps the types of what is stored of a task. *)
LEMMA DataNext == DataTyped /\ TickTyped /\ ScriptTyped /\ [Next]_vars => DataTyped'
<1> SUFFICES ASSUME DataTyped, TickTyped, ScriptTyped, [Next]_vars PROVE DataTyped'
  OBVIOUS
<1> USE AnalysisAssumption DEF DataTyped, TickTyped, Works, Fault
<1>1. ASSUME NEW t \in Tasks, Finish(t) PROVE DataTyped'
  BY <1>1 DEF Finish
<1>2. ASSUME NEW t \in Tasks, DeleteTask(t) PROVE DataTyped'
  BY <1>2 DEF DeleteTask
<1>3. ASSUME NEW t \in Tasks, ListObjects(t) PROVE DataTyped'
  BY <1>3 DEF ListObjects
<1>4. ASSUME NEW t \in Tasks, RemoveObjects(t) PROVE DataTyped'
  <2>1. PICK gone \in SUBSET remover[t].keys : objects' = [objects EXCEPT ![t] = @ \ gone]
    BY <1>4, Zenon DEF RemoveObjects
  <2>2. objects' \in [Tasks -> SUBSET (Results \cup {"raw"})]
    BY <2>1
  <2> QED
    BY <1>4, <2>2 DEF RemoveObjects
<1>5. CASE FindTasks
  BY <1>5 DEF FindTasks, Waiting
<1>6. ASSUME NEW t \in Tasks, MarkAnalysis(t) PROVE DataTyped'
  BY <1>6 DEF MarkAnalysis, GormUpdate
<1>7. CASE SpawnAnalysis
  BY <1>7, FourFiles DEF SpawnAnalysis
<1>8. CASE AnalysisReturns
  BY <1>8 DEF AnalysisReturns, GormUpdate
<1>9. ASSUME NEW t \in Tasks, ScriptMark(t) PROVE DataTyped'
  BY <1>9 DEF ScriptMark
<1>10. ASSUME NEW t \in Tasks, ScriptFetch(t) PROVE DataTyped'
  BY <1>10 DEF ScriptFetch
<1>11. ASSUME NEW t \in Tasks, ScriptUpload(t) PROVE DataTyped'
  <2>1. Files[script[t].sent + 1] \in Results
    BY <1>11, FourFiles DEF ScriptUpload, ScriptTyped
  <2>2. objects' \in [Tasks -> SUBSET (Results \cup {"raw"})]
    <3>1. PICK f \in Results : objects' \in {objects, [objects EXCEPT ![t] = @ \cup {f}]}
      BY <1>11, <2>1, Zenon DEF ScriptUpload
    <3> QED
      BY <3>1
  <2> QED
    BY <1>11, <2>2 DEF ScriptUpload
<1>12. ASSUME NEW t \in Tasks, ScriptInsert(t) PROVE DataTyped'
  BY <1>12 DEF ScriptInsert
<1>13. ASSUME NEW t \in Tasks, ScriptSucceed(t) PROVE DataTyped'
  BY <1>13 DEF ScriptSucceed
<1>14. ASSUME NEW t \in Tasks, ScriptFail(t) PROVE DataTyped'
  BY <1>14 DEF ScriptFail
<1>15. ASSUME NEW t \in Tasks, ScriptDies(t) PROVE DataTyped'
  BY <1>15 DEF ScriptDies
<1>16. CASE ApiCrash
  BY <1>16 DEF ApiCrash, TickIdle
<1>17. CASE UNCHANGED <<analysis, suggestions, objects, starts, remover, faults>>
  BY <1>17
<1> QED
  BY <1>1, <1>2, <1>3, <1>4, <1>5, <1>6, <1>7, <1>8, <1>9, <1>10, <1>11, <1>12,
  <1>13, <1>14, <1>15, <1>16, <1>17
  DEF Next, SchedulerStep, ScriptStep, vars, TickEnds

(* Every step keeps the types of the scheduler goroutine's own state. *)
LEMMA TickNext == TickTyped /\ RowsTyped /\ [Next]_vars => TickTyped'
<1> SUFFICES ASSUME TickTyped, RowsTyped, [Next]_vars PROVE TickTyped'
  OBVIOUS
<1> USE AnalysisAssumption DEF TickTyped, RowsTyped
<1>1. CASE FindTasks
  BY <1>1 DEF FindTasks, Waiting
<1>2. CASE TickEnds
  BY <1>2 DEF TickEnds, TickIdle
<1>3. ASSUME NEW t \in Tasks, MarkAnalysis(t) PROVE TickTyped'
  BY <1>3 DEF MarkAnalysis, GormUpdate
<1>4. CASE SpawnAnalysis
  BY <1>4 DEF SpawnAnalysis
<1>5. CASE AnalysisReturns
  BY <1>5, Zenon DEF AnalysisReturns, GormUpdate
<1>6. CASE ApiCrash
  BY <1>6 DEF ApiCrash, TickIdle
<1>7. CASE UNCHANGED tick
  BY <1>7
<1> QED
  BY <1>1, <1>2, <1>3, <1>4, <1>5, <1>6, <1>7
  DEF Next, SchedulerStep, ScriptStep, vars, Finish, DeleteTask, ListObjects,
  RemoveObjects, ScriptMark, ScriptFetch, ScriptUpload, ScriptInsert,
  ScriptSucceed, ScriptFail, ScriptDies

(* Moving a script on changes its own program counter and nothing else. *)
LEMMA GotoEffect ==
  ASSUME ScriptTyped, NEW t \in Tasks, NEW p, Goto(t, p)
  PROVE  /\ script' = [script EXCEPT ![t] = [@ EXCEPT !.pc = p]]
         /\ \A u \in Tasks \ {t} : script'[u] = script[u]
         /\ script'[t].pc = p /\ script'[t].sent = script[t].sent
<1>1. script' = [script EXCEPT ![t] = [@ EXCEPT !.pc = p]]
  BY DEF Goto
<1> QED
  BY <1>1 DEF ScriptTyped

(* Moving a script on keeps the types. *)
LEMMA GotoTyped ==
  ASSUME ScriptTyped, NEW t \in Tasks, NEW p, Goto(t, p),
         p \in Ended \cup {"fetch", "upload", "insert", "succeed", "fail"},
         p = "fetch" => script[t].pc = "mark",
         p = "upload" => script[t].pc = "fetch"
  PROVE  ScriptTyped'
<1>1. /\ script' = [script EXCEPT ![t] = [@ EXCEPT !.pc = p]]
      /\ \A u \in Tasks \ {t} : script'[u] = script[u]
      /\ script'[t].pc = p /\ script'[t].sent = script[t].sent
  BY GotoEffect
<1>2. 0 < Len(Files)
  BY FourFiles
<1>3. \A u \in Tasks : /\ script'[u].pc \in {"mark", "fetch"} => script'[u].sent = 0
                       /\ script'[u].pc = "upload" => script'[u].sent < Len(Files)
  <2> TAKE u \in Tasks
  <2>1. CASE u = t
    <3>1. p # "mark"
      BY DEF Ended
    <3>2. script[t].pc \in {"mark", "fetch"} => script[t].sent = 0
      BY DEF ScriptTyped
    <3> QED
      BY <1>1, <1>2, <2>1, <3>1, <3>2
  <2>2. CASE u # t
    BY <1>1, <2>2 DEF ScriptTyped
  <2> QED
    BY <2>1, <2>2
<1>4. script' \in [Tasks -> [pc : Ended \cup {"mark", "fetch", "upload", "insert",
                                             "succeed", "fail"},
                            sent : 0..Len(Files)]]
  <2>1. [script[t] EXCEPT !.pc = p] = [pc |-> p, sent |-> script[t].sent]
    BY DEF ScriptTyped
  <2>2. script[t].sent \in 0..Len(Files)
    BY DEF ScriptTyped
  <2> QED
    BY <1>1, <2>1, <2>2 DEF ScriptTyped
<1> QED
  BY <1>3, <1>4 DEF ScriptTyped

(* Every step keeps the types of the scripts' state. *)
LEMMA ScriptNext == ScriptTyped /\ TickTyped /\ [Next]_vars => ScriptTyped'
<1> SUFFICES ASSUME ScriptTyped, TickTyped, [Next]_vars PROVE ScriptTyped'
  OBVIOUS
<1>1. CASE SpawnAnalysis
  BY <1>1, FourFiles DEF SpawnAnalysis, ScriptTyped, TickTyped
<1>2. ASSUME NEW t \in Tasks, ScriptUpload(t) PROVE ScriptTyped'
  <2>1. CASE Goto(t, "fail")
    BY <2>1, GotoTyped DEF Ended
  <2>2. CASE script' = [script EXCEPT
                ![t] = [pc |-> IF script[t].sent + 1 = Len(Files) THEN "insert" ELSE "upload",
                        sent |-> script[t].sent + 1]]
    BY <1>2, <2>2, FourFiles DEF ScriptUpload, ScriptTyped
  <2> QED
    BY <1>2, <2>1, <2>2 DEF ScriptUpload
<1>3. ASSUME NEW t \in Tasks, ScriptStep(t) \/ ScriptDies(t) PROVE ScriptTyped'
  BY <1>2, <1>3, GotoTyped
  DEF ScriptStep, ScriptMark, ScriptFetch, ScriptInsert, ScriptSucceed, ScriptFail,
      ScriptDies, Ended
<1>4. CASE ApiCrash
  <2>1. CASE script' = [t \in Tasks |-> IF script[t].pc \in Ended THEN script[t]
                                       ELSE [script[t] EXCEPT !.pc = "exit1"]]
    <3>1. \A t \in Tasks : script'[t] \in {script[t], [pc |-> "exit1", sent |-> script[t].sent]}
      BY <2>1 DEF ScriptTyped
    <3> QED
      BY <2>1, <3>1 DEF ScriptTyped, Ended
  <2> QED
    BY <1>4, <2>1 DEF ApiCrash, ScriptTyped
<1>5. CASE UNCHANGED script
  BY <1>5 DEF ScriptTyped
<1> QED
  BY <1>1, <1>3, <1>4, <1>5
  DEF Next, SchedulerStep, vars, Finish, DeleteTask, ListObjects, RemoveObjects,
      FindTasks, TickEnds, MarkAnalysis, AnalysisReturns

(* Every step keeps the types. *)
LEMMA TypeNext == TypeOK /\ [Next]_vars => TypeOK'
<1> SUFFICES ASSUME TypeOK, [Next]_vars PROVE TypeOK'
  OBVIOUS
<1>1. RowsTyped /\ DataTyped /\ TickTyped /\ ScriptTyped
  BY TypeParts
<1>2. RowsTyped' /\ DataTyped' /\ TickTyped' /\ ScriptTyped'
  BY <1>1, RowsNext, DataNext, TickNext, ScriptNext
<1> QED
  BY <1>2 DEF TypeOK, RowsTyped, DataTyped, TickTyped, ScriptTyped

(* A step that leaves the scheduler goroutine, the scripts and what they   *)
(* stored alone keeps AnalysisInv, whatever it deletes.                    *)
LEMMA RowSteps ==
  ASSUME TypeOK, AnalysisInv, NEW t \in Tasks,
         Finish(t) \/ DeleteTask(t) \/ ListObjects(t) \/ RemoveObjects(t)
  PROVE  AnalysisInv'
<1> USE DEF TypeOK, AnalysisInv, ResultsKept, StartedOnce, TickKept, AnalysedOnce
<1>1. CASE Finish(t)
  BY <1>1 DEF Finish
<1>2. CASE DeleteTask(t)
  BY <1>2 DEF DeleteTask
<1>3. CASE ListObjects(t)
  BY <1>3 DEF ListObjects
<1>4. CASE RemoveObjects(t)
  BY <1>4 DEF RemoveObjects
<1> QED
  BY <1>1, <1>2, <1>3, <1>4

(* What the tick looks for was never started.                              *)
LEMMA WaitingIsNew ==
  ASSUME TypeOK, AnalysisInv, NEW t \in Waiting PROVE starts[t] = 0
<1>1. t \in Tasks /\ starts[t] # 1
  BY Zenon DEF Waiting, AnalysisInv, StartedOnce
<1>2. starts[t] \in Nat /\ starts[t] <= 1
  BY <1>1 DEF TypeOK, AnalysisInv, AnalysedOnce
<1> QED
  BY <1>1, <1>2

(* What is to be started has the tick's mark on its row, or is hidden. *)
LEMMA Marked ==
  ASSUME TypeOK, NEW t \in Tasks, MarkAnalysis(t), tick'.pc = "spawn"
  PROVE  tick'.at = t /\ (analysis'[t] # Pending \/ deleted[t])
<1>1. tick' # [tick EXCEPT !.left = @ \ {t}]
  BY Zenon DEF MarkAnalysis, TypeOK
<1>2. tick'.at = t /\ GormUpdate(t, Running)
  BY <1>1 DEF MarkAnalysis
<1>3. deleted[t] \/ analysis' = [analysis EXCEPT ![t] = Running]
  BY <1>2, Zenon DEF GormUpdate
<1> QED
  BY <1>2, <1>3 DEF TypeOK

(* What the tick finds was never started, and it starts a task only after  *)
(* it has marked it.                                                       *)
LEMMA TickSteps ==
  ASSUME TypeOK, AnalysisInv, SchedulerStep PROVE AnalysisInv'
<1> USE AnalysisAssumption
    DEF TypeOK, AnalysisInv, ResultsKept, StartedOnce, TickKept, AnalysedOnce
<1>1. CASE FindTasks
  <2>1. \A t \in Waiting : starts[t] = 0
    BY WaitingIsNew, Zenon
  <2>2. tick'.left \subseteq Waiting \/ tick' = tick
    BY <1>1 DEF FindTasks
  <2>3. tick'.at \notin Tasks /\ tick'.pc \in {"next", "idle"}
    BY <1>1 DEF FindTasks
  <2>4. \A t \in Tasks : t \in tick'.left => starts[t] = 0
    BY <2>1, <2>2
  <2>5. tick'.at \notin tick'.left
    BY <1>1, <2>3 DEF FindTasks, Waiting
  <2> QED
    BY <1>1, <2>3, <2>4, <2>5 DEF FindTasks
<1>2. CASE TickEnds
  BY <1>2 DEF TickEnds, TickIdle
<1>3. ASSUME NEW t \in Tasks, MarkAnalysis(t) PROVE AnalysisInv'
  <2>1. tick'.left = tick.left \ {t} /\ tick'.at \in {t, tick.at} /\ tick'.pc \in {"next", "spawn"}
    BY <1>3 DEF MarkAnalysis
  <2>2. \A u \in Tasks : analysis'[u] = analysis[u] \/ analysis'[u] = Running
    BY <1>3 DEF MarkAnalysis, GormUpdate
  <2>3. tick'.pc = "spawn" => tick'.at = t /\ (analysis'[t] # Pending \/ deleted[t])
    BY <1>3, Marked, Zenon
  <2> QED
    BY <1>3, <2>1, <2>2, <2>3 DEF MarkAnalysis
<1>4. CASE SpawnAnalysis
  BY <1>4 DEF SpawnAnalysis
<1>5. CASE AnalysisReturns
  BY <1>5 DEF AnalysisReturns, GormUpdate
<1> QED
  BY <1>1, <1>2, <1>3, <1>4, <1>5 DEF SchedulerStep

(* A script writes its outcome after its last upload, and inserts one      *)
(* batch of suggestions.                                                   *)
LEMMA ScriptSteps ==
  ASSUME TypeOK, AnalysisInv, NEW t \in Tasks, ScriptStep(t) \/ ScriptDies(t)
  PROVE  AnalysisInv'
<1>1. UNCHANGED <<deleted, tick, starts, remover>>
  BY DEF ScriptStep, ScriptMark, ScriptFetch, ScriptUpload, ScriptInsert, ScriptSucceed,
         ScriptFail, ScriptDies
<1>2. ScriptTyped
  BY TypeParts
<1>3. \A u \in Tasks \ {t} : /\ script'[u] = script[u] /\ analysis'[u] = analysis[u]
                             /\ objects'[u] = objects[u] /\ suggestions'[u] = suggestions[u]
  BY <1>2, GotoEffect
  DEF TypeOK, ScriptStep, ScriptMark, ScriptFetch, ScriptUpload, ScriptInsert,
      ScriptSucceed, ScriptFail, ScriptDies
<1>4. analysis'[t] \in {analysis[t], Running, Succeeded, Failed}
  BY DEF TypeOK, ScriptStep, ScriptMark, ScriptFetch, ScriptUpload, ScriptInsert,
         ScriptSucceed, ScriptFail, ScriptDies
<1>5. script[t].pc # "none" /\ starts[t] = 1
  BY DEF TypeOK, ScriptStep, ScriptMark, ScriptFetch, ScriptUpload, ScriptInsert,
         ScriptSucceed, ScriptFail, ScriptDies, AnalysisInv, StartedOnce, AnalysedOnce, Ended
<1>6. \A u \in Tasks : remover'[u].pc # "none" => deleted'[u]
  BY <1>1 DEF AnalysisInv
<1>7. TickKept'
  BY <1>1, <1>3, <1>4, <1>5 DEF AnalysisInv, TickKept, TypeOK
<1>8. StartedOnce(t)' /\ suggestions'[t] <= 1
  BY <1>1, <1>2, <1>4, <1>5, GotoEffect
  DEF AnalysisInv, StartedOnce, AnalysedOnce, TypeOK, ScriptStep, ScriptMark,
      ScriptFetch, ScriptUpload, ScriptInsert, ScriptSucceed, ScriptFail, ScriptDies
<1>9. ResultsKept(t)'
  <2> SUFFICES ASSUME ~deleted[t] PROVE ResultsKept(t)'
    BY <1>1 DEF ResultsKept
  <2> USE DEF AnalysisInv, ResultsKept, TypeOK
  <2>1. CASE ScriptUpload(t)
    <3>1. CASE Goto(t, "fail") /\ UNCHANGED objects
      BY <1>1, <1>2, <2>1, <3>1, GotoEffect DEF ScriptUpload
    <3>2. CASE /\ objects' = [objects EXCEPT ![t] = @ \cup {Files[script[t].sent + 1]}]
               /\ script' = [script EXCEPT
                    ![t] = [pc |-> IF script[t].sent + 1 = Len(Files) THEN "insert" ELSE "upload",
                            sent |-> script[t].sent + 1]]
      <4>1. \A i \in 1..(script[t].sent + 1) : Files[i] \in objects'[t]
        BY <2>1, <3>2 DEF ScriptUpload
      <4>2. script[t].sent + 1 = 4 => Results \subseteq objects'[t]
        BY <4>1, FourFiles
      <4> QED
        BY <1>1, <2>1, <3>2, <4>1, <4>2, FourFiles DEF ScriptUpload
    <3> QED
      BY <2>1, <3>1, <3>2 DEF ScriptUpload
  <2>2. CASE ScriptFetch(t)
    BY <1>1, <1>2, <2>2, GotoEffect DEF ScriptFetch
  <2>3. CASE ScriptMark(t) \/ ScriptInsert(t) \/ ScriptSucceed(t) \/ ScriptFail(t)
               \/ ScriptDies(t)
    BY <1>1, <1>2, <2>3, GotoEffect
    DEF ScriptMark, ScriptInsert, ScriptSucceed, ScriptFail, ScriptDies
  <2> QED
    BY <2>1, <2>2, <2>3 DEF ScriptStep
<1>10. \A u \in Tasks : StartedOnce(u)' /\ ResultsKept(u)'
  BY <1>1, <1>3, <1>8, <1>9 DEF AnalysisInv, StartedOnce, ResultsKept
<1>11. AnalysedOnce'
  BY <1>1, <1>3, <1>5, <1>8 DEF AnalysisInv, AnalysedOnce
<1> QED
  BY <1>6, <1>7, <1>10, <1>11 DEF AnalysisInv

(* A crash of apiserver forgets the tick and at most ends the scripts.     *)
LEMMA CrashStep ==
  ASSUME TypeOK, AnalysisInv, ApiCrash PROVE AnalysisInv'
<1>1. UNCHANGED <<deleted, analysis, suggestions, objects, starts>>
  BY DEF ApiCrash
<1>2. \A t \in Tasks :
        script'[t] = script[t] \/ (script[t].pc # "none" /\ script'[t].pc = "exit1")
  <2>1. CASE UNCHANGED script
    BY <2>1
  <2>2. CASE script' = [t \in Tasks |-> IF script[t].pc \in Ended THEN script[t]
                                       ELSE [script[t] EXCEPT !.pc = "exit1"]]
    BY <2>2 DEF TypeOK, Ended
  <2> QED
    BY <2>1, <2>2 DEF ApiCrash
<1>3. tick' = TickIdle /\ \A t \in Tasks : remover'[t].pc = "none"
  BY DEF ApiCrash
<1>4. \A t \in Tasks : StartedOnce(t)' /\ ResultsKept(t)'
  BY <1>1, <1>2, <1>3 DEF AnalysisInv, StartedOnce, ResultsKept, TickIdle
<1>5. TickKept' /\ AnalysedOnce'
  BY <1>1, <1>3 DEF AnalysisInv, TickKept, AnalysedOnce, TickIdle
<1> QED
  BY <1>3, <1>4, <1>5 DEF AnalysisInv

(* The types and the inductive invariant hold in every behaviour.          *)
THEOREM Invariance == Spec => [](TypeOK /\ AnalysisInv)
<1>1. Init => TypeOK /\ AnalysisInv
  <2> SUFFICES ASSUME Init PROVE TypeOK /\ AnalysisInv
    OBVIOUS
  <2>1. TypeOK
    BY AnalysisAssumption, FourFiles DEF Init, TypeOK, TickIdle, NoScript, Ended
  <2>2. AnalysisInv
    BY AnalysisAssumption
    DEF Init, AnalysisInv, StartedOnce, ResultsKept, TickKept, AnalysedOnce, TickIdle,
        NoScript
  <2> QED
    BY <2>1, <2>2
<1>2. TypeOK /\ AnalysisInv /\ [Next]_vars => TypeOK' /\ AnalysisInv'
  <2> SUFFICES ASSUME TypeOK, AnalysisInv, [Next]_vars PROVE AnalysisInv'
    BY TypeNext
  <2>1. CASE UNCHANGED vars
    BY <2>1 DEF vars, AnalysisInv, StartedOnce, ResultsKept, TickKept, AnalysedOnce
  <2> QED
    BY <2>1, RowSteps, TickSteps, ScriptSteps, CrashStep DEF Next
<1> QED
  BY <1>1, <1>2, PTL DEF Spec

(* The type invariant of every behaviour.                                  *)
THEOREM TypeCorrect == Spec => []TypeOK
  BY Invariance, PTL

(* A visible task whose analysis_status says success has all the files its *)
(* result page loads, whatever else runs, fails or is deleted.             *)
THEOREM SuccessIsGenuine == Spec => []SuccessHasResults
<1>1. AnalysisInv => SuccessHasResults
  BY DEF AnalysisInv, ResultsKept, SuccessHasResults
<1> QED
  BY <1>1, Invariance, PTL

(* The script is started at most once for a task, crashes included, and    *)
(* its suggestions are stored at most once.                                *)
THEOREM NeverAnalysedTwice == Spec => []AnalysedOnce
<1>1. AnalysisInv => AnalysedOnce
  BY DEF AnalysisInv
<1> QED
  BY <1>1, Invariance, PTL
=============================================================================
