------------------------- MODULE TaskDispatch_lemmas ------------------------
(***************************************************************************)
(* Every step of TaskDispatch keeps its inductive invariant DispatchInv,   *)
(* proved part by part of the state.  First, which actions write a part    *)
(* (the ...Writers lemmas); every other action leaves it alone.  Then, for *)
(* each part of the invariant, the steps of its writers:                   *)
(*                                                                         *)
(*   - RequestsNext: a request keeps its task and its address;             *)
(*   - EvidenceNext: what DONE rests on is kept;                           *)
(*   - RowsNext: rows, their history and the reads of apiserver;           *)
(*   - StoreTyped to FaultsTyped, TypeNext, CopiesOutNext: types, and that *)
(*     only requests past their first history row have copies.             *)
(***************************************************************************)
EXTENDS TaskDispatch, TLAPS

USE SMTT(20), ZenonT(20)

(* The five statuses, and the two marks that are none of them.             *)
LEMMA StatusFacts ==
  /\ {PENDING, RUNNING, UPLOADING, DONE, FAILED} \subseteq Status
  /\ NoRow \notin Status /\ Hidden \notin Status /\ NoRow # Hidden
  /\ DONE \notin {PENDING, RUNNING, UPLOADING, FAILED}
BY DEF Status, PENDING, RUNNING, UPLOADING, DONE, FAILED, NoRow, Hidden

(* A request past its first history row is about a task that has a row.    *)
LEMMA OutKnown ==
  ASSUME DispatchInv
  PROVE  \A r \in Out : r \in Requests /\ TidOf(r) \in Tasks /\ Row(TidOf(r))
BY DEF DispatchInv, Out, RowsExist

(* PopTask and ReceiveTask: taking the head of a queue of S leaves one of S. *)
LEMMA SeqHeadTail ==
  ASSUME NEW S, NEW q \in Seq(S), q # <<>>
  PROVE  Head(q) \in S /\ Tail(q) \in Seq(S)
OBVIOUS

(* PushTask and Log: appending an element of S to a queue of S gives another. *)
LEMMA SeqAppend ==
  ASSUME NEW S, NEW q \in Seq(S), NEW e \in S
  PROVE  Append(q, e) \in Seq(S)
OBVIOUS

(* A queue of S is a queue of every larger set: Out only grows.            *)
LEMMA SeqMonotone ==
  ASSUME NEW S, NEW U, S \subseteq U, NEW q \in Seq(S)
  PROVE  q \in Seq(U)
OBVIOUS

(* The history row that Log inserts is an audit row.                       *)
LEMMA LogTyped ==
  ASSUME StoreOK, NEW t \in Tasks, NEW old \in Status \cup {NoRow}, NEW new \in Status,
         Log(t, old, new)
  PROVE  history' \in [Tasks -> Seq(Entry)]
<1> DEFINE e == [old |-> old, new |-> new]
<1>1. e \in Entry
  BY DEF Entry
<1> HIDE DEF e
<1>2. Append(history[t], e) \in Seq(Entry)
  BY <1>1, SeqAppend DEF StoreOK
<1>3. history' = [history EXCEPT ![t] = Append(history[t], e)]
  BY DEF Log, e, StoreOK
<1>4. QED
  BY <1>2, <1>3 DEF StoreOK

(* drop_server's UpdateTaskStatus keeps the types of the tables, whichever *)
(* of its early returns it takes.                                          *)
LEMMA UpdateTyped ==
  ASSUME StoreOK, NEW t \in Tasks, NEW new \in Status, UpdateTaskStatus(t, new),
         UNCHANGED <<deleted, target, params, kind, cosKey, objects>>
  PROVE  StoreOK'
<1>1. CASE UNCHANGED <<status, history>>
  BY <1>1 DEF StoreOK
<1>2. CASE status' = [status EXCEPT ![t] = new] /\ Log(t, status[t], new)
  <2>1. status[t] \in Status \cup {NoRow}
    BY DEF StoreOK
  <2>2. history' \in [Tasks -> Seq(Entry)]
    BY <1>2, <2>1, LogTyped
  <2>3. status' \in [Tasks -> Status \cup {NoRow}]
    BY <1>2 DEF StoreOK
  <2>4. QED
    BY <2>2, <2>3 DEF StoreOK
<1>3. QED
  BY <1>1, <1>2 DEF UpdateTaskStatus

-----------------------------------------------------------------------------
(* Who writes the tables and the object store.                             *)
LEMMA StoreWriters ==
  [Next]_vars =>
    \/ \E r \in Requests, t \in Tasks, ip \in Agents, s \in Ips,
          k \in {"single", "continuous"} : Insert(r, t, ip, s, k)
    \/ \E r \in Requests : \/ LogCreated(r) \/ GoWrite(r) \/ PutObject(r)
                           \/ SetCosKey(r) \/ MarkRunningOrphan(r)
    \/ \E t \in Tasks : DeleteTask(t) \/ RemoveObjects(t)
    \/ \E n \in notes : NotifyUploading(n) \/ NotifyDone(n) \/ NotifyFailed(n)
    \/ \E a \in Agents : MarkRunning(a)
    \/ UNCHANGED store
BY Zenon
DEF Next, UserNext, CreateTask, NLChat, Ips, RequestStep, UploadStep, CallStep,
    DeleteStep, NoteStep, HeartbeatStep, WorkerStep, FaultNext, vars,
    RetryTask, GoRead, DispatchOk, AcceptTask, PushTask, RunnerError,
    ListObjects, PopTask, ReceiveTask, StartTask, RecordError, RecordOk,
    UploadOk, UploadError, Report, Reported, DispatchError, PutError,
    PopTaskOrphan, HeartbeatError, ReportError, AgentCrash, ApiCrash,
    ServerCrash, LoseConnection

(* Who changes the state of apiserver.                                     *)
LEMMA ApiWriters ==
  [Next]_vars =>
    \/ \E r \in Requests, t \in Tasks, ip \in Agents, s \in Ips,
          k \in {"single", "continuous"} : Insert(r, t, ip, s, k)
    \/ \E r \in Requests, t \in Tasks : RetryTask(r, t)
    \/ \E r \in Requests : \/ LogCreated(r) \/ GoRead(r) \/ GoWrite(r)
                           \/ DispatchOk(r) \/ DispatchError(r)
                           \/ PutObject(r) \/ SetCosKey(r) \/ PutError(r)
    \/ \E t \in Tasks : DeleteTask(t) \/ ListObjects(t) \/ RemoveObjects(t)
    \/ \E a \in Agents : RecordOk(a)
    \/ ApiCrash \/ ServerCrash
    \/ UNCHANGED api
BY Zenon
DEF Next, UserNext, CreateTask, NLChat, Ips, RequestStep, UploadStep, CallStep,
    DeleteStep, NoteStep, HeartbeatStep, WorkerStep, FaultNext, vars,
    AcceptTask, PushTask, MarkRunningOrphan, RunnerError, NotifyUploading,
    NotifyDone, NotifyFailed, PopTask, MarkRunning, ReceiveTask, StartTask,
    RecordError, UploadOk, UploadError, Report, Reported, PopTaskOrphan,
    HeartbeatError, ReportError, AgentCrash, LoseConnection

(* A step of a user or of a goroutine of apiserver leaves the others alone. *)
LEMMA ApiserverAlone ==
  \/ UserNext \/ ApiCrash
  \/ \E r \in Requests : RequestStep(r) \/ UploadStep(r) \/ DispatchError(r) \/ PutError(r)
  \/ \E t \in Tasks : DeleteStep(t)
  => UNCHANGED <<server, agent>>
<1>0. ASSUME NEW r, NEW t, NEW ip, NEW s, NEW k, Insert(r, t, ip, s, k) PROVE UNCHANGED <<server, agent>>
  BY <1>0, Zenon DEF Insert
<1>1. UserNext => UNCHANGED <<server, agent>>
  BY <1>0, Zenon DEF UserNext, CreateTask, NLChat, RetryTask, DeleteTask
<1>2. ASSUME NEW r \in Requests, RequestStep(r) \/ DispatchError(r) PROVE UNCHANGED <<server, agent>>
  BY <1>2, Zenon DEF RequestStep, LogCreated, GoRead, GoWrite, DispatchOk, DispatchError
<1>3. ASSUME NEW r \in Requests, UploadStep(r) \/ PutError(r) PROVE UNCHANGED <<server, agent>>
  BY <1>3, Zenon DEF UploadStep, PutObject, SetCosKey, PutError
<1>4. ASSUME NEW t \in Tasks, DeleteStep(t) PROVE UNCHANGED <<server, agent>>
  BY <1>4, Zenon DEF DeleteStep, ListObjects, RemoveObjects
<1>5. ApiCrash => UNCHANGED <<server, agent>>
  BY Zenon DEF ApiCrash
<1> QED
  BY <1>1, <1>2, <1>3, <1>4, <1>5, Zenon

(* Who changes the state of drop_server.                                   *)
LEMMA ServerWriters ==
  [Next]_vars =>
    \/ \E r \in Requests : \/ AcceptTask(r) \/ PushTask(r)
                           \/ MarkRunningOrphan(r) \/ RunnerError(r)
    \/ \E n \in notes : NotifyUploading(n) \/ NotifyDone(n) \/ NotifyFailed(n)
    \/ \E a \in Agents : \/ PopTask(a) \/ Report(a) \/ PopTaskOrphan(a)
                         \/ HeartbeatError(a) \/ AgentCrash(a)
    \/ ServerCrash \/ LoseConnection
    \/ UNCHANGED server
BY ApiserverAlone, Zenon
DEF Next, CallStep, NoteStep, HeartbeatStep, WorkerStep, FaultNext, vars,
    MarkRunning, ReceiveTask, StartTask, RecordError, RecordOk, UploadOk,
    UploadError, Reported, ReportError

(* Who changes the state of an agent.                                      *)
LEMMA AgentWriters ==
  [Next]_vars =>
    \/ \E r \in Requests : RunnerError(r)
    \/ \E a \in Agents : \/ PopTask(a) \/ MarkRunning(a) \/ ReceiveTask(a)
                         \/ HeartbeatError(a) \/ StartTask(a)
                         \/ RecordError(a) \/ RecordOk(a) \/ UploadOk(a)
                         \/ UploadError(a) \/ Report(a) \/ Reported(a)
                         \/ ReportError(a) \/ AgentCrash(a)
    \/ ServerCrash
    \/ UNCHANGED agent
BY ApiserverAlone, Zenon
DEF Next, CallStep, NoteStep, HeartbeatStep, WorkerStep, FaultNext, vars,
    AcceptTask, PushTask, MarkRunningOrphan, NotifyUploading, NotifyDone,
    NotifyFailed, PopTaskOrphan, LoseConnection

(* Who writes the rows of the tasks and their history.                     *)
LEMMA RowWriters ==
  [Next]_vars =>
    \/ \E r \in Requests, t \in Tasks, ip \in Agents, s \in Ips,
          k \in {"single", "continuous"} : Insert(r, t, ip, s, k)
    \/ \E r \in Requests : LogCreated(r) \/ GoWrite(r) \/ MarkRunningOrphan(r)
    \/ \E t \in Tasks : DeleteTask(t)
    \/ \E n \in notes : NotifyUploading(n) \/ NotifyDone(n) \/ NotifyFailed(n)
    \/ \E a \in Agents : MarkRunning(a)
    \/ UNCHANGED <<status, deleted, target, params, kind, history>>
BY StoreWriters, Zenon DEF store, PutObject, SetCosKey, RemoveObjects

(* Who writes cos_key and the object store.                                *)
LEMMA FileWriters ==
  [Next]_vars =>
    \/ \E r \in Requests : PutObject(r) \/ SetCosKey(r)
    \/ \E t \in Tasks : RemoveObjects(t)
    \/ UNCHANGED <<cosKey, objects>>
BY StoreWriters, Zenon DEF store, Insert, DeleteTask, LogCreated, GoWrite, MarkRunningOrphan,
    NotifyUploading, NotifyDone, NotifyFailed, MarkRunning

(* Who moves a request of apiserver.                                       *)
LEMMA RequestWriters ==
  [Next]_vars =>
    \/ \E r \in Requests, t \in Tasks, ip \in Agents, s \in Ips,
          k \in {"single", "continuous"} : Insert(r, t, ip, s, k)
    \/ \E r \in Requests, t \in Tasks : RetryTask(r, t)
    \/ \E r \in Requests : \/ LogCreated(r) \/ GoRead(r) \/ GoWrite(r)
                           \/ DispatchOk(r) \/ DispatchError(r)
    \/ ApiCrash \/ ServerCrash
    \/ UNCHANGED req
BY ApiWriters, Zenon DEF api, DeleteTask, PutObject, SetCosKey, PutError, ListObjects,
    RemoveObjects, RecordOk

(* Who moves a deletion.                                                   *)
LEMMA DeletionWriters ==
  [Next]_vars =>
    \/ \E t \in Tasks : DeleteTask(t) \/ ListObjects(t) \/ RemoveObjects(t)
    \/ ApiCrash
    \/ UNCHANGED deleting
BY ApiWriters, Zenon DEF api, Insert, RetryTask, LogCreated, GoRead, GoWrite, DispatchOk,
    DispatchError, PutObject, SetCosKey, PutError, RecordOk, ServerCrash

(* Who moves an upload.                                                    *)
LEMMA UploadWriters ==
  [Next]_vars =>
    \/ \E r \in Requests : PutObject(r) \/ SetCosKey(r) \/ PutError(r)
    \/ \E a \in Agents : RecordOk(a)
    \/ ApiCrash
    \/ UNCHANGED up
BY ApiWriters, Zenon DEF api, Insert, RetryTask, DeleteTask, LogCreated, GoRead, GoWrite,
    DispatchOk, DispatchError, ListObjects, RemoveObjects, ServerCrash

(* Who moves a dispatch call, or the connection to PostgreSQL.             *)
LEMMA CallWriters ==
  [Next]_vars =>
    \/ \E r \in Requests : AcceptTask(r) \/ PushTask(r)
    \/ ServerCrash \/ LoseConnection
    \/ UNCHANGED <<pg, call>>
BY ServerWriters, Zenon DEF server, MarkRunningOrphan, RunnerError, NotifyUploading, NotifyDone,
    NotifyFailed, PopTask, Report, PopTaskOrphan, HeartbeatError, AgentCrash

(* Who writes drop_server's queues.                                        *)
LEMMA QueueWriters ==
  [Next]_vars =>
    \/ \E r \in Requests : PushTask(r)
    \/ \E a \in Agents : PopTask(a) \/ PopTaskOrphan(a)
    \/ ServerCrash
    \/ UNCHANGED queue
BY ServerWriters, Zenon DEF server, AcceptTask, MarkRunningOrphan, RunnerError, NotifyUploading,
    NotifyDone, NotifyFailed, Report, HeartbeatError, AgentCrash,
    LoseConnection

(* Who writes the heartbeats nobody waits for.                             *)
LEMMA OrphanWriters ==
  [Next]_vars =>
    \/ \E r \in Requests : MarkRunningOrphan(r)
    \/ \E a \in Agents : PopTaskOrphan(a) \/ HeartbeatError(a) \/ AgentCrash(a)
    \/ ServerCrash
    \/ UNCHANGED orphans
BY ServerWriters, Zenon DEF server, AcceptTask, PushTask, RunnerError, NotifyUploading, NotifyDone,
    NotifyFailed, PopTask, Report, LoseConnection

(* Who writes the results on their way to drop_server.                     *)
LEMMA NoteWriters ==
  [Next]_vars =>
    \/ \E r \in Requests : RunnerError(r)
    \/ \E n \in notes : NotifyUploading(n) \/ NotifyDone(n) \/ NotifyFailed(n)
    \/ \E a \in Agents : Report(a)
    \/ ServerCrash
    \/ UNCHANGED notes
BY ServerWriters, Zenon DEF server, AcceptTask, PushTask, MarkRunningOrphan, PopTask, PopTaskOrphan,
    HeartbeatError, AgentCrash, LoseConnection

(* Who moves a heartbeat.                                                  *)
LEMMA HeartbeatWriters ==
  [Next]_vars =>
    \/ \E a \in Agents : \/ PopTask(a) \/ MarkRunning(a) \/ ReceiveTask(a)
                         \/ HeartbeatError(a) \/ AgentCrash(a)
    \/ ServerCrash
    \/ UNCHANGED hb
BY AgentWriters, Zenon DEF agent, RunnerError, StartTask, RecordError, RecordOk, UploadOk,
    UploadError, Report, Reported, ReportError

(* Who writes a worker's queue and the sets of executed requests.          *)
LEMMA WorkWriters ==
  [Next]_vars =>
    \/ \E r \in Requests : RunnerError(r)
    \/ \E a \in Agents : ReceiveTask(a) \/ StartTask(a) \/ AgentCrash(a)
    \/ UNCHANGED <<work, runners, started>>
BY AgentWriters, ZenonT(30) DEF agent, PopTask, MarkRunning, HeartbeatError, RecordError, RecordOk,
    UploadOk, UploadError, Report, Reported, ReportError, ServerCrash

(* Who moves a worker.                                                     *)
LEMMA RunWriters ==
  [Next]_vars =>
    \/ \E a \in Agents : \/ StartTask(a) \/ RecordError(a) \/ RecordOk(a)
                         \/ UploadOk(a) \/ UploadError(a) \/ Report(a)
                         \/ Reported(a) \/ ReportError(a) \/ AgentCrash(a)
    \/ UNCHANGED run
BY AgentWriters, Zenon DEF agent, RunnerError, PopTask, MarkRunning, ReceiveTask, HeartbeatError,
    ServerCrash
-----------------------------------------------------------------------------
(* drop_server's UpdateTaskStatus for a copy in circulation, by whichever  *)
(* handler: only a report of success, which is evidence, leads to DONE.    *)
ServerUpdates(r, new) ==
  /\ UpdateTaskStatus(TidOf(r), new)
  /\ new = DONE => Kept(TidOf(r))
  /\ UNCHANGED <<deleted, target, params, kind, cosKey, objects, req, deleting>>

(* The five handlers that update a status do so for a copy in circulation. *)
LEMMA UpdatesKnown ==
  DispatchInv =>
    /\ \A r \in Requests : MarkRunningOrphan(r) => r \in Out /\ ServerUpdates(r, RUNNING)
    /\ \A a \in Agents : MarkRunning(a) => hb[a].r \in Out /\ ServerUpdates(hb[a].r, RUNNING)
    /\ \A n \in notes :
         /\ n.r \in Out
         /\ NotifyUploading(n) => ServerUpdates(n.r, UPLOADING)
         /\ NotifyDone(n) => ServerUpdates(n.r, DONE)
         /\ NotifyFailed(n) => ServerUpdates(n.r, FAILED)
<1>z. SUFFICES ASSUME DispatchInv
               PROVE  /\ \A r \in Requests : MarkRunningOrphan(r) => r \in Out /\ ServerUpdates(r, RUNNING)
                      /\ \A a \in Agents : MarkRunning(a) => hb[a].r \in Out /\ ServerUpdates(hb[a].r, RUNNING)
                      /\ \A n \in notes :
                           /\ n.r \in Out
                           /\ NotifyUploading(n) => ServerUpdates(n.r, UPLOADING)
                           /\ NotifyDone(n) => ServerUpdates(n.r, DONE)
                           /\ NotifyFailed(n) => ServerUpdates(n.r, FAILED)
  OBVIOUS
<1>1. CopiesAreOut /\ EvidenceIsKept
  BY <1>z DEF DispatchInv
<1>2. RUNNING # DONE /\ UPLOADING # DONE /\ FAILED # DONE
  BY StatusFacts
<1>3. ASSUME NEW r \in Requests, MarkRunningOrphan(r) PROVE r \in Out /\ ServerUpdates(r, RUNNING)
  BY <1>1, <1>2, <1>3 DEF MarkRunningOrphan, CopiesAreOut, ServerUpdates, api
<1>4. ASSUME NEW a \in Agents, MarkRunning(a) PROVE hb[a].r \in Out /\ ServerUpdates(hb[a].r, RUNNING)
  BY <1>1, <1>2, <1>4 DEF MarkRunning, CopiesAreOut, ServerUpdates, api
<1>5. ASSUME NEW n \in notes
      PROVE  /\ n.r \in Out
             /\ NotifyUploading(n) => ServerUpdates(n.r, UPLOADING)
             /\ NotifyDone(n) => ServerUpdates(n.r, DONE)
             /\ NotifyFailed(n) => ServerUpdates(n.r, FAILED)
  BY <1>1, <1>2, <1>5
  DEF NotifyUploading, NotifyDone, NotifyFailed, CopiesAreOut, EvidenceIsKept, ServerUpdates, api
<1> QED
  BY <1>3, <1>4, <1>5

(* What a step does to the rows: apiserver inserts, deletes, logs and      *)
(* updates, drop_server updates, and nobody else touches them.             *)
LEMMA RowSteps ==
  DispatchInv /\ [Next]_vars =>
    \/ \E r \in Requests, t \in Tasks, ip \in Agents, s \in Ips,
          k \in {"single", "continuous"} : Insert(r, t, ip, s, k)
    \/ \E t \in Tasks : DeleteTask(t)
    \/ \E r \in Requests : LogCreated(r) \/ GoWrite(r)
    \/ \E r \in Out, new \in Status : ServerUpdates(r, new)
    \/ UNCHANGED <<status, deleted, target, params, kind, history>>
<1>1. RUNNING \in Status /\ UPLOADING \in Status /\ DONE \in Status /\ FAILED \in Status
  BY StatusFacts
<1> QED
  BY <1>1, RowWriters, UpdatesKnown, Zenon

-----------------------------------------------------------------------------
(* What a step does to the requests: they keep their types, and one that   *)
(* is past its first history row stays so, with its task and its address.  *)
LEMMA RequestsNext ==
  DispatchInv /\ [Next]_vars =>
    /\ req' \in [Requests -> [pc : ReqPC, tid : Tasks \cup {None}, ip : Ips,
                              seen : Status \cup {NoRow}]]
    /\ \A q \in Requests : req[q].pc # "idle" =>
         req'[q].pc # "idle" /\ req'[q].tid = req[q].tid /\ req'[q].ip = req[q].ip
    /\ Out \subseteq Out'
<1> DEFINE R == [pc : ReqPC, tid : Tasks \cup {None}, ip : Ips, seen : Status \cup {NoRow}]
           Stays(q) == req[q].pc # "idle" =>
                         /\ req'[q].pc # "idle" /\ req'[q].tid = req[q].tid
                         /\ req'[q].ip = req[q].ip
                         /\ req[q].pc # "inserted" => req'[q].pc # "inserted"
           G == req' \in [Requests -> R] /\ \A q \in Requests : Stays(q)
<1>z. SUFFICES ASSUME DispatchInv, [Next]_vars
               PROVE  G
  BY DEF Out
<1>0. req \in [Requests -> R] /\ StoreOK
  BY <1>z DEF DispatchInv, TypeOK, ApiOK
<1>1. ASSUME NEW r \in Requests, NEW t \in Tasks, NEW ip \in Agents, NEW s \in Ips,
             NEW k \in {"single", "continuous"}, Insert(r, t, ip, s, k)
      PROVE  G
  <2>1. [pc |-> "inserted", tid |-> t, ip |-> ip, seen |-> NoRow] \in R
    BY DEF ReqPC, Ips
  <2> QED
    BY <1>0, <1>1, <2>1 DEF Insert
<1>2. ASSUME NEW r \in Requests, NEW t \in Tasks, RetryTask(r, t) PROVE G
  <2>1. [pc |-> "retryRead", tid |-> t, ip |-> params[t], seen |-> NoRow] \in R
    BY <1>0 DEF ReqPC, StoreOK
  <2> QED
    BY <1>0, <1>2, <2>1 DEF RetryTask
<1>3. ASSUME NEW r \in Requests, NEW pc \in ReqPC \ {"idle", "inserted"}, NEW seen \in Status \cup {NoRow},
             req' = [req EXCEPT ![r].pc = pc] \/ req' = [req EXCEPT ![r].pc = pc, ![r].seen = seen]
      PROVE  G
  BY <1>0, <1>3
<1>4. ASSUME NEW r \in Requests, LogCreated(r) \/ GoWrite(r) \/ DispatchOk(r) \/ DispatchError(r)
      PROVE  G
  <2>1. PICK pc \in ReqPC \ {"idle", "inserted"} : req' = [req EXCEPT ![r].pc = pc]
    BY <1>0, <1>4, Zenon DEF LogCreated, GoWrite, DispatchOk, DispatchError, ReqPC
  <2> QED
    BY <1>3, <2>1, Zenon
<1>5. ASSUME NEW r \in Requests, GoRead(r) PROVE G
  <2>1. status[TidOf(r)] \in Status \cup {NoRow}
    BY <1>z, <1>0, <1>5 DEF GoRead, DispatchInv, RowsExist, StoreOK
  <2>2. {"failWrite", "retryWrite", "done"} \subseteq ReqPC \ {"idle", "inserted"}
    BY DEF ReqPC
  <2>3. \E pc \in {"failWrite", "retryWrite", "done"} :
          \/ req' = [req EXCEPT ![r].pc = pc]
          \/ req' = [req EXCEPT ![r].pc = pc, ![r].seen = status[TidOf(r)]]
    BY <1>0, <1>5 DEF GoRead
  <2> QED
    BY <1>3, <2>1, <2>2, <2>3, Zenon
<1>6. ASSUME ApiCrash \/ ServerCrash PROVE G
  BY <1>0, <1>6 DEF ApiCrash, ServerCrash, ReqPC
<1>7. ASSUME UNCHANGED req PROVE G
  BY <1>0, <1>7
<1> QED
  BY <1>z, <1>1, <1>2, <1>4, <1>5, <1>6, <1>7, RequestWriters, Zenon

(* The part about evidence: what a report, an upload's answer, a cos_key   *)
(* or a DONE rests on was stored, and goes only with a deleted task.       *)
LEMMA EvidenceNext ==
  DispatchInv /\ [Next]_vars => EvidenceIsKept'
<1> DEFINE Safe(t) == t \in objects' \/ t \in deleted'
           SafeCopy(r) == Safe(req'[r].tid)
<1>z. SUFFICES ASSUME DispatchInv, [Next]_vars
               PROVE  EvidenceIsKept'
  OBVIOUS
<1>0. /\ StoreOK /\ ApiOK /\ ServerOK /\ AgentOK
      /\ CopiesAreOut /\ RowsExist /\ EvidenceIsKept
  BY <1>z DEF DispatchInv, TypeOK
<1>1. \A r \in Out : r \in Requests /\ TidOf(r) \in Tasks /\ req'[r].tid = TidOf(r)
  <2>1. \A r \in Out : r \in Requests /\ req[r].pc # "idle"
    BY DEF Out
  <2> QED
    BY <1>z, <2>1, OutKnown, RequestsNext DEF TidOf
<1>2. \A t \in Tasks : Kept(t) => Safe(t)
  <2>1. deleted \subseteq deleted'
    BY <1>z, RowSteps, Zenon DEF Insert, DeleteTask, LogCreated, GoWrite, ServerUpdates
  <2>2. \A t \in objects : t \in objects' \/ t \in deleted
    <3>1. \A t \in Tasks : RemoveObjects(t) => t \in deleted /\ objects' = objects \ {t}
      BY <1>0 DEF RemoveObjects, RowsExist
    <3>2. \A r \in Requests : PutObject(r) \/ SetCosKey(r) => objects \subseteq objects'
      BY Zenon DEF PutObject, SetCosKey
    <3> QED
      BY <1>z, <3>1, <3>2, FileWriters
  <2> QED
    BY <2>1, <2>2 DEF Kept
<1>3. ASSUME NEW r \in Requests, PutObject(r) PROVE TidOf(r) \in objects'
  BY <1>3 DEF PutObject
<1> HIDE DEF Safe
<1>4. \A r \in Out : Kept(TidOf(r)) => SafeCopy(r)
  BY <1>1, <1>2
<1>5. \A r \in Requests : PutObject(r) => SafeCopy(r)
  BY <1>0, <1>1, <1>3 DEF Safe, PutObject, CopiesAreOut
<1> HIDE DEF SafeCopy
<1>6. \A r \in Requests : up'[r] \in {"stored", "ok"} => SafeCopy(r)
  <2>1. \A r \in Requests : up[r] \in {"stored", "ok"} => SafeCopy(r)
    BY <1>0, <1>4 DEF CopiesAreOut, EvidenceIsKept
  <2>2. DOMAIN up = Requests
    BY <1>0 DEF ApiOK
  <2>3. ASSUME NEW r \in Requests, PutObject(r)
        PROVE  \A q \in Requests : q # r => up'[q] = up[q]
    BY <2>2, <2>3, Zenon DEF PutObject
  <2>4. ASSUME NEW r, NEW v \in {"received", "failed"}, up' = [up EXCEPT ![r] = v]
        PROVE  \A q \in Requests : up'[q] \in {"stored", "ok"} => up[q] \in {"stored", "ok"}
    BY <2>2, <2>4
  <2>5. ASSUME NEW r \in Requests, SetCosKey(r)
        PROVE  \A q \in Requests : up'[q] \in {"stored", "ok"} => up[q] \in {"stored", "ok"}
    <3>1. up[r] = "stored" /\ up' = [up EXCEPT ![r] = "ok"]
      BY <2>5, Zenon DEF SetCosKey
    <3> QED
      BY <2>2, <3>1
  <2>6. ASSUME ApiCrash
        PROVE  \A q \in Requests : up'[q] \in {"stored", "ok"} => up[q] \in {"stored", "ok"}
    <3>1. up' = [r \in Requests |-> IF up[r] \in {"received", "stored"} THEN "failed" ELSE up[r]]
      BY <2>6, Zenon DEF ApiCrash
    <3> QED
      BY <3>1
  <2>7. /\ \A r \in Requests : PutError(r) => up' = [up EXCEPT ![r] = "failed"]
        /\ \A a \in Agents : RecordOk(a) => up' = [up EXCEPT ![run[a].r] = "received"]
    BY Zenon DEF PutError, RecordOk
  <2>8. CASE \E r \in Requests : PutObject(r)
    BY <1>5, <2>1, <2>3, <2>8
  <2> QED
    BY <1>z, <2>1, <2>4, <2>5, <2>6, <2>7, <2>8, UploadWriters, Zenon
<1>7. \A a \in Agents : run'[a].pc = "success" => SafeCopy(run'[a].r)
  <2>1. \A a \in Agents : run[a].pc = "success" => SafeCopy(run[a].r)
    BY <1>0, <1>4 DEF CopiesAreOut, EvidenceIsKept
  <2>2. ASSUME NEW a \in Agents, UploadOk(a) PROVE SafeCopy(run[a].r)
    <3>1. run[a].r \in Out /\ up[run[a].r] = "ok"
      BY <1>0, <2>2 DEF UploadOk, CopiesAreOut
    <3> QED
      BY <1>0, <1>1, <1>4, <3>1 DEF EvidenceIsKept
  <2>3. ASSUME NEW a \in Agents, UploadOk(a)
        PROVE  /\ run'[a].r = run[a].r
               /\ \A b \in Agents : b # a => run'[b] = run[b]
    BY <1>0, <2>3 DEF UploadOk, AgentOK
  <2>4. ASSUME NEW a \in Agents, StartTask(a) \/ RecordError(a) \/ RecordOk(a) \/ UploadError(a)
        PROVE  \A b \in Agents : run'[b] = run[b] \/ run'[b].pc # "success"
    BY <1>0, <2>4 DEF StartTask, RecordError, RecordOk, UploadError, AgentOK
  <2>5. ASSUME NEW a \in Agents, Report(a) \/ Reported(a) \/ ReportError(a) \/ AgentCrash(a)
        PROVE  \A b \in Agents : run'[b] = run[b] \/ run'[b].pc # "success"
    BY <1>0, <2>5 DEF Report, Reported, ReportError, AgentCrash, AgentOK
  <2>6. \/ \E a \in Agents : UploadOk(a)
        \/ \A b \in Agents : run'[b] = run[b] \/ run'[b].pc # "success"
    BY <1>z, <2>4, <2>5, RunWriters, Zenon
  <2> QED
    BY <2>1, <2>2, <2>3, <2>6
<1>8. \A n \in notes' : n.ok => SafeCopy(n.r)
  <2>1. \A n \in notes : n.ok => SafeCopy(n.r)
    BY <1>0, <1>4, Zenon DEF CopiesAreOut, EvidenceIsKept
  <2>2. \A a \in Agents : run[a].pc = "success" => SafeCopy(run[a].r)
    BY <1>0, <1>4 DEF CopiesAreOut, EvidenceIsKept
  <2>3. ASSUME NEW a \in Agents, Report(a)
        PROVE  \E m : /\ notes' = notes \cup {m} /\ m.r = run[a].r
                      /\ m.ok => run[a].pc = "success"
    <3> DEFINE new == [r |-> run[a].r, ok |-> run[a].pc = "success", stage |-> "report"]
    <3>1. notes' = notes \cup {new}
      BY <2>3, Zenon DEF Report
    <3>2. new.r = run[a].r /\ (new.ok => run[a].pc = "success")
      BY Zenon
    <3> HIDE DEF new
    <3> QED
      BY <3>1, <3>2, Zenon
  <2>4. ASSUME NEW n \in notes, NotifyUploading(n)
        PROVE  \E m : /\ notes' = (notes \ {n}) \cup {m} /\ m.r = n.r /\ m.ok = n.ok
    <3>1. [n EXCEPT !.stage = "finish"].r = n.r /\ [n EXCEPT !.stage = "finish"].ok = n.ok
      BY <1>0 DEF ServerOK, Notes
    <3> QED
      BY <2>4, <3>1, Zenon DEF NotifyUploading
  <2>5. ASSUME NEW r \in Requests, RunnerError(r)
        PROVE  \A n \in notes' : n \in notes \/ ~n.ok
    <3> DEFINE new == [r |-> r, ok |-> FALSE, stage |-> "report"]
    <3>1. \A n \in notes' : n \in notes \/ n = new
      BY <2>5, Zenon DEF RunnerError
    <3>2. ~new.ok
      BY Zenon
    <3> HIDE DEF new
    <3> QED
      BY <3>1, <3>2, Zenon
  <2>6. (\E n \in notes : NotifyDone(n) \/ NotifyFailed(n)) \/ ServerCrash
          => \A n \in notes' : n \in notes
    BY DEF NotifyDone, NotifyFailed, ServerCrash
  <2>7. ASSUME NEW a \in Agents, Report(a) PROVE \A n \in notes' : n.ok => SafeCopy(n.r)
    BY <2>1, <2>2, <2>3, <2>7, Zenon
  <2>8. ASSUME NEW n \in notes, NotifyUploading(n) PROVE \A m \in notes' : m.ok => SafeCopy(m.r)
    BY <2>1, <2>4, <2>8, Zenon
  <2> QED
    BY <1>z, <2>1, <2>5, <2>6, <2>7, <2>8, NoteWriters, Zenon
<1>9. \A t \in cosKey' : Safe(t)
  <2>1. \A t \in cosKey : Safe(t)
    BY <1>0, <1>2 DEF StoreOK, EvidenceIsKept
  <2>2. ASSUME NEW r \in Requests, SetCosKey(r)
        PROVE  cosKey' \subseteq cosKey \cup {TidOf(r)} /\ Safe(TidOf(r))
    <3>1. up[r] = "stored" /\ cosKey' \subseteq cosKey \cup {TidOf(r)}
      BY <2>2, Zenon DEF SetCosKey
    <3> QED
      BY <1>0, <1>1, <1>2, <3>1 DEF CopiesAreOut, EvidenceIsKept
  <2>3. cosKey' = cosKey \/ \E r \in Requests : SetCosKey(r)
    BY <1>z, FileWriters, Zenon DEF PutObject, RemoveObjects
  <2> QED
    BY <2>1, <2>2, <2>3
<1>10. \A t \in Tasks : status'[t] = DONE => Safe(t)
  <2>1. \A t \in Tasks : status[t] = DONE => Kept(t)
    BY <1>0 DEF EvidenceIsKept
  <2>2. ASSUME NEW r \in Requests, NEW t \in Tasks, NEW ip, NEW s, NEW k, Insert(r, t, ip, s, k)
        PROVE  \A x \in Tasks : status'[x] = DONE => status[x] = DONE
    BY <1>0, <2>2, StatusFacts DEF Insert, StoreOK
  <2>3. ASSUME NEW r \in Requests, GoWrite(r)
        PROVE  \A x \in Tasks : status'[x] = DONE => status[x] = DONE
    BY <1>0, <2>3, StatusFacts DEF GoWrite, NewStatus, StoreOK
  <2>4. ASSUME NEW r \in Out, NEW new \in Status, ServerUpdates(r, new)
        PROVE  \A x \in Tasks : status'[x] = DONE => status[x] = DONE \/ Kept(x)
    BY <1>0, <1>1, <2>4 DEF ServerUpdates, UpdateTaskStatus, StoreOK
  <2>5. (\E r \in Requests : LogCreated(r)) \/ (\E t \in Tasks : DeleteTask(t)) => UNCHANGED status
    BY Zenon DEF LogCreated, DeleteTask
  <2>6. \A x \in Tasks : status'[x] = DONE => status[x] = DONE \/ Kept(x)
    BY <1>z, <2>2, <2>3, <2>4, <2>5, RowSteps, Zenon
  <2> QED
    BY <1>2, <2>1, <2>6
<1> QED
  BY <1>6, <1>7, <1>8, <1>9, <1>10, Zenon DEF EvidenceIsKept, Safe, SafeCopy, Kept, TidOf
-----------------------------------------------------------------------------
(* What one history row changes: the last new_status of its own task, and  *)
(* the statuses the task has had, to which it adds.                        *)
LEMMA LogFacts ==
  ASSUME TypeOK, NEW t \in Tasks, NEW old \in Status \cup {NoRow}, NEW new \in Status,
         Log(t, old, new)
  PROVE  /\ \A x \in Tasks \ {t} : history'[x] = history[x]
         /\ history'[t] # <<>>
         /\ history'[t][Len(history'[t])].new = new
         /\ \A x \in Tasks : Had(history[x]) \subseteq Had(history'[x])
         /\ new \in Had(history'[t])
<1> DEFINE e == [old |-> old, new |-> new]
<1>1. e \in Entry /\ e.new = new
  BY DEF Entry
<1> HIDE DEF e
<1>2. history \in [Tasks -> Seq(Entry)]
  BY DEF TypeOK, StoreOK
<1>3. history' = [history EXCEPT ![t] = Append(history[t], e)]
  BY <1>2 DEF Log, e
<1>4. \A x \in Tasks \ {t} : history'[x] = history[x]
  BY <1>2, <1>3
<1>5. history'[t] = Append(history[t], e)
  BY <1>2, <1>3
<1>6. /\ Len(history'[t]) = Len(history[t]) + 1
      /\ DOMAIN history'[t] = 1..(Len(history[t]) + 1)
      /\ history'[t][Len(history[t]) + 1] = e
      /\ \A i \in DOMAIN history[t] : i \in DOMAIN history'[t] /\ history'[t][i] = history[t][i]
      /\ Len(history[t]) \in Nat
  BY <1>1, <1>2, <1>5
<1>7. Had(history[t]) \subseteq Had(history'[t])
  BY <1>6 DEF Had
<1>8. \A x \in Tasks \ {t} : Had(history[x]) \subseteq Had(history'[x])
  BY <1>4 DEF Had
<1>9. new \in Had(history'[t])
  BY <1>1, <1>6 DEF Had
<1>10. QED
  BY <1>1, <1>4, <1>6, <1>7, <1>8, <1>9

(* A step that leaves the rows, their history and the requests alone keeps *)
(* the four parts of the invariant about them.                             *)
LEMMA FrameTasks ==
  ASSUME DispatchInv, UNCHANGED <<status, deleted, history, req, deleting>>
  PROVE  RowsExist' /\ CreatorIsAlone' /\ ReadsAreGenuine' /\ HistoryMatchesRow'
BY DEF DispatchInv, RowsExist, CreatorIsAlone, ReadsAreGenuine, HistoryMatchesRow,
       Row, Live, TidOf, NewStatus, Had

(* PGStore::UpdateTaskStatus for a copy in circulation keeps those four    *)
(* parts: it reads and writes the row under one lock, and no creating      *)
(* request is in the middle of its task.                                   *)
LEMMA UpdateTasks ==
  ASSUME DispatchInv, NEW r \in Out, NEW new \in Status, UpdateTaskStatus(TidOf(r), new),
         UNCHANGED <<deleted, req, deleting>>
  PROVE  RowsExist' /\ CreatorIsAlone' /\ ReadsAreGenuine' /\ HistoryMatchesRow'
<1>1. CASE UNCHANGED <<status, history>>
  BY <1>1, FrameTasks
<1>2. CASE /\ IsTransitionAllowed(status[TidOf(r)], new)
           /\ status' = [status EXCEPT ![TidOf(r)] = new]
           /\ Log(TidOf(r), status[TidOf(r)], new)
  <2> DEFINE t == TidOf(r)
  <2>1. /\ t \in Tasks /\ Row(t) /\ r \in Requests /\ TypeOK
        /\ status \in [Tasks -> Status \cup {NoRow}]
    BY OutKnown DEF DispatchInv, TypeOK, StoreOK
  <2>2. NoRow \notin Status
    BY DEF NoRow, Status, PENDING, FAILED
  <2>3. /\ \A x \in Tasks \ {t} : history'[x] = history[x] /\ status'[x] = status[x]
        /\ history'[t] # <<>> /\ status'[t] = new
        /\ history'[t][Len(history'[t])].new = new
        /\ \A x \in Tasks : Had(history[x]) \subseteq Had(history'[x])
        /\ new \in Had(history'[t])
    <3>1. status[t] \in Status \cup {NoRow}
      BY <2>1
    <3>2. \A x \in Tasks \ {t} : status'[x] = status[x]
      BY <1>2, <2>1
    <3>3. status'[t] = new
      BY <1>2, <2>1
    <3>4. Log(t, status[t], new)
      BY <1>2
    <3> HIDE DEF t
    <3>5. QED
      BY <2>1, <3>1, <3>2, <3>3, <3>4, LogFacts, Zenon DEF DispatchInv
  <2>4. \A x \in Tasks : Row(x)' <=> Row(x)
    BY <2>1, <2>2, <2>3 DEF Row
  <2>5. \A q \in Requests : req[q].pc = "inserted" => TidOf(q) \in Tasks \ {t}
    BY <2>1, Zenon DEF DispatchInv, CreatorIsAlone, RowsExist, Out
  <2> HIDE DEF t
  <2>6. RowsExist'
    BY <2>1, <2>3, <2>4, Zenon DEF DispatchInv, TypeOK, StoreOK, RowsExist, TidOf
  <2>7. CreatorIsAlone'
    BY <2>3, <2>5, Zenon DEF DispatchInv, CreatorIsAlone, TidOf
  <2>8. ReadsAreGenuine'
    <3>1. \A x \in Tasks : Row(x)' => status'[x] \in Had(history'[x])
      <4>1. \A x \in Tasks : Row(x) => status[x] \in Had(history[x])
        BY Zenon DEF DispatchInv, ReadsAreGenuine
      <4>2. QED
        BY <2>3, <2>4, <4>1, Zenon
    <3>2. \A q \in Requests : req[q].pc \in {"failWrite", "retryWrite"} => TidOf(q) \in Tasks
      BY DEF DispatchInv, RowsExist
    <3>3. QED
      BY <2>3, <3>1, <3>2, Zenon DEF DispatchInv, ReadsAreGenuine, TidOf, NewStatus
  <2>9. HistoryMatchesRow'
    BY <2>3, <2>4 DEF DispatchInv, HistoryMatchesRow, Live
  <2>10. QED
    BY <2>6, <2>7, <2>8, <2>9
<1>3. QED
  BY <1>1, <1>2 DEF UpdateTaskStatus

(* A step of one request past its creation, on its own task, leaves every  *)
(* creating request alone with its task.                                   *)
LEMMA FrameCreator ==
  ASSUME DispatchInv, NEW r \in Requests,
         req[r].pc # "idle", req'[r].tid = req[r].tid, req'[r].pc # "inserted",
         \A q \in Requests : q # r => req'[q] = req[q],
         \A x \in Tasks \ {TidOf(r)} : status'[x] = status[x],
         \A x \in Tasks \ {TidOf(r)} : history'[x] = history[x]
  PROVE  CreatorIsAlone'
<1> SUFFICES ASSUME NEW q \in Requests, req'[q].pc = "inserted"
             PROVE  /\ status'[req'[q].tid] = PENDING
                    /\ history'[req'[q].tid] = <<>>
                    /\ \A p \in Requests :
                         req'[p].pc # "idle" /\ req'[p].tid = req'[q].tid => p = q
  BY DEF CreatorIsAlone, TidOf, PENDING
<1>1. q # r /\ req'[q] = req[q]
  BY Zenon
<1>2. /\ status[req[q].tid] = PENDING /\ history[req[q].tid] = <<>>
      /\ \A p \in Requests : req[p].pc # "idle" /\ req[p].tid = req[q].tid => p = q
  BY <1>1 DEF DispatchInv, CreatorIsAlone, TidOf
<1>3. req[q].tid \in Tasks \ {TidOf(r)}
  BY <1>1, <1>2 DEF DispatchInv, RowsExist, TidOf
<1>4. \A p \in Requests : /\ req'[p].tid = req[p].tid
                          /\ req'[p].pc # "idle" => req[p].pc # "idle"
  OBVIOUS
<1>5. QED
  BY <1>1, <1>2, <1>3, <1>4

(* A step of apiserver's goroutines that writes no row keeps the four parts *)
(* when what a writer goes by was read from the row.                       *)
LEMMA FrameRequests ==
  ASSUME DispatchInv, UNCHANGED <<status, deleted, history>>,
         \A t \in Tasks : deleting'[t] # "none" => deleting[t] # "none",
         \A q \in Requests :
           \/ req'[q] = req[q]
           \/ /\ req'[q].tid = req[q].tid
              /\ req[q].pc # "idle" /\ req'[q].pc \notin {"idle", "inserted"}
              /\ req'[q].pc \in {"failWrite", "retryWrite"} =>
                   /\ req'[q].seen \in Had(history[TidOf(q)])
                   /\ IsTransitionAllowed(req'[q].seen, IF req'[q].pc = "failWrite" THEN FAILED ELSE PENDING)
  PROVE  RowsExist' /\ CreatorIsAlone' /\ ReadsAreGenuine' /\ HistoryMatchesRow'
<1>1. RowsExist'
  BY DEF DispatchInv, RowsExist, TidOf, Row
<1>2. CreatorIsAlone'
  BY DEF DispatchInv, CreatorIsAlone, TidOf
<1>3. ReadsAreGenuine'
  BY Zenon DEF DispatchInv, ReadsAreGenuine, TidOf, Row, NewStatus
<1>4. HistoryMatchesRow'
  BY DEF DispatchInv, HistoryMatchesRow, Live, Row
<1>5. QED
  BY <1>1, <1>2, <1>3, <1>4

(* CreateTask and NLChat insert a row nobody knows of yet.                 *)
LEMMA InsertKeeps ==
  ASSUME DispatchInv, NEW r \in Requests, NEW t \in Tasks, NEW ip, NEW s, NEW k,
         Insert(r, t, ip, s, k)
  PROVE  RowsExist' /\ CreatorIsAlone' /\ ReadsAreGenuine' /\ HistoryMatchesRow'
<1>1. /\ req[r].pc = "idle" /\ req'[r].pc = "inserted" /\ req'[r].tid = t
      /\ \A q \in Requests : q # r => req'[q] = req[q]
  BY Zenon DEF Insert, DispatchInv, TypeOK, ApiOK
<1>2. /\ status[t] = NoRow /\ status'[t] = PENDING /\ PENDING # NoRow /\ history[t] = <<>>
      /\ \A x \in Tasks : x # t => status'[x] = status[x]
      /\ UNCHANGED <<deleted, history, deleting>>
  BY StatusFacts DEF Insert, DispatchInv, TypeOK, StoreOK, RowsExist, Row
<1>3. /\ RowsExist /\ CreatorIsAlone /\ ReadsAreGenuine /\ HistoryMatchesRow
      /\ deleted \subseteq Tasks
  BY Zenon DEF DispatchInv, TypeOK, StoreOK
<1>4. \A q \in Requests : req[q].pc # "idle" => req[q].tid \in Tasks /\ req[q].tid # t
  BY <1>2, <1>3, ZenonT(30) DEF RowsExist, Row, TidOf
<1>5. RowsExist'
  <2>1. \A x \in Tasks : status[x] # NoRow => status'[x] # NoRow
    BY <1>2, Zenon
  <2>2. \A q \in Requests : req'[q].pc # "idle" => req'[q].tid \in Tasks /\ status'[req'[q].tid] # NoRow
    BY <1>1, <1>2, <1>3, <2>1, ZenonT(30) DEF RowsExist, Row, TidOf
  <2>3. \A x \in deleted : x \in Tasks /\ status'[x] # NoRow
    BY <1>3, <2>1, Zenon DEF RowsExist, Row
  <2> QED
    BY <1>2, <1>3, <2>2, <2>3 DEF RowsExist, Row, TidOf
<1>6. CreatorIsAlone'
  BY <1>1, <1>2, <1>3, <1>4 DEF CreatorIsAlone, TidOf
<1>7. ReadsAreGenuine'
  <2>1. PENDING \in Had(history[t])
    BY Zenon DEF Had
  <2> QED
    BY <1>1, <1>2, <1>3, <2>1 DEF ReadsAreGenuine, NewStatus, Row, TidOf
<1>8. HistoryMatchesRow'
  BY <1>2, <1>3 DEF HistoryMatchesRow, Live, Row
<1> QED
  BY <1>5, <1>6, <1>7, <1>8, Zenon

(* RetryTask takes up a FAILED task, so none that is still being created.  *)
LEMMA RetryKeeps ==
  ASSUME DispatchInv, NEW r \in Requests, NEW t \in Tasks, RetryTask(r, t)
  PROVE  RowsExist' /\ CreatorIsAlone' /\ ReadsAreGenuine' /\ HistoryMatchesRow'
<1>1. /\ req[r].pc = "idle" /\ req'[r].pc = "retryRead" /\ req'[r].tid = t
      /\ \A q \in Requests : q # r => req'[q] = req[q]
  BY DEF RetryTask, DispatchInv, TypeOK, ApiOK
<1>2. /\ Row(t) /\ status[t] = FAILED /\ FAILED # PENDING
      /\ UNCHANGED <<status, deleted, history, deleting>>
  <2>1. FAILED # PENDING
    BY DEF FAILED, PENDING
  <2> QED
    BY <2>1, Zenon DEF RetryTask, Live, store
<1>3. RowsExist /\ CreatorIsAlone /\ ReadsAreGenuine /\ HistoryMatchesRow
  BY DEF DispatchInv
<1>4. RowsExist'
  BY <1>1, <1>2, <1>3, Zenon DEF RowsExist, Row, TidOf
<1>5. CreatorIsAlone'
  BY <1>1, <1>2, <1>3 DEF CreatorIsAlone, TidOf
<1>6. ReadsAreGenuine'
  BY <1>1, <1>2, <1>3 DEF ReadsAreGenuine, NewStatus, Row, TidOf
<1>7. HistoryMatchesRow'
  BY <1>2, <1>3 DEF HistoryMatchesRow, Live, Row
<1> QED
  BY <1>4, <1>5, <1>6, <1>7, ZenonT(30)

(* DeleteTask hides a row before it looks for the task's objects.          *)
LEMMA DeleteKeeps ==
  ASSUME DispatchInv, NEW t \in Tasks, DeleteTask(t)
  PROVE  RowsExist' /\ CreatorIsAlone' /\ ReadsAreGenuine' /\ HistoryMatchesRow'
<1>1. deleted' = deleted \cup {t} /\ Row(t) /\ UNCHANGED <<status, history, req>>
  BY DEF DeleteTask, Live
<1>2. \A x \in Tasks : x # t => deleting'[x] = deleting[x]
  BY DEF DeleteTask, DispatchInv, TypeOK, ApiOK
<1>3. RowsExist /\ CreatorIsAlone /\ ReadsAreGenuine /\ HistoryMatchesRow
  BY DEF DispatchInv
<1>4. RowsExist'
  BY <1>1, <1>2, <1>3 DEF RowsExist, Row, TidOf
<1>5. CreatorIsAlone'
  BY <1>1, <1>3 DEF CreatorIsAlone, TidOf
<1>6. ReadsAreGenuine'
  BY <1>1, <1>3, Zenon DEF ReadsAreGenuine, TidOf, Row, NewStatus, Had
<1>7. HistoryMatchesRow'
  BY <1>1, <1>3 DEF HistoryMatchesRow, Live, Row
<1> QED
  BY <1>4, <1>5, <1>6, <1>7

(* The first history row, or its failure, ends the creation of a task.     *)
LEMMA LogCreatedKeeps ==
  ASSUME DispatchInv, NEW r \in Requests, LogCreated(r)
  PROVE  RowsExist' /\ CreatorIsAlone' /\ ReadsAreGenuine' /\ HistoryMatchesRow'
<1> DEFINE t == TidOf(r)
<1>0. /\ RowsExist /\ CreatorIsAlone /\ ReadsAreGenuine /\ HistoryMatchesRow /\ TypeOK
      /\ deleted \subseteq Tasks
  BY DEF DispatchInv, TypeOK, StoreOK
<1>1. /\ req[r].pc = "inserted" /\ req'[r].pc \in {"calling", "done", "failRead"}
      /\ req'[r].tid = t
      /\ \A q \in Requests : q # r => req'[q] = req[q]
  BY DEF LogCreated, DispatchInv, TypeOK, ApiOK, TidOf
<1>2. /\ t \in Tasks /\ Row(t) /\ status[t] = PENDING /\ history[t] = <<>>
      /\ \A q \in Requests : q # r /\ req[q].pc # "idle" => req[q].tid # t
  BY <1>0, <1>1 DEF CreatorIsAlone, RowsExist, TidOf
<1>3. /\ UNCHANGED <<status, deleted, deleting>>
      /\ Log(t, NoRow, PENDING) \/ UNCHANGED history
  BY DEF LogCreated
<1>4. /\ \A x \in Tasks \ {t} : history'[x] = history[x]
      /\ history'[t] = <<>> \/ history'[t][Len(history'[t])].new = PENDING
      /\ \A x \in Tasks : Had(history[x]) \subseteq Had(history'[x])
  BY <1>0, <1>2, <1>3, StatusFacts, LogFacts, ZenonT(30)
<1> HIDE DEF t
<1>5. RowsExist'
  <2>1. \A q \in Requests : req'[q].pc # "idle" => req'[q].tid \in Tasks /\ status[req'[q].tid] # NoRow
    BY <1>0, <1>1, <1>2 DEF RowsExist, Row, TidOf
  <2>2. \A x \in Tasks : status[x] = NoRow => history'[x] = <<>>
    BY <1>0, <1>2, <1>4 DEF RowsExist, Row
  <2> QED
    BY <1>0, <1>3, <2>1, <2>2 DEF RowsExist, Row, TidOf
<1>6. CreatorIsAlone'
  BY <1>1, <1>3, <1>4, FrameCreator, Zenon DEF t, TidOf
<1>7. ReadsAreGenuine'
  <2>1. \A q \in Requests : req[q].pc # "idle" => req[q].tid \in Tasks
    BY <1>0, Zenon DEF RowsExist, TidOf
  <2> QED
    BY <1>0, <1>1, <1>3, <1>4, <2>1, Zenon DEF ReadsAreGenuine, NewStatus, Row, TidOf
<1>8. HistoryMatchesRow'
  BY <1>0, <1>2, <1>3, <1>4, Zenon DEF HistoryMatchesRow, Live, Row
<1> QED
  BY <1>5, <1>6, <1>7, <1>8

(* apiserver's updateTaskStatus writes what it read leave for, in a row    *)
(* that may have changed since or be gone, and logs it in any case.        *)
LEMMA GoWriteKeeps ==
  ASSUME DispatchInv, NEW r \in Requests, GoWrite(r)
  PROVE  RowsExist' /\ CreatorIsAlone' /\ ReadsAreGenuine' /\ HistoryMatchesRow'
<1> DEFINE t == TidOf(r)
           new == NewStatus(r)
<1>0. /\ RowsExist /\ CreatorIsAlone /\ ReadsAreGenuine /\ HistoryMatchesRow /\ TypeOK
      /\ deleted \subseteq Tasks /\ status \in [Tasks -> Status \cup {NoRow}]
  BY DEF DispatchInv, TypeOK, StoreOK
<1>1. /\ req[r].pc \in {"failWrite", "retryWrite"} /\ req'[r].pc \in {"calling", "done"}
      /\ req'[r].tid = t
      /\ \A q \in Requests : q # r => req'[q] = req[q]
  BY Zenon DEF GoWrite, DispatchInv, TypeOK, ApiOK, TidOf
<1>2. /\ t \in Tasks /\ Row(t) /\ new \in Status /\ req[r].seen \in Status \cup {NoRow}
  BY <1>0, <1>1, StatusFacts DEF RowsExist, TypeOK, ApiOK, NewStatus
<1>3. /\ status' = IF t \in deleted THEN status ELSE [status EXCEPT ![t] = new]
      /\ Log(t, req[r].seen, new)
      /\ UNCHANGED <<deleted, deleting>>
  BY DEF GoWrite
<1> HIDE DEF t, new
<1>4. /\ \A x \in Tasks \ {t} : history'[x] = history[x]
      /\ history'[t] # <<>> /\ history'[t][Len(history'[t])].new = new
      /\ \A x \in Tasks : Had(history[x]) \subseteq Had(history'[x])
      /\ new \in Had(history'[t])
  BY <1>0, <1>2, <1>3, LogFacts, Zenon
<1>5. /\ \A x \in Tasks \ {t} : status'[x] = status[x]
      /\ status'[t] = new \/ (status'[t] = status[t] /\ t \in deleted)
      /\ status'[t] # NoRow
  BY <1>0, <1>2, <1>3, StatusFacts, Zenon DEF Row
<1>6. RowsExist'
  <2>1. \A x \in Tasks : status[x] # NoRow => status'[x] # NoRow
    BY <1>5
  <2>2. \A q \in Requests : req'[q].pc # "idle" => req'[q].tid \in Tasks /\ status'[req'[q].tid] # NoRow
    BY <1>0, <1>1, <1>2, <2>1, ZenonT(30) DEF RowsExist, Row, TidOf
  <2>3. \A x \in deleted : x \in Tasks /\ status'[x] # NoRow
    BY <1>0, <2>1, Zenon DEF RowsExist, Row
  <2>4. \A x \in Tasks : status'[x] = NoRow => history'[x] = <<>>
    BY <1>0, <1>4, <1>5, Zenon DEF RowsExist, Row
  <2> QED
    BY <1>0, <1>3, <2>2, <2>3, <2>4, Zenon DEF RowsExist, Row, TidOf
<1>7. CreatorIsAlone'
  BY <1>1, <1>4, <1>5, FrameCreator DEF t, TidOf
<1>8. ReadsAreGenuine'
  <2>1. \A q \in Requests : req[q].pc # "idle" => req[q].tid \in Tasks
    BY <1>0, Zenon DEF RowsExist, TidOf
  <2>2. \A x \in Tasks : Row(x)' => status'[x] \in Had(history'[x])
    BY <1>0, <1>2, <1>4, <1>5, Zenon DEF ReadsAreGenuine, Row
  <2> QED
    BY <1>0, <1>1, <1>4, <2>1, <2>2, Zenon DEF ReadsAreGenuine, NewStatus, TidOf
<1>9. HistoryMatchesRow'
  BY <1>0, <1>2, <1>3, <1>4, <1>5, Zenon DEF HistoryMatchesRow, Live, Row
<1> QED
  BY <1>6, <1>7, <1>8, <1>9

(* The parts of the invariant about rows, requests and history: one case   *)
(* per step that writes a row or takes up a task; every other step moves   *)
(* requests that are out, by what they have read, or none.                 *)
LEMMA RowsNext ==
  DispatchInv /\ [Next]_vars =>
    RowsExist' /\ CreatorIsAlone' /\ ReadsAreGenuine' /\ HistoryMatchesRow'
<1> DEFINE G == RowsExist' /\ CreatorIsAlone' /\ ReadsAreGenuine' /\ HistoryMatchesRow'
           Reads(q) ==
             \/ req'[q] = req[q]
             \/ /\ req'[q].tid = req[q].tid
                /\ req[q].pc # "idle" /\ req'[q].pc \notin {"idle", "inserted"}
                /\ req'[q].pc \in {"failWrite", "retryWrite"} =>
                     /\ req'[q].seen \in Had(history[TidOf(q)])
                     /\ IsTransitionAllowed(req'[q].seen, IF req'[q].pc = "failWrite" THEN FAILED ELSE PENDING)
           Ends(t) == deleting'[t] # "none" => deleting[t] # "none"
<1>z. SUFFICES ASSUME DispatchInv, [Next]_vars
               PROVE  G
  OBVIOUS
<1>0. ApiOK /\ RowsExist /\ ReadsAreGenuine
  BY <1>z DEF DispatchInv, TypeOK
<1>1. ASSUME NEW r \in Requests, NEW t \in Tasks, NEW ip \in Agents, NEW s \in Ips,
             NEW k \in {"single", "continuous"}, Insert(r, t, ip, s, k)
      PROVE  G
  BY <1>z, <1>1, InsertKeeps
<1>2. ASSUME NEW r \in Requests, NEW t \in Tasks, RetryTask(r, t) PROVE G
  BY <1>z, <1>2, RetryKeeps
<1>3. ASSUME NEW t \in Tasks, DeleteTask(t) PROVE G
  BY <1>z, <1>3, DeleteKeeps
<1>4. ASSUME NEW r \in Requests, LogCreated(r) PROVE G
  BY <1>z, <1>4, LogCreatedKeeps
<1>5. ASSUME NEW r \in Requests, GoWrite(r) PROVE G
  BY <1>z, <1>5, GoWriteKeeps
<1>6. ASSUME NEW r \in Out, NEW new \in Status, ServerUpdates(r, new) PROVE G
  BY <1>z, <1>6, UpdateTasks, Zenon DEF ServerUpdates
<1>7. ASSUME NEW r \in Requests, GoRead(r) PROVE \A q \in Requests : Reads(q)
  <2>1. \A q \in Requests : q # r => req'[q] = req[q]
    BY <1>0, <1>7 DEF GoRead, ApiOK
  <2>2. Live(TidOf(r)) => status[TidOf(r)] \in Had(history[TidOf(r)])
    BY <1>0, <1>7 DEF GoRead, RowsExist, ReadsAreGenuine, Live
  <2>3. Reads(r)
    BY <1>0, <1>7, <2>2 DEF GoRead, ApiOK, NewStatus
  <2> QED
    BY <2>1, <2>3
<1>8. ASSUME NEW r \in Requests, DispatchOk(r) \/ DispatchError(r) PROVE \A q \in Requests : Reads(q)
  <2>1. \A q \in Requests :
          \/ req'[q] = req[q]
          \/ req[q].pc = "calling" /\ req'[q].pc \in {"done", "failRead"} /\ req'[q].tid = req[q].tid
    BY <1>0, <1>8 DEF DispatchOk, DispatchError, ApiOK
  <2> QED
    BY <2>1
<1>9. ASSUME ApiCrash \/ ServerCrash PROVE \A q \in Requests : Reads(q)
  <2>1. \A q \in Requests :
          \/ req'[q] = req[q]
          \/ req[q].pc # "idle" /\ req'[q].pc \in {"done", "failRead"} /\ req'[q].tid = req[q].tid
    BY <1>0, <1>9 DEF ApiCrash, ServerCrash, ApiOK
  <2> QED
    BY <2>1
<1>10. ASSUME NEW t \in Tasks, ListObjects(t) \/ RemoveObjects(t) PROVE \A x \in Tasks : Ends(x)
  BY <1>0, <1>10 DEF ListObjects, RemoveObjects, ApiOK
<1>11. ASSUME ApiCrash PROVE \A x \in Tasks : Ends(x)
  BY <1>11, Zenon DEF ApiCrash
<1>12. ASSUME UNCHANGED <<status, deleted, history>>, \A q \in Requests : Reads(q), \A x \in Tasks : Ends(x)
       PROVE  G
  BY <1>z, <1>12, FrameRequests, Zenon
<1>13. ASSUME UNCHANGED req PROVE \A q \in Requests : Reads(q)
  BY <1>13
<1>14. ASSUME UNCHANGED deleting PROVE \A x \in Tasks : Ends(x)
  BY <1>14
<1> HIDE DEF G, Reads, Ends
<1>15. G \/ UNCHANGED <<status, deleted, history>>
  BY <1>z, <1>1, <1>3, <1>4, <1>5, <1>6, RowSteps, Zenon
<1>16. G \/ \A q \in Requests : Reads(q)
  BY <1>z, <1>1, <1>2, <1>4, <1>5, <1>7, <1>8, <1>9, <1>13, RequestWriters, Zenon
<1>17. G \/ \A x \in Tasks : Ends(x)
  BY <1>z, <1>3, <1>10, <1>11, <1>14, DeletionWriters, Zenon
<1> QED
  BY <1>12, <1>15, <1>16, <1>17, Zenon
-----------------------------------------------------------------------------
(* The rows, their history, cos_key and the object store keep their types. *)
LEMMA StoreTyped ==
  DispatchInv /\ [Next]_vars => StoreOK'
<1>z. SUFFICES ASSUME DispatchInv, [Next]_vars
               PROVE  StoreOK'
  OBVIOUS
<1>0. StoreOK /\ ApiOK /\ CopiesAreOut
  BY <1>z DEF DispatchInv, TypeOK
<1>a. {PENDING, RUNNING, UPLOADING, DONE, FAILED} \subseteq Status
  BY StatusFacts
<1>b. \A r \in Out : TidOf(r) \in Tasks
  BY <1>z, OutKnown
<1>r. \A r \in Requests : req[r].pc # "idle" => TidOf(r) \in Tasks
  BY <1>z DEF DispatchInv, RowsExist
<1> DEFINE Files == cosKey' \subseteq Tasks /\ objects' \subseteq Tasks
           Rows  == /\ status' \in [Tasks -> Status \cup {NoRow}] /\ deleted' \subseteq Tasks
                    /\ target' \in [Tasks -> Ips] /\ params' \in [Tasks -> Ips]
                    /\ kind' \in [Tasks -> {"single", "continuous"}]
                    /\ history' \in [Tasks -> Seq(Entry)]
<1>1. Files
  <2>1. ASSUME NEW r \in Requests, PutObject(r) \/ SetCosKey(r) PROVE Files
    <3>1. TidOf(r) \in Tasks
      BY <2>1, <1>0, <1>b DEF PutObject, SetCosKey, CopiesAreOut
    <3> QED
      BY <2>1, <3>1, <1>0, Zenon DEF PutObject, SetCosKey, StoreOK
  <2>2. ASSUME NEW t \in Tasks, RemoveObjects(t) PROVE Files
    BY <2>2, <1>0 DEF RemoveObjects, StoreOK
  <2>3. ASSUME UNCHANGED <<cosKey, objects>> PROVE Files
    BY <2>3, <1>0 DEF StoreOK
  <2> QED
    BY <1>z, <2>1, <2>2, <2>3, FileWriters, Zenon
<1>2. Rows
  <2>1. ASSUME NEW r \in Requests, NEW t \in Tasks, NEW ip \in Agents, NEW s \in Ips,
               NEW k \in {"single", "continuous"}, Insert(r, t, ip, s, k)
        PROVE  Rows
    BY <2>1, <1>0, <1>a DEF Insert, StoreOK, Ips
  <2>2. ASSUME NEW t \in Tasks, DeleteTask(t) PROVE Rows
    BY <2>2, <1>0 DEF DeleteTask, StoreOK
  <2>3. ASSUME NEW r \in Requests, LogCreated(r) PROVE Rows
    <3>1. TidOf(r) \in Tasks
      BY <2>3, <1>r DEF LogCreated
    <3>2. history' \in [Tasks -> Seq(Entry)]
      <4>1. CASE Log(TidOf(r), NoRow, PENDING)
        BY <4>1, <1>0, <1>a, <3>1, LogTyped, Zenon
      <4>2. CASE UNCHANGED history
        BY <4>2, <1>0 DEF StoreOK
      <4> QED
        BY <2>3, <4>1, <4>2 DEF LogCreated
    <3> QED
      BY <2>3, <1>0, <3>2 DEF LogCreated, StoreOK
  <2>4. ASSUME NEW r \in Requests, GoWrite(r) PROVE Rows
    <3>1. TidOf(r) \in Tasks /\ NewStatus(r) \in Status /\ req[r].seen \in Status \cup {NoRow}
      BY <2>4, <1>0, <1>a, <1>r DEF GoWrite, NewStatus, ApiOK
    <3>2. history' \in [Tasks -> Seq(Entry)]
      BY <2>4, <1>0, <3>1, LogTyped, Zenon DEF GoWrite
    <3>3. status' \in [Tasks -> Status \cup {NoRow}]
      BY <2>4, <1>0, <3>1 DEF GoWrite, StoreOK
    <3> QED
      BY <2>4, <1>0, <3>2, <3>3 DEF GoWrite, StoreOK
  <2>5. ASSUME NEW r \in Out, NEW new \in Status, ServerUpdates(r, new) PROVE Rows
    <3>1. StoreOK'
      BY <2>5, <1>0, <1>b, UpdateTyped DEF ServerUpdates
    <3> QED
      BY <3>1 DEF StoreOK
  <2>6. ASSUME UNCHANGED <<status, deleted, target, params, kind, history>> PROVE Rows
    BY <2>6, <1>0 DEF StoreOK
  <2> QED
    BY <1>z, <2>1, <2>2, <2>3, <2>4, <2>5, <2>6, RowSteps, Zenon
<1> QED
  BY <1>1, <1>2 DEF StoreOK

(* An upload, its agent's request included, belongs to a request that is out. *)
LEMMA UploadsNext ==
  DispatchInv /\ [Next]_vars =>
    /\ up' \in [Requests -> {"none", "received", "stored", "ok", "failed"}]
    /\ \A q \in Requests : up'[q] # "none" => q \in Out
<1> DEFINE G == /\ up' \in [Requests -> {"none", "received", "stored", "ok", "failed"}]
                /\ \A q \in Requests : up'[q] # "none" => q \in Out
<1>z. SUFFICES ASSUME DispatchInv, [Next]_vars
               PROVE  G
  OBVIOUS
<1>0. /\ up \in [Requests -> {"none", "received", "stored", "ok", "failed"}]
      /\ \A q \in Requests : up[q] # "none" => q \in Out
  BY <1>z DEF DispatchInv, TypeOK, ApiOK, CopiesAreOut
<1>1. ASSUME NEW r \in Requests, PutObject(r) \/ SetCosKey(r) \/ PutError(r) PROVE G
  BY <1>0, <1>1 DEF PutObject, SetCosKey, PutError
<1>2. ASSUME NEW a \in Agents, RecordOk(a) PROVE G
  <2>1. run[a].r \in Out
    BY <1>z, <1>2 DEF RecordOk, DispatchInv, CopiesAreOut
  <2> QED
    BY <1>0, <1>2, <2>1, Zenon DEF RecordOk
<1>3. ASSUME ApiCrash PROVE G
  BY <1>0, <1>3 DEF ApiCrash
<1>4. ASSUME UNCHANGED up PROVE G
  BY <1>0, <1>4
<1> QED
  BY <1>z, <1>1, <1>2, <1>3, <1>4, UploadWriters, Zenon

(* The deletions in progress keep their type. *)
LEMMA DeletionsTyped ==
  DispatchInv /\ [Next]_vars => deleting' \in [Tasks -> {"none", "listing", "removing"}]
<1>0. DispatchInv => deleting \in [Tasks -> {"none", "listing", "removing"}]
  BY DEF DispatchInv, TypeOK, ApiOK
<1> QED
  BY <1>0, DeletionWriters DEF DeleteTask, ListObjects, RemoveObjects, ApiCrash

(* A call in progress belongs to a request that is out. *)
LEMMA CallsNext ==
  DispatchInv /\ [Next]_vars =>
    /\ pg' \in BOOLEAN
    /\ call' \in [Requests -> {"none", "accepted", "pushed"}]
    /\ \A q \in Requests : call'[q] # "none" => q \in Out
<1> DEFINE G == /\ call' \in [Requests -> {"none", "accepted", "pushed"}]
                /\ \A q \in Requests : call'[q] # "none" => q \in Out
<1>z. SUFFICES ASSUME DispatchInv, [Next]_vars
               PROVE  pg' \in BOOLEAN /\ G
  OBVIOUS
<1>0. /\ call \in [Requests -> {"none", "accepted", "pushed"}]
      /\ \A q \in Requests : call[q] # "none" => q \in Out
  BY <1>z, Zenon DEF DispatchInv, TypeOK, ServerOK, CopiesAreOut
<1>1. ASSUME NEW r \in Requests, AcceptTask(r) \/ PushTask(r) PROVE G
  <2>1. r \in Out
    BY <1>0, <1>1 DEF AcceptTask, PushTask, Out
  <2> QED
    BY <1>0, <1>1, <2>1, Zenon DEF AcceptTask, PushTask
<1>2. ASSUME ServerCrash PROVE G
  BY <1>0, <1>2 DEF ServerCrash
<1>3. ASSUME UNCHANGED call PROVE G
  BY <1>0, <1>3
<1>4. G
  BY <1>z, <1>1, <1>2, <1>3, CallWriters, Zenon DEF LoseConnection
<1>5. pg \in BOOLEAN
  BY <1>z, Zenon DEF DispatchInv, TypeOK, ServerOK
<1>6. pg' \in BOOLEAN
  BY <1>z, <1>5, CallWriters, Zenon DEF LoseConnection, AcceptTask, PushTask, ServerCrash
<1> QED
  BY <1>4, <1>6

(* What is queued at drop_server belongs to requests that are out. *)
LEMMA QueuesNext ==
  DispatchInv /\ [Next]_vars => queue' \in [Ips -> Seq(Out)]
<1>z. SUFFICES ASSUME DispatchInv, [Next]_vars
               PROVE  queue' \in [Ips -> Seq(Out)]
  BY Zenon
<1>0. /\ queue \in [Ips -> Seq(Out)] /\ Agents \subseteq Ips
      /\ req \in [Requests -> [pc : ReqPC, tid : Tasks \cup {None}, ip : Ips,
                               seen : Status \cup {NoRow}]]
  BY <1>z DEF DispatchInv, TypeOK, ApiOK, ServerOK, CopiesAreOut, Ips
<1>1. ASSUME NEW r \in Requests, PushTask(r) PROVE queue' \in [Ips -> Seq(Out)]
  <2>1. r \in Out /\ IpOf(r) \in Ips
    BY <1>z, <1>0, <1>1 DEF PushTask, DispatchInv, CopiesAreOut, IpOf
  <2>2. Append(queue[IpOf(r)], r) \in Seq(Out)
    BY <1>0, <2>1, SeqAppend
  <2> QED
    BY <1>0, <1>1, <2>1, <2>2, Zenon DEF PushTask
<1>2. ASSUME NEW a \in Agents, PopTask(a) \/ PopTaskOrphan(a) PROVE queue' \in [Ips -> Seq(Out)]
  <2>1. a \in Ips /\ Tail(queue[a]) \in Seq(Out)
    BY <1>0, <1>2, SeqHeadTail DEF PopTask, PopTaskOrphan
  <2> QED
    BY <1>0, <1>2, <2>1, Zenon DEF PopTask, PopTaskOrphan
<1>3. ASSUME ServerCrash PROVE queue' \in [Ips -> Seq(Out)]
  BY <1>3 DEF ServerCrash
<1> QED
  BY <1>z, <1>0, <1>1, <1>2, <1>3, QueueWriters, Zenon

(* The tasks of heartbeats nobody waits for belong to requests that are out. *)
LEMMA OrphansNext ==
  DispatchInv /\ [Next]_vars => orphans' \subseteq Out
<1>z. SUFFICES ASSUME DispatchInv, [Next]_vars
               PROVE  orphans' \subseteq Out
  OBVIOUS
<1>0. CopiesAreOut /\ Agents \subseteq Ips
  BY <1>z DEF DispatchInv, Ips
<1>1. ASSUME NEW a \in Agents, PopTaskOrphan(a) PROVE orphans' \subseteq Out
  <2>1. Head(queue[a]) \in Out
    BY <1>0, <1>1, SeqHeadTail, Zenon DEF PopTaskOrphan, CopiesAreOut
  <2> QED
    BY <1>0, <1>1, <2>1 DEF PopTaskOrphan, CopiesAreOut
<1>2. ASSUME NEW a \in Agents, HeartbeatError(a) \/ AgentCrash(a) PROVE orphans' \subseteq Out
  BY <1>0, <1>2, Zenon DEF HeartbeatError, AgentCrash, CopiesAreOut
<1>3. ASSUME NEW r \in Requests, MarkRunningOrphan(r) PROVE orphans' \subseteq Out
  BY <1>0, <1>3 DEF MarkRunningOrphan, CopiesAreOut
<1>4. ASSUME ServerCrash \/ UNCHANGED orphans PROVE orphans' \subseteq Out
  BY <1>0, <1>4 DEF ServerCrash, CopiesAreOut
<1> QED
  BY <1>z, <1>1, <1>2, <1>3, <1>4, OrphanWriters, Zenon

(* The results on their way belong to requests that are out. *)
LEMMA NotesNext ==
  DispatchInv /\ [Next]_vars => \A n \in notes' : n \in Notes /\ n.r \in Out
<1> DEFINE G == \A n \in notes' : n \in Notes /\ n.r \in Out
<1>z. SUFFICES ASSUME DispatchInv, [Next]_vars
               PROVE  G
  OBVIOUS
<1>0. /\ CopiesAreOut /\ Out \subseteq Requests
      /\ \A n \in notes : n \in Notes /\ n.r \in Out
  BY <1>z, Zenon DEF DispatchInv, TypeOK, ServerOK, CopiesAreOut, Out
<1>1. ASSUME NEW r \in Out, NEW ok \in BOOLEAN,
             notes' \subseteq notes \cup {[r |-> r, ok |-> ok, stage |-> "report"]}
      PROVE  G
  <2>1. [r |-> r, ok |-> ok, stage |-> "report"] \in Notes
    BY <1>0 DEF Notes
  <2> QED
    BY <1>0, <1>1, <2>1
<1>2. ASSUME NEW r \in Requests, RunnerError(r) PROVE G
  <2>1. r \in Out /\ notes' \subseteq notes \cup {[r |-> r, ok |-> FALSE, stage |-> "report"]}
    BY <1>0, <1>2 DEF RunnerError, CopiesAreOut
  <2> QED
    BY <1>1, <2>1, Zenon
<1>3. ASSUME NEW a \in Agents, Report(a) PROVE G
  <2>1. run[a].r \in Out
    BY <1>0, <1>3 DEF Report, CopiesAreOut
  <2>2. (run[a].pc = "success") \in BOOLEAN
    OBVIOUS
  <2>3. notes' = notes \cup {[r |-> run[a].r, ok |-> run[a].pc = "success", stage |-> "report"]}
    BY <1>3 DEF Report
  <2> QED
    BY <1>1, <2>1, <2>2, <2>3, Zenon
<1>4. ASSUME NEW n \in notes, NotifyUploading(n) PROVE G
  <2>1. [n EXCEPT !.stage = "finish"] \in Notes /\ [n EXCEPT !.stage = "finish"].r = n.r
    BY <1>0, <1>4, Zenon DEF Notes
  <2> QED
    BY <1>0, <1>4, <2>1, Zenon DEF NotifyUploading
<1>5. ASSUME NEW n \in notes, NotifyDone(n) \/ NotifyFailed(n) PROVE G
  BY <1>0, <1>5 DEF NotifyDone, NotifyFailed
<1>6. ASSUME ServerCrash \/ UNCHANGED notes PROVE G
  BY <1>0, <1>6 DEF ServerCrash
<1> QED
  BY <1>z, <1>2, <1>3, <1>4, <1>5, <1>6, NoteWriters, Zenon

(* The task a heartbeat brings belongs to a request that is out. *)
LEMMA HeartbeatsNext ==
  DispatchInv /\ [Next]_vars =>
    /\ hb' \in [Agents -> [pc : {"idle", "popped", "reply"}, r : Requests \cup {None}]]
    /\ \A b \in Agents : hb'[b].pc # "idle" => hb'[b].r \in Out
<1> DEFINE G == /\ hb' \in [Agents -> [pc : {"idle", "popped", "reply"}, r : Requests \cup {None}]]
                /\ \A b \in Agents : hb'[b].pc # "idle" => hb'[b].r \in Out
<1>z. SUFFICES ASSUME DispatchInv, [Next]_vars
               PROVE  G
  OBVIOUS
<1>0. /\ hb \in [Agents -> [pc : {"idle", "popped", "reply"}, r : Requests \cup {None}]]
      /\ \A b \in Agents : hb[b].pc # "idle" => hb[b].r \in Out
      /\ \A ip \in Ips : queue[ip] \in Seq(Out)
      /\ Agents \subseteq Ips /\ Out \subseteq Requests
  BY <1>z, Zenon DEF DispatchInv, TypeOK, AgentOK, CopiesAreOut, Ips, Out
<1>1. ASSUME NEW a \in Agents, PopTask(a) PROVE G
  <2>1. Head(queue[a]) \in Out
    BY <1>0, <1>1, SeqHeadTail DEF PopTask
  <2> QED
    BY <1>0, <1>1, <2>1, Zenon DEF PopTask
<1>2. ASSUME NEW a \in Agents, MarkRunning(a) PROVE G
  BY <1>0, <1>2 DEF MarkRunning
<1>3. ASSUME NEW a \in Agents, ReceiveTask(a) \/ HeartbeatError(a) \/ AgentCrash(a) PROVE G
  <2>1. hb' = [hb EXCEPT ![a] = [pc |-> "idle", r |-> None]]
    BY <1>3 DEF ReceiveTask, HeartbeatError, AgentCrash
  <2> QED
    BY <1>0, <2>1, Zenon
<1>4. ASSUME ServerCrash PROVE G
  BY <1>4 DEF ServerCrash
<1>5. ASSUME UNCHANGED hb PROVE G
  BY <1>0, <1>5
<1> QED
  BY <1>z, <1>1, <1>2, <1>3, <1>4, <1>5, HeartbeatWriters, Zenon

(* What waits at a worker, and what runs detached, belongs to requests     *)
(* that are out.                                                           *)
LEMMA WorkNext ==
  DispatchInv /\ [Next]_vars =>
    work' \in [Agents -> Seq(Out)] /\ runners' \subseteq Out /\ started' \subseteq Requests
<1> DEFINE G == work' \in [Agents -> Seq(Out)] /\ runners' \subseteq Out /\ started' \subseteq Requests
<1>z. SUFFICES ASSUME DispatchInv, [Next]_vars
               PROVE  G
  OBVIOUS
<1>0. /\ work \in [Agents -> Seq(Out)] /\ runners \subseteq Out /\ started \subseteq Requests
      /\ \A b \in Agents : hb[b].pc # "idle" => hb[b].r \in Out
      /\ Out \subseteq Requests
  BY <1>z, ZenonT(30) DEF DispatchInv, TypeOK, AgentOK, CopiesAreOut, Out
<1>1. ASSUME NEW r \in Requests, RunnerError(r) PROVE G
  BY <1>0, <1>1 DEF RunnerError
<1>2. ASSUME NEW a \in Agents, ReceiveTask(a) PROVE G
  <2>1. Append(work[a], hb[a].r) \in Seq(Out)
    BY <1>0, <1>2, SeqAppend, Zenon DEF ReceiveTask
  <2> QED
    BY <1>0, <1>2, <2>1, Zenon DEF ReceiveTask
<1>3. ASSUME NEW a \in Agents, StartTask(a) PROVE G
  <2>1. Head(work[a]) \in Out /\ Tail(work[a]) \in Seq(Out)
    BY <1>0, <1>3, SeqHeadTail, Zenon DEF StartTask
  <2> QED
    BY <1>0, <1>3, <2>1, Zenon DEF StartTask
<1>4. ASSUME NEW a \in Agents, AgentCrash(a) PROVE G
  BY <1>0, <1>4 DEF AgentCrash
<1>5. ASSUME UNCHANGED <<work, runners, started>> PROVE G
  BY <1>0, <1>5
<1> QED
  BY <1>z, <1>1, <1>2, <1>3, <1>4, <1>5, WorkWriters, Zenon

(* The task a worker executes belongs to a request that is out. *)
LEMMA RunsNext ==
  DispatchInv /\ [Next]_vars =>
    /\ run' \in [Agents -> [pc : RunPC, r : Requests \cup {None}]]
    /\ \A b \in Agents : run'[b].pc # "idle" => run'[b].r \in Out
<1> DEFINE G == /\ run' \in [Agents -> [pc : RunPC, r : Requests \cup {None}]]
                /\ \A b \in Agents : run'[b].pc # "idle" => run'[b].r \in Out
<1>z. SUFFICES ASSUME DispatchInv, [Next]_vars
               PROVE  G
  OBVIOUS
<1>0. /\ run \in [Agents -> [pc : RunPC, r : Requests \cup {None}]]
      /\ \A b \in Agents : run[b].pc # "idle" => run[b].r \in Out
      /\ \A b \in Agents : work[b] \in Seq(Out)
      /\ Out \subseteq Requests
  BY <1>z, Zenon DEF DispatchInv, TypeOK, AgentOK, CopiesAreOut, Out
<1>1. ASSUME NEW a \in Agents, StartTask(a) PROVE G
  <2>1. Head(work[a]) \in Out
    BY <1>0, <1>1, SeqHeadTail, Zenon DEF StartTask
  <2>2. run' = run \/ run' = [run EXCEPT ![a] = [pc |-> "record", r |-> Head(work[a])]]
    BY <1>1 DEF StartTask
  <2> QED
    BY <1>0, <2>1, <2>2 DEF RunPC
<1>2. ASSUME NEW a \in Agents, \/ RecordError(a) \/ RecordOk(a) \/ UploadOk(a)
                               \/ UploadError(a) \/ Report(a)
      PROVE  G
  <2>1. PICK pc \in RunPC : run[a].pc # "idle" /\ run' = [run EXCEPT ![a].pc = pc]
    BY <1>2 DEF RecordError, RecordOk, UploadOk, UploadError, Report, RunPC
  <2> QED
    BY <1>0, <2>1
<1>3. ASSUME NEW a \in Agents, Reported(a) \/ ReportError(a) \/ AgentCrash(a) PROVE G
  <2>1. run' = [run EXCEPT ![a] = [pc |-> "idle", r |-> None]]
    BY <1>3 DEF Reported, ReportError, AgentCrash
  <2> QED
    BY <1>0, <2>1, Zenon DEF RunPC
<1>4. ASSUME UNCHANGED run PROVE G
  BY <1>0, <1>4
<1> QED
  BY <1>z, <1>1, <1>2, <1>3, <1>4, RunWriters, Zenon

(* Every step counts at most one fault, and only while there are some left. *)
LEMMA FaultsTyped ==
  DispatchInv /\ [Next]_vars => faults' \in 0..MaxFaults
<1>0. ASSUME NEW r, NEW t, NEW ip, NEW s, NEW k, Insert(r, t, ip, s, k) PROVE UNCHANGED faults
  BY <1>0, Zenon DEF Insert
<1>1. [Next]_vars => Fault \/ UNCHANGED faults
  BY <1>0, ZenonT(30)
  DEF Next, UserNext, CreateTask, NLChat, RetryTask, DeleteTask, RequestStep, LogCreated,
      GoRead, GoWrite, DispatchOk, UploadStep, PutObject, SetCosKey, CallStep, AcceptTask,
      PushTask, MarkRunningOrphan, RunnerError, DeleteStep, ListObjects, RemoveObjects, NoteStep,
      NotifyUploading, NotifyDone, NotifyFailed, HeartbeatStep, PopTask, MarkRunning, ReceiveTask,
      WorkerStep, StartTask, RecordError, RecordOk, UploadOk, UploadError, Report, Reported,
      FaultNext, DispatchError, PutError, PopTaskOrphan, HeartbeatError, ReportError, AgentCrash,
      ApiCrash, ServerCrash, LoseConnection, vars
<1> QED
  BY <1>1, ConstantsAssumption DEF Fault, DispatchInv, TypeOK

(* No step of the three programs, of the network or of a fault leaves the  *)
(* types.  The invariant is needed for what a step takes out of a queue: it *)
(* is a known request about a known task.                                  *)
LEMMA TypeNext ==
  DispatchInv /\ [Next]_vars => TypeOK'
<1>z. SUFFICES ASSUME DispatchInv, [Next]_vars
               PROVE  TypeOK'
  OBVIOUS
<1>0. Out \subseteq Requests /\ \A q \in Seq(Out) : q \in Seq(Requests)
  BY SeqMonotone DEF Out
<1>1. StoreOK'
  BY <1>z, StoreTyped, Zenon
<1>2. ApiOK'
  <2>1. grpcCC' = grpcCC
    BY <1>z, ApiWriters, Zenon
    DEF api, Insert, RetryTask, DeleteTask, LogCreated, GoRead, GoWrite, DispatchOk, DispatchError,
        PutObject, SetCosKey, PutError, ListObjects, RemoveObjects, RecordOk, ApiCrash, ServerCrash
  <2>2. grpcCC' \in BOOLEAN
    BY <1>z, <2>1, Zenon DEF DispatchInv, TypeOK, ApiOK
  <2> QED
    BY <1>z, <2>2, RequestsNext, DeletionsTyped, UploadsNext DEF ApiOK
<1>3. ServerOK'
  <2>1. queue' \in [Ips -> Seq(Requests)]
    BY <1>z, <1>0, QueuesNext
  <2> QED
    BY <1>z, <1>0, <2>1, CallsNext, OrphansNext, NotesNext DEF ServerOK
<1>4. AgentOK'
  <2>1. work' \in [Agents -> Seq(Requests)]
    BY <1>z, <1>0, WorkNext
  <2> QED
    BY <1>z, <1>0, <2>1, HeartbeatsNext, WorkNext, RunsNext DEF AgentOK
<1>5. (faults \in 0..MaxFaults)'
  BY <1>z, FaultsTyped, Zenon
<1> QED
  BY <1>1, <1>2, <1>3, <1>4, <1>5 DEF TypeOK

(* The first part of the invariant: every copy in circulation comes from a *)
(* request that is out, wherever the step has moved it.                    *)
LEMMA CopiesOutNext ==
  DispatchInv /\ [Next]_vars => CopiesAreOut'
<1>z. SUFFICES ASSUME DispatchInv, [Next]_vars
               PROVE  CopiesAreOut'
  OBVIOUS
<1>1. Out \subseteq Out'
  BY <1>z, RequestsNext
<1>2. \A q \in Seq(Out) : q \in Seq(Out')
  BY <1>1, SeqMonotone
<1>3. /\ \A ip \in Ips : queue'[ip] \in Seq(Out')
      /\ \A a \in Agents : work'[a] \in Seq(Out')
  BY <1>z, <1>2, QueuesNext, WorkNext
<1>4. \A a \in Agents : /\ hb'[a].pc # "idle" => hb'[a].r \in Out'
                        /\ run'[a].pc # "idle" => run'[a].r \in Out'
  BY <1>z, <1>1, HeartbeatsNext, RunsNext
<1>5. runners' \subseteq Out' /\ orphans' \subseteq Out' /\ \A n \in notes' : n.r \in Out'
  BY <1>z, <1>1, WorkNext, OrphansNext, NotesNext
<1>6. \A r \in Requests : call'[r] # "none" \/ up'[r] # "none" => r \in Out'
  BY <1>z, <1>1, CallsNext, UploadsNext
<1> QED
  BY <1>3, <1>4, <1>5, <1>6, Zenon DEF CopiesAreOut

(* Every step keeps the inductive invariant. *)
LEMMA InvNext ==
  DispatchInv /\ [Next]_vars => DispatchInv'
BY TypeNext, CopiesOutNext, RowsNext, EvidenceNext DEF DispatchInv
=============================================================================
