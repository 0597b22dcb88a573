---------------------------- MODULE TaskDispatch ----------------------------
(***************************************************************************)
(* The life of a profiling task across the three programs that handle it:  *)
(*                                                                         *)
(*   apiserver (Go)     creates the row, dispatches it with a gRPC call,   *)
(*                      retries and deletes it, stores uploaded files;     *)
(*   drop_server (C++)  keeps one in-memory queue per agent IP, hands one  *)
(*                      task to each heartbeat, records results;           *)
(*   drop_agent (C++)   pulls tasks by heartbeat, runs the profiler,       *)
(*                      uploads its file and reports the result.           *)
(*                                                                         *)
(* The shared state is the hotmethod_task row, its task_status_history and *)
(* the object store.  Every HTTP request that dispatches a task (create,   *)
(* natural-language create, retry) is one element of Requests; the queue   *)
(* entries, replies and results it gives rise to carry that element, which *)
(* tells apart the copies of one task that a retry puts in circulation.    *)
(***************************************************************************)
EXTENDS TaskStatus, Sequences, Functions

CONSTANTS
  Tasks,      \* task ids (genTID)
  Agents,     \* agent IP addresses
  Requests,   \* dispatching HTTP requests: each creates or retries one task
  NoIP,       \* the empty target_ip of a request whose parameters lack one
  None,       \* no request
  MaxFaults   \* bound: timeouts, lost replies, crashes and lost connections

ASSUME ConstantsAssumption ==
  /\ NoIP \notin Agents
  /\ None \notin Requests
  /\ MaxFaults \in Nat

VARIABLES
  \* PostgreSQL and the object store
  status,     \* status column of each task, NoRow before it is inserted
  deleted,    \* tasks whose row has deleted_at set (GORM soft delete)
  target,     \* target_ip column
  params,     \* the target_ip inside the request_params column
  kind,       \* type column: "single" or "continuous"
  history,    \* task_status_history rows of each task, in insertion order
  cosKey,     \* tasks whose cos_key column is not empty
  objects,    \* tasks whose collected file is in the object store
  \* apiserver
  grpcCC,     \* whether the gRPC client to drop_server is configured
  req,        \* the goroutine of each dispatching request
  deleting,   \* the DeleteTask handler of each task
  up,         \* the UploadTaskFile handler of each request's file
  \* drop_server
  pg,         \* whether its only PostgreSQL connection works
  call,       \* its CreateTask handler for each request
  queue,      \* TaskQueue: per IP, a FIFO of requests
  orphans,    \* heartbeat handlers whose agent has stopped waiting
  notes,      \* NotifyResult handlers in progress
  \* drop_agent
  hb,         \* the heartbeat in progress of each agent
  work,       \* WorkerState.queue
  run,        \* what the worker thread is executing
  runners,    \* requests a detached continuous runner executes
  \* auxiliary
  started,    \* requests some agent has started to execute
  faults      \* faults so far

store    == <<status, deleted, target, params, kind, history, cosKey, objects>>
api      == <<grpcCC, req, deleting, up>>
server   == <<pg, call, queue, orphans, notes>>
agent    == <<hb, work, run, runners, started>>
vars     == <<store, api, server, agent, faults>>

Row(t)  == status[t] # NoRow
Live(t) == Row(t) /\ t \notin deleted

(* The task, the target IP and the agent a dispatched copy belongs to. *)
TidOf(r) == req[r].tid
IpOf(r)  == req[r].ip

ReqPC  == {"idle", "inserted", "calling", "failRead", "failWrite",
           "retryRead", "retryWrite", "done"}
Ips    == Agents \cup {NoIP}
RunPC  == {"idle", "record", "upload", "success", "error", "reporting"}
Notes  == [r : Requests, ok : BOOLEAN, stage : {"report", "finish"}]

Fault == faults < MaxFaults /\ faults' = faults + 1
-----------------------------------------------------------------------------
(***************************************************************************)
(* Writers of the status column.                                           *)
(***************************************************************************)

(* A history row is appended: old_status and new_status. *)
Log(t, old, new) ==
  history' = [history EXCEPT ![t] = Append(@, [old |-> old, new |-> new])]

(* Mutant: the UPDATE is committed without its INSERT INTO history. *)
UpdateTaskStatusUnlogged(t, new) ==
  /\ status' = IF pg /\ Row(t) /\ IsTransitionAllowed(status[t], new)
               THEN [status EXCEPT ![t] = new] ELSE status
  /\ UNCHANGED history

(***************************************************************************)
(* PGStore::UpdateTaskStatus.  BEGIN, SELECT status FOR UPDATE, the table  *)
(* check, UPDATE, INSERT history, COMMIT: the row lock makes it one step.  *)
(* The raw SQL does not look at deleted_at.  Without a connection, without *)
(* a row or on an illegal transition nothing is written and the caller is  *)
(* not told.                                                               *)
(***************************************************************************)
UpdateTaskStatus(t, new) ==
  IF pg /\ Row(t) /\ IsTransitionAllowed(status[t], new)
  THEN /\ status' = [status EXCEPT ![t] = new]
       /\ Log(t, status[t], new)
  ELSE UNCHANGED <<status, history>>

(* What the request's updateTaskStatus call is to write. *)
NewStatus(r) == IF req[r].pc \in {"failRead", "failWrite"} THEN FAILED ELSE PENDING

(* Mutant: the table check is left out. *)
GoReadUnchecked(r) ==
  /\ req[r].pc \in {"failRead", "retryRead"}
  /\ req' = IF Live(TidOf(r))
            THEN [req EXCEPT ![r].pc = IF @ = "failRead" THEN "failWrite" ELSE "retryWrite",
                             ![r].seen = status[TidOf(r)]]
            ELSE [req EXCEPT ![r].pc = "done"]
  /\ UNCHANGED <<store, grpcCC, deleting, up, server, agent, faults>>

(***************************************************************************)
(* (s *APIServer) updateTaskStatus, first half: First(&task) and the table *)
(* check.  GORM v2 ignores the "gorm:query_option" setting, so the SELECT  *)
(* takes no row lock, and other writers may run before the second half.    *)
(***************************************************************************)
GoRead(r) ==
  /\ req[r].pc \in {"failRead", "retryRead"}
  /\ IF Live(TidOf(r)) /\ IsTransitionAllowed(status[TidOf(r)], NewStatus(r))
     THEN req' = [req EXCEPT ![r].pc = IF @ = "failRead" THEN "failWrite"
                                                         ELSE "retryWrite",
                             ![r].seen = status[TidOf(r)]]
     ELSE req' = [req EXCEPT ![r].pc = "done"]
  /\ UNCHANGED <<store, grpcCC, deleting, up, server, agent, faults>>

(***************************************************************************)
(* updateTaskStatus, second half: Updates (WHERE id = ? AND deleted_at IS  *)
(* NULL: a row deleted meanwhile is not changed and no error is returned), *)
(* Create(&history) with the status read before, COMMIT.  A retry goes on  *)
(* to dispatch the task when there is a gRPC client, and stops otherwise.  *)
(***************************************************************************)
GoWrite(r) ==
  /\ req[r].pc \in {"failWrite", "retryWrite"}
  /\ status' = IF TidOf(r) \in deleted THEN status
               ELSE [status EXCEPT ![TidOf(r)] = NewStatus(r)]
  /\ Log(TidOf(r), req[r].seen, NewStatus(r))
  /\ req' = [req EXCEPT ![r].pc = IF @ = "retryWrite" /\ grpcCC THEN "calling"
                                                                ELSE "done"]
  /\ UNCHANGED <<deleted, target, params, kind, cosKey, objects,
                 grpcCC, deleting, up, server, agent, faults>>
-----------------------------------------------------------------------------
(***************************************************************************)
(* apiserver: creating, dispatching, retrying and deleting a task.         *)
(***************************************************************************)

(***************************************************************************)
(* CreateTask / NLChat, up to db.Create(&task): a fresh tid with status    *)
(* PENDING.  The request_params of NLChat hold no target_ip.               *)
(***************************************************************************)
Insert(r, t, ip, storedIp, type) ==
  /\ req[r].pc = "idle"
  /\ ~Row(t)
  /\ status' = [status EXCEPT ![t] = PENDING]
  /\ target' = [target EXCEPT ![t] = ip]
  /\ params' = [params EXCEPT ![t] = storedIp]
  /\ kind'   = [kind EXCEPT ![t] = type]
  /\ req'    = [req EXCEPT ![r] = [pc |-> "inserted", tid |-> t, ip |-> ip, seen |-> NoRow]]
  /\ UNCHANGED <<deleted, history, cosKey, objects, grpcCC, deleting, up,
                 server, agent, faults>>

CreateTask(r, t, ip, type) == Insert(r, t, ip, ip, type)
NLChat(r, t, ip)           == Insert(r, t, ip, NoIP, "single")

(***************************************************************************)
(* The rest of CreateTask / NLChat: the first history row, whose error is  *)
(* ignored, then the dispatch goroutine.  Without a gRPC client CreateTask *)
(* marks the task FAILED and NLChat leaves it PENDING.                     *)
(***************************************************************************)
LogCreated(r) ==
  /\ req[r].pc = "inserted"
  /\ \/ Log(TidOf(r), NoRow, PENDING) /\ UNCHANGED faults
     \/ Fault /\ UNCHANGED history
  /\ req' = [req EXCEPT ![r].pc = IF grpcCC THEN "calling"
                                  ELSE IF params[TidOf(r)] = NoIP THEN "done"
                                                                  ELSE "failRead"]
  /\ UNCHANGED <<status, deleted, target, params, kind, cosKey, objects,
                 grpcCC, deleting, up, server, agent>>

(***************************************************************************)
(* RetryTask, its first query: the caller's own live FAILED task.  The     *)
(* dispatch will use the target_ip found in request_params.                *)
(***************************************************************************)
RetryTask(r, t) ==
  /\ req[r].pc = "idle"
  /\ Live(t) /\ status[t] = FAILED
  /\ req' = [req EXCEPT ![r] = [pc |-> "retryRead", tid |-> t, ip |-> params[t], seen |-> NoRow]]
  /\ UNCHANGED <<store, grpcCC, deleting, up, server, agent, faults>>

(* dispatchTask: the reply to CreateTask (success is always true) arrives. *)
DispatchOk(r) ==
  /\ req[r].pc = "calling"
  /\ call[r] = "pushed"
  /\ req' = [req EXCEPT ![r].pc = "done"]
  /\ UNCHANGED <<store, grpcCC, deleting, up, server, agent, faults>>

(***************************************************************************)
(* dispatchTask: the call returns an error, e.g. its 10 s deadline.  What  *)
(* drop_server has done with the request by then is unknown.  The task is  *)
(* to be marked FAILED.                                                    *)
(***************************************************************************)
DispatchError(r) ==
  /\ req[r].pc = "calling"
  /\ Fault
  /\ req' = [req EXCEPT ![r].pc = "failRead"]
  /\ UNCHANGED <<store, grpcCC, deleting, up, server, agent>>

(* Mutant: the objects are listed and removed before the row is deleted. *)
DeleteTaskObjectsFirst(t) ==
  /\ Live(t)
  /\ deleting[t] = "none"
  /\ deleting' = [deleting EXCEPT ![t] = "listing"]
  /\ UNCHANGED <<store, grpcCC, req, up, server, agent, faults>>

(***************************************************************************)
(* DeleteTask.  The soft delete; then the delete of the suggestions, which *)
(* names a column that does not exist and changes nothing; then the        *)
(* listing of the task's objects; then their removal.                      *)
(***************************************************************************)
DeleteTask(t) ==
  /\ Live(t)
  /\ deleted' = deleted \cup {t}
  /\ deleting' = [deleting EXCEPT ![t] = "listing"]
  /\ UNCHANGED <<status, target, params, kind, history, cosKey, objects,
                 grpcCC, req, up, server, agent, faults>>

ListObjects(t) ==
  /\ deleting[t] = "listing"
  /\ deleting' = [deleting EXCEPT ![t] = IF t \in objects THEN "removing" ELSE "none"]
  /\ UNCHANGED <<store, grpcCC, req, up, server, agent, faults>>

RemoveObjects(t) ==
  /\ deleting[t] = "removing"
  /\ objects' = objects \ {t}
  /\ deleting' = [deleting EXCEPT ![t] = "none"]
  /\ UNCHANGED <<status, deleted, target, params, kind, history, cosKey,
                 grpcCC, req, up, server, agent, faults>>

(***************************************************************************)
(* UploadTaskFile: storage.Put of the received file, then the cos_key, set *)
(* only if the row is live and has none.  Neither query's error is looked  *)
(* at; a failed Put is answered 500.  The handler does not notice that the *)
(* agent has gone.                                                         *)
(***************************************************************************)
PutObject(r) ==
  /\ up[r] = "received"
  /\ objects' = objects \cup {TidOf(r)}
  /\ up' = [up EXCEPT ![r] = "stored"]
  /\ UNCHANGED <<status, deleted, target, params, kind, history, cosKey,
                 grpcCC, req, deleting, server, agent, faults>>

PutError(r) ==
  /\ up[r] = "received"
  /\ Fault
  /\ up' = [up EXCEPT ![r] = "failed"]
  /\ UNCHANGED <<store, grpcCC, req, deleting, server, agent>>

(* Mutant: the cos_key is set before storage.Put. *)
SetCosKeyEarly(r) ==
  /\ up[r] \in {"received", "stored"}
  /\ cosKey' = IF Live(TidOf(r)) THEN cosKey \cup {TidOf(r)} ELSE cosKey
  /\ up' = [up EXCEPT ![r] = IF @ = "stored" THEN "ok" ELSE @]
  /\ UNCHANGED <<status, deleted, target, params, kind, history, objects,
                 grpcCC, req, deleting, server, agent, faults>>

SetCosKey(r) ==
  /\ up[r] = "stored"
  /\ \/ /\ cosKey' = IF Live(TidOf(r)) THEN cosKey \cup {TidOf(r)} ELSE cosKey
        /\ UNCHANGED faults
     \/ Fault /\ UNCHANGED cosKey
  /\ up' = [up EXCEPT ![r] = "ok"]
  /\ UNCHANGED <<status, deleted, target, params, kind, history, objects,
                 grpcCC, req, deleting, server, agent>>

(* apiserver stops and restarts: its goroutines, and their open            *)
(* transactions, are gone; nothing re-dispatches on start-up.              *)
ApiCrash ==
  /\ Fault
  /\ req' = [r \in Requests |-> IF req[r].pc = "idle" THEN req[r]
                                ELSE [req[r] EXCEPT !.pc = "done"]]
  /\ deleting' = [t \in Tasks |-> "none"]
  /\ up' = [r \in Requests |-> IF up[r] \in {"received", "stored"} THEN "failed"
                                                                  ELSE up[r]]
  /\ UNCHANGED <<store, grpcCC, server, agent>>
-----------------------------------------------------------------------------
(***************************************************************************)
(* drop_server.                                                            *)
(***************************************************************************)

(* Mutant: a call that the client repeats is taken for a new one. *)
AcceptTaskAgain(r) ==
  /\ req[r].pc = "calling"
  /\ call[r] # "accepted"
  /\ call' = [call EXCEPT ![r] = "accepted"]
  /\ UNCHANGED <<store, api, pg, queue, orphans, notes, agent, faults>>

(* ControlService::CreateTask passes CheckDeadline: the caller still waits. *)
AcceptTask(r) ==
  /\ req[r].pc = "calling"
  /\ call[r] = "none"
  /\ call' = [call EXCEPT ![r] = "accepted"]
  /\ UNCHANGED <<store, api, pg, queue, orphans, notes, agent, faults>>

(* TaskQueue::Push; the caller may have given up meanwhile. *)
PushTask(r) ==
  /\ call[r] = "accepted"
  /\ call' = [call EXCEPT ![r] = "pushed"]
  /\ queue' = [queue EXCEPT ![IpOf(r)] = Append(@, r)]
  /\ UNCHANGED <<store, api, pg, orphans, notes, agent, faults>>

(* Mutant: Pop copies the front of the queue and does not remove it. *)
PopTaskKeep(a) ==
  /\ hb[a].pc = "idle"
  /\ queue[a] # <<>>
  /\ hb' = [hb EXCEPT ![a] = [pc |-> "popped", r |-> Head(queue[a])]]
  /\ UNCHANGED <<store, api, server, work, run, runners, started, faults>>

(* Mutant: any agent is given the oldest task of any queue. *)
PopTaskAnywhere(a) ==
  /\ hb[a].pc = "idle"
  /\ \E ip \in Ips :
       /\ queue[ip] # <<>>
       /\ queue' = [queue EXCEPT ![ip] = Tail(@)]
       /\ hb' = [hb EXCEPT ![a] = [pc |-> "popped", r |-> Head(queue[ip])]]
  /\ UNCHANGED <<store, api, pg, call, orphans, notes, work, run, runners,
                 started, faults>>

(* HealthCheck::Do: Pop takes the oldest task queued for the agent's IP.   *)
PopTask(a) ==
  /\ hb[a].pc = "idle"
  /\ queue[a] # <<>>
  /\ queue' = [queue EXCEPT ![a] = Tail(@)]
  /\ hb' = [hb EXCEPT ![a] = [pc |-> "popped", r |-> Head(queue[a])]]
  /\ UNCHANGED <<store, api, pg, call, orphans, notes, work, run, runners,
                 started, faults>>

(* HealthCheck::Do: the popped task is marked RUNNING, whatever comes of it. *)
MarkRunning(a) ==
  /\ hb[a].pc = "popped"
  /\ UpdateTaskStatus(TidOf(hb[a].r), RUNNING)
  /\ hb' = [hb EXCEPT ![a].pc = "reply"]
  /\ UNCHANGED <<deleted, target, params, kind, cosKey, objects, api, server,
                 work, run, runners, started, faults>>

(* Pop by a heartbeat handler whose agent no longer waits for the reply ... *)
PopTaskOrphan(a) ==
  /\ Fault
  /\ queue[a] # <<>>
  /\ queue' = [queue EXCEPT ![a] = Tail(@)]
  /\ orphans' = orphans \cup {Head(queue[a])}
  /\ UNCHANGED <<store, api, pg, call, notes, agent>>

(* ... and its status update: the task is RUNNING, and no agent has it. *)
MarkRunningOrphan(r) ==
  /\ r \in orphans
  /\ UpdateTaskStatus(TidOf(r), RUNNING)
  /\ orphans' = orphans \ {r}
  /\ UNCHANGED <<deleted, target, params, kind, cosKey, objects, api,
                 pg, call, queue, notes, agent, faults>>

(* NotifyResult without an error message: RUNNING -> UPLOADING ... *)
NotifyUploading(n) ==
  /\ n.ok /\ n.stage = "report"
  /\ UpdateTaskStatus(TidOf(n.r), UPLOADING)
  /\ notes' = (notes \ {n}) \cup {[n EXCEPT !.stage = "finish"]}
  /\ UNCHANGED <<deleted, target, params, kind, cosKey, objects, api,
                 pg, call, queue, orphans, agent, faults>>

(* ... and, in a transaction of its own, UPLOADING -> DONE. *)
NotifyDone(n) ==
  /\ n.ok /\ n.stage = "finish"
  /\ UpdateTaskStatus(TidOf(n.r), DONE)
  /\ notes' = notes \ {n}
  /\ UNCHANGED <<deleted, target, params, kind, cosKey, objects, api,
                 pg, call, queue, orphans, agent, faults>>

(* NotifyResult with an error message. *)
NotifyFailed(n) ==
  /\ ~n.ok
  /\ UpdateTaskStatus(TidOf(n.r), FAILED)
  /\ notes' = notes \ {n}
  /\ UNCHANGED <<deleted, target, params, kind, cosKey, objects, api,
                 pg, call, queue, orphans, agent, faults>>

(***************************************************************************)
(* drop_server stops and restarts: the queues and the handlers are lost;   *)
(* the heartbeats in progress fail at the agents, the CreateTask calls in  *)
(* progress at apiserver.  If PostgreSQL cannot be reached at start-up it  *)
(* runs without it for good.                                               *)
(***************************************************************************)
ServerCrash ==
  /\ Fault
  /\ req' = [r \in Requests |-> IF req[r].pc = "calling" /\ call[r] # "none"
                                THEN [req[r] EXCEPT !.pc = "failRead"] ELSE req[r]]
  /\ pg' \in BOOLEAN
  /\ call' = [r \in Requests |-> IF call[r] = "pushed" THEN "pushed" ELSE "none"]
  /\ queue' = [ip \in Ips |-> <<>>]
  /\ orphans' = {}
  /\ notes' = {}
  /\ hb' = [a \in Agents |-> [pc |-> "idle", r |-> None]]
  /\ UNCHANGED <<store, grpcCC, deleting, up, work, run, runners, started>>

(* The connection to PostgreSQL breaks; conn_ stays set and is never reopened. *)
LoseConnection ==
  /\ Fault
  /\ pg /\ pg' = FALSE
  /\ UNCHANGED <<store, api, call, queue, orphans, notes, agent>>
-----------------------------------------------------------------------------
(***************************************************************************)
(* drop_agent.                                                             *)
(***************************************************************************)

(* Mutant: a task is also dropped when its tid is the one being executed. *)
ReceiveTaskUnlessRunning(a) ==
  /\ hb[a].pc = "reply"
  /\ LET known == \/ \E i \in DOMAIN work[a] : TidOf(work[a][i]) = TidOf(hb[a].r)
                  \/ run[a].pc # "idle" /\ TidOf(run[a].r) = TidOf(hb[a].r)
     IN  work' = [work EXCEPT ![a] = IF known THEN @ ELSE Append(@, hb[a].r)]
  /\ hb' = [hb EXCEPT ![a] = [pc |-> "idle", r |-> None]]
  /\ UNCHANGED <<store, api, server, run, runners, started, faults>>

(* HeartbeatThread: the reply's task joins the worker queue unless a task  *)
(* with its tid waits there; one that is being executed is not looked at.  *)
ReceiveTask(a) ==
  /\ hb[a].pc = "reply"
  /\ LET known == \E i \in DOMAIN work[a] : TidOf(work[a][i]) = TidOf(hb[a].r)
     IN  work' = [work EXCEPT ![a] = IF known THEN @ ELSE Append(@, hb[a].r)]
  /\ hb' = [hb EXCEPT ![a] = [pc |-> "idle", r |-> None]]
  /\ UNCHANGED <<store, api, server, run, runners, started, faults>>

(* The heartbeat's 5 s deadline passes, or its reply is lost. *)
HeartbeatError(a) ==
  /\ hb[a].pc # "idle"
  /\ Fault
  /\ orphans' = IF hb[a].pc = "popped" THEN orphans \cup {hb[a].r} ELSE orphans
  /\ hb' = [hb EXCEPT ![a] = [pc |-> "idle", r |-> None]]
  /\ UNCHANGED <<store, api, pg, call, queue, notes, work, run, runners, started>>

(***************************************************************************)
(* WorkerThread takes the oldest queued task.  A continuous one is handed  *)
(* to a detached thread and the worker goes on.                            *)
(***************************************************************************)
StartTask(a) ==
  /\ run[a].pc = "idle"
  /\ work[a] # <<>>
  /\ LET r == Head(work[a]) IN
       /\ started' = started \cup {r}
       /\ IF kind[TidOf(r)] = "continuous"
          THEN runners' = runners \cup {r} /\ UNCHANGED run
          ELSE /\ run' = [run EXCEPT ![a] = [pc |-> "record", r |-> r]]
               /\ UNCHANGED runners
  /\ work' = [work EXCEPT ![a] = Tail(@)]
  /\ UNCHANGED <<store, api, server, hb, faults>>

(* No profiler for the type, or record() returns false with a message. *)
RecordError(a) ==
  /\ run[a].pc = "record"
  /\ run' = [run EXCEPT ![a].pc = "error"]
  /\ UNCHANGED <<store, api, server, hb, work, runners, started, faults>>

(* record() succeeds: every profiler leaves one file, which curl uploads. *)
RecordOk(a) ==
  /\ run[a].pc = "record"
  /\ run' = [run EXCEPT ![a].pc = "upload"]
  /\ up' = [up EXCEPT ![run[a].r] = "received"]
  /\ UNCHANGED <<store, grpcCC, req, deleting, server, hb, work, runners,
                 started, faults>>

(* Mutant: success is reported once the file has been sent. *)
UploadOkUnanswered(a) ==
  /\ run[a].pc = "upload"
  /\ up[run[a].r] \in {"received", "stored", "ok"}
  /\ run' = [run EXCEPT ![a].pc = "success"]
  /\ UNCHANGED <<store, api, server, hb, work, runners, started, faults>>

(* UploadFileToAPI: curl exits 0 with HTTP 200 ... *)
UploadOk(a) ==
  /\ run[a].pc = "upload"
  /\ up[run[a].r] = "ok"
  /\ run' = [run EXCEPT ![a].pc = "success"]
  /\ UNCHANGED <<store, api, server, hb, work, runners, started, faults>>

(* ... or it does not, whatever became of the file at apiserver. *)
UploadError(a) ==
  /\ run[a].pc = "upload"
  /\ \/ up[run[a].r] = "failed" /\ UNCHANGED faults
     \/ Fault
  /\ run' = [run EXCEPT ![a].pc = "error"]
  /\ UNCHANGED <<store, api, server, hb, work, runners, started>>

(* NotifyResult reaches drop_server within the deadline of its context. *)
Report(a) ==
  /\ run[a].pc \in {"success", "error"}
  /\ notes' = notes \cup {[r |-> run[a].r, ok |-> run[a].pc = "success",
                           stage |-> "report"]}
  /\ run' = [run EXCEPT ![a].pc = "reporting"]
  /\ UNCHANGED <<store, api, pg, call, queue, orphans, hb, work, runners,
                 started, faults>>

(* The reply to NotifyResult. *)
Reported(a) ==
  /\ run[a].pc = "reporting"
  /\ \A n \in notes : n.r # run[a].r
  /\ run' = [run EXCEPT ![a] = [pc |-> "idle", r |-> None]]
  /\ UNCHANGED <<store, api, server, hb, work, runners, started, faults>>

(***************************************************************************)
(* NotifyResult fails at the agent: drop_server cannot be reached, or the  *)
(* 5 s deadline, which runs from BEFORE the upload, has passed.  The error *)
(* is logged and the result is not sent again.                             *)
(***************************************************************************)
ReportError(a) ==
  /\ run[a].pc \in {"success", "error", "reporting"}
  /\ Fault
  /\ run' = [run EXCEPT ![a] = [pc |-> "idle", r |-> None]]
  /\ UNCHANGED <<store, api, server, hb, work, runners, started>>

(***************************************************************************)
(* A continuous runner ends only when the inner profiler is unsupported:   *)
(* nothing calls ContinuousProfiler::stop.  It reports once, or fails to.  *)
(***************************************************************************)
RunnerError(r) ==
  /\ r \in runners
  /\ runners' = runners \ {r}
  /\ \/ /\ notes' = notes \cup {[r |-> r, ok |-> FALSE, stage |-> "report"]}
        /\ UNCHANGED faults
     \/ Fault /\ UNCHANGED notes
  /\ UNCHANGED <<store, api, pg, call, queue, orphans, hb, work, run, started>>

(* The agent stops and restarts: queue, worker and runners are lost.  The  *)
(* handler of a heartbeat in progress goes on at drop_server.              *)
AgentCrash(a) ==
  /\ Fault
  /\ orphans' = IF hb[a].pc = "popped" THEN orphans \cup {hb[a].r} ELSE orphans
  /\ hb' = [hb EXCEPT ![a] = [pc |-> "idle", r |-> None]]
  /\ work' = [work EXCEPT ![a] = <<>>]
  /\ run' = [run EXCEPT ![a] = [pc |-> "idle", r |-> None]]
  /\ runners' = {r \in runners : IpOf(r) # a}
  /\ UNCHANGED <<store, api, pg, call, queue, notes, started>>
-----------------------------------------------------------------------------
Init ==
  /\ status   = [t \in Tasks |-> NoRow]
  /\ deleted  = {}
  /\ target   = [t \in Tasks |-> NoIP]
  /\ params   = [t \in Tasks |-> NoIP]
  /\ kind     = [t \in Tasks |-> "single"]
  /\ history  = [t \in Tasks |-> <<>>]
  /\ cosKey   = {}
  /\ objects  = {}
  /\ grpcCC   \in BOOLEAN
  /\ req      = [r \in Requests |-> [pc |-> "idle", tid |-> None, ip |-> NoIP, seen |-> NoRow]]
  /\ deleting = [t \in Tasks |-> "none"]
  /\ up       = [r \in Requests |-> "none"]
  /\ pg       \in BOOLEAN
  /\ call     = [r \in Requests |-> "none"]
  /\ queue    = [ip \in Ips |-> <<>>]
  /\ orphans  = {}
  /\ notes    = {}
  /\ hb       = [a \in Agents |-> [pc |-> "idle", r |-> None]]
  /\ work     = [a \in Agents |-> <<>>]
  /\ run      = [a \in Agents |-> [pc |-> "idle", r |-> None]]
  /\ runners  = {}
  /\ started  = {}
  /\ faults   = 0

(* The users' requests. *)
UserNext ==
  \/ \E r \in Requests, t \in Tasks :
       \/ \E a \in Agents : \/ \E type \in {"single", "continuous"} : CreateTask(r, t, a, type)
                            \/ NLChat(r, t, a)
       \/ RetryTask(r, t)
  \/ \E t \in Tasks : DeleteTask(t)

(* The steps of apiserver's goroutines. *)
RequestStep(r) == LogCreated(r) \/ GoRead(r) \/ GoWrite(r) \/ DispatchOk(r)
UploadStep(r)  == PutObject(r) \/ SetCosKey(r)
DeleteStep(t)  == ListObjects(t) \/ RemoveObjects(t)

(* The steps of drop_server's handlers, besides the heartbeat's. *)
CallStep(r) == AcceptTask(r) \/ PushTask(r)
NoteStep    == \E n \in notes : NotifyUploading(n) \/ NotifyDone(n) \/ NotifyFailed(n)

(* The two threads of an agent; the heartbeat includes its handler. *)
HeartbeatStep(a) == PopTask(a) \/ MarkRunning(a) \/ ReceiveTask(a)
WorkerStep(a)    == \/ StartTask(a) \/ RecordError(a) \/ RecordOk(a)
                    \/ UploadOk(a) \/ UploadError(a) \/ Report(a) \/ Reported(a)

FaultNext ==
  \/ \E r \in Requests : DispatchError(r) \/ PutError(r)
  \/ \E a \in Agents : \/ PopTaskOrphan(a) \/ HeartbeatError(a)
                        \/ ReportError(a) \/ AgentCrash(a)
  \/ ApiCrash \/ ServerCrash \/ LoseConnection

Next ==
  \/ UserNext
  \/ \E r \in Requests : \/ RequestStep(r) \/ UploadStep(r) \/ CallStep(r)
                          \/ MarkRunningOrphan(r) \/ RunnerError(r)
  \/ \E t \in Tasks : DeleteStep(t)
  \/ NoteStep
  \/ \E a \in Agents : HeartbeatStep(a) \/ WorkerStep(a)
  \/ FaultNext

Spec == Init /\ [][Next]_vars

(***************************************************************************)
(* Every goroutine, handler and thread that can take its next step does.   *)
(* A profiler's record returns because each one bounds its child process   *)
(* or its polling; users and faults promise nothing.                       *)
(***************************************************************************)
Fairness ==
  /\ \A r \in Requests : /\ WF_vars(RequestStep(r)) /\ WF_vars(UploadStep(r))
                         /\ WF_vars(CallStep(r)) /\ WF_vars(MarkRunningOrphan(r))
  /\ \A t \in Tasks : WF_vars(DeleteStep(t))
  /\ WF_vars(NoteStep)
  /\ \A a \in Agents : WF_vars(HeartbeatStep(a)) /\ WF_vars(WorkerStep(a))

FairSpec == Spec /\ Fairness
-----------------------------------------------------------------------------
StoreOK ==
  /\ status  \in [Tasks -> Status \cup {NoRow}]
  /\ deleted \subseteq Tasks
  /\ target  \in [Tasks -> Ips]
  /\ params  \in [Tasks -> Ips]
  /\ kind    \in [Tasks -> {"single", "continuous"}]
  /\ history \in [Tasks -> Seq(Entry)]
  /\ cosKey  \subseteq Tasks
  /\ objects \subseteq Tasks

ApiOK ==
  /\ grpcCC   \in BOOLEAN
  /\ req      \in [Requests -> [pc : ReqPC, tid : Tasks \cup {None}, ip : Ips,
                                seen : Status \cup {NoRow}]]
  /\ deleting \in [Tasks -> {"none", "listing", "removing"}]
  /\ up       \in [Requests -> {"none", "received", "stored", "ok", "failed"}]

ServerOK ==
  /\ pg      \in BOOLEAN
  /\ call    \in [Requests -> {"none", "accepted", "pushed"}]
  /\ queue   \in [Ips -> Seq(Requests)]
  /\ orphans \subseteq Requests
  /\ notes   \subseteq Notes

AgentOK ==
  /\ hb      \in [Agents -> [pc : {"idle", "popped", "reply"}, r : Requests \cup {None}]]
  /\ work    \in [Agents -> Seq(Requests)]
  /\ run     \in [Agents -> [pc : RunPC, r : Requests \cup {None}]]
  /\ runners \subseteq Requests
  /\ started \subseteq Requests

(* The type invariant. *)
TypeOK ==
  StoreOK /\ ApiOK /\ ServerOK /\ AgentOK /\ faults \in 0..MaxFaults

(***************************************************************************)
(* A live row and its history never disagree: both writers change the two  *)
(* in one transaction, so the status shown is the new_status of the last   *)
(* history row, in spite of the unlocked read in apiserver.                *)
(***************************************************************************)
HistoryMatchesRow ==
  \A t \in Tasks : Live(t) =>
    status[t] = IF history[t] = <<>> THEN PENDING ELSE history[t][Len(history[t])].new

(***************************************************************************)
(* A task shown as DONE has its collected file in the object store: the    *)
(* agent reports success only after UploadTaskFile has answered, and       *)
(* DeleteTask removes objects only after it has hidden the row, whichever  *)
(* of the task's copies runs when.                                         *)
(***************************************************************************)
DoneHasObject ==
  \A t \in Tasks : Live(t) /\ status[t] = DONE => t \in objects

(***************************************************************************)
(* A live row's cos_key, which the analysis job downloads, names a stored  *)
(* object: UploadTaskFile sets it after Put and only on a live row.        *)
(***************************************************************************)
CosKeyHasObject ==
  \A t \in Tasks : Live(t) /\ t \in cosKey => t \in objects

(* Where a dispatched copy waits to be executed, and which one waits there. *)
Slots ==
  (UNION {{<<"queue", ip, i>> : i \in DOMAIN queue[ip]} : ip \in Ips})
    \cup {<<"heartbeat", a, 0>> : a \in {b \in Agents : hb[b].pc # "idle"}}
    \cup (UNION {{<<"work", a, i>> : i \in DOMAIN work[a]} : a \in Agents})

CopyAt(slot) ==
  CASE slot[1] = "queue"     -> queue[slot[2]][slot[3]]
    [] slot[1] = "heartbeat" -> hb[slot[2]].r
    [] slot[1] = "work"      -> work[slot[2]][slot[3]]

(***************************************************************************)
(* A dispatched copy is in at most one place between TaskQueue::Push and   *)
(* the worker, and in none once it has been started: however heartbeats    *)
(* time out and handlers are orphaned, one CreateTask call starts at most  *)
(* one execution.                                                          *)
(***************************************************************************)
DispatchRunsAtMostOnce ==
  \A s \in Slots : /\ CopyAt(s) \notin started
                   /\ \A o \in Slots \ {s} : CopyAt(o) # CopyAt(s)

(***************************************************************************)
(* An agent executes only tasks that were created for it: the target_ip of *)
(* the row stays the address of the queue, of the heartbeat that pops it   *)
(* and of the worker, also for a retry, which takes its address from the   *)
(* stored parameters.                                                      *)
(***************************************************************************)
RunsOnOwnAgent ==
  \A a \in Agents : run[a].pc # "idle" => target[TidOf(run[a].r)] = a

(***************************************************************************)
(* The promise of the task table (TaskLedger): status changes and audit    *)
(* rows go together, the trail only grows and only holds transitions of    *)
(* the table out of statuses the task really had, and a deleted task stays *)
(* hidden, whatever the two programs' handlers do to it afterwards.        *)
(***************************************************************************)
Ledger == INSTANCE TaskLedger WITH
  shown <- [t \in Tasks |-> IF t \in deleted THEN Hidden ELSE status[t]],
  trail <- history

LedgerKept == Ledger!LSpec

(***************************************************************************)
(* Without faults, a single-shot task of CreateTask gets to DONE or FAILED *)
(* whenever drop_server has its connection: no interleaving of retries,    *)
(* heartbeats and results leaves it PENDING, RUNNING or UPLOADING.         *)
(***************************************************************************)
TaskSettles ==
  \A t \in Tasks :
    (Live(t) /\ kind[t] = "single" /\ params[t] = target[t] /\ grpcCC /\ pg)
      ~> (t \in deleted \/ status[t] \in {DONE, FAILED})
-----------------------------------------------------------------------------
(***************************************************************************)
(* The inductive invariant behind HistoryMatchesRow, DoneHasObject,        *)
(* CosKeyHasObject and LedgerKept.                                         *)
(***************************************************************************)

(* Requests whose task may have left apiserver: past the first history row. *)
Out == {r \in Requests : req[r].pc \notin {"idle", "inserted"}}

(* Every copy in circulation comes from such a request. *)
CopiesAreOut ==
  /\ \A ip \in Ips : queue[ip] \in Seq(Out)
  /\ \A a \in Agents : /\ work[a] \in Seq(Out)
                       /\ hb[a].pc # "idle" => hb[a].r \in Out
                       /\ run[a].pc # "idle" => run[a].r \in Out
  /\ runners \subseteq Out
  /\ orphans \subseteq Out
  /\ \A n \in notes : n.r \in Out
  /\ \A r \in Requests : (call[r] # "none" \/ up[r] # "none") => r \in Out

(* Requests are about rows that exist; rows are hidden before their objects go. *)
RowsExist ==
  /\ \A r \in Requests : req[r].pc # "idle" => TidOf(r) \in Tasks /\ Row(TidOf(r))
  /\ \A t \in deleted : Row(t)
  /\ \A t \in Tasks : deleting[t] # "none" => t \in deleted
  /\ \A t \in Tasks : ~Row(t) => history[t] = <<>>

(* Until its first history row is written, a request is alone with its task. *)
CreatorIsAlone ==
  \A r \in Requests : req[r].pc = "inserted" =>
    /\ status[TidOf(r)] = PENDING
    /\ history[TidOf(r)] = <<>>
    /\ \A q \in Requests : req[q].pc # "idle" /\ TidOf(q) = TidOf(r) => q = r

(* The file of a task that anyone takes for uploaded is there, or the task is gone. *)
Kept(t) == t \in objects \/ t \in deleted

EvidenceIsKept ==
  /\ \A r \in Requests : up[r] \in {"stored", "ok"} => Kept(TidOf(r))
  /\ \A a \in Agents : run[a].pc = "success" => Kept(TidOf(run[a].r))
  /\ \A n \in notes : n.ok => Kept(TidOf(n.r))
  /\ \A t \in cosKey : Kept(t)
  /\ \A t \in Tasks : status[t] = DONE => Kept(t)

(* The status a task has, and the one a writer goes by, are among those it has had. *)
ReadsAreGenuine ==
  /\ \A t \in Tasks : Row(t) => status[t] \in Had(history[t])
  /\ \A r \in Requests : req[r].pc \in {"failWrite", "retryWrite"} =>
       /\ req[r].seen \in Had(history[TidOf(r)])
       /\ IsTransitionAllowed(req[r].seen, NewStatus(r))

(* Copies, rows, evidence and reads together: kept by every step of the    *)
(* three programs, crashes and lost messages included.                     *)
DispatchInv ==
  /\ TypeOK /\ CopiesAreOut /\ RowsExist /\ CreatorIsAlone
  /\ EvidenceIsKept /\ ReadsAreGenuine /\ HistoryMatchesRow

(* A copy that waits at an address was pushed for it, and not yet started. *)
AtHome(r, ip) == IpOf(r) = ip /\ call[r] = "pushed" /\ r \notin started

QueuesKept ==
  \A ip \in Ips : IsInjective(queue[ip]) /\ \A r \in Range(queue[ip]) : AtHome(r, ip)

HeartbeatsKept ==
  \A a \in Agents : hb[a].pc # "idle" =>
    /\ AtHome(hb[a].r, a)
    /\ hb[a].r \notin Range(queue[a]) \cup Range(work[a])

WorkKept ==
  \A a \in Agents :
    /\ IsInjective(work[a])
    /\ \A r \in Range(work[a]) : AtHome(r, a) /\ r \notin Range(queue[a])
    /\ run[a].pc # "idle" => IpOf(run[a].r) = a

(***************************************************************************)
(* The inductive invariant, with DispatchInv, behind the two properties of *)
(* copies: a queue holds what was pushed to its address, nothing twice and *)
(* nothing that is elsewhere; a retry has its task's address or none.      *)
(***************************************************************************)
CopiesInv ==
  /\ QueuesKept /\ HeartbeatsKept /\ WorkKept
  /\ \A r \in started : call[r] = "pushed"
  /\ \A t \in Tasks : params[t] \in {target[t], NoIP}
  /\ \A r \in Requests : req[r].pc # "idle" => IpOf(r) \in {target[TidOf(r)], NoIP}
-----------------------------------------------------------------------------
(***************************************************************************)
(* What the documents say of the system and the code does not do.          *)
(***************************************************************************)

(* docs/design.md: a DONE task changes no more.  apiserver's unlocked      *)
(* updateTaskStatus can overwrite a DONE that came between its two halves. *)
DoneIsFinal ==
  [][\A t \in Tasks : Live(t) /\ status[t] = DONE => status'[t] = DONE]_vars

(* The product document on clean-up: a task handed to an agent that does   *)
(* not report is found by a scan and given up.  No such scan exists, so a  *)
(* lost heartbeat reply or result leaves the task RUNNING for good.        *)
RunningSettles ==
  \A t \in Tasks :
    (Live(t) /\ kind[t] = "single" /\ status[t] = RUNNING)
      ~> (t \in deleted \/ status[t] # RUNNING)
=============================================================================
