---------------------------- MODULE CronSchedules ----------------------------
(***************************************************************************)
(* Scheduled continuous profiling in apiserver: the rows of multi_tasks,   *)
(* the cron engine and CronScheduler's map entry from schedule to engine   *)
(* entry, written without a lock by the handlers that create, toggle and   *)
(* delete schedules and, at start, by loadExistingSchedules.  The engine   *)
(* runs dispatchContinuousTask whenever an entry is due.                   *)
(*                                                                         *)
(* model.go names the columns t_id and sub_t_ids; the queries name them by *)
(* hand.  A query on a column that is not there fails, and GORM leaves the *)
(* struct it was to fill empty.                                            *)
(***************************************************************************)
EXTENDS Naturals, FiniteSets

CONSTANTS
  Schedules,
  Requests,     \* handlers that can run at the same time
  MaxEntries,   \* bound on the entry ids handed out
  MaxRestarts

VARIABLES
  rows,       \* multi_tasks: "new", "enabled", "disabled" or "deleted"
  valid,      \* cron_expr parses
  entry,      \* CronScheduler.entry, 0 where there is no key
  engine,     \* the cron engine's entries
  lastId,     \* the engine's last entry id
  request,    \* per handler: program counter, schedule, new entry id
  tasks,      \* the schedules that a task was created for
  restarts

vars == <<rows, valid, entry, engine, lastId, request, tasks, restarts>>

Columns == {"t_id", "sub_t_ids", "type", "status", "analysis_status",
            "trigger_type", "cron_expr", "schedule_params", "enabled"}

NoRequest == [pc |-> "none", at |-> "none", id |-> 0]

Init ==
  /\ rows = [s \in Schedules |-> "new"]
  /\ valid \in [Schedules -> BOOLEAN]
  /\ entry = [s \in Schedules |-> 0]
  /\ engine = {}
  /\ lastId = 0
  /\ request = [q \in Requests |-> NoRequest]
  /\ tasks = {}
  /\ restarts = 0

(* db.Where("<column> = ?", s): the rows found. *)
Where(column, s) ==
  {r \in Schedules : column \in Columns /\ r = s /\ rows[r] \in {"enabled", "disabled"}}

Goto(q, pc) == request' = [request EXCEPT ![q].pc = pc]
Answer(q)   == request' = [request EXCEPT ![q] = NoRequest]
Start(q, s, pc) ==
  /\ request[q].pc = "none"
  /\ request' = [request EXCEPT ![q] = [pc |-> pc, at |-> s, id |-> 0]]
-----------------------------------------------------------------------------
(* The statements of the three handlers; they answer 404, or 500, and stop *)
(* when no row is written.                                                 *)

(* CreateScheduleTask under a new tid. *)
CreateScheduleTask(q, s) ==
  /\ rows[s] = "new"
  /\ rows' = [rows EXCEPT ![s] = "enabled"]
  /\ Start(q, s, "drop")
  /\ UNCHANGED <<valid, entry, engine, lastId, tasks, restarts>>

(* ToggleSchedule: on enabling, the row is read again for its cron_expr.   *)
EnableSchedule(q, s) ==
  /\ Where("t_id", s) # {}
  /\ rows' = [rows EXCEPT ![s] = "enabled"]
  /\ Start(q, s, "read")
  /\ UNCHANGED <<valid, entry, engine, lastId, tasks, restarts>>

ReadExpr(q) ==
  /\ request[q].pc = "read"
  /\ IF Where("tid", request[q].at) # {} THEN Goto(q, "drop") ELSE Answer(q)
  /\ UNCHANGED <<rows, valid, entry, engine, lastId, tasks, restarts>>

DisableSchedule(q, s) ==
  /\ Where("t_id", s) # {}
  /\ rows' = [rows EXCEPT ![s] = "disabled"]
  /\ Start(q, s, "remove")
  /\ UNCHANGED <<valid, entry, engine, lastId, tasks, restarts>>

DeleteSchedule(q, s) ==
  /\ Where("t_id", s) # {}
  /\ rows' = [rows EXCEPT ![s] = "deleted"]
  /\ Start(q, s, "remove")
  /\ UNCHANGED <<valid, entry, engine, lastId, tasks, restarts>>
-----------------------------------------------------------------------------
(* RemoveSchedule: by itself, or as the first step ("drop") of             *)
(* AddSchedule, which goes on to AddFunc and then writes the map.  A       *)
(* cron_expr that does not parse is only logged.                           *)
RemoveSchedule(q) ==
  LET s == request[q].at IN
  /\ request[q].pc \in {"drop", "remove"}
  /\ engine' = {e \in engine : e.id # entry[s]}
  /\ entry' = [entry EXCEPT ![s] = 0]
  /\ IF request[q].pc = "drop" THEN Goto(q, "addFunc") ELSE Answer(q)
  /\ UNCHANGED <<rows, valid, lastId, tasks, restarts>>

AddFunc(q) ==
  LET s == request[q].at IN
  /\ request[q].pc = "addFunc"
  /\ \/ /\ valid[s] /\ lastId < MaxEntries
        /\ lastId' = lastId + 1
        /\ engine' = engine \cup {[id |-> lastId', of |-> s]}
        /\ request' = [request EXCEPT ![q].pc = "write", ![q].id = lastId']
     \/ ~valid[s] /\ Answer(q) /\ UNCHANGED <<engine, lastId>>
  /\ UNCHANGED <<rows, valid, entry, tasks, restarts>>

WriteEntry(q) ==
  /\ request[q].pc = "write"
  /\ entry' = [entry EXCEPT ![request[q].at] = request[q].id]
  /\ Answer(q)
  /\ UNCHANGED <<rows, valid, engine, lastId, tasks, restarts>>
-----------------------------------------------------------------------------
(* apiserver stops, its engine and its handlers with it, and starts again: *)
(* loadExistingSchedules.                                                  *)
Enabled == {s \in Schedules : rows[s] = "enabled" /\ valid[s]}

Restart ==
  /\ restarts < MaxRestarts
  /\ restarts' = restarts + 1
  /\ \E id \in [Schedules -> 0..Cardinality(Enabled)] :
       /\ \A s \in Schedules : id[s] = 0 <=> s \notin Enabled
       /\ \A s, r \in Enabled : id[s] = id[r] => s = r
       /\ entry' = id
       /\ engine' = {[id |-> id[s], of |-> s] : s \in Enabled}
  /\ lastId' = Cardinality(Enabled)
  /\ request' = [q \in Requests |-> NoRequest]
  /\ UNCHANGED <<rows, valid, tasks>>

(* An entry is due: dispatchContinuousTask.  The UPDATE of sub_tids after  *)
(* the INSERT of the task names a column that is not there either.         *)
DispatchContinuousTask(e) ==
  /\ e \in engine
  /\ tasks' = IF Where("tid", e.of) # {} /\ rows[e.of] = "enabled"
              THEN tasks \cup {e.of} ELSE tasks
  /\ UNCHANGED <<rows, valid, entry, engine, lastId, request, restarts>>
-----------------------------------------------------------------------------
HandlerStep(q) ==
  ReadExpr(q) \/ RemoveSchedule(q) \/ AddFunc(q) \/ WriteEntry(q)

Entries == [id : 1..MaxEntries, of : Schedules]

Next ==
  \/ \E q \in Requests, s \in Schedules :
       \/ CreateScheduleTask(q, s) \/ EnableSchedule(q, s)
       \/ DisableSchedule(q, s) \/ DeleteSchedule(q, s)
  \/ \E q \in Requests : HandlerStep(q)
  \/ Restart
  \/ \E e \in Entries : DispatchContinuousTask(e)

Spec == Init /\ [][Next]_vars

(* Handlers finish, and the engine runs every entry again and again. *)
FairSpec ==
  /\ Spec
  /\ \A q \in Requests : WF_vars(HandlerStep(q))
  /\ \A e \in Entries : WF_vars(DispatchContinuousTask(e))
-----------------------------------------------------------------------------
(***************************************************************************)
(* implementation-plan.md, step 7.5: a rule is created, its time comes, a  *)
(* task is created by itself.  (No task ever is: the job looks its rule up *)
(* by the column tid.)                                                     *)
(***************************************************************************)
ScheduleFires ==
  \A s \in Schedules : (rows[s] = "enabled" /\ valid[s])
                         ~> (s \in tasks \/ rows[s] # "enabled")
=============================================================================
