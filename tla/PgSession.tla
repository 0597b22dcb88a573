------------------------------ MODULE PgSession ------------------------------
(***************************************************************************)
(* PGStore::UpdateTaskStatus, statement by statement, as the threads of    *)
(* drop_server's gRPC pool run it: all of them on conn_, the one           *)
(* connection of the process, with no mutex around the five statements.    *)
(* TaskDispatch takes the function as one step; here is what that hides.   *)
(*                                                                         *)
(* libpq does not allow two threads inside one PGconn at all.  Each        *)
(* statement is taken as atomic here, which is the best that can happen.   *)
(* A session has one transaction: a BEGIN inside it is only a warning, and *)
(* so is a COMMIT or ROLLBACK outside it.                                  *)
(***************************************************************************)
EXTENDS TaskStatus, Sequences, SequencesExt

CONSTANTS Threads, Tasks, MaxFaults

VARIABLES
  row,       \* hotmethod_task.status
  history,   \* new_status of the rows of task_status_history, in order
  stage,     \* where the task is: "queued", "agent" or "reported"
  tx,        \* the session's transaction, with what ROLLBACK goes back to
  thread,    \* per thread: program counter, task and statuses to write
  faults

vars == <<row, history, stage, tx, thread, faults>>

Idle == [pc |-> "idle", task |-> "none", todo |-> <<>>]

(* dispatchTask's timeout may have marked a queued task FAILED. *)
Init ==
  /\ row \in [Tasks -> {PENDING, FAILED}]
  /\ history = [t \in Tasks |-> IF row[t] = PENDING THEN <<PENDING>>
                                ELSE <<PENDING, FAILED>>]
  /\ stage = [t \in Tasks |-> "queued"]
  /\ tx = [state |-> "none", row |-> row, history |-> history]
  /\ thread = [h \in Threads |-> Idle]
  /\ faults = 0

Works == UNCHANGED faults
Fault == faults < MaxFaults /\ faults' = faults + 1

Goto(h, pc) == thread' = [thread EXCEPT ![h].pc = pc]
-----------------------------------------------------------------------------
(* What a statement does in the session. *)

(* Outside a transaction each statement is one of its own. *)
Apply(newRow, newHistory) ==
  /\ row' = newRow
  /\ history' = newHistory
  /\ UNCHANGED tx

(* A statement that fails, or that meets a failed transaction. *)
StatementFails ==
  /\ \/ tx.state = "aborted" /\ Works
     \/ Fault
  /\ tx' = IF tx.state = "none" THEN tx ELSE [tx EXCEPT !.state = "aborted"]
  /\ UNCHANGED <<row, history>>

EndTransaction(keep) ==
  /\ row' = IF keep \/ tx.state = "none" THEN row ELSE tx.row
  /\ history' = IF keep \/ tx.state = "none" THEN history ELSE tx.history
  /\ tx' = [tx EXCEPT !.state = "none"]
-----------------------------------------------------------------------------
(* HealthCheck::Do pops a task: RUNNING.  NotifyResult of the agent that   *)
(* got it: UPLOADING and DONE, or FAILED.                                  *)
Call(h, t, todo) ==
  /\ thread[h].pc = "idle"
  /\ \A o \in Threads : thread[o].task # t
  /\ thread' = [thread EXCEPT
       ![h] = [pc |-> "BEGIN", task |-> t, todo |-> todo]]
  /\ UNCHANGED <<row, history, tx, faults>>

Do(h, t) ==
  /\ stage[t] = "queued"
  /\ stage' = [stage EXCEPT ![t] = "agent"]
  /\ Call(h, t, <<RUNNING>>)

NotifyResult(h, t) ==
  /\ stage[t] = "agent"
  /\ stage' = [stage EXCEPT ![t] = "reported"]
  /\ Call(h, t, <<UPLOADING, DONE>>) \/ Call(h, t, <<FAILED>>)

(* UpdateTaskStatus returns; the handler goes on to its next one. *)
Return(h) ==
  thread' = [thread EXCEPT
    ![h] = IF Len(@.todo) = 1 THEN Idle
           ELSE [@ EXCEPT !.pc = "BEGIN", !.todo = Tail(@)]]

(* After an error the handler returns without a ROLLBACK only from here. *)
Begin(h) ==
  /\ thread[h].pc = "BEGIN"
  /\ \/ /\ tx.state # "aborted" /\ Works
        /\ tx' = IF tx.state = "none"
                 THEN [state |-> "open", row |-> row, history |-> history] ELSE tx
        /\ Goto(h, "SELECT")
        /\ UNCHANGED <<row, history>>
     \/ StatementFails /\ Return(h)
  /\ UNCHANGED stage

(* SELECT ... FOR UPDATE, and the transition is validated.  The row lock   *)
(* is the session's, so that no thread of the process waits for it.        *)
SelectForUpdate(h) ==
  LET me == thread[h] IN
  /\ me.pc = "SELECT"
  /\ \/ /\ tx.state # "aborted" /\ Works
        /\ thread' = [thread EXCEPT
             ![h].pc = IF IsTransitionAllowed(row[me.task], Head(me.todo))
                       THEN "UPDATE" ELSE "ROLLBACK"]
        /\ Apply(row, history)
     \/ StatementFails /\ Goto(h, "ROLLBACK")
  /\ UNCHANGED stage

Update(h) ==
  LET me == thread[h] IN
  /\ me.pc = "UPDATE"
  /\ \/ /\ tx.state # "aborted" /\ Works
        /\ Apply([row EXCEPT ![me.task] = Head(me.todo)], history)
        /\ Goto(h, "INSERT")
     \/ StatementFails /\ Goto(h, "ROLLBACK")
  /\ UNCHANGED stage

InsertHistory(h) ==
  LET me == thread[h] IN
  /\ me.pc = "INSERT"
  /\ \/ /\ tx.state # "aborted" /\ Works
        /\ Apply(row, [history EXCEPT ![me.task] = Append(@, Head(me.todo))])
        /\ Goto(h, "COMMIT")
     \/ StatementFails /\ Goto(h, "ROLLBACK")
  /\ UNCHANGED stage

(* COMMIT of a failed transaction is a ROLLBACK. *)
Commit(h) ==
  /\ thread[h].pc = "COMMIT"
  /\ \/ Works /\ EndTransaction(tx.state # "aborted")
     \/ Fault /\ EndTransaction(FALSE)
  /\ Return(h)
  /\ UNCHANGED stage

Rollback(h) ==
  /\ thread[h].pc = "ROLLBACK"
  /\ Works
  /\ EndTransaction(FALSE)
  /\ Return(h)
  /\ UNCHANGED stage
-----------------------------------------------------------------------------
UpdateTaskStatus(h) ==
  \/ Begin(h) \/ SelectForUpdate(h) \/ Update(h) \/ InsertHistory(h)
  \/ Commit(h) \/ Rollback(h)

Next ==
  \E h \in Threads :
    \/ UpdateTaskStatus(h)
    \/ \E t \in Tasks : Do(h, t) \/ NotifyResult(h, t)

Spec == Init /\ [][Next]_vars
-----------------------------------------------------------------------------
(***************************************************************************)
(* architecture.md: the transaction and the row lock are enough for atomic *)
(* transitions and their audit log.  When no handler is inside             *)
(* UpdateTaskStatus, the status of every task is the one its last history  *)
(* row says.  (The ROLLBACK of one thread takes back the UPDATE of         *)
(* another, whose INSERT then stands alone.)                               *)
(***************************************************************************)
TransitionsAreAtomic ==
  (\A h \in Threads : thread[h].pc = "idle") =>
    \A t \in Tasks : row[t] = Last(history[t])
=============================================================================
