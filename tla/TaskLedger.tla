----------------------------- MODULE TaskLedger -----------------------------
(***************************************************************************)
(* What the task table promises its readers, without saying who writes it: *)
(* a task's visible status and its audit trail (task_status_history).      *)
(*                                                                         *)
(*   - the trail only grows;                                               *)
(*   - a status change and its audit row appear together;                  *)
(*   - every audit row is a transition of the table, from a status that    *)
(*     the task really had at some time (not always the one it has now:    *)
(*     apiserver decides on a status it read without a lock);              *)
(*   - a deleted task is never seen again, though its trail may grow.      *)
(***************************************************************************)
EXTENDS TaskStatus, Sequences

CONSTANT Tasks

VARIABLES
  shown,   \* the status a reader sees, NoRow, or Hidden once deleted
  trail    \* the audit rows of each task

lvars == <<shown, trail>>

LInit ==
  /\ shown = [t \in Tasks |-> NoRow]
  /\ trail = [t \in Tasks |-> <<>>]

Audit(t, old, new) ==
  trail' = [trail EXCEPT ![t] = Append(@, [old |-> old, new |-> new])]

Appear(t) ==
  /\ shown[t] = NoRow
  /\ shown' = [shown EXCEPT ![t] = PENDING]
  /\ UNCHANGED trail

(* The audit row of the creation, at once or a little later. *)
AuditCreation(t) ==
  /\ shown[t] \in {PENDING, Hidden}
  /\ trail[t] = <<>>
  /\ Audit(t, NoRow, PENDING)
  /\ UNCHANGED shown

Move(t, new) ==
  /\ shown[t] # NoRow
  /\ \E old \in Had(trail[t]) : /\ IsTransitionAllowed(old, new)
                         /\ Audit(t, old, new)
  /\ shown' = [shown EXCEPT ![t] = IF @ = Hidden THEN Hidden ELSE new]

Hide(t) ==
  /\ shown[t] \in Status
  /\ shown' = [shown EXCEPT ![t] = Hidden]
  /\ UNCHANGED trail

LNext ==
  \E t \in Tasks : \/ Appear(t) \/ AuditCreation(t) \/ Hide(t)
                   \/ \E new \in Status : Move(t, new)

LSpec == LInit /\ [][LNext]_lvars
=============================================================================
