----------------------------- MODULE TaskStatus -----------------------------
(***************************************************************************)
(* The status column of hotmethod_task and the transition table that both  *)
(* writers of it consult: drop_server (C++, IsTransitionAllowed) and       *)
(* apiserver (Go, isTransitionAllowed).  The two tables are the same.      *)
(***************************************************************************)
EXTENDS Integers

PENDING   == 0
RUNNING   == 1
UPLOADING == 2
DONE      == 3
FAILED    == 4

Status == PENDING..FAILED

(***************************************************************************)
(* old_status of the history row that CreateTask writes; also what the     *)
(* models use for "no such row".                                           *)
(***************************************************************************)
NoRow == -1

(* What a reader sees of a soft-deleted row. *)
Hidden == -2

(***************************************************************************)
(* IsTransitionAllowed: DONE has no successor, FAILED only goes back to    *)
(* PENDING (retry), and the three live states may all fail.                *)
(***************************************************************************)
IsTransitionAllowed(old, new) ==
  \/ old = PENDING   /\ new \in {RUNNING, FAILED}
  \/ old = RUNNING   /\ new \in {UPLOADING, FAILED}
  \/ old = UPLOADING /\ new \in {DONE, FAILED}
  \/ old = FAILED    /\ new = PENDING

(* A row of task_status_history, without its reason and timestamp. *)
Entry == [old : Status \cup {NoRow}, new : Status]

(* The statuses of a task with history h: it starts PENDING. *)
Had(h) == {PENDING} \cup {h[i].new : i \in DOMAIN h}
=============================================================================
