--------------------------- MODULE ChildWatchdog ---------------------------
(***************************************************************************)
(* record() of the three profilers that run a child process: perf, asprof  *)
(* and a user's script (PerfProfiler, AsyncProfilerProfiler, ScriptRunner).*)
(* The worker thread forks the child into a process group of its own,      *)
(* starts a watchdog thread and waits for the child; the watchdog waits    *)
(* for child_done or a deadline, sends SIGTERM to the group and, five      *)
(* seconds later, SIGKILL.  The three functions share this protocol and    *)
(* differ in the file check (none for a script) and in perf's second       *)
(* attempt, system-wide, when the target process cannot be found.          *)
(*                                                                         *)
(* Time is one flag: the deadline the watchdog now waits for has passed.   *)
(* The child may exit at any moment in any way, also on SIGTERM, which it  *)
(* may just as well ignore; SIGKILL it cannot.                             *)
(***************************************************************************)
EXTENDS Naturals

CONSTANT Descendants   \* processes the child may start in its group

VARIABLES
  tool,        \* which of the three functions runs
  tries,       \* children forked so far (perf: at most two)
  leader,      \* the child: "none", "alive", "zombie" or "reaped"
  exit,        \* how it ended
  alive,       \* its running descendants
  doomed,      \* the processes SIGKILL has reached
  file,        \* the output file: "none", "empty", "stale" or "fresh"
  worker,      \* program counter of the thread in record()
  watchdog,    \* program counter of the watchdog thread
  childDone,   \* child_done, guarded by done_mu
  timedOut,    \* timed_out
  due,         \* the deadline of the watchdog's current wait has passed
  signals,     \* signals sent to the group of the present child
  result       \* what record() returned

vars == <<tool, tries, leader, exit, alive, doomed, file, worker, watchdog,
          childDone, timedOut, due, signals, result>>

Tools     == {"perfOfPid", "perfOfAll", "asprof", "script"}
ExitKinds == {"zero", "error", "noSuchProcess", "signal"}

(* /tmp/drop_<tid> is not emptied: a retried task finds its earlier file. *)
Init ==
  /\ tool \in Tools
  /\ tries = 0
  /\ leader = "none"
  /\ exit = "zero"
  /\ alive = {}
  /\ doomed = {}
  /\ file \in {"none", "stale"}
  /\ worker = "fork"
  /\ watchdog = "none"
  /\ childDone = FALSE
  /\ timedOut = FALSE
  /\ due = FALSE
  /\ signals = 0
  /\ result = "none"
-----------------------------------------------------------------------------
(* The process group. *)

(* The child starts a process, or writes its output; once SIGKILL has      *)
(* reached it it does neither.                                             *)
ChildWorks ==
  /\ leader = "alive" /\ "child" \notin doomed
  /\ \/ \E d \in Descendants \ (alive \cup doomed) : alive' = alive \cup {d} /\ UNCHANGED file
     \/ file' \in {"empty", "fresh"} /\ UNCHANGED alive
  /\ UNCHANGED <<tool, tries, leader, exit, doomed, worker, watchdog, childDone,
                 timedOut, due, signals, result>>

(* The child ends, perf perhaps with an error that has "No such process".  *)
ChildExits ==
  /\ leader = "alive"
  /\ leader' = "zombie"
  /\ exit' \in IF "child" \in doomed THEN {"signal"}
               ELSE IF tool = "perfOfPid" THEN ExitKinds
               ELSE ExitKinds \ {"noSuchProcess"}
  /\ UNCHANGED <<tool, tries, alive, doomed, file, worker, watchdog, childDone,
                 timedOut, due, signals, result>>

DescendantExits(d) ==
  /\ d \in alive
  /\ alive' = alive \ {d}
  /\ UNCHANGED <<tool, tries, leader, exit, doomed, file, worker, watchdog,
                 childDone, timedOut, due, signals, result>>

(* What killpg(pgid, SIGKILL) reaches now. *)
Group == alive \cup (IF leader = "alive" THEN {"child"} ELSE {})
-----------------------------------------------------------------------------
(* The watchdog thread: it holds done_mu except while it waits. *)

DeadlinePasses ==
  /\ watchdog \in {"untilTimeout", "untilKill"}
  /\ ~due
  /\ due' = TRUE
  /\ UNCHANGED <<tool, tries, leader, exit, alive, doomed, file, worker, watchdog,
                 childDone, timedOut, signals, result>>

(* wait_until returns false: SIGTERM, and five more seconds. *)
WatchdogTerm ==
  /\ watchdog = "untilTimeout"
  /\ due /\ ~childDone
  /\ timedOut' = TRUE
  /\ signals' = signals + 1
  /\ watchdog' = "untilKill"
  /\ due' = FALSE
  /\ UNCHANGED <<tool, tries, leader, exit, alive, doomed, file, worker,
                 childDone, result>>

(* Mutant: SIGTERM is all the watchdog sends. *)
WatchdogGivesUp ==
  /\ watchdog = "untilKill"
  /\ due /\ ~childDone
  /\ watchdog' = "ended"
  /\ UNCHANGED <<tool, tries, leader, exit, alive, doomed, file, worker,
                 childDone, timedOut, due, signals, result>>

(* Mutant: SIGKILL is sent in a loop until the child is done. *)
WatchdogKillsAgain ==
  /\ watchdog = "untilKill"
  /\ due /\ ~childDone
  /\ signals' = signals + 1
  /\ doomed' = doomed \cup Group
  /\ UNCHANGED <<tool, tries, leader, exit, alive, file, worker, watchdog,
                 childDone, timedOut, due, result>>

(* Mutant: kill(pid) instead of killpg(pgid). *)
WatchdogKillsChildOnly ==
  /\ watchdog = "untilKill"
  /\ due /\ ~childDone
  /\ signals' = signals + 1
  /\ doomed' = doomed \cup (Group \ alive)
  /\ watchdog' = "ended"
  /\ UNCHANGED <<tool, tries, leader, exit, alive, file, worker, childDone,
                 timedOut, due, result>>

WatchdogKill ==
  /\ watchdog = "untilKill"
  /\ due /\ ~childDone
  /\ signals' = signals + 1
  /\ doomed' = doomed \cup Group
  /\ watchdog' = "ended"
  /\ UNCHANGED <<tool, tries, leader, exit, alive, file, worker, childDone,
                 timedOut, due, result>>

WatchdogEnds ==
  /\ watchdog \in {"untilTimeout", "untilKill"}
  /\ childDone
  /\ watchdog' = "ended"
  /\ UNCHANGED <<tool, tries, leader, exit, alive, doomed, file, worker,
                 childDone, timedOut, due, signals, result>>
-----------------------------------------------------------------------------
(* The thread in record(). *)

(* An early return: no script, no pid, no asprof binary, no file to write  *)
(* the script to, or fork() fails.                                         *)
StartFails ==
  /\ worker = "fork"
  /\ worker' = "returned"
  /\ result' = "error"
  /\ UNCHANGED <<tool, tries, leader, exit, alive, doomed, file, watchdog,
                 childDone, timedOut, due, signals>>

(* The child runs in its own group and the watchdog is started. *)
Fork ==
  /\ worker = "fork"
  /\ worker' = "waitpid"
  /\ tries' = tries + 1
  /\ leader' = "alive"
  /\ watchdog' = "untilTimeout"
  /\ childDone' = FALSE
  /\ timedOut' = FALSE
  /\ due' = FALSE
  /\ signals' = 0
  /\ doomed' = doomed \ {"child"}
  /\ UNCHANGED <<tool, exit, alive, file, result>>

(* Mutant: a child that failed is reported before the watchdog is stopped. *)
ReapAndReturn ==
  /\ worker = "waitpid"
  /\ leader = "zombie"
  /\ leader' = "reaped"
  /\ worker' = IF exit = "zero" THEN "setDone" ELSE "returned"
  /\ result' = IF exit = "zero" THEN result ELSE "error"
  /\ UNCHANGED <<tool, tries, exit, alive, doomed, file, watchdog, childDone,
                 timedOut, due, signals>>

(* waitpid returns; from here on the pid and, with the last descendant,    *)
(* the process group id are free.  It does not fail: the child is this     *)
(* thread's, SIGCHLD keeps its default and signal() restarts system calls. *)
Reap ==
  /\ worker = "waitpid"
  /\ leader = "zombie"
  /\ leader' = "reaped"
  /\ worker' = "setDone"
  /\ UNCHANGED <<tool, tries, exit, alive, doomed, file, watchdog, childDone,
                 timedOut, due, signals, result>>

SetDone ==
  /\ worker = "setDone"
  /\ childDone' = TRUE
  /\ worker' = "join"
  /\ UNCHANGED <<tool, tries, leader, exit, alive, doomed, file, watchdog,
                 timedOut, due, signals, result>>

(* Mutant: the exit code alone decides. *)
VerdictByExitCode(fileOk) == IF exit = "zero" /\ fileOk THEN "ok" ELSE "error"

(* What the three functions return, given that the output is acceptable. *)
Verdict(fileOk) ==
  IF timedOut THEN "timeout"
  ELSE IF exit = "zero" /\ fileOk THEN "ok" ELSE "error"

(* perf and asprof must leave a file that is not empty; a script need not. *)
Outcome == Verdict(tool = "script" \/ file \in {"stale", "fresh"})

(* perf tries again, system-wide, when a pid was given and the error of    *)
(* the first attempt has "No such process".                                *)
TriesAgain ==
  tool = "perfOfPid" /\ tries = 1 /\ ~timedOut /\ exit = "noSuchProcess"

(* Mutant: the watchdog is detached instead of joined. *)
DecideWithoutJoin ==
  /\ worker = "join"
  /\ worker' = IF TriesAgain THEN "fork" ELSE "returned"
  /\ result' = IF TriesAgain THEN result ELSE Outcome
  /\ UNCHANGED <<tool, tries, leader, exit, alive, doomed, file, watchdog,
                 childDone, timedOut, due, signals>>

(* watchdog.join() returns and the outcome is decided. *)
JoinAndDecide ==
  /\ worker = "join"
  /\ watchdog = "ended"
  /\ worker' = IF TriesAgain THEN "fork" ELSE "returned"
  /\ result' = IF TriesAgain THEN result ELSE Outcome
  /\ UNCHANGED <<tool, tries, leader, exit, alive, doomed, file, watchdog,
                 childDone, timedOut, due, signals>>
-----------------------------------------------------------------------------
Next ==
  \/ ChildWorks \/ ChildExits
  \/ \E d \in Descendants : DescendantExits(d)
  \/ DeadlinePasses \/ WatchdogTerm \/ WatchdogKill \/ WatchdogEnds
  \/ StartFails \/ Fork \/ Reap \/ SetDone \/ JoinAndDecide

Spec == Init /\ [][Next]_vars

(* Both threads run, time passes, and SIGKILL takes effect; that the child *)
(* ends by itself is not assumed.                                          *)
Fairness ==
  /\ WF_vars(DeadlinePasses)
  /\ WF_vars(WatchdogTerm \/ WatchdogKill \/ WatchdogEnds)
  /\ WF_vars(StartFails \/ Fork \/ Reap \/ SetDone \/ JoinAndDecide)
  /\ WF_vars("child" \in doomed /\ ChildExits)

FairSpec == Spec /\ Fairness
-----------------------------------------------------------------------------
(* The type invariant. *)
TypeOK ==
  /\ tool \in Tools
  /\ tries \in 0..2
  /\ leader \in {"none", "alive", "zombie", "reaped"}
  /\ exit \in ExitKinds
  /\ alive \subseteq Descendants
  /\ doomed \subseteq Descendants \cup {"child"}
  /\ file \in {"none", "empty", "stale", "fresh"}
  /\ worker \in {"fork", "waitpid", "setDone", "join", "returned"}
  /\ watchdog \in {"none", "untilTimeout", "untilKill", "ended"}
  /\ childDone \in BOOLEAN /\ timedOut \in BOOLEAN /\ due \in BOOLEAN
  /\ signals \in 0..2
  /\ result \in {"none", "ok", "error", "timeout"}

(***************************************************************************)
(* record() returns true only for a child that ended with code 0, that the *)
(* watchdog never signalled, and whose watchdog is gone: a timeout racing  *)
(* with the end of the child is never reported as a success.               *)
(***************************************************************************)
SuccessIsGenuine ==
  result = "ok" => exit = "zero" /\ signals = 0 /\ watchdog = "ended" /\ leader = "reaped"

(***************************************************************************)
(* The watchdog is joined before record() goes on, so no signal is sent to *)
(* the group id, which may by then be another group's, after it returned;  *)
(* nor does the watchdog of one attempt outlive it into the next.          *)
(***************************************************************************)
NoLateSignal ==
  [][(worker \in {"returned", "fork"}) => signals' <= signals]_vars

(***************************************************************************)
(* record() returns, however long the child would run: the deadline, the   *)
(* second deadline and SIGKILL bound it, and neither thread waits for a    *)
(* wake-up the other one does not give.                                    *)
(***************************************************************************)
RecordReturns == <>(worker = "returned")

(***************************************************************************)
(* A timeout that went as far as SIGKILL leaves nothing of the tree: the   *)
(* child's group exists so that the whole tree can be killed.  (A child    *)
(* that obeys SIGTERM spares descendants that ignore it: the watchdog then *)
(* ends without SIGKILL.)                                                  *)
(***************************************************************************)
KilledTreeIsDead == result = "timeout" /\ signals = 2 => alive \subseteq doomed
-----------------------------------------------------------------------------
(***************************************************************************)
(* The inductive invariant behind SuccessIsGenuine and NoLateSignal: who   *)
(* may be where while the child lives, and what a watchdog that has not    *)
(* ended, or has timed out, has sent.                                      *)
(***************************************************************************)
WatchdogInv ==
  /\ worker \in {"fork", "returned"} => watchdog \in {"none", "ended"}
  /\ worker \in {"waitpid", "setDone"} => ~childDone /\ watchdog # "none"
  /\ leader \in {"alive", "zombie"} => worker = "waitpid"
  /\ worker \in {"setDone", "join"} => leader = "reaped"
  /\ watchdog = "untilTimeout" => ~timedOut
  /\ watchdog = "untilKill" => timedOut /\ signals = 1
  /\ ~timedOut => signals = 0
  /\ worker = "fork" => tries < 2
  /\ worker # "returned" => result = "none"
  /\ SuccessIsGenuine
=============================================================================
