---------------------------- MODULE AgentProcess ----------------------------
(***************************************************************************)
(* One drop_agent process: the main thread, which waits for the worker,    *)
(* the heartbeat thread, the worker thread and the signal handler, which   *)
(* runs on top of one of them.  They share g_worker, that is a task queue  *)
(* and a shutdown flag with their mutex and condition variable, and the    *)
(* pool of drop_server addresses, in which three failed heartbeats in a    *)
(* row move the agent one address on.                                      *)
(*                                                                         *)
(* A critical section is two steps, lock and unlock, and a handler is on   *)
(* the stack of the thread it interrupts: what TaskDispatch takes for one  *)
(* step of the agent is looked at here from inside, and of the task table  *)
(* nothing is kept.                                                        *)
(***************************************************************************)
EXTENDS Naturals, Sequences, FiniteSets

CONSTANTS
  Tasks,          \* task ids
  Servers,        \* number of addresses in the pool
  None,           \* no task
  MaxDispatches,  \* bound on the dispatches by apiserver
  MaxFaults,      \* bound on lost calls, crashes and restarts of servers
  MaxSignals      \* bound on SIGTERM and SIGINT

ASSUME ProcessAssumption ==
  /\ None \notin Tasks
  /\ Servers \in Nat \ {0}
  /\ {MaxDispatches, MaxFaults, MaxSignals} \subseteq Nat

VARIABLES
  \* the drop_servers
  up,           \* whether each is running
  waiting,      \* TaskQueue of each, for this agent
  home,         \* the one apiserver dispatches to
  \* g_server_pool and g_worker
  current,      \* current_idx
  queue,        \* the worker's queue
  shutdown,     \* the flag
  mu,           \* the thread or handler that holds g_worker.mu, or "free"
  \* the threads
  hb,           \* heartbeat: program counter, channel, task in the reply
  failures,     \* consecutive_failures, up to the threshold
  registered,   \* the heartbeat's flag
  worker,       \* program counter of the worker
  main,         \* "join" or "gone"
  handlers,     \* the handler's activations, in order of arrival
  \* for the properties
  ran,          \* tasks the worker has started
  dispatches, faults

vars == <<up, waiting, home, current, queue, shutdown, mu, hb, failures,
          registered, worker, main, handlers, ran, dispatches, faults>>

Addrs     == 0..(Servers - 1)
Threshold == 3                       \* kFailoverThreshold
Threads   == {"main", "heartbeat", "worker"}

Init ==
  /\ up \in [Addrs -> BOOLEAN]
  /\ waiting = [s \in Addrs |-> <<>>]
  /\ home \in Addrs
  /\ current = 0
  /\ queue = <<>>
  /\ shutdown = FALSE
  /\ mu = "free"
  /\ hb = [pc |-> "top", chan |-> 0, got |-> None]
  /\ failures = 0
  /\ registered = FALSE
  /\ worker = "lock"
  /\ main = "join"
  /\ handlers = <<>>
  /\ ran = {}
  /\ dispatches = 0
  /\ faults = 0

Works == UNCHANGED faults
Fault == faults < MaxFaults /\ faults' = faults + 1
-----------------------------------------------------------------------------
(* The drop_servers. *)

Dispatch(t) ==
  /\ dispatches < MaxDispatches /\ dispatches' = dispatches + 1
  /\ up[home]
  /\ waiting' = [waiting EXCEPT ![home] = Append(@, t)]
  /\ UNCHANGED <<up, home, current, queue, shutdown, mu, hb, failures, registered,
                 worker, main, handlers, ran, faults>>

(* A server dies, and its queues with it; or one is started. *)
ServerChanges(s) ==
  /\ Fault
  /\ up' = [up EXCEPT ![s] = ~@]
  /\ waiting' = [waiting EXCEPT ![s] = <<>>]
  /\ UNCHANGED <<home, current, queue, shutdown, mu, hb, failures, registered,
                 worker, main, handlers, ran, dispatches>>
-----------------------------------------------------------------------------
(* Signals.  An activation runs on top of a thread and of the activations  *)
(* that thread already has; what lies below stands still.                  *)

Active(i)  == handlers[i].pc # "returned"
RunsOn(th) == {i \in DOMAIN handlers : Active(i) /\ handlers[i].thread = th}
Free(th)   == main # "gone" /\ RunsOn(th) = {}
OnTop(i)   == main # "gone" /\ Active(i) /\ \A j \in RunsOn(handlers[i].thread) : j <= i

(* The kernel prefers the main thread.  A signal that comes while others   *)
(* are being handled may be given to any thread that does not have the     *)
(* same one masked, that is in its handler.                                *)
Takes(th, sig) ==
  /\ \A i \in RunsOn(th) : handlers[i].sig # sig
  /\ th = "main" \/ RunsOn("main") # {}

Signal(sig, th) ==
  /\ main # "gone"
  /\ Len(handlers) < MaxSignals
  /\ Takes(th, sig)
  /\ th = "worker" => worker # "exited"
  /\ th = "heartbeat" => hb.pc # "ended"
  /\ handlers' = Append(handlers, [sig |-> sig, thread |-> th, pc |-> "lock"])
  /\ UNCHANGED <<up, waiting, home, current, queue, shutdown, mu, hb, failures,
                 registered, worker, main, ran, dispatches, faults>>

(* Mutant: the flag is set without the mutex. *)
HandlerNoLock(i) ==
  /\ OnTop(i) /\ handlers[i].pc = "lock"
  /\ shutdown' = TRUE
  /\ handlers' = [handlers EXCEPT ![i].pc = "notify"]
  /\ UNCHANGED <<up, waiting, home, current, queue, mu, hb, failures, registered,
                 worker, main, ran, dispatches, faults>>

HandlerLock(i) ==
  /\ OnTop(i) /\ handlers[i].pc = "lock"
  /\ mu = "free" /\ mu' = "handler"
  /\ handlers' = [handlers EXCEPT ![i].pc = "set"]
  /\ UNCHANGED <<up, waiting, home, current, queue, shutdown, hb, failures,
                 registered, worker, main, ran, dispatches, faults>>

HandlerSet(i) ==
  /\ OnTop(i) /\ handlers[i].pc = "set"
  /\ shutdown' = TRUE
  /\ mu' = "free"
  /\ handlers' = [handlers EXCEPT ![i].pc = "notify"]
  /\ UNCHANGED <<up, waiting, home, current, queue, hb, failures, registered,
                 worker, main, ran, dispatches, faults>>

(* cv.notify_all / notify_one: the worker is the only one that waits. *)
Notify == worker' = IF worker = "wait" THEN "lock" ELSE worker

HandlerNotify(i) ==
  /\ OnTop(i) /\ handlers[i].pc = "notify"
  /\ Notify
  /\ handlers' = [handlers EXCEPT ![i].pc = "returned"]
  /\ UNCHANGED <<up, waiting, home, current, queue, shutdown, mu, hb, failures,
                 registered, main, ran, dispatches, faults>>
-----------------------------------------------------------------------------
(* HeartbeatThread. *)

(* Mutant: the flag is not looked at. *)
HbTopForever ==
  /\ Free("heartbeat") /\ hb.pc = "top"
  /\ hb' = [hb EXCEPT !.pc = "call", !.chan = current]
  /\ UNCHANGED <<up, waiting, home, current, queue, shutdown, mu, failures,
                 registered, worker, main, handlers, ran, dispatches, faults>>

(* The flag is read without the mutex; GetChannel. *)
HbTop ==
  /\ Free("heartbeat") /\ hb.pc = "top"
  /\ hb' = IF shutdown THEN [hb EXCEPT !.pc = "ended"]
                       ELSE [hb EXCEPT !.pc = "call", !.chan = current]
  /\ UNCHANGED <<up, waiting, home, current, queue, shutdown, mu, failures,
                 registered, worker, main, handlers, ran, dispatches, faults>>

(* What Pop takes out of a server's queue and puts into the reply. *)
Popped(s) == IF waiting[s] = <<>> THEN None ELSE Head(waiting[s])
Pop(s)    == waiting' = [waiting EXCEPT ![s] = IF @ = <<>> THEN @ ELSE Tail(@)]

(* Do answers. *)
HbOk ==
  /\ Free("heartbeat") /\ hb.pc = "call"
  /\ up[hb.chan]
  /\ Pop(hb.chan)
  /\ failures' = 0
  /\ hb' = [hb EXCEPT !.pc = IF registered THEN "reply" ELSE "register",
                      !.got = Popped(hb.chan)]
  /\ UNCHANGED <<up, home, current, queue, shutdown, mu, registered, worker, main,
                 handlers, ran, dispatches, faults>>

(* Mutant: the index runs past the last address. *)
FailoverPastEnd ==
  /\ current' = current + 1
  /\ failures' = 0
  /\ registered' = FALSE

(* Mutant: the last address is kept. *)
FailoverToLast ==
  /\ current' = IF current = Servers - 1 THEN current ELSE current + 1
  /\ failures' = 0
  /\ registered' = FALSE

(* ServerPool::Failover and what the heartbeat resets with it. *)
Failover ==
  /\ current' = (current + 1) % Servers
  /\ failures' = 0
  /\ registered' = FALSE

(* Do fails: no server, or a call or reply is lost, perhaps after Pop.  An *)
(* agent with one address counts on; nobody looks past the threshold.      *)
HbFails ==
  /\ Free("heartbeat") /\ hb.pc = "call"
  /\ \/ ~up[hb.chan] /\ Works /\ UNCHANGED waiting
     \/ up[hb.chan] /\ Fault /\ (Pop(hb.chan) \/ UNCHANGED waiting)
  /\ IF failures + 1 >= Threshold /\ Servers > 1
     THEN Failover
     ELSE /\ failures' = IF failures < Threshold THEN failures + 1 ELSE failures
          /\ UNCHANGED <<current, registered>>
  /\ hb' = [hb EXCEPT !.pc = "top"]
  /\ UNCHANGED <<up, home, queue, shutdown, mu, worker, main, handlers, ran,
                 dispatches>>

(* RegisterAgent; a failure is made good after the next heartbeat. *)
HbRegister ==
  /\ Free("heartbeat") /\ hb.pc = "register"
  /\ \/ up[hb.chan] /\ Works /\ registered' = TRUE
     \/ ~up[hb.chan] /\ Works /\ UNCHANGED registered
     \/ up[hb.chan] /\ Fault /\ UNCHANGED registered
  /\ hb' = [hb EXCEPT !.pc = "reply"]
  /\ UNCHANGED <<up, waiting, home, current, queue, shutdown, mu, failures, worker,
                 main, handlers, ran, dispatches>>

HbNoTask ==
  /\ Free("heartbeat") /\ hb.pc = "reply" /\ hb.got = None
  /\ hb' = [hb EXCEPT !.pc = "top"]
  /\ UNCHANGED <<up, waiting, home, current, queue, shutdown, mu, failures,
                 registered, worker, main, handlers, ran, dispatches, faults>>

HbLock ==
  /\ Free("heartbeat") /\ hb.pc = "reply" /\ hb.got # None
  /\ mu = "free" /\ mu' = "heartbeat"
  /\ hb' = [hb EXCEPT !.pc = "push"]
  /\ UNCHANGED <<up, waiting, home, current, queue, shutdown, failures, registered,
                 worker, main, handlers, ran, dispatches, faults>>

(* A task that is in the queue already is dropped. *)
HbPush ==
  /\ Free("heartbeat") /\ hb.pc = "push"
  /\ LET found == \E i \in DOMAIN queue : queue[i] = hb.got IN
       /\ queue' = IF found THEN queue ELSE Append(queue, hb.got)
       /\ hb' = [hb EXCEPT !.pc = IF found THEN "top" ELSE "notify", !.got = None]
  /\ mu' = "free"
  /\ UNCHANGED <<up, waiting, home, current, shutdown, failures, registered, worker,
                 main, handlers, ran, dispatches, faults>>

HbNotify ==
  /\ Free("heartbeat") /\ hb.pc = "notify"
  /\ Notify
  /\ hb' = [hb EXCEPT !.pc = "top"]
  /\ UNCHANGED <<up, waiting, home, current, queue, shutdown, mu, failures,
                 registered, main, handlers, ran, dispatches, faults>>
-----------------------------------------------------------------------------
(* WorkerThread. *)

WkLock ==
  /\ Free("worker") /\ worker = "lock"
  /\ mu = "free" /\ mu' = "worker"
  /\ worker' = "check"
  /\ UNCHANGED <<up, waiting, home, current, queue, shutdown, hb, failures,
                 registered, main, handlers, ran, dispatches, faults>>

(* The predicate of cv.wait is false ... *)
WkNothing ==
  /\ Free("worker") /\ worker = "check"
  /\ queue = <<>> /\ ~shutdown
  /\ worker' = "nothing"
  /\ UNCHANGED <<up, waiting, home, current, queue, shutdown, mu, hb, failures,
                 registered, main, handlers, ran, dispatches, faults>>

(* ... and it unlocks the mutex and waits, in one step. *)
WkWait ==
  /\ Free("worker") /\ worker = "nothing"
  /\ worker' = "wait"
  /\ mu' = "free"
  /\ UNCHANGED <<up, waiting, home, current, queue, shutdown, hb, failures,
                 registered, main, handlers, ran, dispatches, faults>>

WkSpurious ==
  /\ Free("worker") /\ worker = "wait"
  /\ worker' = "lock"
  /\ UNCHANGED <<up, waiting, home, current, queue, shutdown, mu, hb, failures,
                 registered, main, handlers, ran, dispatches, faults>>

(* Mutant: the worker stops at once, whatever is queued. *)
WkExitAtOnce ==
  /\ Free("worker") /\ worker = "check"
  /\ shutdown
  /\ worker' = "exited"
  /\ mu' = "free"
  /\ UNCHANGED <<up, waiting, home, current, queue, shutdown, hb, failures,
                 registered, main, handlers, ran, dispatches, faults>>

WkExit ==
  /\ Free("worker") /\ worker = "check"
  /\ queue = <<>> /\ shutdown
  /\ worker' = "exited"
  /\ mu' = "free"
  /\ UNCHANGED <<up, waiting, home, current, queue, shutdown, hb, failures,
                 registered, main, handlers, ran, dispatches, faults>>

(* A continuous task is given to a thread of its own. *)
WkTake ==
  /\ Free("worker") /\ worker = "check"
  /\ queue # <<>>
  /\ queue' = Tail(queue)
  /\ ran' = ran \cup {Head(queue)}
  /\ worker' \in {"run", "lock"}
  /\ mu' = "free"
  /\ UNCHANGED <<up, waiting, home, current, shutdown, hb, failures, registered,
                 main, handlers, dispatches, faults>>

(* record(), the upload and NotifyResult to the server that is current by  *)
(* then, whose outcome is only logged.                                     *)
WkRun ==
  /\ Free("worker") /\ worker = "run"
  /\ worker' = "lock"
  /\ UNCHANGED <<up, waiting, home, current, queue, shutdown, mu, hb, failures,
                 registered, main, handlers, ran, dispatches, faults>>

(* wk_thread.join() returns; with main the process ends. *)
MainExits ==
  /\ Free("main") /\ worker = "exited"
  /\ main' = "gone"
  /\ UNCHANGED <<up, waiting, home, current, queue, shutdown, mu, hb, failures,
                 registered, worker, handlers, ran, dispatches, faults>>
-----------------------------------------------------------------------------
HeartbeatStep == \/ HbTop \/ HbOk \/ HbFails \/ HbRegister \/ HbNoTask
                 \/ HbLock \/ HbPush \/ HbNotify
WorkerStep    == WkLock \/ WkNothing \/ WkWait \/ WkExit \/ WkTake \/ WkRun
HandlerStep   == \E i \in DOMAIN handlers : HandlerLock(i) \/ HandlerSet(i) \/ HandlerNotify(i)

Next ==
  \/ \E t \in Tasks : Dispatch(t)
  \/ \E s \in Addrs : ServerChanges(s)
  \/ \E sig \in {"SIGTERM", "SIGINT"}, th \in Threads : Signal(sig, th)
  \/ HandlerStep
  \/ HeartbeatStep
  \/ WorkerStep \/ WkSpurious
  \/ MainExits

Spec == Init /\ [][Next]_vars

(* The threads run, and record() returns (ChildWatchdog).  The mutex is    *)
(* held for moments by threads that then sleep or wait, so that a thread   *)
(* that wants it again and again gets it: strong fairness of the locks.    *)
Fairness ==
  /\ WF_vars(HeartbeatStep) /\ SF_vars(HbLock)
  /\ WF_vars(WorkerStep) /\ SF_vars(WkLock)
  /\ WF_vars(HandlerStep) /\ SF_vars(\E i \in DOMAIN handlers : HandlerLock(i))
  /\ WF_vars(MainExits)

FairSpec == Spec /\ Fairness
-----------------------------------------------------------------------------
(* The type invariant. *)
TypeOK ==
  /\ up \in [Addrs -> BOOLEAN]
  /\ waiting \in [Addrs -> Seq(Tasks)]
  /\ {home, current} \subseteq Addrs
  /\ queue \in Seq(Tasks)
  /\ shutdown \in BOOLEAN /\ registered \in BOOLEAN
  /\ mu \in {"free", "heartbeat", "worker", "handler"}
  /\ hb \in [pc : {"top", "call", "register", "reply", "push", "notify", "ended"},
             chan : Addrs, got : Tasks \cup {None}]
  /\ failures \in 0..Threshold
  /\ worker \in {"lock", "check", "nothing", "wait", "run", "exited"}
  /\ main \in {"join", "gone"}
  /\ handlers \in Seq([sig : {"SIGTERM", "SIGINT"}, thread : Threads,
                       pc : {"lock", "set", "notify", "returned"}])
  /\ ran \subseteq Tasks
  /\ dispatches \in 0..MaxDispatches /\ faults \in 0..MaxFaults

(***************************************************************************)
(* A shutdown leaves at most one task behind: the worker empties its queue *)
(* before it exits, and the heartbeat, which looks at the flag before each *)
(* call, can only deliver the reply of the call it was in.                 *)
(***************************************************************************)
AtMostOneLeftBehind ==
  worker = "exited" => Len(queue) + (IF hb.got = None THEN 0 ELSE 1) <= 1

(* Who holds g_worker.mu: the handler between its lock and its unlock, the *)
(* heartbeat while it pushes, the worker while it looks at the queue.      *)
LockInv ==
  /\ (mu = "heartbeat") = (hb.pc = "push")
  /\ (mu = "worker") = (worker \in {"check", "nothing"})
  /\ \A i \in DOMAIN handlers : handlers[i].pc = "set" =>
       mu = "handler" /\ \A j \in DOMAIN handlers : handlers[j].pc = "set" => j = i
  /\ mu = "handler" => \E i \in DOMAIN handlers : handlers[i].pc = "set"

(* Where the heartbeat may hold a task, and what it can still deliver once *)
(* the worker is gone: one task out of the call it was in when it last saw *)
(* the flag down, and none from the top of its loop on.                    *)
DeliveryInv ==
  /\ hb.pc \in {"top", "call", "notify", "ended"} => hb.got = None
  /\ hb.pc = "push" => hb.got # None
  /\ main = "gone" => worker = "exited"
  /\ worker = "exited" =>
       /\ shutdown
       /\ hb.pc \in {"call", "register", "reply", "push"} => queue = <<>>
       /\ hb.pc \in {"top", "notify", "ended"} => Len(queue) <= 1

(***************************************************************************)
(* The inductive invariant: the types, the owner of the mutex at every     *)
(* program counter, so that no two critical sections overlap, and what is  *)
(* left to deliver when the worker has drained its queue and exited.       *)
(***************************************************************************)
ProcessInv == TypeOK /\ LockInv /\ DeliveryInv

(***************************************************************************)
(* SIGTERM or SIGINT ends the process: the handler gets the mutex, and its *)
(* wake-up is not lost on a worker that is about to wait.  A further       *)
(* signal may reach the thread that holds the mutex, whose handler then    *)
(* waits for it for ever.                                                  *)
(***************************************************************************)
SignalEndsAgent == (handlers # <<>>) ~> (main = "gone" \/ Len(handlers) > 1)

(***************************************************************************)
(* A task that is in the queue while the worker is there gets executed,    *)
(* shutdown or not: no wake-up is lost between push and wait.              *)
(***************************************************************************)
QueuedTaskRuns ==
  \A t \in Tasks :
    (worker # "exited" /\ \E i \in DOMAIN queue : queue[i] = t)
      ~> (t \in ran \/ Len(handlers) > 1)

(***************************************************************************)
(* As long as one server stays up, the agent comes to a server that runs:  *)
(* the rotation passes by every address, whichever it starts from and      *)
(* whatever order the servers fail in.                                     *)
(***************************************************************************)
FindsRunningServer ==
  \A s \in Addrs : up[s] ~> (up[current] \/ ~up[s] \/ shutdown \/ Len(handlers) > 1)
=============================================================================
