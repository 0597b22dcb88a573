------------------------ MODULE AgentProcess_proofs ------------------------
(***************************************************************************)
(* Proofs about AgentProcess, for every number of servers, tasks, signals  *)
(* and faults: ProcessInv is inductive, g_worker.mu keeps the critical     *)
(* sections of the threads and of the signal handler apart, and a shutdown *)
(* leaves at most one task behind.                                         *)
(***************************************************************************)
EXTENDS AgentProcess, TLAPS

USE SMTT(20), ZenonT(20)
-----------------------------------------------------------------------------
(* The drop_servers and the handler's activations. *)

(* What is queued at a server after a push, a pop or a crash. *)
LEMMA WaitingTyped ==
  ASSUME ProcessInv, NEW s \in Addrs
  PROVE  /\ \A t \in Tasks : [waiting EXCEPT ![s] = Append(@, t)] \in [Addrs -> Seq(Tasks)]
         /\ [waiting EXCEPT ![s] = <<>>] \in [Addrs -> Seq(Tasks)]
         /\ Pop(s) => waiting' \in [Addrs -> Seq(Tasks)]
         /\ Popped(s) \in Tasks \cup {None}
<1>1. waiting \in [Addrs -> Seq(Tasks)] /\ waiting[s] \in Seq(Tasks)
  BY DEF ProcessInv, TypeOK
<1>2. waiting[s] # <<>> => Tail(waiting[s]) \in Seq(Tasks) /\ Head(waiting[s]) \in Tasks
  BY <1>1
<1>3. <<>> \in Seq(Tasks) /\ \A t \in Tasks : Append(waiting[s], t) \in Seq(Tasks)
  BY <1>1
<1> QED BY <1>1, <1>2, <1>3, Zenon DEF Pop, Popped

(* An address of the pool stays one when the index moves on. *)
LEMMA FailoverTyped ==
  ASSUME ProcessInv, Failover
  PROVE  current' \in Addrs /\ failures' \in 0..Threshold /\ registered' \in BOOLEAN
<1>1. current \in 0..(Servers - 1) /\ Servers \in Nat \ {0}
  BY ProcessAssumption DEF ProcessInv, TypeOK, Addrs
<1>2. (current + 1) % Servers \in 0..(Servers - 1)
  BY <1>1
<1>3. 0 \in 0..Threshold
  BY DEF Threshold
<1> QED BY <1>2, <1>3, Zenon DEF Failover, Addrs

(* A handler that moves on: its own program counter alone changes. *)
LEMMA HandlerMoves ==
  ASSUME ProcessInv, NEW i \in DOMAIN handlers, NEW to \in {"set", "notify", "returned"},
         handlers' = [handlers EXCEPT ![i].pc = to]
  PROVE  /\ handlers' \in Seq([sig : {"SIGTERM", "SIGINT"}, thread : Threads,
                               pc : {"lock", "set", "notify", "returned"}])
         /\ DOMAIN handlers' = DOMAIN handlers
         /\ handlers'[i].pc = to
         /\ \A j \in DOMAIN handlers : j # i => handlers'[j].pc = handlers[j].pc
<1> DEFINE Activation == [sig : {"SIGTERM", "SIGINT"}, thread : Threads,
                          pc : {"lock", "set", "notify", "returned"}]
           a == [handlers[i] EXCEPT !.pc = to]
<1>1. handlers \in Seq(Activation) /\ handlers[i] \in Activation
  <2>1. handlers \in Seq(Activation)
    BY Zenon DEF ProcessInv, TypeOK
  <2> HIDE DEF Activation
  <2>2. \A h \in Seq(Activation) : \A j \in DOMAIN h : h[j] \in Activation
    OBVIOUS
  <2> QED BY <2>1, <2>2, Zenon
<1>2. a \in Activation /\ a.pc = to
  <2>1. \A h \in Activation : LET b == [h EXCEPT !.pc = to] IN b \in Activation /\ b.pc = to
    OBVIOUS
  <2> QED BY <1>1, <2>1, Zenon
<1>3. handlers' = [handlers EXCEPT ![i] = a]
  BY Zenon
<1> HIDE DEF Activation, a
<1>4. handlers' \in Seq(Activation) /\ DOMAIN handlers' = DOMAIN handlers
  BY <1>1, <1>2, <1>3
<1>5. handlers'[i] = a /\ \A j \in DOMAIN handlers : j # i => handlers'[j] = handlers[j]
  BY <1>1, <1>3
<1> QED BY <1>2, <1>4, <1>5 DEF Activation
-----------------------------------------------------------------------------
(* The steps. *)

(* The servers and the signals: nothing of g_worker changes. *)
LEMMA OutsideStep ==
  ASSUME ProcessInv,
         \/ \E t \in Tasks : Dispatch(t)
         \/ \E s \in Addrs : ServerChanges(s)
         \/ \E sig \in {"SIGTERM", "SIGINT"}, th \in Threads : Signal(sig, th)
  PROVE  ProcessInv'
<1>1. ASSUME NEW t \in Tasks, Dispatch(t)
      PROVE  ProcessInv'
  <2>1. TypeOK'
    BY <1>1, WaitingTyped, ProcessAssumption DEF Dispatch, ProcessInv, TypeOK
  <2> QED BY <1>1, <2>1 DEF Dispatch, ProcessInv, LockInv, DeliveryInv
<1>2. ASSUME NEW s \in Addrs, ServerChanges(s)
      PROVE  ProcessInv'
  <2>1. TypeOK'
    BY <1>2, WaitingTyped, ProcessAssumption DEF ServerChanges, Fault, ProcessInv, TypeOK
  <2> QED BY <1>2, <2>1 DEF ServerChanges, ProcessInv, LockInv, DeliveryInv
<1>3. ASSUME NEW sig \in {"SIGTERM", "SIGINT"}, NEW th \in Threads, Signal(sig, th)
      PROVE  ProcessInv'
  <2>1. /\ handlers' \in Seq([sig : {"SIGTERM", "SIGINT"}, thread : Threads,
                              pc : {"lock", "set", "notify", "returned"}])
        /\ DOMAIN handlers' = DOMAIN handlers \cup {Len(handlers) + 1}
        /\ \A i \in DOMAIN handlers : handlers'[i] = handlers[i]
        /\ handlers'[Len(handlers) + 1].pc = "lock"
    BY <1>3 DEF Signal, ProcessInv, TypeOK
  <2>2. TypeOK'
    BY <1>3, <2>1 DEF Signal, ProcessInv, TypeOK
  <2>3. LockInv'
    BY <1>3, <2>1 DEF Signal, ProcessInv, LockInv
  <2> QED BY <1>3, <2>2, <2>3 DEF Signal, ProcessInv, DeliveryInv
<1> QED BY <1>1, <1>2, <1>3

(* The handler takes the mutex only when it is free, and gives it back. *)
LEMMA HandlerInv ==
  ASSUME ProcessInv, HandlerStep
  PROVE  ProcessInv'
<1>1. ASSUME NEW i \in DOMAIN handlers, HandlerLock(i)
      PROVE  ProcessInv'
  <2>1. TypeOK'
    <3>1. handlers' \in Seq([sig : {"SIGTERM", "SIGINT"}, thread : Threads,
                            pc : {"lock", "set", "notify", "returned"}])
      BY <1>1, HandlerMoves, Zenon DEF HandlerLock
    <3> QED BY <1>1, <3>1, Zenon DEF HandlerLock, ProcessInv, TypeOK
  <2>2. LockInv'
    BY <1>1, HandlerMoves DEF HandlerLock, ProcessInv, LockInv
  <2> QED BY <1>1, <2>1, <2>2 DEF HandlerLock, ProcessInv, DeliveryInv
<1>2. ASSUME NEW i \in DOMAIN handlers, HandlerSet(i)
      PROVE  ProcessInv'
  <2>1. TypeOK'
    <3>1. handlers' \in Seq([sig : {"SIGTERM", "SIGINT"}, thread : Threads,
                            pc : {"lock", "set", "notify", "returned"}])
      BY <1>2, HandlerMoves, Zenon DEF HandlerSet
    <3> QED BY <1>2, <3>1, Zenon DEF HandlerSet, ProcessInv, TypeOK
  <2>2. LockInv'
    BY <1>2, HandlerMoves DEF HandlerSet, ProcessInv, LockInv
  <2> QED BY <1>2, <2>1, <2>2 DEF HandlerSet, ProcessInv, DeliveryInv
<1>3. ASSUME NEW i \in DOMAIN handlers, HandlerNotify(i)
      PROVE  ProcessInv'
  <2>1. TypeOK'
    <3>1. handlers' \in Seq([sig : {"SIGTERM", "SIGINT"}, thread : Threads,
                            pc : {"lock", "set", "notify", "returned"}])
      BY <1>3, HandlerMoves, Zenon DEF HandlerNotify
    <3> QED BY <1>3, <3>1, Zenon DEF HandlerNotify, Notify, ProcessInv, TypeOK
  <2>2. LockInv'
    BY <1>3, HandlerMoves DEF HandlerNotify, Notify, ProcessInv, LockInv
  <2> QED BY <1>3, <2>1, <2>2 DEF HandlerNotify, Notify, ProcessInv, DeliveryInv
<1> QED BY <1>1, <1>2, <1>3 DEF HandlerStep

(* The heartbeat: a lap of its loop, of which only the push writes to the  *)
(* queue, and only when the call began before the flag was up.             *)
LEMMA HeartbeatInv ==
  ASSUME ProcessInv, HeartbeatStep
  PROVE  ProcessInv'
<1> USE ProcessAssumption
<1>1. CASE HbTop
  <2>1. TypeOK'
    BY <1>1, Zenon DEF HbTop, ProcessInv, TypeOK
  <2> QED BY <1>1, <2>1 DEF HbTop, ProcessInv, TypeOK, LockInv, DeliveryInv
<1>2. CASE HbOk
  <2>1. waiting' \in [Addrs -> Seq(Tasks)] /\ Popped(hb.chan) \in Tasks \cup {None}
    BY <1>2, WaitingTyped DEF HbOk, ProcessInv, TypeOK
  <2>2. hb' \in [pc : {"top", "call", "register", "reply", "push", "notify", "ended"},
                chan : Addrs, got : Tasks \cup {None}]
    BY <1>2, <2>1, Zenon DEF HbOk, ProcessInv, TypeOK
  <2>3. TypeOK'
    BY <1>2, <2>1, <2>2 DEF HbOk, ProcessInv, TypeOK, Threshold
  <2> QED BY <1>2, <2>3 DEF HbOk, ProcessInv, TypeOK, LockInv, DeliveryInv
<1>3. CASE HbFails
  <2>1. waiting' \in [Addrs -> Seq(Tasks)] /\ faults' \in 0..MaxFaults
    <3>1. hb.chan \in Addrs /\ waiting \in [Addrs -> Seq(Tasks)]
      BY DEF ProcessInv, TypeOK
    <3>2. waiting' \in [Addrs -> Seq(Tasks)]
      BY <1>3, <3>1, WaitingTyped, Zenon DEF HbFails
    <3>3. faults' \in 0..MaxFaults
      BY <1>3 DEF HbFails, Works, Fault, ProcessInv, TypeOK
    <3> QED BY <3>2, <3>3
  <2>2. current' \in Addrs /\ failures' \in 0..Threshold /\ registered' \in BOOLEAN
    BY <1>3, FailoverTyped DEF HbFails, ProcessInv, TypeOK, Threshold
  <2>3. TypeOK'
    BY <1>3, <2>1, <2>2, Zenon DEF HbFails, ProcessInv, TypeOK
  <2>4. /\ hb.pc = "call" /\ hb'.pc = "top" /\ hb'.got = hb.got
        /\ UNCHANGED <<queue, shutdown, mu, worker, main, handlers>>
    BY <1>3 DEF HbFails, ProcessInv, TypeOK
  <2> QED BY <2>3, <2>4 DEF ProcessInv, LockInv, DeliveryInv
<1>4. CASE HbRegister
  <2>1. registered' \in BOOLEAN
    BY <1>4, Zenon DEF HbRegister, ProcessInv, TypeOK
  <2>2. faults' \in 0..MaxFaults
    BY <1>4 DEF HbRegister, Works, Fault, ProcessInv, TypeOK
  <2>3. TypeOK'
    BY <1>4, <2>1, <2>2, Zenon DEF HbRegister, ProcessInv, TypeOK
  <2> QED BY <1>4, <2>3 DEF HbRegister, ProcessInv, TypeOK, LockInv, DeliveryInv
<1>5. CASE HbNoTask
  <2>1. TypeOK'
    BY <1>5, Zenon DEF HbNoTask, ProcessInv, TypeOK
  <2> QED BY <1>5, <2>1 DEF HbNoTask, ProcessInv, TypeOK, LockInv, DeliveryInv
<1>6. CASE HbLock
  <2>1. TypeOK'
    BY <1>6, Zenon DEF HbLock, ProcessInv, TypeOK
  <2> QED BY <1>6, <2>1 DEF HbLock, ProcessInv, TypeOK, LockInv, DeliveryInv
<1>7. CASE HbPush
  <2>1. hb.got \in Tasks /\ queue \in Seq(Tasks)
    BY <1>7 DEF HbPush, ProcessInv, TypeOK, DeliveryInv
  <2>2. Append(queue, hb.got) \in Seq(Tasks) /\ Len(Append(queue, hb.got)) = Len(queue) + 1
    BY <2>1
  <2>3. TypeOK'
    BY <1>7, <2>2, Zenon DEF HbPush, ProcessInv, TypeOK
  <2>4. LockInv'
    BY <1>7 DEF HbPush, ProcessInv, TypeOK, LockInv
  <2>5. DeliveryInv'
    BY <1>7, <2>2 DEF HbPush, ProcessInv, TypeOK, DeliveryInv
  <2> QED BY <2>3, <2>4, <2>5 DEF ProcessInv
<1>8. CASE HbNotify
  <2>1. TypeOK'
    BY <1>8, Zenon DEF HbNotify, Notify, ProcessInv, TypeOK
  <2> QED BY <1>8, <2>1 DEF HbNotify, Notify, ProcessInv, TypeOK, LockInv, DeliveryInv
<1> QED BY <1>1, <1>2, <1>3, <1>4, <1>5, <1>6, <1>7, <1>8 DEF HeartbeatStep

(* The worker, and main behind it: it exits with an empty queue. *)
LEMMA WorkerInv ==
  ASSUME ProcessInv, WorkerStep \/ WkSpurious \/ MainExits
  PROVE  ProcessInv'
<1>1. CASE WkLock
  <2>1. TypeOK'
    BY <1>1 DEF WkLock, ProcessInv, TypeOK
  <2> QED BY <1>1, <2>1 DEF WkLock, ProcessInv, TypeOK, LockInv, DeliveryInv
<1>2. CASE WkNothing
  <2>1. TypeOK'
    BY <1>2 DEF WkNothing, ProcessInv, TypeOK
  <2> QED BY <1>2, <2>1 DEF WkNothing, ProcessInv, TypeOK, LockInv, DeliveryInv
<1>3. CASE WkWait
  <2>1. TypeOK'
    BY <1>3 DEF WkWait, ProcessInv, TypeOK
  <2> QED BY <1>3, <2>1 DEF WkWait, ProcessInv, TypeOK, LockInv, DeliveryInv
<1>4. CASE WkSpurious
  <2>1. TypeOK'
    BY <1>4 DEF WkSpurious, ProcessInv, TypeOK
  <2> QED BY <1>4, <2>1 DEF WkSpurious, ProcessInv, TypeOK, LockInv, DeliveryInv
<1>5. CASE WkExit
  <2>1. TypeOK'
    BY <1>5 DEF WkExit, ProcessInv, TypeOK
  <2> QED BY <1>5, <2>1 DEF WkExit, ProcessInv, TypeOK, LockInv, DeliveryInv
<1>6. CASE WkTake
  <2>1. Head(queue) \in Tasks /\ Tail(queue) \in Seq(Tasks)
    BY <1>6 DEF WkTake, ProcessInv, TypeOK
  <2>2. TypeOK'
    BY <1>6, <2>1 DEF WkTake, ProcessInv, TypeOK
  <2> QED BY <1>6, <2>2 DEF WkTake, ProcessInv, LockInv, DeliveryInv
<1>7. CASE WkRun
  <2>1. TypeOK'
    BY <1>7 DEF WkRun, ProcessInv, TypeOK
  <2> QED BY <1>7, <2>1 DEF WkRun, ProcessInv, TypeOK, LockInv, DeliveryInv
<1>8. CASE MainExits
  <2>1. TypeOK'
    BY <1>8 DEF MainExits, ProcessInv, TypeOK
  <2> QED BY <1>8, <2>1 DEF MainExits, ProcessInv, TypeOK, LockInv, DeliveryInv
<1> QED BY <1>1, <1>2, <1>3, <1>4, <1>5, <1>6, <1>7, <1>8 DEF WorkerStep
-----------------------------------------------------------------------------
(* The theorems. *)

(***************************************************************************)
(* ProcessInv holds in every state of every run of the process: whatever   *)
(* the servers, the signals and the scheduler do, the mutex has the owner  *)
(* the program counters say, and the queue is drained before the worker    *)
(* exits.                                                                  *)
(***************************************************************************)
THEOREM ProcessInvariant == Spec => []ProcessInv
<1>1. Init => ProcessInv
  <2> SUFFICES ASSUME Init PROVE ProcessInv
    OBVIOUS
  <2>1. TypeOK
    BY ProcessAssumption DEF Init, TypeOK, Addrs, Threshold
  <2>2. LockInv /\ DeliveryInv
    BY DEF Init, LockInv, DeliveryInv
  <2> QED BY <2>1, <2>2 DEF ProcessInv
<1>2. ProcessInv /\ [Next]_vars => ProcessInv'
  <2> SUFFICES ASSUME ProcessInv, [Next]_vars
               PROVE  ProcessInv'
    OBVIOUS
  <2>1. CASE UNCHANGED vars
    BY <2>1 DEF vars, ProcessInv, TypeOK, LockInv, DeliveryInv
  <2>2. CASE Next
    BY <2>2, OutsideStep, HandlerInv, HeartbeatInv, WorkerInv DEF Next
  <2> QED BY <2>1, <2>2
<1> QED BY <1>1, <1>2, PTL DEF Spec

(***************************************************************************)
(* The critical sections of g_worker.mu exclude each other: while the      *)
(* worker looks at the queue the heartbeat does not push, no handler sets  *)
(* the flag during either, and no two handlers set it at once.             *)
(***************************************************************************)
SectionsExclude ==
  LET heartbeat == hb.pc = "push"
      looking   == worker \in {"check", "nothing"}
      setting   == {i \in DOMAIN handlers : handlers[i].pc = "set"}
  IN  /\ ~(heartbeat /\ looking)
      /\ setting # {} => ~heartbeat /\ ~looking
      /\ \A i, j \in setting : i = j

(***************************************************************************)
(* SectionsExclude holds for every number of signals, on whichever thread  *)
(* their handlers run: what std::lock_guard around the queue and the flag  *)
(* is there for.                                                           *)
(***************************************************************************)
THEOREM CriticalSectionsExclude == Spec => []SectionsExclude
<1>1. ProcessInv => SectionsExclude
  BY DEF ProcessInv, LockInv, SectionsExclude
<1> QED BY <1>1, ProcessInvariant, PTL

(***************************************************************************)
(* A shutdown leaves at most one task behind, in the queue or in the reply *)
(* the heartbeat has in hand, however many servers and tasks there are.    *)
(***************************************************************************)
THEOREM LittleIsLeftBehind == Spec => []AtMostOneLeftBehind
<1>1. ProcessInv => AtMostOneLeftBehind
  BY DEF ProcessInv, TypeOK, DeliveryInv, AtMostOneLeftBehind
<1> QED BY <1>1, ProcessInvariant, PTL
=============================================================================
