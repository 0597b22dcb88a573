------------------------ MODULE TaskDispatch_proofs ------------------------
(***************************************************************************)
(* What follows from the inductive invariant DispatchInv of TaskDispatch.  *)
(* DoneHasObject is not inductive: whether DONE is written rests on a      *)
(* report, the report on an upload's answer, the answer on a stored        *)
(* object, and any number of copies of the task can be on that way at      *)
(* once.  EvidenceIsKept says it for every station.  HistoryMatchesRow     *)
(* needs that nobody moves a task whose first history row is not yet       *)
(* written (CreatorIsAlone), hence that no copy of it circulates           *)
(* (CopiesAreOut, RowsExist).  ReadsAreGenuine is for the refinement.      *)
(***************************************************************************)
EXTENDS TaskDispatch_lemmas

USE SMTT(20), ZenonT(20)

(* The invariant holds of empty tables, empty queues and idle threads.     *)
LEMMA InvInit == Init => DispatchInv
<1> SUFFICES ASSUME Init PROVE DispatchInv
  OBVIOUS
<1> USE ConstantsAssumption
<1>1. TypeOK
  <2>1. StoreOK
    BY DEF Init, StoreOK, Ips
  <2>2. ApiOK
    BY DEF Init, ApiOK, ReqPC, Ips
  <2>3. ServerOK
    BY DEF Init, ServerOK
  <2>4. AgentOK
    BY DEF Init, AgentOK, RunPC
  <2>5. faults \in 0..MaxFaults
    BY DEF Init
  <2>6. QED
    BY <2>1, <2>2, <2>3, <2>4, <2>5 DEF TypeOK
<1>2. CopiesAreOut
  BY DEF Init, CopiesAreOut
<1>3. RowsExist /\ CreatorIsAlone /\ ReadsAreGenuine /\ HistoryMatchesRow
  BY DEF Init, RowsExist, CreatorIsAlone, ReadsAreGenuine, HistoryMatchesRow, Row, Live
<1>4. EvidenceIsKept
  <2>1. \A t \in Tasks : status[t] # DONE
    BY DEF Init, NoRow, DONE
  <2>2. \A r \in Requests : up[r] = "none"
    BY DEF Init
  <2>3. \A a \in Agents : run[a].pc = "idle"
    BY DEF Init
  <2>4. notes = {} /\ cosKey = {}
    BY DEF Init
  <2>5. QED
    BY <2>1, <2>2, <2>3, <2>4 DEF EvidenceIsKept
<1>5. QED
  BY <1>1, <1>2, <1>3, <1>4 DEF DispatchInv

(* DispatchInv is an invariant, for any tasks, agents, requests and faults: *)
(* what circulates, what the rows hold and what a report is evidence of.   *)
THEOREM Invariance == Spec => []DispatchInv
<1>1. Init => DispatchInv
  BY InvInit
<1>2. DispatchInv /\ [Next]_vars => DispatchInv'
  BY InvNext
<1>3. QED
  BY <1>1, <1>2, PTL DEF Spec

(* Every variable of apiserver, drop_server and the agents keeps its type. *)
THEOREM TypeCorrect == Spec => []TypeOK
<1>1. DispatchInv => TypeOK
  BY DEF DispatchInv
<1>2. QED
  BY <1>1, Invariance, PTL

(* The status a reader sees is the new_status of the last history row,     *)
(* although apiserver's updateTaskStatus reads without a lock.             *)
THEOREM HistoryAgrees == Spec => []HistoryMatchesRow
<1>1. DispatchInv => HistoryMatchesRow
  BY DEF DispatchInv
<1>2. QED
  BY <1>1, Invariance, PTL

(* A visible DONE task has its file in the object store, whichever copies  *)
(* of it run, whatever is retried, deleted, lost or restarted.             *)
THEOREM DoneIsBacked == Spec => []DoneHasObject
<1>1. DispatchInv => DoneHasObject
  BY DEF DispatchInv, EvidenceIsKept, Kept, DoneHasObject, Live
<1>2. QED
  BY <1>1, Invariance, PTL

(* The cos_key of a visible task, which the analysis downloads, names a    *)
(* stored object.                                                          *)
THEOREM CosKeyIsBacked == Spec => []CosKeyHasObject
<1>1. DispatchInv => CosKeyHasObject
  BY DEF DispatchInv, EvidenceIsKept, Kept, CosKeyHasObject, Live
<1>2. QED
  BY <1>1, Invariance, PTL
-----------------------------------------------------------------------------
(***************************************************************************)
(* Where copies of a task are.  Four steps move one, each from one place   *)
(* to the next: TaskQueue::Push, Pop, the heartbeat's reply and the worker *)
(* (one lemma each).  Every other step can only lose copies.               *)
(***************************************************************************)

(* Taking the head of a queue without repetitions leaves the rest of it.   *)
LEMMA TailCopies ==
  ASSUME NEW S, NEW q \in Seq(S), q # <<>>, IsInjective(q)
  PROVE  /\ IsInjective(Tail(q)) /\ Range(Tail(q)) \subseteq Range(q)
         /\ Head(q) \in Range(q) /\ Head(q) \notin Range(Tail(q))
<1>1. DOMAIN q = 1..Len(q) /\ Len(q) \in Nat \ {0}
  OBVIOUS
<1>2. DOMAIN Tail(q) = 1..(Len(q) - 1) /\ \A i \in 1..(Len(q) - 1) : Tail(q)[i] = q[i + 1]
  OBVIOUS
<1>3. Head(q) = q[1]
  OBVIOUS
<1> QED
  BY <1>1, <1>2, <1>3 DEF IsInjective, Range

(* Appending what a queue does not hold adds it, and repeats nothing.      *)
LEMMA AppendCopies ==
  ASSUME NEW S, NEW q \in Seq(S), NEW e \in S, e \notin Range(q), IsInjective(q)
  PROVE  IsInjective(Append(q, e)) /\ Range(Append(q, e)) = Range(q) \cup {e}
<1>1. DOMAIN q = 1..Len(q) /\ Len(q) \in Nat
  OBVIOUS
<1>2. /\ DOMAIN Append(q, e) = 1..(Len(q) + 1)
      /\ \A i \in 1..Len(q) : Append(q, e)[i] = q[i]
      /\ Append(q, e)[Len(q) + 1] = e
  OBVIOUS
<1>3. IsInjective(Append(q, e))
  BY <1>1, <1>2 DEF IsInjective, Range
<1>4. Range(Append(q, e)) \subseteq Range(q) \cup {e}
  BY <1>1, <1>2 DEF Range
<1>5. e \in Range(Append(q, e))
  BY <1>1, <1>2 DEF Range
<1>6. ASSUME NEW i \in DOMAIN q PROVE q[i] \in Range(Append(q, e))
  BY <1>1, <1>2 DEF Range
<1> QED
  BY <1>3, <1>4, <1>5, <1>6 DEF Range

(* What waits somewhere, or runs, has left apiserver. *)
LEMMA CopiesKnown ==
  ASSUME DispatchInv
  PROVE  /\ \A ip \in Ips : Range(queue[ip]) \subseteq Out
         /\ \A a \in Agents : /\ Range(work[a]) \subseteq Out
                              /\ hb[a].pc # "idle" => hb[a].r \in Out
                              /\ run[a].pc # "idle" => run[a].r \in Out
  BY DEF DispatchInv, CopiesAreOut, Range

(* No step changes the task or the address of a request that has them. *)
LEMMA RequestsKeepAddress ==
  ASSUME DispatchInv, [Next]_vars
  PROVE  \A r \in Requests : req[r].pc # "idle" => IpOf(r)' = IpOf(r) /\ TidOf(r)' = TidOf(r)
BY RequestsNext DEF IpOf, TidOf

(* A row and its stored parameters agree on the address, and so do the requests. *)
LEMMA AddressesNext ==
  ASSUME DispatchInv, [Next]_vars,
         \A t \in Tasks : params[t] \in {target[t], NoIP},
         \A r \in Requests : req[r].pc # "idle" => IpOf(r) \in {target[TidOf(r)], NoIP}
  PROVE  /\ \A t \in Tasks : params'[t] \in {target'[t], NoIP}
         /\ \A r \in Requests : req'[r].pc # "idle" => IpOf(r)' \in {target'[TidOf(r)'], NoIP}
<1> DEFINE G == /\ \A t \in Tasks : params'[t] \in {target'[t], NoIP}
                /\ \A r \in Requests :
                     req'[r].pc # "idle" => IpOf(r)' \in {target'[TidOf(r)'], NoIP}
<1>0. \A r \in Requests : req[r].pc # "idle" => TidOf(r) \in Tasks /\ Row(TidOf(r))
  BY DEF DispatchInv, RowsExist
<1>1. ASSUME NEW r \in Requests, NEW t \in Tasks, NEW ip, NEW old \in {ip, NoIP}, NEW type,
             Insert(r, t, ip, old, type)
      PROVE  G
  <2>1. /\ ~Row(t) /\ req[r].pc = "idle"
        /\ target' = [target EXCEPT ![t] = ip] /\ params' = [params EXCEPT ![t] = old]
        /\ req' = [req EXCEPT ![r] = [pc |-> "inserted", tid |-> t, ip |-> ip, seen |-> NoRow]]
    BY <1>1 DEF Insert
  <2>2. target \in [Tasks -> Ips] /\ params \in [Tasks -> Ips] /\ DOMAIN req = Requests
    BY DEF DispatchInv, TypeOK, StoreOK, ApiOK
  <2>3. \A u \in Tasks : params'[u] \in {target'[u], NoIP}
    BY <2>1, <2>2
  <2>4. IpOf(r)' = ip /\ TidOf(r)' = t /\ target'[t] = ip
    BY <2>1, <2>2 DEF IpOf, TidOf
  <2>5. ASSUME NEW q \in Requests, q # r, req'[q].pc # "idle"
        PROVE  IpOf(q)' \in {target'[TidOf(q)'], NoIP}
    <3>1. req'[q] = req[q]
      BY <2>1, <2>2, <2>5, Zenon
    <3>2. TidOf(q) \in Tasks /\ TidOf(q) # t /\ IpOf(q)' = IpOf(q) /\ TidOf(q)' = TidOf(q)
      BY <3>1, <2>1, <2>5, <1>0, Zenon DEF IpOf, TidOf
    <3> QED
      BY <3>1, <3>2, <2>1, <2>2, <2>5, Zenon
  <2> QED
    BY <2>3, <2>4, <2>5, Zenon
<1>2. ASSUME NEW r \in Requests, NEW t \in Tasks, RetryTask(r, t)
      PROVE  G
  BY <1>2, Zenon DEF RetryTask, store, IpOf, TidOf, DispatchInv, TypeOK, ApiOK
<1>3. ASSUME UNCHANGED <<target, params>>,
             \A r \in Requests : req'[r].pc # "idle" => req[r].pc # "idle"
      PROVE  G
  BY <1>3, RequestsKeepAddress, Zenon
<1>4. ASSUME NEW r \in Requests, RequestStep(r) \/ DispatchError(r)
      PROVE  /\ UNCHANGED <<target, params>>
             /\ \A q \in Requests : req'[q].pc # "idle" => req[q].pc # "idle"
  BY <1>4, Zenon DEF RequestStep, LogCreated, GoRead, GoWrite, DispatchOk, DispatchError,
              store, DispatchInv, TypeOK, ApiOK
<1>5. CASE ApiCrash \/ ServerCrash
  <2>1. UNCHANGED <<target, params>>
    BY <1>5 DEF ApiCrash, ServerCrash, store
  <2>2. \A q \in Requests : req'[q].pc # "idle" => req[q].pc # "idle"
    BY <1>5 DEF ApiCrash, ServerCrash, DispatchInv, TypeOK, ApiOK
  <2> QED
    BY <1>3, <2>1, <2>2
<1>6. CASE UNCHANGED <<req, target, params>>
  BY <1>3, <1>6, ZenonT(30)
<1>7. \/ \E r \in Requests, t \in Tasks : \E ip \in Agents :
           \/ \E type \in {"single", "continuous"} : Insert(r, t, ip, ip, type)
           \/ Insert(r, t, ip, NoIP, "single")
      \/ \E r \in Requests, t \in Tasks : RetryTask(r, t)
      \/ \E r \in Requests : RequestStep(r) \/ DispatchError(r)
      \/ ApiCrash \/ ServerCrash
      \/ UNCHANGED <<req, target, params>>
  BY ZenonT(30)
  DEF Next, UserNext, CreateTask, NLChat, UploadStep, CallStep, DeleteStep, NoteStep,
      HeartbeatStep, WorkerStep, FaultNext, vars, api, store, DeleteTask, PutObject, SetCosKey,
      AcceptTask, PushTask, MarkRunningOrphan, RunnerError, ListObjects, RemoveObjects,
      NotifyUploading, NotifyDone, NotifyFailed, PopTask, MarkRunning, ReceiveTask,
      StartTask, RecordError, RecordOk, UploadOk, UploadError, Report, Reported, PutError,
      PopTaskOrphan, HeartbeatError, ReportError, AgentCrash, LoseConnection
<1> QED
  BY <1>1, <1>2, <1>3, <1>4, <1>5, <1>6, <1>7, Zenon

(* The part of CopiesInv about the places a copy can be in. *)
PlacesInv ==
  /\ QueuesKept /\ HeartbeatsKept /\ WorkKept
  /\ \A r \in started : call[r] = "pushed"

(* A step that moves no copy: it may drop some, and starts none. *)
OnlyLoses ==
  /\ \A r \in Requests : call[r] = "pushed" => call'[r] = "pushed"
  /\ \A ip \in Ips : IsInjective(queue'[ip]) /\ Range(queue'[ip]) \subseteq Range(queue[ip])
  /\ \A a \in Agents :
       /\ IsInjective(work'[a]) /\ Range(work'[a]) \subseteq Range(work[a])
       /\ hb'[a].pc # "idle" => hb[a].pc # "idle" /\ hb'[a].r = hb[a].r
       /\ run'[a].pc # "idle" => run[a].pc # "idle" /\ run'[a].r = run[a].r
  /\ started' = started

(* Such a step keeps every copy that is left where it was. *)
LEMMA LosingKeeps ==
  ASSUME DispatchInv, PlacesInv, [Next]_vars, OnlyLoses
  PROVE  PlacesInv'
<1>1. \A r \in Out : r \in Requests /\ IpOf(r)' = IpOf(r)
  BY RequestsKeepAddress DEF Out
<1>2. started \subseteq Requests
  BY Zenon DEF DispatchInv, TypeOK, AgentOK
<1>3. ASSUME NEW r \in Out, NEW ip, AtHome(r, ip)
      PROVE  AtHome(r, ip)'
  BY <1>1, <1>3, Zenon DEF AtHome, OnlyLoses
<1>4. QueuesKept'
  BY <1>3, CopiesKnown, Zenon DEF OnlyLoses, PlacesInv, QueuesKept
<1>5. HeartbeatsKept'
  BY <1>3, CopiesKnown, Zenon DEF OnlyLoses, PlacesInv, HeartbeatsKept, Ips
<1>6. WorkKept'
  BY <1>1, <1>3, CopiesKnown DEF OnlyLoses, PlacesInv, WorkKept, Ips
<1> QED
  BY <1>2, <1>4, <1>5, <1>6 DEF OnlyLoses, PlacesInv

(* Only TaskQueue::Push, Pop, the heartbeat's reply and the worker move a copy. *)
LEMMA OtherStepsLose ==
  ASSUME DispatchInv, PlacesInv, [Next]_vars,
         \A r \in Requests : ~PushTask(r),
         \A a \in Agents : ~PopTask(a) /\ ~ReceiveTask(a) /\ ~StartTask(a)
  PROVE  OnlyLoses
<1>1. /\ \A ip \in Ips : IsInjective(queue[ip])
      /\ \A a \in Agents : IsInjective(work[a])
  BY DEF PlacesInv, QueuesKept, WorkKept
<1>2. /\ call \in [Requests -> {"none", "accepted", "pushed"}]
      /\ queue \in [Ips -> Seq(Requests)]
      /\ hb \in [Agents -> [pc : {"idle", "popped", "reply"}, r : Requests \cup {None}]]
      /\ work \in [Agents -> Seq(Requests)]
      /\ run \in [Agents -> [pc : RunPC, r : Requests \cup {None}]]
  BY DEF DispatchInv, TypeOK, ServerOK, AgentOK
<1>3. IsInjective(<<>>) /\ Range(<<>>) = {}
  BY DEF IsInjective, Range
<1>4. ASSUME UNCHANGED <<call, queue, hb, work, run, started>>
      PROVE  OnlyLoses
  BY <1>1, <1>4, Zenon DEF OnlyLoses
<1>5. ASSUME NEW r \in Requests, AcceptTask(r)
      PROVE  OnlyLoses
  BY <1>1, <1>2, <1>5, Zenon DEF AcceptTask, agent, OnlyLoses
<1>6. ASSUME NEW a \in Agents, MarkRunning(a) \/ HeartbeatError(a)
      PROVE  OnlyLoses
  <2>1. UNCHANGED <<call, queue, work, run, started>>
    BY <1>6 DEF MarkRunning, HeartbeatError, server
  <2>2. \/ hb[a].pc = "popped" /\ hb' = [hb EXCEPT ![a].pc = "reply"]
        \/ hb' = [hb EXCEPT ![a] = [pc |-> "idle", r |-> None]]
    BY <1>6 DEF MarkRunning, HeartbeatError
  <2>3. \A b \in Agents \ {a} : hb'[b] = hb[b]
    BY <1>2, <2>2
  <2>4. hb'[a].pc # "idle" => hb[a].pc # "idle" /\ hb'[a].r = hb[a].r
    BY <1>2, <2>2
  <2>5. \A b \in Agents : hb'[b].pc # "idle" => hb[b].pc # "idle" /\ hb'[b].r = hb[b].r
    BY <2>3, <2>4, Zenon
  <2> QED
    BY <1>1, <2>1, <2>5 DEF OnlyLoses
<1>7. ASSUME NEW a \in Agents,
             \/ RecordError(a) \/ RecordOk(a) \/ UploadOk(a) \/ UploadError(a)
             \/ Report(a) \/ Reported(a) \/ ReportError(a)
      PROVE  OnlyLoses
  <2>1. UNCHANGED <<call, queue, hb, work, started>>
    BY <1>7, Zenon DEF RecordError, RecordOk, UploadOk, UploadError, Report, Reported, ReportError, server
  <2>2. run[a].pc # "idle" /\ \/ \E p : run' = [run EXCEPT ![a].pc = p]
                              \/ run' = [run EXCEPT ![a] = [pc |-> "idle", r |-> None]]
    BY <1>7 DEF RecordError, RecordOk, UploadOk, UploadError, Report, Reported, ReportError
  <2>3. ASSUME NEW p, run' = [run EXCEPT ![a].pc = p], NEW b \in Agents
        PROVE  run'[b].r = run[b].r /\ (b # a => run'[b] = run[b])
    BY <1>2, <2>3
  <2>4. \A b \in Agents : run'[b].pc # "idle" => run[b].pc # "idle" /\ run'[b].r = run[b].r
    <3>1. CASE \E p : run' = [run EXCEPT ![a].pc = p]
      BY <2>2, <2>3, <3>1, Zenon
    <3>2. CASE run' = [run EXCEPT ![a] = [pc |-> "idle", r |-> None]]
      BY <1>2, <3>2, Zenon
    <3> QED
      BY <2>2, <3>1, <3>2
  <2> QED
    BY <1>1, <2>1, <2>4, Zenon DEF OnlyLoses
<1>8. ASSUME NEW a \in Agents, PopTaskOrphan(a)
      PROVE  OnlyLoses
  <2>1. queue[a] # <<>> /\ queue' = [queue EXCEPT ![a] = Tail(@)] /\ a \in Ips
        /\ UNCHANGED <<call, hb, work, run, started>>
    BY <1>8 DEF PopTaskOrphan, agent, Ips
  <2>2. IsInjective(Tail(queue[a])) /\ Range(Tail(queue[a])) \subseteq Range(queue[a])
    BY <1>1, <1>2, <2>1, TailCopies, Zenon
  <2>3. \A ip \in Ips : IsInjective(queue'[ip]) /\ Range(queue'[ip]) \subseteq Range(queue[ip])
    BY <1>1, <1>2, <2>1, <2>2, Zenon
  <2> QED
    BY <1>1, <2>1, <2>3, Zenon DEF OnlyLoses
<1>9. ASSUME NEW a \in Agents, AgentCrash(a)
      PROVE  OnlyLoses
  <2>1. /\ UNCHANGED <<call, queue, started>>
        /\ hb' = [hb EXCEPT ![a] = [pc |-> "idle", r |-> None]]
        /\ work' = [work EXCEPT ![a] = <<>>]
        /\ run' = [run EXCEPT ![a] = [pc |-> "idle", r |-> None]]
    BY <1>9, Zenon DEF AgentCrash
  <2> QED
    BY <1>1, <1>2, <1>3, <2>1, Zenon DEF OnlyLoses
<1>10. CASE ServerCrash
  <2>1. /\ UNCHANGED <<work, run, started>>
        /\ hb' = [a \in Agents |-> [pc |-> "idle", r |-> None]]
        /\ queue' = [ip \in Ips |-> <<>>]
        /\ call' = [r \in Requests |-> IF call[r] = "pushed" THEN "pushed" ELSE "none"]
    BY <1>10, Zenon DEF ServerCrash
  <2> QED
    BY <1>1, <1>2, <1>3, <2>1 DEF OnlyLoses
<1> DEFINE Quiet == UNCHANGED <<call, queue, hb, work, run, started>>
<1>11. UserNext => Quiet
  BY DEF UserNext, CreateTask, NLChat, Insert, RetryTask, DeleteTask, server, agent
<1>12. \A r \in Requests : RequestStep(r) \/ UploadStep(r) \/ MarkRunningOrphan(r) \/ RunnerError(r)
                           => Quiet
  BY Zenon DEF RequestStep, LogCreated, GoRead, GoWrite, DispatchOk, UploadStep, PutObject, SetCosKey,
         MarkRunningOrphan, RunnerError, server, agent
<1>13. (\E t \in Tasks : DeleteStep(t)) \/ NoteStep \/ UNCHANGED vars => Quiet
  BY DEF DeleteStep, ListObjects, RemoveObjects, NoteStep, NotifyUploading, NotifyDone,
         NotifyFailed, vars, server, agent
<1>14. (\E r \in Requests : DispatchError(r) \/ PutError(r)) \/ ApiCrash \/ LoseConnection => Quiet
  BY DEF DispatchError, PutError, ApiCrash, LoseConnection, server, agent
<1> QED
  BY <1>4, <1>5, <1>6, <1>7, <1>8, <1>9, <1>10, <1>11, <1>12, <1>13, <1>14, ZenonT(30)
  DEF Next, CallStep, HeartbeatStep, WorkerStep, FaultNext

(* TaskQueue::Push: the copy is nowhere yet, and joins the queue of its address. *)
LEMMA PushKeeps ==
  ASSUME DispatchInv, PlacesInv, NEW r \in Requests, PushTask(r)
  PROVE  PlacesInv'
<1>1. /\ call[r] = "accepted" /\ call' = [call EXCEPT ![r] = "pushed"]
      /\ queue' = [queue EXCEPT ![IpOf(r)] = Append(@, r)]
      /\ UNCHANGED <<req, hb, work, run, started>>
  BY DEF PushTask, api, agent
<1>2. /\ DOMAIN call = Requests /\ queue \in [Ips -> Seq(Requests)] /\ IpOf(r) \in Ips
  BY Zenon DEF DispatchInv, TypeOK, ApiOK, ServerOK, IpOf
<1>3. /\ \A ip \in Ips : r \notin Range(queue[ip])
      /\ \A a \in Agents : r \notin Range(work[a]) /\ (hb[a].pc # "idle" => hb[a].r # r)
      /\ r \notin started
  BY <1>1 DEF PlacesInv, QueuesKept, HeartbeatsKept, WorkKept, AtHome
<1>4. IsInjective(queue[IpOf(r)])
  BY <1>2, Zenon DEF PlacesInv, QueuesKept
<1>5. /\ IsInjective(Append(queue[IpOf(r)], r))
      /\ Range(Append(queue[IpOf(r)], r)) = Range(queue[IpOf(r)]) \cup {r}
  BY <1>2, <1>3, <1>4, AppendCopies
<1>6. \A ip \in Ips : queue'[ip] = IF ip = IpOf(r) THEN Append(queue[ip], r) ELSE queue[ip]
  BY <1>1, <1>2, Zenon
<1>7. ASSUME NEW q, NEW ip, AtHome(q, ip)
      PROVE  AtHome(q, ip)'
  BY <1>1, <1>2, <1>7 DEF AtHome, IpOf
<1>8. AtHome(r, IpOf(r))'
  BY <1>1, <1>2, <1>3 DEF AtHome, IpOf
<1>9. QueuesKept'
  <2> SUFFICES ASSUME NEW ip \in Ips
               PROVE  IsInjective(queue'[ip]) /\ \A q \in Range(queue'[ip]) : AtHome(q, ip)'
    BY DEF QueuesKept
  <2>1. IsInjective(queue[ip]) /\ \A q \in Range(queue[ip]) : AtHome(q, ip)
    BY Zenon DEF PlacesInv, QueuesKept
  <2>2. CASE ip # IpOf(r)
    BY <1>6, <1>7, <2>1, <2>2, Zenon
  <2>3. CASE ip = IpOf(r)
    <3>1. queue'[ip] = Append(queue[ip], r) /\ AtHome(r, ip)'
      BY <1>1, <1>6, <1>8, <2>3, Zenon DEF AtHome, IpOf
    <3> QED
      BY <1>5, <1>7, <2>1, <2>3, <3>1
  <2> QED
    BY <2>2, <2>3
<1>10. \A a \in Agents : Range(queue'[a]) \subseteq Range(queue[a]) \cup {r}
  BY <1>5, <1>6 DEF Ips
<1>11. HeartbeatsKept'
  BY <1>1, <1>3, <1>7, <1>10, Zenon DEF PlacesInv, HeartbeatsKept
<1>12. WorkKept'
  <2> SUFFICES ASSUME NEW b \in Agents
               PROVE  /\ IsInjective(work'[b])
                      /\ \A q \in Range(work'[b]) : AtHome(q, b)' /\ q \notin Range(queue'[b])
                      /\ run'[b].pc # "idle" => IpOf(run[b].r)' = b
    BY Zenon DEF WorkKept
  <2>1. /\ IsInjective(work[b])
        /\ \A q \in Range(work[b]) : AtHome(q, b) /\ q \notin Range(queue[b])
        /\ run[b].pc # "idle" => IpOf(run[b].r) = b
    BY Zenon DEF PlacesInv, WorkKept
  <2>2. run'[b].pc # "idle" => IpOf(run[b].r)' = b
    BY <1>1, <2>1, Zenon DEF IpOf
  <2>3. \A q \in Range(work[b]) : AtHome(q, b)' /\ q \notin Range(queue'[b])
    BY <1>3, <1>7, <1>10, <2>1, Zenon
  <2> QED
    BY <1>1, <2>1, <2>2, <2>3
<1> QED
  BY <1>1, <1>2, <1>9, <1>11, <1>12 DEF PlacesInv

(* Pop: the oldest copy leaves the queue for the heartbeat of its address. *)
LEMMA PopKeeps ==
  ASSUME DispatchInv, PlacesInv, NEW a \in Agents, PopTask(a)
  PROVE  PlacesInv'
<1>1. /\ queue[a] # <<>> /\ queue' = [queue EXCEPT ![a] = Tail(@)]
      /\ hb' = [hb EXCEPT ![a] = [pc |-> "popped", r |-> Head(queue[a])]]
      /\ UNCHANGED <<req, call, work, run, started>>
  BY DEF PopTask, api
<1>2. /\ queue \in [Ips -> Seq(Requests)] /\ DOMAIN hb = Agents /\ a \in Ips
  BY DEF DispatchInv, TypeOK, ServerOK, AgentOK, Ips
<1>3. IsInjective(queue[a]) /\ \A r \in Range(queue[a]) : AtHome(r, a)
  BY <1>2, Zenon DEF PlacesInv, QueuesKept
<1>4. /\ IsInjective(Tail(queue[a])) /\ Range(Tail(queue[a])) \subseteq Range(queue[a])
      /\ Head(queue[a]) \in Range(queue[a]) /\ Head(queue[a]) \notin Range(Tail(queue[a]))
  BY <1>1, <1>2, <1>3, TailCopies, Zenon
<1>5. \A ip \in Ips : queue'[ip] = IF ip = a THEN Tail(queue[ip]) ELSE queue[ip]
  BY <1>1, <1>2, Zenon
<1>6. \A q, ip : AtHome(q, ip) => AtHome(q, ip)'
  BY <1>1 DEF AtHome, IpOf
<1>7. QueuesKept'
  BY <1>4, <1>5, <1>6, Zenon DEF PlacesInv, QueuesKept
<1>8. \A b \in Agents : Range(queue'[b]) \subseteq Range(queue[b])
  BY <1>4, <1>5 DEF Ips
<1> PICK h \in Range(queue[a]) : h = Head(queue[a])
  BY <1>4
<1>9. hb'[a].r = h /\ \A b \in Agents \ {a} : hb'[b] = hb[b]
  BY <1>1, <1>2, Zenon
<1>10. h \notin Range(work[a])
  BY Zenon DEF PlacesInv, WorkKept
<1>11. AtHome(h, a)' /\ h \notin Range(queue'[a]) \cup Range(work'[a])
  BY <1>1, <1>2, <1>3, <1>4, <1>5, <1>6, <1>10, Zenon
<1>12. HeartbeatsKept'
  <2> SUFFICES ASSUME NEW b \in Agents, hb'[b].pc # "idle"
               PROVE  /\ AtHome(hb[b].r, b)'
                      /\ hb'[b].r \notin Range(queue'[b]) \cup Range(work'[b])
    BY Zenon DEF HeartbeatsKept
  <2>1. CASE b = a
    BY <1>9, <1>11, <2>1, Zenon DEF AtHome, IpOf
  <2>2. CASE b # a
    <3>1. hb'[b] = hb[b]
      BY <1>9, <2>2, Zenon
    <3>2. AtHome(hb[b].r, b) /\ hb[b].r \notin Range(queue[b]) \cup Range(work[b])
      BY <3>1, Zenon DEF PlacesInv, HeartbeatsKept
    <3> QED
      <4>1. AtHome(hb[b].r, b)'
        BY <1>1, <3>1, <3>2 DEF AtHome, IpOf
      <4>2. hb'[b].r \notin Range(queue'[b]) \cup Range(work'[b])
        BY <1>1, <1>8, <3>1, <3>2, Zenon
      <4> QED
        BY <4>1, <4>2, Zenon
  <2> QED
    BY <2>1, <2>2
<1>13. WorkKept'
  <2> SUFFICES ASSUME NEW b \in Agents
               PROVE  /\ IsInjective(work'[b])
                      /\ \A q \in Range(work'[b]) : AtHome(q, b)' /\ q \notin Range(queue'[b])
                      /\ run'[b].pc # "idle" => IpOf(run[b].r)' = b
    BY Zenon DEF WorkKept
  <2>1. /\ IsInjective(work[b])
        /\ \A q \in Range(work[b]) : AtHome(q, b) /\ q \notin Range(queue[b])
        /\ run[b].pc # "idle" => IpOf(run[b].r) = b
    BY Zenon DEF PlacesInv, WorkKept
  <2>2. run'[b].pc # "idle" => IpOf(run[b].r)' = b
    BY <1>1, <2>1, Zenon DEF IpOf
  <2>3. \A q \in Range(work[b]) : AtHome(q, b)' /\ q \notin Range(queue'[b])
    BY <1>6, <1>8, <2>1, Zenon
  <2> QED
    BY <1>1, <2>1, <2>2, <2>3
<1> QED
  BY <1>1, <1>7, <1>12, <1>13, Zenon DEF PlacesInv

(* The reply: the heartbeat's copy joins the worker's queue, or is dropped. *)
LEMMA ReceiveKeeps ==
  ASSUME DispatchInv, PlacesInv, NEW a \in Agents, ReceiveTask(a)
  PROVE  PlacesInv'
<1>1. /\ hb[a].pc # "idle" /\ hb' = [hb EXCEPT ![a] = [pc |-> "idle", r |-> None]]
      /\ \/ work' = work
         \/ work' = [work EXCEPT ![a] = Append(@, hb[a].r)]
      /\ UNCHANGED <<req, call, queue, run, started>>
  <2>1. work' = work \/ work' = [work EXCEPT ![a] = Append(@, hb[a].r)]
    <3> DEFINE known == \E i \in DOMAIN work[a] : TidOf(work[a][i]) = TidOf(hb[a].r)
    <3>1. work' = [work EXCEPT ![a] = IF known THEN @ ELSE Append(@, hb[a].r)]
      BY DEF ReceiveTask
    <3>2. work = [b \in Agents |-> work[b]]
      BY DEF DispatchInv, TypeOK, AgentOK
    <3> HIDE DEF known
    <3>3. CASE known
      BY <3>1, <3>2, <3>3, Zenon
    <3>4. CASE ~known
      BY <3>1, <3>2, <3>4, Zenon
    <3> QED
      BY <3>3, <3>4, Zenon
  <2> QED
    BY <2>1 DEF ReceiveTask, api, server
<1>2. /\ work \in [Agents -> Seq(Requests)] /\ DOMAIN hb = Agents /\ hb[a].r \in Requests
  BY <1>1, CopiesKnown, Zenon DEF DispatchInv, TypeOK, AgentOK, Out
<1>3. /\ AtHome(hb[a].r, a) /\ hb[a].r \notin Range(queue[a]) \cup Range(work[a])
      /\ IsInjective(work[a])
  BY <1>1, Zenon DEF PlacesInv, HeartbeatsKept, WorkKept
<1>4. /\ IsInjective(Append(work[a], hb[a].r))
      /\ Range(Append(work[a], hb[a].r)) = Range(work[a]) \cup {hb[a].r}
  BY <1>2, <1>3, AppendCopies
<1>5. /\ \A b \in Agents : b # a => work'[b] = work[b]
      /\ work'[a] = work[a] \/ work'[a] = Append(work[a], hb[a].r)
  BY <1>1, <1>2, Zenon
<1>6. hb'[a].pc = "idle" /\ \A b \in Agents \ {a} : hb'[b] = hb[b]
  BY <1>1, <1>2, Zenon
<1>7. \A q, ip : AtHome(q, ip) => AtHome(q, ip)'
  BY <1>1, Zenon DEF AtHome, IpOf
<1>8. QueuesKept'
  BY <1>1, <1>7, Zenon DEF PlacesInv, QueuesKept
<1>9. HeartbeatsKept'
  BY <1>1, <1>5, <1>6, <1>7, Zenon DEF PlacesInv, HeartbeatsKept
<1>10. WorkKept'
  <2> SUFFICES ASSUME NEW b \in Agents
               PROVE  /\ IsInjective(work'[b])
                      /\ \A q \in Range(work'[b]) : AtHome(q, b)' /\ q \notin Range(queue'[b])
                      /\ run'[b].pc # "idle" => IpOf(run[b].r)' = b
    BY Zenon DEF WorkKept
  <2>1. /\ IsInjective(work[b])
        /\ \A q \in Range(work[b]) : AtHome(q, b) /\ q \notin Range(queue[b])
        /\ run[b].pc # "idle" => IpOf(run[b].r) = b
    BY Zenon DEF PlacesInv, WorkKept
  <2>2. run'[b].pc # "idle" => IpOf(run[b].r)' = b
    BY <1>1, <2>1, Zenon DEF IpOf
  <2>3. CASE work'[b] = work[b]
    BY <1>1, <1>7, <2>1, <2>2, <2>3, Zenon
  <2>4. CASE b = a /\ work'[b] = Append(work[b], hb[b].r)
    BY <1>1, <1>3, <1>4, <1>7, <2>1, <2>2, <2>4, Zenon
  <2> QED
    BY <1>5, <2>3, <2>4
<1> QED
  BY <1>1, <1>8, <1>9, <1>10, Zenon DEF PlacesInv

(* The worker takes the oldest copy of its queue, and of no other place. *)
LEMMA StartKeeps ==
  ASSUME DispatchInv, PlacesInv, NEW a \in Agents, StartTask(a)
  PROVE  PlacesInv'
<1>1. work[a] # <<>>
  BY DEF StartTask
<1>2. /\ work \in [Agents -> Seq(Requests)] /\ queue \in [Ips -> Seq(Requests)]
      /\ run \in [Agents -> [pc : RunPC, r : Requests \cup {None}]]
  BY DEF DispatchInv, TypeOK, ServerOK, AgentOK
<1>3. IsInjective(work[a])
  BY DEF PlacesInv, WorkKept
<1>4. /\ IsInjective(Tail(work[a])) /\ Range(Tail(work[a])) \subseteq Range(work[a])
      /\ Head(work[a]) \in Range(work[a]) /\ Head(work[a]) \notin Range(Tail(work[a]))
  BY <1>1, <1>2, <1>3, TailCopies, Zenon
<1> PICK h \in Range(work[a]) : h = Head(work[a])
  BY <1>4
<1>5. /\ started' = started \cup {h} /\ work' = [work EXCEPT ![a] = Tail(@)]
      /\ run' = run \/ run' = [run EXCEPT ![a] = [pc |-> "record", r |-> h]]
      /\ UNCHANGED <<req, call, queue, hb>>
  BY Zenon DEF StartTask, api, server
<1>6. AtHome(h, a) /\ h \notin Range(queue[a])
  BY Zenon DEF PlacesInv, WorkKept
<1>7. \A q, ip : AtHome(q, ip) /\ q # h => AtHome(q, ip)'
  BY <1>5, Zenon DEF AtHome, IpOf
<1>8. \A ip \in Ips : h \notin Range(queue[ip])
  BY <1>6, Zenon DEF PlacesInv, QueuesKept, AtHome
<1>9. \A b \in Agents : b # a => h \notin Range(work[b])
  BY <1>6, Zenon DEF PlacesInv, WorkKept, AtHome
<1>10. \A b \in Agents : hb[b].pc # "idle" => hb[b].r # h
  BY <1>6 DEF PlacesInv, HeartbeatsKept, AtHome
<1>11. QueuesKept'
  BY <1>5, <1>7, <1>8, Zenon DEF PlacesInv, QueuesKept
<1>12. /\ \A b \in Agents : Range(work'[b]) \subseteq Range(work[b]) \ {h}
       /\ \A b \in Agents : IsInjective(work'[b])
  <2>1. work'[a] = Tail(work[a]) /\ \A b \in Agents \ {a} : work'[b] = work[b]
    BY <1>2, <1>5, Zenon
  <2> QED
    BY <1>4, <1>9, <2>1, Zenon DEF PlacesInv, WorkKept
<1>13. HeartbeatsKept'
  <2> SUFFICES ASSUME NEW b \in Agents, hb'[b].pc # "idle"
               PROVE  /\ AtHome(hb[b].r, b)'
                      /\ hb'[b].r \notin Range(queue'[b]) \cup Range(work'[b])
    BY Zenon DEF HeartbeatsKept
  <2>1. AtHome(hb[b].r, b) /\ hb[b].r \notin Range(queue[b]) \cup Range(work[b])
    BY <1>5, Zenon DEF PlacesInv, HeartbeatsKept
  <2>2. AtHome(hb[b].r, b)'
    BY <1>5, <1>10, <2>1 DEF AtHome, IpOf
  <2>3. hb'[b].r \notin Range(queue'[b]) \cup Range(work'[b])
    BY <1>5, <1>12, <2>1, Zenon
  <2> QED
    BY <2>2, <2>3
<1>14. WorkKept'
  <2> SUFFICES ASSUME NEW b \in Agents
               PROVE  /\ IsInjective(work'[b])
                      /\ \A q \in Range(work'[b]) : AtHome(q, b)' /\ q \notin Range(queue'[b])
                      /\ run'[b].pc # "idle" => IpOf(run[b].r)' = b
    BY Zenon DEF WorkKept
  <2>1. /\ \A q \in Range(work[b]) : AtHome(q, b) /\ q \notin Range(queue[b])
        /\ run[b].pc # "idle" => IpOf(run[b].r) = b
    BY Zenon DEF PlacesInv, WorkKept
  <2>2. run'[b] = run[b] \/ (b = a /\ run'[b].r = h)
    BY <1>2, <1>5
  <2>3. run'[b].pc # "idle" => IpOf(run[b].r)' = b
    BY <1>5, <1>6, <2>1, <2>2, Zenon DEF IpOf, AtHome
  <2>4. \A q \in Range(work'[b]) : AtHome(q, b)' /\ q \notin Range(queue'[b])
    BY <1>5, <1>7, <1>12, <2>1, Zenon
  <2> QED
    BY <1>12, <2>3, <2>4
<1>15. \A r \in started' : call'[r] = "pushed"
  BY <1>5, <1>6 DEF PlacesInv, AtHome
<1> QED
  BY <1>11, <1>13, <1>14, <1>15, Zenon DEF PlacesInv

(* Every step keeps CopiesInv. *)
LEMMA CopiesNext ==
  ASSUME DispatchInv, CopiesInv, [Next]_vars
  PROVE  CopiesInv'
<1>1. PlacesInv
  BY DEF CopiesInv, PlacesInv
<1>2. PlacesInv'
  BY <1>1, PushKeeps, PopKeeps, ReceiveKeeps, StartKeeps, OtherStepsLose, LosingKeeps, Zenon
<1> QED
  BY <1>2, AddressesNext, Zenon DEF CopiesInv, PlacesInv

(* CopiesInv is invariant: through retries, timeouts, orphaned heartbeats  *)
(* and restarts, no copy is in two places, and each is at its own address. *)
THEOREM CopiesInvariance == Spec => []CopiesInv
<1>1. Init => CopiesInv
  <2>1. IsInjective(<<>>) /\ Range(<<>>) = {}
    BY DEF IsInjective, Range
  <2> QED
    BY <2>1 DEF Init, CopiesInv, QueuesKept, HeartbeatsKept, WorkKept
<1>2. DispatchInv /\ CopiesInv /\ [Next]_vars => CopiesInv'
  BY CopiesNext
<1> QED
  BY <1>1, <1>2, Invariance, PTL DEF Spec

(* An agent executes only tasks created for it: the address of the copy it *)
(* runs is its own, and a copy has its row's address or none.              *)
THEOREM RunsAtHome == Spec => []RunsOnOwnAgent
<1>1. DispatchInv /\ CopiesInv => RunsOnOwnAgent
  <2> SUFFICES ASSUME DispatchInv, CopiesInv, NEW a \in Agents, run[a].pc # "idle"
               PROVE  target[TidOf(run[a].r)] = a
    BY Zenon DEF RunsOnOwnAgent
  <2>1. run[a].r \in Requests /\ req[run[a].r].pc # "idle"
    BY CopiesKnown, Zenon DEF Out
  <2>2. IpOf(run[a].r) = a /\ a # NoIP
    BY ConstantsAssumption DEF CopiesInv, WorkKept
  <2> QED
    BY <2>1, <2>2, Zenon DEF CopiesInv
<1> QED
  BY <1>1, Invariance, CopiesInvariance, PTL

(* One CreateTask call starts at most one execution: whatever places hold  *)
(* copies, they hold different ones, and none that has been started.       *)
THEOREM RunsAtMostOnce == Spec => []DispatchRunsAtMostOnce
<1>1. CopiesInv => DispatchRunsAtMostOnce
  <2> SUFFICES ASSUME CopiesInv, NEW s \in Slots
               PROVE  /\ CopyAt(s) \notin started
                      /\ \A o \in Slots \ {s} : CopyAt(o) # CopyAt(s)
    BY DEF DispatchRunsAtMostOnce
  <2> DEFINE Queued(x, ip, i) == ip \in Ips /\ i \in DOMAIN queue[ip] /\ x = <<"queue", ip, i>>
             Beating(x, a)    == a \in Agents /\ hb[a].pc # "idle" /\ x = <<"heartbeat", a, 0>>
             Waiting(x, a, i) == a \in Agents /\ i \in DOMAIN work[a] /\ x = <<"work", a, i>>
  <2>1. ASSUME NEW x \in Slots
        PROVE  \/ \E ip, i : Queued(x, ip, i)
               \/ \E a : Beating(x, a)
               \/ \E a, i : Waiting(x, a, i)
    <3>1. CASE \E ip \in Ips : x \in {<<"queue", ip, i>> : i \in DOMAIN queue[ip]}
      BY <3>1, Zenon
    <3>2. CASE x \in {<<"heartbeat", a, 0>> : a \in {b \in Agents : hb[b].pc # "idle"}}
      BY <3>2
    <3>3. CASE \E a \in Agents : x \in {<<"work", a, i>> : i \in DOMAIN work[a]}
      BY <3>3, Zenon
    <3>4. x \in UNION {{<<"queue", ip, i>> : i \in DOMAIN queue[ip]} : ip \in Ips}
            => \E ip \in Ips : x \in {<<"queue", ip, i>> : i \in DOMAIN queue[ip]}
      OBVIOUS
    <3>5. x \in UNION {{<<"work", a, i>> : i \in DOMAIN work[a]} : a \in Agents}
            => \E a \in Agents : x \in {<<"work", a, i>> : i \in DOMAIN work[a]}
      BY Zenon
    <3>6. \/ x \in UNION {{<<"queue", ip, i>> : i \in DOMAIN queue[ip]} : ip \in Ips}
          \/ x \in {<<"heartbeat", a, 0>> : a \in {b \in Agents : hb[b].pc # "idle"}}
          \/ x \in UNION {{<<"work", a, i>> : i \in DOMAIN work[a]} : a \in Agents}
      BY DEF Slots
    <3> HIDE DEF Queued, Beating, Waiting
    <3> QED
      BY <3>1, <3>2, <3>3, <3>4, <3>5, <3>6, Zenon
  <2>2. ASSUME NEW x, NEW ip, NEW i, Queued(x, ip, i)
        PROVE  CopyAt(x) = queue[ip][i] /\ CopyAt(x) \in Range(queue[ip]) /\ AtHome(CopyAt(x), ip)
    BY <2>2 DEF CopyAt, Range, CopiesInv, QueuesKept
  <2>3. ASSUME NEW x, NEW a, Beating(x, a)
        PROVE  /\ CopyAt(x) = hb[a].r /\ AtHome(CopyAt(x), a)
               /\ CopyAt(x) \notin Range(queue[a]) \cup Range(work[a])
    BY <2>3 DEF CopyAt, CopiesInv, HeartbeatsKept
  <2>4. ASSUME NEW x, NEW a, NEW i, Waiting(x, a, i)
        PROVE  /\ CopyAt(x) = work[a][i] /\ CopyAt(x) \in Range(work[a])
               /\ AtHome(CopyAt(x), a) /\ CopyAt(x) \notin Range(queue[a])
    BY <2>4, Zenon DEF CopyAt, Range, CopiesInv, WorkKept
  <2>5. /\ \A ip \in Ips : IsInjective(queue[ip])
        /\ \A a \in Agents : IsInjective(work[a])
    BY DEF CopiesInv, QueuesKept, WorkKept
  <2> HIDE DEF Queued, Beating, Waiting
  <2>6. CopyAt(s) \notin started
    BY <2>1, <2>2, <2>3, <2>4, Zenon DEF AtHome
  <2>7. ASSUME NEW o \in Slots, CopyAt(o) = CopyAt(s)
        PROVE  o = s
    <3>1. \A x, ip : AtHome(CopyAt(s), x) /\ AtHome(CopyAt(o), ip) => x = ip
      BY <2>7, Zenon DEF AtHome
    <3>2. ASSUME NEW ip, NEW i, Queued(s, ip, i)
          PROVE  o = s
      <4>0. CopyAt(s) \in Range(queue[ip]) /\ AtHome(CopyAt(s), ip)
        BY <2>2, <3>2
      <4>1. PICK p, j : Queued(o, p, j)
        <5>1. ASSUME NEW a, Beating(o, a) PROVE FALSE
          BY <2>3, <2>7, <3>1, <4>0, <5>1, Zenon
        <5>2. ASSUME NEW a, NEW j, Waiting(o, a, j) PROVE FALSE
          BY <2>4, <2>7, <3>1, <4>0, <5>2, Zenon
        <5> QED
          BY <2>1, <5>1, <5>2, Zenon
      <4>2. p = ip /\ queue[ip][i] = queue[ip][j]
        BY <2>2, <2>7, <3>1, <3>2, <4>1, Zenon
      <4> QED
        BY <2>5, <3>2, <4>1, <4>2, Zenon DEF IsInjective, Queued
    <3>3. ASSUME NEW a, Beating(s, a)
          PROVE  o = s
      <4>0. AtHome(CopyAt(s), a) /\ CopyAt(s) \notin Range(queue[a]) \cup Range(work[a])
        BY <2>3, <3>3
      <4>1. PICK b : Beating(o, b)
        <5>1. ASSUME NEW ip, NEW j, Queued(o, ip, j) PROVE FALSE
          BY <2>2, <2>7, <3>1, <4>0, <5>1, Zenon
        <5>2. ASSUME NEW b, NEW j, Waiting(o, b, j) PROVE FALSE
          BY <2>4, <2>7, <3>1, <4>0, <5>2, Zenon
        <5> QED
          BY <2>1, <5>1, <5>2, Zenon
      <4>2. b = a
        BY <2>3, <3>1, <3>3, <4>1, Zenon
      <4> QED
        BY <3>3, <4>1, <4>2, Zenon DEF Beating
    <3>4. ASSUME NEW a, NEW i, Waiting(s, a, i)
          PROVE  o = s
      <4>0. /\ CopyAt(s) \in Range(work[a]) /\ AtHome(CopyAt(s), a)
            /\ CopyAt(s) \notin Range(queue[a])
        BY <2>4, <3>4, Zenon
      <4>1. PICK b, j : Waiting(o, b, j)
        <5>1. ASSUME NEW ip, NEW j, Queued(o, ip, j) PROVE FALSE
          BY <2>2, <2>7, <3>1, <4>0, <5>1, Zenon
        <5>2. ASSUME NEW b, Beating(o, b) PROVE FALSE
          BY <2>3, <2>7, <3>1, <4>0, <5>2, Zenon
        <5> QED
          BY <2>1, <5>1, <5>2, Zenon
      <4>2. b = a /\ work[a][i] = work[a][j]
        BY <2>4, <2>7, <3>1, <3>4, <4>1
      <4> QED
        BY <2>5, <3>4, <4>1, <4>2, Zenon DEF IsInjective, Waiting
    <3> QED
      BY <2>1, <3>2, <3>3, <3>4, Zenon
  <2> QED
    BY <2>6, <2>7
<1> QED
  BY <1>1, CopiesInvariance, PTL
-----------------------------------------------------------------------------
(***************************************************************************)
(* The proof that TaskDispatch implements TaskLedger: every step of the    *)
(* three programs is, seen through the task table, a step of the ledger or *)
(* none at all.  Only five kinds of step can be seen: the insertion of a   *)
(* row (Appear), its first history row (AuditCreation), a soft delete      *)
(* (Hide), and the status writes of apiserver and of drop_server (Move).   *)
(* What makes the writes legal moves is ReadsAreGenuine, the part of the   *)
(* inductive invariant about the status that a writer goes by.             *)
(***************************************************************************)

(* TaskLedger has its own copies of the definitions of TaskStatus. *)
LEMMA SameSymbols ==
  /\ Ledger!NoRow = NoRow /\ Ledger!Hidden = Hidden /\ Ledger!PENDING = PENDING
  /\ Ledger!Status = Status
  /\ \A h : Ledger!Had(h) = Had(h)
  /\ \A old, new : Ledger!IsTransitionAllowed(old, new) <=> IsTransitionAllowed(old, new)
BY DEF NoRow, Hidden, Status, PENDING, RUNNING, UPLOADING, DONE, FAILED, Had, IsTransitionAllowed,
       Ledger!NoRow, Ledger!Hidden, Ledger!Status, Ledger!PENDING, Ledger!RUNNING,
       Ledger!UPLOADING, Ledger!DONE, Ledger!FAILED, Ledger!Had, Ledger!IsTransitionAllowed

(* Empty tables are an empty ledger.                                       *)
LEMMA InitRefines == Init => Ledger!LInit
BY SameSymbols DEF Init, Ledger!LInit

(* A write of the status column with its history row is a Move. *)
LEMMA WriteRefines ==
  ASSUME DispatchInv, NEW t \in Tasks, NEW old \in Had(history[t]), NEW new \in Status,
         Row(t), IsTransitionAllowed(old, new), Log(t, old, new), UNCHANGED deleted,
         status' = IF t \in deleted THEN status' ELSE [status EXCEPT ![t] = new],
         \A x \in Tasks \ {t} : status'[x] = status[x]
  PROVE  Ledger!LNext
<1> DEFINE shown == [x \in Tasks |-> IF x \in deleted THEN Hidden ELSE status[x]]
<1>1. status \in [Tasks -> Status \cup {NoRow}]
  BY DEF DispatchInv, TypeOK, StoreOK
<1>2. shown[t] # NoRow
  BY StatusFacts DEF Row
<1>3. shown' = [shown EXCEPT ![t] = IF @ = Hidden THEN Hidden ELSE new]
  <2>1. CASE t \in deleted
    BY <2>1
  <2>2. CASE t \notin deleted
    <3>1. status[t] # Hidden /\ status'[t] = new
      BY <1>1, <2>2, StatusFacts
    <3>2. QED
      BY <2>2, <3>1, Zenon
  <2>3. QED
    BY <2>1, <2>2
<1>4. Ledger!Audit(t, old, new)
  BY DEF Log, Ledger!Audit
<1>5. Ledger!Move(t, new)
  BY <1>2, <1>3, <1>4, SameSymbols DEF Ledger!Move
<1>6. QED
  BY <1>5, SameSymbols DEF Ledger!LNext

(* PGStore::UpdateTaskStatus, by whichever handler. *)
LEMMA UpdateRefines ==
  ASSUME DispatchInv, NEW r \in Out, NEW new \in Status,
         UpdateTaskStatus(TidOf(r), new), UNCHANGED deleted
  PROVE  [Ledger!LNext]_(Ledger!lvars)
<1> DEFINE t == TidOf(r)
<1>1. t \in Tasks /\ Row(t) /\ status \in [Tasks -> Status \cup {NoRow}]
  BY OutKnown DEF DispatchInv, TypeOK, StoreOK
<1>2. CASE UNCHANGED <<status, history>>
  BY <1>2 DEF Ledger!lvars
<1>3. CASE /\ IsTransitionAllowed(status[t], new)
           /\ status' = [status EXCEPT ![t] = new]
           /\ Log(t, status[t], new)
  <2>1. status[t] \in Had(history[t])
    BY <1>1 DEF DispatchInv, ReadsAreGenuine
  <2> HIDE DEF t
  <2>2. \A x \in Tasks \ {t} : status'[x] = status[x]
    BY <1>1, <1>3
  <2>3. QED
    BY <1>1, <1>3, <2>1, <2>2, WriteRefines, Zenon
<1>4. QED
  BY <1>2, <1>3 DEF UpdateTaskStatus

(* Every step of TaskDispatch is a step of the ledger or leaves it alone.  *)
LEMMA NextRefines ==
  DispatchInv /\ [Next]_vars => [Ledger!LNext]_(Ledger!lvars)
<1>z. SUFFICES ASSUME DispatchInv, [Next]_vars
              PROVE  [Ledger!LNext]_(Ledger!lvars)
  OBVIOUS
<1>i. DispatchInv
  BY <1>z
<1> DEFINE shown == [x \in Tasks |-> IF x \in deleted THEN Hidden ELSE status[x]]
<1>a. /\ status \in [Tasks -> Status \cup {NoRow}] /\ deleted \subseteq Tasks
      /\ CopiesAreOut /\ RowsExist /\ CreatorIsAlone /\ ReadsAreGenuine
  BY <1>i DEF DispatchInv, TypeOK, StoreOK
<1>b. ASSUME UNCHANGED <<status, deleted, history>> PROVE UNCHANGED Ledger!lvars
  BY <1>b DEF Ledger!lvars
<1>1. ASSUME NEW r \in Requests, NEW t \in Tasks, NEW ip \in Agents, NEW s \in Ips,
             NEW k \in {"single", "continuous"}, Insert(r, t, ip, s, k)
      PROVE  [Ledger!LNext]_(Ledger!lvars)
  <2>1. t \notin deleted /\ status[t] = NoRow
    BY <1>1, <1>a DEF Insert, RowsExist, Row
  <2>2. shown[t] = NoRow /\ shown' = [shown EXCEPT ![t] = PENDING]
    <3>1. status' = [status EXCEPT ![t] = PENDING] /\ deleted' = deleted
      BY <1>1 DEF Insert
    <3>2. QED
      BY <1>a, <2>1, <3>1, Zenon
  <2>3. Ledger!Appear(t)
    BY <1>1, <2>2, SameSymbols DEF Insert, Ledger!Appear
  <2>4. QED
    BY <2>3, SameSymbols DEF Ledger!LNext
<1>2. ASSUME NEW t \in Tasks, DeleteTask(t) PROVE [Ledger!LNext]_(Ledger!lvars)
  <2>1. t \notin deleted /\ status[t] \in Status
    BY <1>2, <1>a DEF DeleteTask, Live, Row
  <2>2. shown[t] \in Status /\ shown' = [shown EXCEPT ![t] = Hidden]
    <3>1. deleted' = deleted \cup {t} /\ status' = status
      BY <1>2 DEF DeleteTask
    <3>2. QED
      BY <1>a, <2>1, <3>1, Zenon
  <2>3. Ledger!Hide(t)
    BY <1>2, <2>2, SameSymbols DEF DeleteTask, Ledger!Hide
  <2>4. QED
    BY <2>3, SameSymbols DEF Ledger!LNext
<1>3. ASSUME NEW r \in Requests, LogCreated(r) PROVE [Ledger!LNext]_(Ledger!lvars)
  <2>1. CASE UNCHANGED history
    BY <1>3, <1>b, <2>1 DEF LogCreated
  <2>2. CASE Log(TidOf(r), NoRow, PENDING)
    <3> DEFINE t == TidOf(r)
    <3>1. t \in Tasks /\ status[t] = PENDING /\ history[t] = <<>>
      BY <1>3, <1>a DEF LogCreated, RowsExist, CreatorIsAlone
    <3>2. shown[t] \in {PENDING, Hidden} /\ shown' = shown
      BY <1>3, <3>1, ZenonT(30) DEF LogCreated
    <3>3. Ledger!AuditCreation(t)
      BY <2>2, <3>1, <3>2, SameSymbols DEF Log, Ledger!AuditCreation, Ledger!Audit
    <3> HIDE DEF t
    <3>4. QED
      BY <3>1, <3>3, SameSymbols DEF Ledger!LNext
  <2>3. QED
    BY <1>3, <2>1, <2>2 DEF LogCreated
<1>4. ASSUME NEW r \in Requests, GoWrite(r) PROVE [Ledger!LNext]_(Ledger!lvars)
  <2> DEFINE t == TidOf(r)
             new == NewStatus(r)
             old == req[r].seen
  <2>1. /\ t \in Tasks /\ Row(t) /\ new \in Status
        /\ old \in Had(history[t]) /\ IsTransitionAllowed(old, new)
    BY <1>4, <1>a, StatusFacts DEF GoWrite, RowsExist, ReadsAreGenuine, NewStatus
  <2>2. /\ status' = IF t \in deleted THEN status ELSE [status EXCEPT ![t] = new]
        /\ Log(t, old, new) /\ UNCHANGED deleted
    BY <1>4 DEF GoWrite
  <2> HIDE DEF t, new, old
  <2>3. /\ status' = IF t \in deleted THEN status' ELSE [status EXCEPT ![t] = new]
        /\ \A x \in Tasks \ {t} : status'[x] = status[x]
    BY <1>a, <2>1, <2>2
  <2>4. QED
    BY <1>i, <2>1, <2>2, <2>3, WriteRefines
<1>5. ASSUME NEW r \in Out, NEW new \in Status, ServerUpdates(r, new)
      PROVE  [Ledger!LNext]_(Ledger!lvars)
  BY <1>i, <1>5, UpdateRefines DEF ServerUpdates
<1> QED
  BY <1>z, <1>b, <1>1, <1>2, <1>3, <1>4, <1>5, RowSteps, Zenon

(***************************************************************************)
(* LedgerKept holds for every number of tasks, agents, requests and        *)
(* faults.                                                                 *)
(***************************************************************************)
THEOREM Refinement == Spec => LedgerKept
<1>1. Init => Ledger!LInit
  BY InitRefines
<1>2. DispatchInv /\ [Next]_vars => [Ledger!LNext]_(Ledger!lvars)
  BY NextRefines
<1>3. QED
  BY <1>1, <1>2, Invariance, PTL DEF Spec, LedgerKept, Ledger!LSpec
=============================================================================
