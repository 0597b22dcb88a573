------------------------ MODULE ChildWatchdog_proofs ------------------------
(***************************************************************************)
(* Proofs about ChildWatchdog for every set of descendant processes.  The  *)
(* properties are not inductive: that a success was never signalled rests  *)
(* on join() having returned, on child_done being set only after the child *)
(* was reaped, and on timed_out being set with the first signal, which is  *)
(* what WatchdogInv says.                                                  *)
(***************************************************************************)
EXTENDS ChildWatchdog, TLAPS

USE SMTT(20), ZenonT(20)

(* Every step keeps the types: the signal count stays at two because the   *)
(* watchdog waits twice, the attempts because only the first one retries.  *)
LEMMA TypeNext == TypeOK /\ WatchdogInv /\ [Next]_vars => TypeOK'
<1> SUFFICES ASSUME TypeOK, WatchdogInv, [Next]_vars PROVE TypeOK'
  OBVIOUS
<1> USE DEF TypeOK, Tools, ExitKinds
<1>1. CASE ChildWorks  BY <1>1 DEF ChildWorks
<1>2. CASE ChildExits  BY <1>2 DEF ChildExits
<1>3. ASSUME NEW d \in Descendants, DescendantExits(d) PROVE TypeOK'
  BY <1>3 DEF DescendantExits
<1>4. CASE DeadlinePasses  BY <1>4 DEF DeadlinePasses
<1>5. CASE WatchdogTerm
  <2>1. ~timedOut
    BY <1>5 DEF WatchdogTerm, WatchdogInv
  <2>2. signals = 0
    BY <2>1 DEF WatchdogInv
  <2>3. signals' \in 0..2
    BY <1>5, <2>2 DEF WatchdogTerm
  <2>4. timedOut' \in BOOLEAN /\ due' \in BOOLEAN /\ watchdog' = "untilKill"
    BY <1>5, Zenon DEF WatchdogTerm
  <2>5. UNCHANGED <<tool, tries, leader, exit, alive, doomed, file, worker,
                    childDone, result>>
    BY <1>5 DEF WatchdogTerm
  <2> QED
    BY <2>3, <2>4, <2>5
<1>6. CASE WatchdogKill  BY <1>6 DEF WatchdogKill, WatchdogInv, Group
<1>7. CASE WatchdogEnds  BY <1>7 DEF WatchdogEnds
<1>8. CASE StartFails  BY <1>8 DEF StartFails
<1>9. CASE Fork
  <2>1. tries < 2
    BY <1>9 DEF Fork, WatchdogInv
  <2>2. tries' \in 0..2 /\ signals' \in 0..2
    BY <1>9, <2>1 DEF Fork
  <2> QED
    BY <1>9, <2>2, Zenon DEF Fork
<1>10. CASE Reap  BY <1>10 DEF Reap
<1>11. CASE SetDone  BY <1>11 DEF SetDone
<1>12. CASE JoinAndDecide  BY <1>12 DEF JoinAndDecide, Outcome, Verdict
<1>13. CASE UNCHANGED vars  BY <1>13 DEF vars
<1> QED
  BY <1>1, <1>2, <1>3, <1>4, <1>5, <1>6, <1>7, <1>8, <1>9, <1>10, <1>11, <1>12,
     <1>13 DEF Next

(* Every step of the child, the watchdog and the thread in record() keeps  *)
(* the inductive invariant.                                                *)
LEMMA InvNext == TypeOK /\ WatchdogInv /\ [Next]_vars => WatchdogInv'
<1> SUFFICES ASSUME TypeOK, WatchdogInv, [Next]_vars PROVE WatchdogInv'
  OBVIOUS
<1> USE DEF TypeOK, Tools, ExitKinds, WatchdogInv, SuccessIsGenuine
<1>1. CASE ChildWorks  BY <1>1 DEF ChildWorks
<1>2. CASE ChildExits  BY <1>2 DEF ChildExits
<1>3. ASSUME NEW d \in Descendants, DescendantExits(d) PROVE WatchdogInv'
  BY <1>3 DEF DescendantExits
<1>4. CASE DeadlinePasses  BY <1>4 DEF DeadlinePasses
<1>5. CASE WatchdogTerm  BY <1>5 DEF WatchdogTerm
<1>6. CASE WatchdogKill  BY <1>6 DEF WatchdogKill
<1>7. CASE WatchdogEnds  BY <1>7 DEF WatchdogEnds
<1>8. CASE StartFails  BY <1>8 DEF StartFails
<1>9. CASE Fork  BY <1>9 DEF Fork
<1>10. CASE Reap  BY <1>10 DEF Reap
<1>11. CASE SetDone  BY <1>11 DEF SetDone
<1>12. CASE JoinAndDecide  BY <1>12 DEF JoinAndDecide, Outcome, Verdict, TriesAgain
<1>13. CASE UNCHANGED vars  BY <1>13 DEF vars
<1> QED
  BY <1>1, <1>2, <1>3, <1>4, <1>5, <1>6, <1>7, <1>8, <1>9, <1>10, <1>11, <1>12,
     <1>13 DEF Next

(* In every behaviour of record() the types and the inductive invariant    *)
(* hold.                                                                   *)
THEOREM Invariance == Spec => [](TypeOK /\ WatchdogInv)
<1>1. Init => TypeOK /\ WatchdogInv
  <2> SUFFICES ASSUME Init PROVE TypeOK /\ WatchdogInv
    OBVIOUS
  <2> USE DEF Init
  <2>1. TypeOK
    <3>1. tries \in 0..2 /\ signals \in 0..2
      OBVIOUS
    <3> QED
      BY <3>1, Zenon DEF TypeOK, Tools, ExitKinds
  <2>2. WatchdogInv
    BY DEF WatchdogInv, SuccessIsGenuine
  <2> QED
    BY <2>1, <2>2
<1> QED
  BY <1>1, TypeNext, InvNext, PTL DEF Spec

(* The first half of it: every reachable state is well typed, with at most *)
(* two attempts and two signals each.                                      *)
THEOREM TypeCorrect == Spec => []TypeOK
  BY Invariance, PTL

(* record() reports success only for a child that ended with code 0 and    *)
(* was never signalled, whatever the timing of the deadline.               *)
THEOREM SuccessGenuine == Spec => []SuccessIsGenuine
<1>1. WatchdogInv => SuccessIsGenuine
  BY DEF WatchdogInv
<1> QED
  BY <1>1, Invariance, PTL

(* The watchdog sends no signal once record() has returned, or between     *)
(* perf's two attempts: join() has ended it.                               *)
THEOREM NoSignalIsLate == Spec => NoLateSignal
<1> DEFINE Step == (worker \in {"returned", "fork"}) => signals' <= signals
<1>1. TypeOK /\ WatchdogInv /\ [Next]_vars => [Step]_vars
  <2> SUFFICES ASSUME TypeOK, WatchdogInv, Next, worker \in {"returned", "fork"}
               PROVE  signals' <= signals
    OBVIOUS
  <2> USE DEF TypeOK
  <2>1. CASE UNCHANGED signals
    BY <2>1
  <2>2. CASE Fork
    BY <2>2 DEF Fork
  <2>3. ~WatchdogTerm /\ ~WatchdogKill
    BY DEF WatchdogTerm, WatchdogKill, WatchdogInv
  <2> QED
    BY <2>1, <2>2, <2>3 DEF Next, ChildWorks, ChildExits, DescendantExits,
       DeadlinePasses, WatchdogEnds, StartFails, Reap, SetDone, JoinAndDecide
<1> QED
  BY <1>1, Invariance, PTL DEF Spec, NoLateSignal

(* A timeout that went as far as SIGKILL leaves no running descendant that *)
(* SIGKILL has not reached, however many there are: while the group dies   *)
(* the child, reached as well, starts no other.                            *)
THEOREM KilledTreeDies == Spec => []KilledTreeIsDead
<1> DEFINE Killed == signals = 2 => /\ alive \subseteq doomed
                                    /\ leader = "alive" => "child" \in doomed
<1>1. Init => Killed
  BY DEF Init
<1>2. TypeOK /\ WatchdogInv /\ Killed /\ [Next]_vars => Killed'
  <2> SUFFICES ASSUME TypeOK, WatchdogInv, Killed, [Next]_vars PROVE Killed'
    OBVIOUS
  <2> USE DEF TypeOK
  <2>1. CASE ChildWorks  BY <2>1 DEF ChildWorks
  <2>2. CASE \E d \in Descendants : DescendantExits(d)  BY <2>2 DEF DescendantExits
  <2>3. CASE WatchdogTerm  BY <2>3 DEF WatchdogTerm, WatchdogInv
  <2>4. CASE WatchdogKill  BY <2>4 DEF WatchdogKill, Group
  <2>5. CASE Fork  BY <2>5 DEF Fork
  <2>6. CASE ChildExits \/ Reap  BY <2>6 DEF ChildExits, Reap
  <2>7. CASE UNCHANGED <<signals, alive, doomed, leader>>  BY <2>7
  <2> QED
    BY <2>1, <2>2, <2>3, <2>4, <2>5, <2>6, <2>7 DEF Next, DeadlinePasses,
       WatchdogEnds, StartFails, SetDone, JoinAndDecide, vars
<1>3. Killed => KilledTreeIsDead
  BY DEF KilledTreeIsDead
<1> QED
  BY <1>1, <1>2, <1>3, Invariance, PTL DEF Spec
=============================================================================
