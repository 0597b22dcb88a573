---------------------- MODULE ContinuousSegments_proofs ----------------------
(***************************************************************************)
(* Proofs about ContinuousSegments for any segment length, length of the   *)
(* recording and number of failures.  What a window finds and what is      *)
(* counted once are not inductive: both rest on the order of the times     *)
(* record() and flush_segment read, on the map holding only bursts later   *)
(* than every stored one, and on each segment's key being fresh.           *)
(***************************************************************************)
EXTENDS ContinuousSegments, TLAPS

USE SegmentsAssumption, SMTT(20), ZenonT(20)

(* Every step keeps the types. *)
LEMMA TypeNext == TypeOK /\ [Next]_vars => TypeOK'
<1> SUFFICES ASSUME TypeOK, [Next]_vars PROVE TypeOK'
  OBVIOUS
<1> USE DEF TypeOK, Works, Fault, NextSegment
<1>1. CASE Tick  BY <1>1 DEF Tick, Time
<1>2. CASE BeginBurst  BY <1>2 DEF BeginBurst
<1>3. CASE EndBurst  BY <1>3 DEF EndBurst, Bursts
<1>4. CASE MergeCollapsed  BY <1>4 DEF MergeCollapsed
<1>5. CASE CheckSegment  BY <1>5 DEF CheckSegment
<1>6. CASE WriteSegment
  <2>1. start' \in {start, nowTs} /\ endTs' = now
    BY <1>6, Zenon DEF WriteSegment
  <2>2. {now, start, from, nowTs, endTs}' \subseteq Time
    BY <1>6, <2>1 DEF WriteSegment
  <2>3. faults' \in Nat
    BY <1>6 DEF WriteSegment
  <2>4. unwritten' \in BOOLEAN
    BY <1>6, Zenon DEF WriteSegment
  <2>5. pc' \in {"upload", "begin"} /\ segFile' \in {segFile, stacks} /\ stacks' \subseteq stacks
    BY <1>6 DEF WriteSegment
  <2> QED
    BY <1>6, <2>2, <2>3, <2>4, <2>5 DEF WriteSegment
<1>7. CASE UploadSegment  BY <1>7 DEF UploadSegment, UploadTaskFile
<1>8. CASE RegisterSegment  BY <1>8 DEF RegisterSegment, CreateSegment
<1>9. CASE AgentCrash  BY <1>9 DEF AgentCrash
<1>10. CASE UNCHANGED vars  BY <1>10 DEF vars
<1> QED
  BY <1>1, <1>2, <1>3, <1>4, <1>5, <1>6, <1>7, <1>8, <1>9, <1>10 DEF Next

(* Every step keeps the order of the times. *)
LEMMA TimesNext == TypeOK /\ TimesKept /\ [Next]_vars => TimesKept'
  BY DEF TypeOK, Time, TimesKept, Next, vars, Tick, BeginBurst, EndBurst, MergeCollapsed,
         CheckSegment, WriteSegment, UploadSegment, RegisterSegment, AgentCrash,
         NextSegment

(* Every step keeps the bursts in memory inside their segment. *)
LEMMA BurstsNext ==
  TypeOK /\ TimesKept /\ BurstsKept /\ [Next]_vars => BurstsKept'
<1> SUFFICES ASSUME TypeOK, TimesKept, BurstsKept, [Next]_vars PROVE BurstsKept'
  OBVIOUS
<1> USE DEF TypeOK, Time, Bursts, TimesKept, BurstsKept, NextSegment
<1>1. CASE Tick  BY <1>1 DEF Tick
<1>2. CASE BeginBurst  BY <1>2 DEF BeginBurst
<1>3. CASE EndBurst  BY <1>3 DEF EndBurst
<1>4. CASE MergeCollapsed  BY <1>4 DEF MergeCollapsed
<1>5. CASE CheckSegment  BY <1>5 DEF CheckSegment
<1>6. CASE WriteSegment  BY <1>6 DEF WriteSegment
<1>7. CASE UploadSegment  BY <1>7 DEF UploadSegment
<1>8. CASE RegisterSegment  BY <1>8 DEF RegisterSegment
<1>9. CASE AgentCrash  BY <1>9 DEF AgentCrash
<1>10. CASE UNCHANGED vars  BY <1>10 DEF vars
<1> QED
  BY <1>1, <1>2, <1>3, <1>4, <1>5, <1>6, <1>7, <1>8, <1>9, <1>10 DEF Next

(* A burst's times are numbers, wherever it is kept. *)
LEMMA BurstTimes ==
  ASSUME TypeOK
  PROVE  /\ \A b \in Bursts : b[1] \in Nat /\ b[2] \in Nat
         /\ \A b \in file \cup stacks \cup segFile : b \in Bursts
         /\ \A k \in Time : \A b \in objects[k] : b \in Bursts
  BY DEF TypeOK, Bursts, Time

(* Every step keeps the stored bursts before the present segment. *)
LEMMA OrderedNext ==
  TypeOK /\ TimesKept /\ BurstsKept /\ ObjectsOrdered /\ [Next]_vars => ObjectsOrdered'
<1> SUFFICES ASSUME TypeOK, TimesKept, BurstsKept, ObjectsOrdered, [Next]_vars
             PROVE  ObjectsOrdered'
  OBVIOUS
<1>1. start \in Nat /\ nowTs \in Nat /\ start \in Time /\ Time \subseteq Nat
  BY DEF TypeOK, Time
<1>2. ASSUME pc \in {"flush", "upload", "register"}, start' = nowTs, pc' = "begin",
             \A k \in Time : objects'[k] = objects[k] \/ k = start,
             \A b \in objects'[start] : b \in Bursts /\ b[2] <= nowTs
      PROVE  ObjectsOrdered'
  <2>1. start < nowTs
    BY <1>2 DEF TimesKept
  <2>2. \A k \in Time : k > start' \/ k = start' => objects'[k] = {}
    <3> SUFFICES ASSUME NEW k \in Time, k > start' \/ k = start' PROVE objects'[k] = {}
      OBVIOUS
    <3>1. k > start
      BY <1>1, <1>2, <2>1
    <3>2. objects'[k] = objects[k]
      BY <1>1, <1>2, <3>1
    <3> QED
      BY <3>1, <3>2 DEF ObjectsOrdered
  <2>3. \A k \in Time : \A b \in objects'[k] : b[2] <= start'
    <3> SUFFICES ASSUME NEW k \in Time, k # start, NEW b \in objects'[k]
                 PROVE  b[2] <= nowTs
      BY <1>2
    <3>1. b \in objects[k]
      BY <1>2
    <3>2. k < start /\ b[2] <= start
      BY <1>1, <3>1 DEF ObjectsOrdered
    <3>3. b[2] \in Nat
      BY <3>1, BurstTimes
    <3> QED
      BY <1>1, <2>1, <3>2, <3>3
  <2> QED
    BY <1>2, <2>2, <2>3 DEF ObjectsOrdered
<1>3. CASE UNCHANGED <<start, objects>> /\ pc' # "register" /\ pc # "register"
  BY <1>3 DEF ObjectsOrdered, Next, vars, Tick, BeginBurst, EndBurst, MergeCollapsed,
              CheckSegment, WriteSegment, UploadSegment, RegisterSegment, AgentCrash
<1>4. CASE WriteSegment /\ NextSegment
  <2>1. objects[start] = {} /\ objects' = objects
    BY <1>1, <1>4 DEF WriteSegment, ObjectsOrdered
  <2> QED
    BY <1>2, <1>4, <2>1 DEF WriteSegment, NextSegment
<1>5. CASE UploadSegment /\ UploadTaskFile
  <2>1. \A k \in Time : objects'[k] = IF k = start THEN segFile ELSE objects[k]
    BY <1>5 DEF UploadTaskFile, TypeOK
  <2>2. \A b \in segFile : b \in Bursts /\ b[2] <= nowTs
    BY <1>5, BurstTimes DEF UploadSegment, BurstsKept
  <2>3. CASE NextSegment
    BY <1>1, <1>2, <1>5, <2>1, <2>2, <2>3 DEF UploadSegment, NextSegment
  <2>4. CASE pc' = "register" /\ UNCHANGED start
    BY <1>1, <1>5, <2>1, <2>4 DEF UploadSegment, ObjectsOrdered
  <2> QED
    BY <1>5, <2>3, <2>4 DEF UploadSegment
<1>6. CASE UploadSegment /\ UNCHANGED objects /\ NextSegment
  <2>1. objects[start] = {}
    BY <1>1, <1>6 DEF UploadSegment, ObjectsOrdered
  <2> QED
    BY <1>2, <1>6, <2>1 DEF UploadSegment, NextSegment
<1>7. CASE RegisterSegment
  <2>1. objects[start] = segFile /\ objects' = objects
    BY <1>1, <1>7 DEF RegisterSegment, ObjectsOrdered
  <2>2. \A b \in segFile : b \in Bursts /\ b[2] <= nowTs
    BY <1>7, BurstTimes DEF RegisterSegment, BurstsKept
  <2> QED
    BY <1>2, <1>7, <2>1, <2>2 DEF RegisterSegment, NextSegment
<1>8. CASE pc = "register" /\ UNCHANGED <<start, objects, segFile>> /\ pc' \in {pc, "returned"}
  BY <1>8 DEF ObjectsOrdered
<1> QED
  BY <1>3, <1>4, <1>5, <1>6, <1>7, <1>8, Zenon
  DEF Next, vars, Tick, BeginBurst, EndBurst, MergeCollapsed, CheckSegment, WriteSegment,
      UploadSegment, AgentCrash

(* Every step keeps the objects apart, from each other and from the map:   *)
(* a burst that is folded in ended after the present segment began, and    *)
(* every stored one before.                                                *)
LEMMA ApartNext ==
  TypeOK /\ TimesKept /\ BurstsKept /\ ObjectsOrdered /\ ObjectsApart /\ [Next]_vars
    => ObjectsApart'
<1> SUFFICES ASSUME TypeOK, TimesKept, BurstsKept, ObjectsOrdered, ObjectsApart, [Next]_vars
             PROVE  ObjectsApart'
  OBVIOUS
<1>1. CASE MergeCollapsed
  <2>1. \A k \in Time : objects[k] \cap file = {}
    <3>1. \A b \in file : b \in Bursts /\ b[2] > start
      BY <1>1, BurstTimes DEF MergeCollapsed, TypeOK, Time, TimesKept, BurstsKept
    <3>2. \A k \in Time : \A b \in objects[k] : b[2] <= start
      BY <1>1 DEF MergeCollapsed, TypeOK, Time, ObjectsOrdered
    <3>3. start \in Nat
      BY DEF TypeOK, Time
    <3> QED
      BY <3>1, <3>2, <3>3, BurstTimes
  <2> QED
    BY <1>1, <2>1 DEF MergeCollapsed, ObjectsApart
<1>2. CASE WriteSegment
  BY <1>2 DEF WriteSegment, NextSegment, ObjectsApart
<1>3. CASE UploadSegment /\ UploadTaskFile
  <2>1. \A k \in Time : objects'[k] = IF k = start THEN segFile ELSE objects[k]
    BY <1>3 DEF UploadTaskFile, TypeOK
  <2>2. stacks' = {} /\ pc = "upload" /\ segFile' = segFile
    BY <1>3 DEF UploadSegment, BurstsKept
  <2>3. start \in Time
    BY DEF TypeOK
  <2>4. pc' \in {"upload", "register"} => start' = start
    BY <1>3 DEF UploadSegment, NextSegment
  <2> QED
    BY <2>1, <2>2, <2>3, <2>4 DEF ObjectsApart
<1>4. CASE UNCHANGED <<objects, stacks>> /\ pc' \notin {"upload", "register"}
  BY <1>4 DEF ObjectsApart
<1>5. CASE UNCHANGED <<objects, stacks, pc, segFile, start>>
  BY <1>5 DEF ObjectsApart
<1> QED
  BY <1>1, <1>2, <1>3, <1>4, <1>5
  DEF Next, vars, Tick, BeginBurst, EndBurst, CheckSegment, UploadSegment, NextSegment,
      RegisterSegment, AgentCrash

(* What SegmentsInv says of a registered segment. *)
Enclosed(s) ==
  /\ s.key = s.start /\ s.start < start
  /\ \A b \in objects[s.key] : /\ b[1] < b[2] /\ b[2] <= s.end
                               /\ ~unwritten => s.start <= b[1]

(* Every step keeps the registered segments and what they hold, and the    *)
(* one it registers has the times of its bursts.                           *)
LEMMA SegmentsNext ==
  ASSUME TypeOK, SegmentsInv, [Next]_vars
  PROVE  /\ \A s \in segments : s \in segments' /\ objects'[s.key] = objects[s.key]
         /\ \A s \in segments' : Enclosed(s)'
         /\ \A s, o \in segments' : s.key = o.key => s = o
<1>1. start \in Nat /\ nowTs \in Nat /\ endTs \in Nat /\ start \in Time /\ Time \subseteq Nat
  BY DEF TypeOK, Time
<1>2. \A s \in segments : s.key \in Time /\ s.key = s.start /\ s.start < start /\ Enclosed(s)
  BY DEF TypeOK, SegmentsInv, Enclosed
<1>3. start' = start \/ (start' = nowTs /\ start < nowTs)
  BY DEF Next, vars, Tick, BeginBurst, EndBurst, MergeCollapsed, CheckSegment,
         WriteSegment, UploadSegment, RegisterSegment, AgentCrash, NextSegment,
         SegmentsInv, TimesKept
<1>4. \A k \in Time : k < start => objects'[k] = objects[k]
  BY <1>1 DEF Next, vars, Tick, BeginBurst, EndBurst, MergeCollapsed, CheckSegment,
              WriteSegment, UploadSegment, UploadTaskFile, RegisterSegment, AgentCrash,
              TypeOK
<1>5. ~unwritten' => ~unwritten
  BY DEF Next, vars, Tick, BeginBurst, EndBurst, MergeCollapsed, CheckSegment,
         WriteSegment, UploadSegment, RegisterSegment, AgentCrash
<1>6. ASSUME NEW s \in segments PROVE objects'[s.key] = objects[s.key] /\ s.start < start'
  <2>1. s.key \in Time /\ s.key = s.start /\ s.key < start /\ s.key \in Nat
    BY <1>1, <1>2, Zenon
  <2> QED
    BY <1>1, <1>3, <1>4, <2>1
<1>7. ASSUME NEW s \in segments PROVE Enclosed(s)'
  <2>1. objects'[s.key] = objects[s.key] /\ s.key = s.start /\ s.start < start'
    BY <1>2, <1>6
  <2>2. \A b \in objects[s.key] : /\ b[1] < b[2] /\ b[2] <= s.end
                                  /\ ~unwritten => s.start <= b[1]
    BY <1>2 DEF Enclosed
  <2> QED
    BY <1>5, <2>1, <2>2, Zenon DEF Enclosed
<1>8. CASE CreateSegment /\ RegisterSegment
  <2>1. PICK new : new = [start |-> start, end |-> endTs, key |-> start]
    BY Zenon
  <2>2. segments' = segments \cup {new} /\ new.start = start /\ new.end = endTs /\ new.key = start
    BY <1>8, <2>1 DEF CreateSegment
  <2>3. objects'[start] = segFile /\ start' = nowTs /\ pc = "register" /\ unwritten' = unwritten
    BY <1>1, <1>8 DEF RegisterSegment, NextSegment, SegmentsInv, ObjectsOrdered
  <2>4. start < nowTs /\ nowTs <= endTs
    BY <2>3 DEF SegmentsInv, TimesKept
  <2>5. \A b \in segFile : /\ b[1] < b[2] /\ b[2] <= endTs
                           /\ ~unwritten => start <= b[1]
    BY <1>1, <2>3, <2>4, BurstTimes DEF SegmentsInv, BurstsKept
  <2>6. Enclosed(new)'
    BY <2>2, <2>3, <2>4, <2>5 DEF Enclosed
  <2>7. \A s \in segments : s.key # new.key
    BY <1>1, <1>2, <2>2
  <2>8. \A s, o \in segments' : s.key = o.key => s = o
    BY <2>2, <2>7 DEF SegmentsInv
  <2> QED
    BY <1>6, <1>7, <2>2, <2>6, <2>8
<1>9. CASE UNCHANGED segments
  BY <1>6, <1>7, <1>9 DEF SegmentsInv
<1> QED
  BY <1>8, <1>9
  DEF Next, vars, Tick, BeginBurst, EndBurst, MergeCollapsed, CheckSegment, WriteSegment,
      UploadSegment, RegisterSegment, AgentCrash

(* The types and the inductive invariant hold in every behaviour.          *)
THEOREM Invariance == Spec => [](TypeOK /\ SegmentsInv)
<1>1. Init => TypeOK /\ SegmentsInv
  <2> SUFFICES ASSUME Init PROVE TypeOK /\ SegmentsInv
    OBVIOUS
  <2>1. TypeOK
    <3>1. 0 \in Time
      BY DEF Time
    <3>2. {now, start, from, nowTs, endTs} \subseteq Time
      BY <3>1 DEF Init
    <3> QED
      BY <3>2, Zenon DEF Init, TypeOK
  <2>2. SegmentsInv
    BY DEF Init, SegmentsInv, TimesKept, BurstsKept, ObjectsOrdered, ObjectsApart, Time
  <2> QED
    BY <2>1, <2>2
<1>2. TypeOK /\ SegmentsInv /\ [Next]_vars => TypeOK' /\ SegmentsInv'
  <2> SUFFICES ASSUME TypeOK, SegmentsInv, [Next]_vars PROVE TypeOK' /\ SegmentsInv'
    OBVIOUS
  <2>1. TimesKept /\ BurstsKept /\ ObjectsOrdered /\ ObjectsApart
    BY DEF SegmentsInv
  <2>2. TypeOK' /\ TimesKept' /\ BurstsKept' /\ ObjectsOrdered' /\ ObjectsApart'
    BY <2>1, TypeNext, TimesNext, BurstsNext, OrderedNext, ApartNext
  <2>3. /\ \A s \in segments' : Enclosed(s)'
        /\ \A s, o \in segments' : s.key = o.key => s = o
    BY SegmentsNext
  <2> QED
    BY <2>2, <2>3 DEF SegmentsInv, Enclosed
<1> QED
  BY <1>1, <1>2, PTL DEF Spec

(* The type invariant of every behaviour.                                  *)
THEOREM TypeCorrect == Spec => []TypeOK
  BY Invariance, PTL

(* GetProfileWindow finds each registered burst in the window of its own   *)
(* times, unless a segment file could not be created.                      *)
THEOREM WindowIsComplete == Spec => []WindowFindsBurst
<1>1. ASSUME TypeOK, SegmentsInv PROVE WindowFindsBurst
  <2> SUFFICES ASSUME ~unwritten, NEW s \in segments, NEW b \in objects[s.key]
               PROVE  b \in ProfileWindow(b[1], b[2])
    BY DEF WindowFindsBurst
  <2>1. s.key \in Time /\ s.start \in Nat /\ s.end \in Nat
    BY <1>1 DEF TypeOK, Time
  <2>2. b[1] \in Nat /\ b[2] \in Nat
    BY <1>1, <2>1, BurstTimes
  <2>3. b[1] < b[2] /\ b[2] <= s.end /\ s.start <= b[1]
    BY <1>1 DEF SegmentsInv
  <2>4. s \in Overlapping(b[1], b[2])
    BY <2>1, <2>2, <2>3 DEF Overlapping
  <2> QED
    BY <2>4 DEF ProfileWindow
<1> QED
  BY <1>1, Invariance, PTL

(* No burst is in two registered segments, or in one and in the map.       *)
THEOREM NoneCountedTwice == Spec => []CountedOnce
<1>1. ASSUME TypeOK, SegmentsInv PROVE CountedOnce
  <2>1. \A s \in segments : s.key \in Time
    BY <1>1 DEF TypeOK
  <2> QED
    BY <1>1, <2>1 DEF SegmentsInv, ObjectsApart, CountedOnce
<1> QED
  BY <1>1, Invariance, PTL

(* No upload of the loop replaces the object of a registered segment.      *)
THEOREM RegisteredStays == Spec => SegmentsKept
<1>1. TypeOK /\ SegmentsInv /\ [Next]_vars
        => [\A s \in segments : s \in segments' /\ objects'[s.key] = objects[s.key]]_vars
  BY SegmentsNext
<1> QED
  BY <1>1, Invariance, PTL DEF Spec, SegmentsKept
=============================================================================
