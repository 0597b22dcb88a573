------------------------- MODULE ContinuousSegments -------------------------
(***************************************************************************)
(* One run of ContinuousProfiler::record on the agent and the segments it  *)
(* leaves with apiserver.  The loop runs short bursts of an inner          *)
(* profiler, folds each burst's file into the in-memory map stacks_ and,   *)
(* when kSegmentSeconds have gone by, writes the map to a file, clears it, *)
(* uploads the file and registers the segment [start_ts, end_ts].          *)
(* GetProfileWindow merges the segments that overlap a window of time.     *)
(*                                                                         *)
(* A burst is the pair of its first and last moment: the samples of a      *)
(* collapsed file are told apart only by the burst they come from.         *)
(***************************************************************************)
EXTENDS Naturals

CONSTANTS
  SegmentSeconds,   \* kSegmentSeconds, in units of the clock
  MaxTime,          \* bound on the clock
  MaxFaults         \* bound on failures

ASSUME SegmentsAssumption ==
  SegmentSeconds \in Nat \ {0} /\ MaxTime \in Nat /\ MaxFaults \in Nat

VARIABLES
  now,        \* the agent's clock
  inner,      \* profiler_type of the bursts
  pc,         \* program counter of record()
  start,      \* segment_start_ts_
  from,       \* when the present burst began
  file,       \* the bursts in the inner profiler's output file
  stacks,     \* stacks_: the bursts folded in
  nowTs,      \* now_ts of record(), the next segment's start
  endTs,      \* now_ts of flush_segment
  segFile,    \* the bursts in <output_dir>/<start>/collapsed.txt
  objects,    \* the bursts in object <tid>/<start>/collapsed.txt
  segments,   \* rows of continuous_profile_segments
  unwritten,  \* a segment file could not be created
  faults

vars == <<now, inner, pc, start, from, file, stacks, nowTs, endTs, segFile,
          objects, segments, unwritten, faults>>

Profilers == {"perf", "asprof", "ebpf", "script", "unknown"}
Time      == 0..MaxTime
Bursts    == Time \X Time

Init ==
  /\ now = 0
  /\ inner \in Profilers
  /\ pc = "begin"
  /\ start = 0
  /\ from = 0
  /\ file = {}
  /\ stacks = {}
  /\ nowTs = 0
  /\ endTs = 0
  /\ segFile = {}
  /\ objects = [s \in Time |-> {}]
  /\ segments = {}
  /\ unwritten = FALSE
  /\ faults = 0

Works == UNCHANGED faults
Fault == faults < MaxFaults /\ faults' = faults + 1

Tick ==
  /\ now < MaxTime
  /\ now' = now + 1
  /\ UNCHANGED <<inner, pc, start, from, file, stacks, nowTs, endTs, segFile,
                 objects, segments, unwritten, faults>>
-----------------------------------------------------------------------------
(* The loop of record(). *)

(* CreateProfiler knows the type, or record() returns false. *)
BeginBurst ==
  /\ pc = "begin"
  /\ pc' = IF inner = "unknown" THEN "returned" ELSE "burst"
  /\ from' = now
  /\ UNCHANGED <<now, inner, start, file, stacks, nowTs, endTs, segFile, objects,
                 segments, unwritten, faults>>

(* Mutant: the burst's end is taken from a clock one unit ahead. *)
EndBurstAhead ==
  /\ pc = "burst"
  /\ Works /\ now > from /\ file' = {<<from, now + 1>>} /\ pc' = "merge"
  /\ UNCHANGED <<now, inner, start, from, stacks, nowTs, endTs, segFile, objects,
                 segments, unwritten>>

(* inner->record: a burst lasts for some time; a failed one is skipped. *)
EndBurst ==
  /\ pc = "burst"
  /\ \/ Works /\ now > from /\ file' = {<<from, now>>} /\ pc' = "merge"
     \/ Fault /\ pc' = "check" /\ UNCHANGED file
  /\ UNCHANGED <<now, inner, start, from, stacks, nowTs, endTs, segFile, objects,
                 segments, unwritten>>

(* Only a file with "collapsed" in its name is folded in; any is removed. *)
IsCollapsed == inner \in {"asprof", "ebpf"}

MergeCollapsed ==
  /\ pc = "merge"
  /\ stacks' = IF IsCollapsed THEN stacks \cup file ELSE stacks
  /\ file' = {}
  /\ pc' = "check"
  /\ UNCHANGED <<now, inner, start, from, nowTs, endTs, segFile, objects, segments,
                 unwritten, faults>>

(* Mutant: every burst ends a segment. *)
CheckSegmentAlways ==
  /\ pc = "check"
  /\ pc' = "flush" /\ nowTs' = now
  /\ UNCHANGED <<now, inner, start, from, file, stacks, endTs, segFile, objects,
                 segments, unwritten, faults>>

(* Is it time to flush?  now_ts is read here and, by flush_segment, again. *)
CheckSegment ==
  /\ pc = "check"
  /\ \/ now - start >= SegmentSeconds /\ pc' = "flush" /\ nowTs' = now
     \/ now - start < SegmentSeconds /\ pc' = "begin" /\ UNCHANGED nowTs
  /\ UNCHANGED <<now, inner, start, from, file, stacks, endTs, segFile, objects,
                 segments, unwritten, faults>>
-----------------------------------------------------------------------------
(* flush_segment.  Whatever comes of it, record() then starts the next     *)
(* segment at nowTs and begins another burst.                              *)

(* Mutant: the start of the segment is not moved on. *)
NextSegmentSameStart == start' = start /\ pc' = "begin"

NextSegment == start' = nowTs /\ pc' = "begin"

(* Mutant: the map is not cleared. *)
WriteSegmentKeep ==
  /\ pc = "flush"
  /\ endTs' = now
  /\ Works
  /\ segFile' = stacks
  /\ pc' = "upload"
  /\ UNCHANGED <<now, inner, start, from, file, stacks, nowTs, objects, segments,
                 unwritten>>

WriteSegment ==
  /\ pc = "flush"
  /\ endTs' = now
  /\ \/ /\ Works
        /\ segFile' = stacks
        /\ stacks' = {}
        /\ pc' = "upload"
        /\ UNCHANGED <<start, unwritten>>
     \/ /\ Fault
        /\ NextSegment
        /\ unwritten' = TRUE
        /\ UNCHANGED <<segFile, stacks>>
  /\ UNCHANGED <<now, inner, from, file, nowTs, objects, segments>>

UploadTaskFile == objects' = [objects EXCEPT ![start] = segFile]

(* curl, then UploadTaskFile: stored and answered, stored with the answer  *)
(* lost, or not stored.                                                    *)
UploadSegment ==
  /\ pc = "upload"
  /\ \/ Works /\ UploadTaskFile /\ pc' = "register" /\ UNCHANGED start
     \/ Fault /\ (UploadTaskFile \/ UNCHANGED objects) /\ NextSegment
  /\ UNCHANGED <<now, inner, from, file, stacks, nowTs, endTs, segFile, segments,
                 unwritten>>

CreateSegment ==
  segments' = segments \cup {[start |-> start, end |-> endTs, key |-> start]}

(* curl, then CreateSegment. *)
RegisterSegment ==
  /\ pc = "register"
  /\ \/ Works /\ CreateSegment
     \/ Fault /\ (CreateSegment \/ UNCHANGED segments)
  /\ NextSegment
  /\ UNCHANGED <<now, inner, from, file, stacks, nowTs, endTs, segFile, objects,
                 unwritten>>

(* The agent dies; nobody hands the task to it again. *)
AgentCrash ==
  /\ pc # "returned"
  /\ Fault
  /\ pc' = "returned"
  /\ UNCHANGED <<now, inner, start, from, file, stacks, nowTs, endTs, segFile,
                 objects, segments, unwritten>>
-----------------------------------------------------------------------------
(* Mutant: the window must lie inside the segment. *)
Enclosing(first, last) == {s \in segments : s.start < first /\ s.end > last}

(* GetProfileWindow: the merged content of the overlapping segments.  One  *)
(* that cannot be downloaded adds nothing.                                 *)
Overlapping(first, last) == {s \in segments : s.start < last /\ s.end > first}

ProfileWindow(first, last) ==
  UNION {objects[s.key] : s \in Overlapping(first, last)}

Next ==
  \/ Tick
  \/ BeginBurst \/ EndBurst \/ MergeCollapsed \/ CheckSegment
  \/ WriteSegment \/ UploadSegment \/ RegisterSegment
  \/ AgentCrash

Spec == Init /\ [][Next]_vars
-----------------------------------------------------------------------------
(* The type invariant. *)
TypeOK ==
  /\ {now, start, from, nowTs, endTs} \subseteq Time
  /\ inner \in Profilers
  /\ pc \in {"begin", "burst", "merge", "check", "flush", "upload", "register", "returned"}
  /\ file \subseteq Bursts /\ stacks \subseteq Bursts /\ segFile \subseteq Bursts
  /\ objects \in [Time -> SUBSET Bursts]
  /\ segments \subseteq [start : Time, end : Time, key : Time]
  /\ unwritten \in BOOLEAN
  /\ faults \in Nat

(***************************************************************************)
(* A burst that is in a registered segment is found by every window that   *)
(* covers it: the times flush_segment registers enclose the bursts it      *)
(* wrote, and GetProfileWindow's strict comparisons leave none of them     *)
(* out.  After a segment file could not be created its bursts go into the  *)
(* next segment, whose window does not cover them.                         *)
(***************************************************************************)
WindowFindsBurst ==
  ~unwritten =>
    \A s \in segments : \A b \in objects[s.key] : b \in ProfileWindow(b[1], b[2])

(***************************************************************************)
(* No sample is counted twice: a burst is in at most one registered        *)
(* segment, and one that is registered is no longer in the map.            *)
(***************************************************************************)
CountedOnce ==
  \A s \in segments :
    /\ objects[s.key] \cap stacks = {}
    /\ \A o \in segments \ {s} : objects[s.key] \cap objects[o.key] = {}

(***************************************************************************)
(* What was registered stays: no later upload goes to the key of a         *)
(* registered segment, because each segment starts later than the last.    *)
(***************************************************************************)
SegmentsKept ==
  [][\A s \in segments : s \in segments' /\ objects'[s.key] = objects[s.key]]_vars
-----------------------------------------------------------------------------
(* The order of the times record() and flush_segment have read. *)
TimesKept ==
  /\ start <= now /\ nowTs <= now /\ endTs <= now /\ from <= now
  /\ pc \in {"burst", "merge"} => start <= from
  /\ pc \in {"flush", "upload", "register"} => start < nowTs
  /\ pc \in {"upload", "register"} => nowTs <= endTs

(* What is in memory began after the segment did, unless a segment file    *)
(* could not be created, and ended before the next one begins.             *)
BurstsKept ==
  /\ pc = "merge" => \A b \in file : b[1] = from /\ from < b[2] /\ b[2] <= now
  /\ \A b \in stacks : /\ b[1] < b[2] /\ b[2] <= now
                       /\ ~unwritten => start <= b[1]
                       /\ pc = "flush" => b[2] <= nowTs
  /\ pc \in {"upload", "register"} =>
       /\ stacks = {}
       /\ \A b \in segFile : /\ b[1] < b[2] /\ b[2] <= nowTs
                             /\ ~unwritten => start <= b[1]

(* The objects of earlier segments hold bursts that ended before this one  *)
(* began; there is none of a later segment.                                *)
ObjectsOrdered ==
  \A k \in Time :
    /\ k > start => objects[k] = {}
    /\ k = start /\ pc \notin {"register", "returned"} => objects[k] = {}
    /\ k = start /\ pc = "register" => objects[k] = segFile
    /\ k < start => \A b \in objects[k] : b[2] <= start

(* An object holds what no other object and not the map holds. *)
ObjectsApart ==
  /\ \A k \in Time : objects[k] \cap stacks = {}
  /\ \A k \in Time \ {start} :
       pc \in {"upload", "register"} => objects[k] \cap segFile = {}
  /\ \A k, l \in Time : k # l => objects[k] \cap objects[l] = {}

(***************************************************************************)
(* The inductive invariant behind the three properties above: a segment's  *)
(* key is its start, every registered one starts before the present        *)
(* segment, and its times enclose the bursts in its object.                *)
(***************************************************************************)
SegmentsInv ==
  /\ TimesKept /\ BurstsKept /\ ObjectsOrdered /\ ObjectsApart
  /\ \A s \in segments :
       /\ s.key = s.start /\ s.start < start
       /\ \A b \in objects[s.key] : /\ b[1] < b[2] /\ b[2] <= s.end
                                    /\ ~unwritten => s.start <= b[1]
  /\ \A s, o \in segments : s.key = o.key => s = o
=============================================================================
