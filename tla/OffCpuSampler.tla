---------------------------- MODULE OffCpuSampler ----------------------------
(***************************************************************************)
(* One EbpfProfiler::record: the BPF program trace_sched_switch, which     *)
(* every CPU runs when it switches a thread out, the maps it fills, and    *)
(* the thread that loads and attaches it, sleeps, reads the maps while     *)
(* the program goes on counting, writes collapsed_ebpf.txt, cleans up,     *)
(* detaches and unloads.  Beside it another recorder (the continuous       *)
(* runner, say) resolves symbols through the same cache of process maps.   *)
(*                                                                         *)
(* A stack is a value; symbol names are left out.  The number the file has *)
(* for a stack is the number of times it was switched out.                 *)
(***************************************************************************)
EXTENDS Integers, Sequences, FiniteSets, Functions

CONSTANTS
  CPUs,
  Samples,       \* what a switch can record: [pid, user, kern]
  IdlePid,       \* pid 0, the one thread that every CPU has
  OtherPids,     \* the pids that the other recorder meets
  Bucket,        \* the hash of a stack into stack_traces
  MaxEntries,    \* MAX_ENTRIES of counts
  MaxCache,      \* kMaxUserMapsCache
  MaxSwitches,   \* bound on the switches recorded
  MaxReads,      \* bound on the reads of the other recorder
  None

Pids    == {s.pid : s \in Samples}
Buckets == Range(Bucket)
NoStack == -1    \* a negative stack id
Stacks  == DOMAIN Bucket \cup {None}
Keys    == [pid : Pids, user : Buckets \cup {NoStack}, kern : Buckets \cup {NoStack}]
Probes  == [by : Pids, key : Keys]

ASSUME SamplerAssumption ==
  /\ IsFiniteSet(Samples) /\ IdlePid \in Pids
  /\ \A s \in Samples : s.kern \in DOMAIN Bucket /\ s.user \in Stacks
  /\ Buckets \subseteq Nat
  /\ None \notin Probes
  /\ {MaxEntries, MaxSwitches, MaxReads} \subseteq Nat /\ MaxCache \in Nat \ {0}

VARIABLES
  target,      \* the pid to filter for, or None
  pc,          \* program counter of record()
  loaded, attached,
  stackMap,    \* stack_traces
  counts,      \* counts
  probe,       \* per CPU: the key the program is about to insert
  hits,        \* how often each sample was met
  start,       \* counts when poll() began to read it
  got,         \* key_counts
  todo,        \* the keys the present loop of poll() has yet to do
  file,        \* collapsed_ebpf.txt: counts by kernel and user stack
  cache,       \* the pids in g_user_maps_cache
  lru,         \* g_user_maps_lru
  reading,     \* per recorder: the pid whose maps it reads, not cached
  reads,       \* reads of the other recorder
  doubles      \* how often a pid was stored that was cached already

kernel  == <<stackMap, counts, probe, hits>>
loader  == <<target, pc, loaded, attached, start, got, todo, file>>
symbols == <<cache, lru, reading, reads, doubles>>
vars    == <<kernel, loader, symbols>>

Empty == [k \in {} |-> 0]

Init ==
  /\ target \in (Pids \ {IdlePid}) \cup {None}
  /\ pc = "load"
  /\ loaded = FALSE /\ attached = FALSE
  /\ stackMap = [b \in Buckets |-> None]
  /\ counts = Empty
  /\ probe = [c \in CPUs |-> None]
  /\ hits = [s \in Samples |-> 0]
  /\ start = Empty /\ got = Empty /\ todo = {} /\ file = Empty
  /\ cache = {} /\ lru = <<>>
  /\ reading = [r \in {"self", "other"} |-> None]
  /\ reads = 0 /\ doubles = 0
-----------------------------------------------------------------------------
(* trace_sched_switch.  bpf_get_stackid without BPF_F_REUSE_STACKID keeps  *)
(* the stack that has the bucket and fails for another one.                *)

(* Mutant: BPF_F_REUSE_STACKID, the newcomer takes the bucket. *)
GetStackIdReuse(map, stack) ==
  IF stack = None THEN [id |-> NoStack, map |-> map]
  ELSE [id |-> Bucket[stack], map |-> [map EXCEPT ![Bucket[stack]] = stack]]

GetStackId(map, stack) ==
  IF stack = None \/ map[Bucket[stack]] \notin {None, stack}
  THEN [id |-> NoStack, map |-> map]
  ELSE [id |-> Bucket[stack], map |-> [map EXCEPT ![Bucket[stack]] = stack]]

(* Mutant: the key holds the process, which has several threads. *)
KeyOfProcess(s, user, kern) ==
  [pid |-> IF s.pid = IdlePid THEN IdlePid ELSE CHOOSE p \in Pids : p # IdlePid,
   user |-> user, kern |-> kern]

(* sk; its tgid is its pid in either mode. *)
Key(s, user, kern) == [pid |-> s.pid, user |-> user, kern |-> kern]

(* A CPU switches s.pid out: the filter, the two stack ids, the lookup,    *)
(* and the atomic add when the key is there.  A thread is switched out by  *)
(* one CPU at a time, but each CPU has its idle thread.                    *)
SchedSwitch(c, s) ==
  LET user == GetStackId(stackMap, s.user)
      kern == GetStackId(user.map, s.kern)
      key  == Key(s, user.id, kern.id) IN
  /\ attached
  /\ probe[c] = None
  /\ s.pid # IdlePid => {d \in CPUs : probe[d] # None /\ probe[d].by = s.pid} = {}
  /\ target \in {None, s.pid}
  /\ SumFunction(hits) < MaxSwitches
  /\ hits' = [hits EXCEPT ![s] = @ + 1]
  /\ stackMap' = kern.map
  /\ IF key \in DOMAIN counts
     THEN counts' = [counts EXCEPT ![key] = @ + 1] /\ UNCHANGED probe
     ELSE probe' = [probe EXCEPT ![c] = [by |-> s.pid, key |-> key]] /\ UNCHANGED counts
  /\ UNCHANGED <<loader, symbols>>

(* Mutant: the map has no limit. *)
UpdateElemUnlimited(c) ==
  /\ probe[c] # None
  /\ counts' = [k \in DOMAIN counts \cup {probe[c].key} |->
                 IF k = probe[c].key THEN 1 ELSE counts[k]]
  /\ probe' = [probe EXCEPT ![c] = None]
  /\ UNCHANGED <<stackMap, hits, loader, symbols>>

(* bpf_map_update_elem(BPF_ANY) with 1, which fails when the map is full. *)
UpdateElem(c) ==
  /\ probe[c] # None
  /\ counts' = IF probe[c].key \in DOMAIN counts \/ Cardinality(DOMAIN counts) < MaxEntries
               THEN [k \in DOMAIN counts \cup {probe[c].key} |->
                       IF k = probe[c].key THEN 1 ELSE counts[k]]
               ELSE counts
  /\ probe' = [probe EXCEPT ![c] = None]
  /\ UNCHANGED <<stackMap, hits, loader, symbols>>
-----------------------------------------------------------------------------
(* EbpfLoader::load, attach and detach, as record() calls them.  The       *)
(* object file is missing, or a call of libbpf fails: the destructor of    *)
(* the loader detaches and unloads.                                        *)
Load ==
  /\ pc = "load"
  /\ \/ pc' = "attach" /\ loaded' = TRUE
     \/ pc' = "destroy" /\ UNCHANGED loaded
  /\ UNCHANGED <<kernel, target, attached, start, got, todo, file, symbols>>

(* Mutant: a failure returns past the destructor. *)
AttachOrReturn ==
  /\ pc = "attach"
  /\ \/ pc' = "sleep" /\ attached' = TRUE
     \/ pc' = "returned" /\ UNCHANGED attached
  /\ UNCHANGED <<kernel, target, loaded, start, got, todo, file, symbols>>

Attach ==
  /\ pc = "attach"
  /\ \/ pc' = "sleep" /\ attached' = TRUE
     \/ pc' = "destroy" /\ UNCHANGED attached
  /\ UNCHANGED <<kernel, target, loaded, start, got, todo, file, symbols>>

(* detach() and unload(): the kernel frees the maps; a program that still  *)
(* runs finishes on maps nobody reads.                                     *)
Destroy ==
  /\ pc = "destroy"
  /\ pc' = "returned"
  /\ loaded' = FALSE /\ attached' = FALSE
  /\ stackMap' = [b \in Buckets |-> None]
  /\ counts' = Empty
  /\ probe' = [c \in CPUs |-> None]
  /\ UNCHANGED <<hits, target, start, got, todo, file, symbols>>
-----------------------------------------------------------------------------
(* poll(). *)

SleepEnds ==
  /\ pc = "sleep"
  /\ pc' = "collect"
  /\ start' = counts
  /\ UNCHANGED <<kernel, target, loaded, attached, got, todo, file, symbols>>

(* Phase 1: bpf_map_get_next_key and the lookup.  The order is that of the *)
(* hash table: a key inserted meanwhile is met or not.                     *)
CollectKey(k) ==
  /\ pc = "collect"
  /\ k \in DOMAIN counts \ DOMAIN got
  /\ got' = [x \in DOMAIN got \cup {k} |-> IF x = k THEN counts[k] ELSE got[x]]
  /\ UNCHANGED <<kernel, target, pc, loaded, attached, start, todo, file, symbols>>

CollectEnds ==
  /\ pc = "collect"
  /\ DOMAIN start \subseteq DOMAIN got
  /\ pc' = "phase2"
  /\ todo' = DOMAIN got
  /\ UNCHANGED <<kernel, target, loaded, attached, start, got, file, symbols>>

(* ReadUserMaps(pid) by recorder r: cached, or /proc/<pid>/maps is read    *)
(* with the mutex released.                                                *)
ReadUserMaps(r, pid) ==
  /\ reading[r] = None
  /\ reading' = IF pid \in cache THEN reading ELSE [reading EXCEPT ![r] = pid]

(* Mutant: one entry too many before the oldest is evicted. *)
StoreLater(pid) ==
  LET full == Cardinality(cache) > MaxCache /\ lru # <<>> IN
  /\ cache' = (IF full THEN cache \ {Head(lru)} ELSE cache) \cup {pid}
  /\ lru' = Append(IF full THEN Tail(lru) ELSE lru, pid)

(* The second critical section: evict the oldest, store, append. *)
Store(pid) ==
  LET full == Cardinality(cache) >= MaxCache /\ lru # <<>> IN
  /\ cache' = (IF full THEN cache \ {Head(lru)} ELSE cache) \cup {pid}
  /\ lru' = Append(IF full THEN Tail(lru) ELSE lru, pid)

(* The file is read and stored, or there is no such process (any more). *)
StoreUserMaps(r) ==
  /\ reading[r] # None
  /\ \/ /\ reading[r] # IdlePid
        /\ Store(reading[r])
        /\ doubles' = IF reading[r] \in cache THEN doubles + 1 ELSE doubles
     \/ UNCHANGED <<cache, lru, doubles>>
  /\ reading' = [reading EXCEPT ![r] = None]
  /\ UNCHANGED <<kernel, loader, reads>>

(* Phases 2 and 3 each walk the keys and need the maps of those with a     *)
(* user stack: to collect the addresses, and to name them.                 *)
Symbolise(k) ==
  /\ pc \in {"phase2", "phase3"}
  /\ k \in todo
  /\ todo' = todo \ {k}
  /\ IF k.user = NoStack THEN reading["self"] = None /\ UNCHANGED reading
     ELSE ReadUserMaps("self", k.pid)
  /\ UNCHANGED <<kernel, target, pc, loaded, attached, start, got, file,
                 cache, lru, reads, doubles>>

PhaseEnds ==
  /\ pc \in {"phase2", "phase3"}
  /\ todo = {} /\ reading["self"] = None
  /\ IF pc = "phase2" THEN pc' = "phase3" /\ todo' = DOMAIN got
     ELSE pc' = "write" /\ UNCHANGED todo
  /\ UNCHANGED <<kernel, target, loaded, attached, start, got, file, symbols>>

(* The folded stack of a key: pids are not part of it. *)
StackOf(id)  == IF id = NoStack THEN None ELSE stackMap[id]
Line(k)      == [kern |-> StackOf(k.kern), user |-> StackOf(k.user)]
Folded(line) == SumFunctionOnSet(got, {k \in DOMAIN got : Line(k) = line})

(* Phase 4; without the file poll() returns at once. *)
WriteFile ==
  /\ pc = "write"
  /\ \/ file' = [l \in {Line(k) : k \in DOMAIN got} |-> Folded(l)] /\ pc' = "clean"
     \/ pc' = "destroy" /\ UNCHANGED file
  /\ UNCHANGED <<kernel, target, loaded, attached, start, got, todo, symbols>>

(* Phase 5, in one step: nobody reads the maps again. *)
Clean ==
  /\ pc = "clean"
  /\ pc' = "destroy"
  /\ counts' = Restrict(counts, DOMAIN counts \ DOMAIN got)
  /\ stackMap' = [b \in Buckets |->
       IF \E k \in DOMAIN got : b \in {k.user, k.kern} THEN None ELSE stackMap[b]]
  /\ UNCHANGED <<probe, hits, target, loaded, attached, start, got, todo, file, symbols>>

(* The other recorder meets a pid. *)
OtherReads(pid) ==
  /\ reads < MaxReads
  /\ reads' = reads + 1
  /\ ReadUserMaps("other", pid)
  /\ UNCHANGED <<kernel, loader, cache, lru, doubles>>
-----------------------------------------------------------------------------
KernelStep == \E c \in CPUs : UpdateElem(c) \/ \E s \in Samples : SchedSwitch(c, s)

RecordStep ==
  \/ Load \/ Attach \/ SleepEnds \/ CollectEnds \/ PhaseEnds \/ WriteFile \/ Clean
  \/ Destroy
  \/ \E k \in DOMAIN counts : CollectKey(k)
  \/ \E k \in todo : Symbolise(k)

CacheStep ==
  \/ \E r \in DOMAIN reading : StoreUserMaps(r)
  \/ \E pid \in OtherPids : OtherReads(pid)

Next == KernelStep \/ RecordStep \/ CacheStep

Spec == Init /\ [][Next]_vars
-----------------------------------------------------------------------------
(* The counts by key, of which the map holds max_entries. *)
CountMap(f) ==
  /\ f = [k \in DOMAIN f |-> f[k]]
  /\ DOMAIN f \subseteq Keys
  /\ IsFiniteSet(DOMAIN f) /\ Cardinality(DOMAIN f) <= MaxEntries
  /\ \A k \in DOMAIN f : f[k] \in Nat \ {0}

(* The type invariant; the counts map never exceeds its max_entries. *)
TypeOK ==
  /\ target \in Pids \cup {None}
  /\ pc \in {"load", "attach", "sleep", "collect", "phase2", "phase3", "write",
            "clean", "destroy", "returned"}
  /\ loaded \in BOOLEAN /\ attached \in BOOLEAN
  /\ stackMap \in [Buckets -> Stacks]
  /\ CountMap(counts) /\ CountMap(start) /\ CountMap(got)
  /\ probe \in [CPUs -> Probes \cup {None}]
  /\ hits \in [Samples -> Nat]
  /\ todo \subseteq Keys
  /\ DOMAIN file \subseteq [kern : Stacks, user : Stacks]
  /\ cache \subseteq Pids \cup OtherPids /\ lru \in Seq(Pids \cup OtherPids)
  /\ reading \in [{"self", "other"} -> Pids \cup OtherPids \cup {None}]
  /\ reads \in 0..MaxReads /\ doubles \in Nat

(* The key a sample has now, the samples behind a key, how often it was met. *)
KeyNow(s)  == Key(s, GetStackId(stackMap, s.user).id, GetStackId(stackMap, s.kern).id)
Hit(k)     == {s \in Samples : hits[s] > 0 /\ KeyNow(s) = k}
HitsOf(k)  == SumFunctionOnSet(hits, Hit(k))

(***************************************************************************)
(* The count of a key is exact: as often as its thread was switched out on *)
(* that stack, although lookup and insertion are two steps.  Only the idle *)
(* threads, which share a pid, can overwrite each other's first count; a   *)
(* key that found the map full has no count at all.                        *)
(***************************************************************************)
CountsExact ==
  pc \notin {"destroy", "returned"} =>
    \A k \in DOMAIN counts : k.pid # IdlePid => counts[k] = HitsOf(k)

(* A sample that a line of the file may be about. *)
Matches(s, line) == line.kern \in {None, s.kern} /\ line.user \in {None, s.user}

(***************************************************************************)
(* The file invents nothing and forgets nothing: a stack is charged with   *)
(* no more switches than really happened on it, a stack whose bucket was   *)
(* taken counts as unknown and not as another one, and what was counted of *)
(* a thread when the reading began is in the file, while the program runs. *)
(***************************************************************************)
FileIsFaithful ==
  pc = "clean" =>
    /\ \A l \in DOMAIN file :
         file[l] <= SumFunctionOnSet(hits, {s \in Samples : Matches(s, l)})
    /\ \A k \in DOMAIN start : k.pid # IdlePid =>
         Line(k) \in DOMAIN file /\ file[Line(k)] >= start[k]

(***************************************************************************)
(* However record() returns, the program is detached and its maps are      *)
(* freed: nothing is left to slow down every context switch.               *)
(***************************************************************************)
NothingLeftLoaded == pc = "returned" => ~loaded /\ ~attached /\ counts = Empty

(***************************************************************************)
(* Every cached pid can be evicted, and the cache exceeds its bound by no  *)
(* more than the number of times two recorders missed the same pid at      *)
(* once: each time leaves a second place in the eviction order.            *)
(***************************************************************************)
CacheBounded ==
  cache \subseteq Range(lru) /\ Cardinality(cache) <= MaxCache + doubles
-----------------------------------------------------------------------------
(* The inductive invariant behind these properties. *)

(* Switches are counted while the program is attached, read after sleep(). *)
LoaderInv ==
  /\ pc = "returned" => ~loaded /\ ~attached /\ counts = Empty
  /\ pc \in {"load", "attach", "sleep"} => got = Empty
  /\ ~attached => \A c \in CPUs : probe[c] = None

(* The bucket of a stack that was met is taken for good. *)
Seen(stack) == stack = None \/ stackMap[Bucket[stack]] # None
Full        == Cardinality(DOMAIN counts) >= MaxEntries
Pending(k)  == {c \in CPUs : probe[c] # None /\ probe[c].key = k}

(* The stacks of a sample that was counted were met. *)
StacksSeen == \A s \in Samples : hits[s] > 0 => Seen(s.user) /\ Seen(s.kern)

(* No count is ahead of the truth, and only those of idle tasks are behind. *)
CountsBehind ==
  \A k \in DOMAIN counts :
    counts[k] <= HitsOf(k) /\ (k.pid # IdlePid => counts[k] = HitsOf(k))

(* A key without a count has a pending insertion or met a full map. *)
MissingPending ==
  \A k \in Keys \ DOMAIN counts :
    k.pid # IdlePid /\ HitsOf(k) > 0 => Full \/ (HitsOf(k) = 1 /\ Pending(k) # {})

(* A thread inserts its own key, on one CPU, and nobody did so before. *)
ProbesOwn ==
  \A c \in CPUs : probe[c] # None =>
    /\ probe[c].by = probe[c].key.pid /\ HitsOf(probe[c].key) > 0
    /\ probe[c].by # IdlePid =>
         /\ probe[c].key \notin DOMAIN counts
         /\ \A d \in CPUs : probe[d] # None /\ probe[d].by = probe[c].by => d = c

CountsInv == StacksSeen /\ CountsBehind /\ MissingPending /\ ProbesOwn

(* What was read is between the counts at the start and the present ones. *)
ReadKnown ==
  /\ DOMAIN got \subseteq DOMAIN counts /\ DOMAIN start \subseteq DOMAIN counts
  /\ \A k \in DOMAIN got : got[k] <= HitsOf(k)

StartKept ==
  \A k \in DOMAIN start : k.pid # IdlePid =>
    start[k] <= counts[k] /\ (k \in DOMAIN got => start[k] <= got[k])

(* Every key of the start is read before the phases, the file once written *)
(* holds what was read.                                                    *)
FileInv ==
  /\ ReadKnown /\ StartKept
  /\ pc \in {"phase2", "phase3", "write", "clean"} => DOMAIN start \subseteq DOMAIN got
  /\ pc = "clean" => file = [l \in {Line(k) : k \in DOMAIN got} |-> Folded(l)]

(* A place in the eviction order for every entry, and one for every double. *)
CacheInv ==
  /\ cache \subseteq Range(lru)
  /\ Len(lru) <= Cardinality(cache) + doubles
  /\ Len(lru) <= MaxCache + doubles

(***************************************************************************)
(* Until record() clears the maps, the counts, what poll() read of them    *)
(* and the file hang together with the switches that really happened; and  *)
(* the cache of process maps with its eviction order.                      *)
(***************************************************************************)
SamplerInv ==
  /\ TypeOK /\ LoaderInv /\ CacheInv
  /\ pc \notin {"destroy", "returned"} => CountsInv /\ FileInv
=============================================================================
