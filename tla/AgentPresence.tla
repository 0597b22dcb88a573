--------------------------- MODULE AgentPresence ---------------------------
(***************************************************************************)
(* Which agents drop_server believes to be online.  A heartbeat and a      *)
(* registration both call PGStore::UpsertAgent, the scanner thread calls   *)
(* PGStore::ScanAgentHeartbeats every few seconds; each is a series of     *)
(* autocommitted statements on agent_info and agent_audit_log, and the     *)
(* statements of the gRPC threads and of the scanner interleave.           *)
(*                                                                         *)
(* Of last_hb only this is kept: whether it is older than hb_timeout.  Of  *)
(* an agent's audit rows: how many say 'offline', and what the last says.  *)
(***************************************************************************)
EXTENDS Naturals

CONSTANTS
  Agents,      \* rows of agent_info, by ip_addr
  Threads,     \* gRPC threads of drop_server
  Nobody,      \* no agent
  MaxLapses,   \* bound on the silences of each agent
  MaxErrors,   \* bound on the SQL statements that fail
  MaxCrashes   \* bound on the crashes of drop_server

ASSUME PresenceAssumption ==
  /\ Nobody \notin Agents
  /\ MaxLapses \in Nat /\ MaxErrors \in Nat /\ MaxCrashes \in Nat

VARIABLES
  row,          \* agent_info: "absent", "online" or "offline"
  stale,        \* last_hb < NOW() - hb_timeout
  offlineRows,  \* how many of the agent's audit rows are 'offline'
  lastRow,      \* event_type of its last audit row, or "none"
  call,         \* UpsertAgent in each gRPC thread
  scan,         \* ScanAgentHeartbeats: program counter, rows left, row at work
  lapses, errors, crashes

vars == <<row, stale, offlineRows, lastRow, call, scan, lapses, errors, crashes>>

Idle     == [pc |-> "idle", agent |-> Nobody, wasOffline |-> FALSE]
ScanIdle == [pc |-> "idle", ids |-> {}, at |-> Nobody]

Init ==
  /\ row = [a \in Agents |-> "absent"]
  /\ stale = [a \in Agents |-> FALSE]
  /\ offlineRows = [a \in Agents |-> 0]
  /\ lastRow = [a \in Agents |-> "none"]
  /\ call = [t \in Threads |-> Idle]
  /\ scan = ScanIdle
  /\ lapses = [a \in Agents |-> 0]
  /\ errors = 0
  /\ crashes = 0
-----------------------------------------------------------------------------
(* One statement works, or it fails and changes nothing.  Every caller but *)
(* the scanner's SELECTs goes on to its next statement either way.         *)
Works == UNCHANGED errors
Fails == errors < MaxErrors /\ errors' = errors + 1

(* Mutant: the id is used before a row was found. *)
SelectAgentNoRow(t, a) ==
  /\ call[t].pc = "idle"
  /\ Works
  /\ call' = [call EXCEPT ![t] = [pc |-> "upsert", agent |-> Nobody,
                                  wasOffline |-> row[a] = "offline"]]
  /\ UNCHANGED <<row, stale, offlineRows, lastRow, scan, lapses, crashes>>

(* INSERT INTO agent_audit_log. *)
InsertAudit(a, event) ==
  \/ /\ Works
     /\ offlineRows' = IF event = "offline"
                       THEN [offlineRows EXCEPT ![a] = @ + 1] ELSE offlineRows
     /\ lastRow' = [lastRow EXCEPT ![a] = event]
  \/ Fails /\ UNCHANGED <<offlineRows, lastRow>>

(* Mutant: only the audit row is written. *)
LeaveOnline(a, value) == Works /\ UNCHANGED row

(* UPDATE agent_info SET online = ... WHERE id = a: last_hb is not looked  *)
(* at again.                                                               *)
UpdateOnline(a, value) ==
  \/ Works /\ row' = [row EXCEPT ![a] = value]
  \/ Fails /\ UNCHANGED row
-----------------------------------------------------------------------------
(* UpsertAgent. *)

(* A heartbeat or a registration of agent a arrives; SELECT id, online. *)
SelectAgent(t, a) ==
  /\ call[t].pc = "idle"
  /\ \/ /\ Works
        /\ call' = [call EXCEPT ![t] = [pc |-> "upsert", agent |-> a,
                                        wasOffline |-> row[a] = "offline"]]
     \/ /\ Fails
        /\ call' = [call EXCEPT ![t] = [pc |-> "upsert", agent |-> a,
                                        wasOffline |-> FALSE]]
  /\ UNCHANGED <<row, stale, offlineRows, lastRow, scan, lapses, crashes>>

(* INSERT ... ON CONFLICT (ip_addr) DO UPDATE: online, last_hb = NOW(). *)
UpsertAgent(t) ==
  /\ call[t].pc = "upsert"
  /\ \/ /\ Works
        /\ row' = [row EXCEPT ![call[t].agent] = "online"]
        /\ stale' = [stale EXCEPT ![call[t].agent] = FALSE]
     \/ Fails /\ UNCHANGED <<row, stale>>
  /\ call' = [call EXCEPT ![t] = IF @.wasOffline THEN [@ EXCEPT !.pc = "audit"]
                                 ELSE Idle]
  /\ UNCHANGED <<offlineRows, lastRow, scan, lapses, crashes>>

AuditRecovered(t) ==
  /\ call[t].pc = "audit"
  /\ InsertAudit(call[t].agent, "online")
  /\ call' = [call EXCEPT ![t] = Idle]
  /\ UNCHANGED <<row, stale, scan, lapses, crashes>>
-----------------------------------------------------------------------------
(* ScanAgentHeartbeats. *)

(* SELECT ... WHERE online = true AND last_hb < ...; an error ends the     *)
(* scan.                                                                   *)
(* Mutant: the scan does not look at last_hb. *)
AllOnlineAgents == {a \in Agents : row[a] = "online"}

StaleAgents == {a \in Agents : row[a] = "online" /\ stale[a]}

SelectStale ==
  /\ scan.pc = "idle"
  /\ \/ Works /\ scan' = [pc |-> "markOffline", ids |-> StaleAgents, at |-> Nobody]
     \/ Fails /\ UNCHANGED scan
  /\ UNCHANGED <<row, stale, offlineRows, lastRow, call, lapses, crashes>>

MarkOffline(a) ==
  /\ scan.pc = "markOffline"
  /\ a \in scan.ids
  /\ UpdateOnline(a, "offline")
  /\ scan' = [pc |-> "auditOffline", ids |-> scan.ids \ {a}, at |-> a]
  /\ UNCHANGED <<stale, offlineRows, lastRow, call, lapses, crashes>>

AuditOffline ==
  /\ scan.pc = "auditOffline"
  /\ InsertAudit(scan.at, "offline")
  /\ scan' = [pc |-> "markOffline", ids |-> scan.ids, at |-> Nobody]
  /\ UNCHANGED <<row, stale, call, lapses, crashes>>

(* SELECT ... WHERE online = false AND last_hb >= ... *)
(* Mutant: nothing is detected to have come back. *)
NoAgents == {}

FreshAgents == {a \in Agents : row[a] = "offline" /\ ~stale[a]}

SelectFresh ==
  /\ scan.pc = "markOffline"
  /\ scan.ids = {}
  /\ \/ Works /\ scan' = [pc |-> "markOnline", ids |-> FreshAgents, at |-> Nobody]
     \/ Fails /\ scan' = ScanIdle
  /\ UNCHANGED <<row, stale, offlineRows, lastRow, call, lapses, crashes>>

MarkOnline(a) ==
  /\ scan.pc = "markOnline"
  /\ a \in scan.ids
  /\ UpdateOnline(a, "online")
  /\ scan' = [pc |-> "auditOnline", ids |-> scan.ids \ {a}, at |-> a]
  /\ UNCHANGED <<stale, offlineRows, lastRow, call, lapses, crashes>>

AuditOnline ==
  /\ scan.pc = "auditOnline"
  /\ InsertAudit(scan.at, "online")
  /\ scan' = [pc |-> "markOnline", ids |-> scan.ids, at |-> Nobody]
  /\ UNCHANGED <<row, stale, call, lapses, crashes>>

(* The scan is over; the thread sleeps for hb_scan_interval. *)
ScanEnds ==
  /\ scan.pc = "markOnline"
  /\ scan.ids = {}
  /\ scan' = ScanIdle
  /\ UNCHANGED <<row, stale, offlineRows, lastRow, call, lapses, errors, crashes>>
-----------------------------------------------------------------------------
(* hb_timeout goes by without a heartbeat of a. *)
Lapse(a) ==
  /\ row[a] # "absent" /\ ~stale[a]
  /\ lapses[a] < MaxLapses
  /\ stale' = [stale EXCEPT ![a] = TRUE]
  /\ lapses' = [lapses EXCEPT ![a] = @ + 1]
  /\ UNCHANGED <<row, offlineRows, lastRow, call, scan, errors, crashes>>

(* drop_server dies between two statements and is started again. *)
ServerCrash ==
  /\ crashes < MaxCrashes
  /\ crashes' = crashes + 1
  /\ call' = [t \in Threads |-> Idle]
  /\ scan' = ScanIdle
  /\ UNCHANGED <<row, stale, offlineRows, lastRow, lapses, errors>>

HandlerStep(t) == UpsertAgent(t) \/ AuditRecovered(t)

ScannerStep ==
  \/ SelectStale \/ AuditOffline \/ SelectFresh \/ AuditOnline \/ ScanEnds
  \/ \E a \in Agents : MarkOffline(a) \/ MarkOnline(a)

Next ==
  \/ \E t \in Threads, a \in Agents : SelectAgent(t, a)
  \/ \E t \in Threads : HandlerStep(t)
  \/ ScannerStep
  \/ \E a \in Agents : Lapse(a)
  \/ ServerCrash

Spec == Init /\ [][Next]_vars

(* The scanner loops for ever and a handler that has begun goes on; that   *)
(* agents send heartbeats is not assumed.                                  *)
Fairness ==
  /\ WF_vars(ScannerStep)
  /\ \A t \in Threads : WF_vars(HandlerStep(t))

FairSpec == Spec /\ Fairness
-----------------------------------------------------------------------------
(* The type invariant. *)
TypeOK ==
  /\ row \in [Agents -> {"absent", "online", "offline"}]
  /\ stale \in [Agents -> BOOLEAN]
  /\ offlineRows \in [Agents -> Nat]
  /\ lastRow \in [Agents -> {"none", "online", "offline"}]
  /\ call \in [Threads -> [pc : {"idle", "upsert", "audit"},
                           agent : Agents \cup {Nobody}, wasOffline : BOOLEAN]]
  /\ \A t \in Threads : call[t].pc # "idle" => call[t].agent \in Agents
  /\ scan \in [pc : {"idle", "markOffline", "auditOffline", "markOnline", "auditOnline"},
               ids : SUBSET Agents, at : Agents \cup {Nobody}]
  /\ scan.pc \in {"auditOffline", "auditOnline"} => scan.at \in Agents
  /\ lapses \in [Agents -> Nat]
  /\ errors \in Nat /\ crashes \in Nat

(***************************************************************************)
(* An agent whose heartbeats always came in time is never shown offline    *)
(* and has no audit row, whatever the scanner and the other calls of       *)
(* UpsertAgent were doing, failed at or were cut off from.                 *)
(***************************************************************************)
NeverSilentNeverAudited ==
  \A a \in Agents : lapses[a] = 0 => row[a] # "offline" /\ lastRow[a] = "none"

(***************************************************************************)
(* A silence is recorded at most once: ScanAgentHeartbeats writes no more  *)
(* 'offline' rows for an agent than it was silent, except for an UPDATE    *)
(* that failed and is repeated by the next scan.                           *)
(***************************************************************************)
OneOfflineRowPerSilence ==
  \A a \in Agents : offlineRows[a] <= lapses[a] + errors

(***************************************************************************)
(* The flag comes to agree with the heartbeats: an agent that stays fresh  *)
(* is shown online for good, also when a scan wrote offline over a         *)
(* heartbeat it had not seen, and one that stays silent is shown offline.  *)
(***************************************************************************)
PresenceConverges ==
  \A a \in Agents :
    /\ <>[](row[a] # "absent" /\ ~stale[a]) => <>[](row[a] = "online")
    /\ <>[](stale[a]) => <>[](row[a] = "offline")
-----------------------------------------------------------------------------
(***************************************************************************)
(* The inductive invariant.  SpellsKept counts for each agent the rows     *)
(* written, the row the scanner is about to write and the row a later scan *)
(* will want to write: each has a silence, or an error, of its own.        *)
(***************************************************************************)
OnList(a, pcs) == scan.pc \in pcs /\ a \in scan.ids

OfflineDue(a) ==
  \/ OnList(a, {"markOffline", "auditOffline"})
  \/ scan.pc = "auditOffline" /\ scan.at = a

OfflineToCome(a) ==
  /\ stale[a]
  /\ row[a] = "online" \/ OnList(a, {"markOnline", "auditOnline"})
  /\ ~OnList(a, {"markOffline", "auditOffline"})

One(p) == IF p THEN 1 ELSE 0

SpellsKept ==
  \A a \in Agents :
    offlineRows[a] + One(OfflineDue(a)) + One(OfflineToCome(a)) <= lapses[a] + errors

(* Nothing refers to an agent that was never silent. *)
SilentOnly ==
  /\ \A a \in Agents : lapses[a] = 0 =>
       ~stale[a] /\ a \notin scan.ids /\ scan.at # a
  /\ \A t \in Threads :
       \/ call[t].pc = "idle"
       \/ call[t].pc = "upsert" /\ ~call[t].wasOffline
       \/ lapses[call[t].agent] > 0

(* The scanner visits each row of its list once. *)
VisitedOnce == scan.at \notin scan.ids

(* The conjunction that every statement, failure and crash keeps. *)
PresenceInv == NeverSilentNeverAudited /\ SilentOnly /\ VisitedOnce /\ SpellsKept
=============================================================================
