------------------------ MODULE AgentPresence_proofs ------------------------
(***************************************************************************)
(* Proofs about AgentPresence for every number of agents, gRPC threads,    *)
(* silences, failing statements and crashes.  The bound on 'offline' rows  *)
(* is not inductive: a row is written two statements after the SELECT that *)
(* decided on it, and in between heartbeats, silences and errors change    *)
(* what was selected.  SpellsKept follows each silence through that delay. *)
(***************************************************************************)
EXTENDS AgentPresence, TLAPS

USE PresenceAssumption, SMTT(20), ZenonT(20)

(* Every statement, failure, silence and crash keeps the types. *)
LEMMA TypeNext == TypeOK /\ [Next]_vars => TypeOK'
<1> SUFFICES ASSUME TypeOK, [Next]_vars PROVE TypeOK'
  OBVIOUS
<1> USE DEF TypeOK, Works, Fails, Idle, ScanIdle
<1>1. ASSUME NEW t \in Threads, NEW a \in Agents, SelectAgent(t, a) PROVE TypeOK'
  <2>1. PICK w \in BOOLEAN :
          call' = [call EXCEPT ![t] = [pc |-> "upsert", agent |-> a, wasOffline |-> w]]
    BY <1>1, Zenon DEF SelectAgent
  <2>2. errors' \in Nat
    BY <1>1 DEF SelectAgent
  <2> QED
    BY <1>1, <2>1, <2>2 DEF SelectAgent
<1>2. ASSUME NEW t \in Threads, UpsertAgent(t) PROVE TypeOK'
  <2>1. errors' \in Nat /\ row' \in [Agents -> {"absent", "online", "offline"}]
    BY <1>2 DEF UpsertAgent
  <2>2. stale' \in [Agents -> BOOLEAN]
    BY <1>2, Zenon DEF UpsertAgent
  <2>3. CASE call[t].wasOffline
    <3>1. call' = [call EXCEPT ![t] = [@ EXCEPT !.pc = "audit"]]
      BY <1>2, <2>3 DEF UpsertAgent
    <3> QED
      BY <1>2, <2>1, <2>2, <3>1 DEF UpsertAgent
  <2>4. CASE ~call[t].wasOffline
    <3>1. call' = [call EXCEPT ![t] = Idle]
      BY <1>2, <2>4 DEF UpsertAgent
    <3> QED
      BY <1>2, <2>1, <2>2, <3>1 DEF UpsertAgent
  <2> QED
    BY <2>3, <2>4
<1>3. ASSUME NEW t \in Threads, AuditRecovered(t) PROVE TypeOK'
  BY <1>3 DEF AuditRecovered, InsertAudit
<1>4. CASE SelectStale  BY <1>4 DEF SelectStale, StaleAgents
<1>5. ASSUME NEW a \in Agents, MarkOffline(a) PROVE TypeOK'
  BY <1>5 DEF MarkOffline, UpdateOnline
<1>6. CASE AuditOffline  BY <1>6 DEF AuditOffline, InsertAudit
<1>7. CASE SelectFresh  BY <1>7 DEF SelectFresh, FreshAgents
<1>8. ASSUME NEW a \in Agents, MarkOnline(a) PROVE TypeOK'
  BY <1>8 DEF MarkOnline, UpdateOnline
<1>9. CASE AuditOnline  BY <1>9 DEF AuditOnline, InsertAudit
<1>10. CASE ScanEnds  BY <1>10 DEF ScanEnds
<1>11. ASSUME NEW a \in Agents, Lapse(a) PROVE TypeOK'
  BY <1>11 DEF Lapse
<1>12. CASE ServerCrash  BY <1>12 DEF ServerCrash
<1>13. CASE UNCHANGED vars  BY <1>13 DEF vars
<1> QED
  BY <1>1, <1>2, <1>3, <1>4, <1>5, <1>6, <1>7, <1>8, <1>9, <1>10, <1>11, <1>12,
     <1>13 DEF Next, HandlerStep, ScannerStep

(* An agent that was never silent is in no SELECT's result, so neither     *)
(* the scanner nor UpsertAgent changes or audits it.                       *)
LEMMA SilentNext ==
  TypeOK /\ NeverSilentNeverAudited /\ SilentOnly /\ [Next]_vars
    => NeverSilentNeverAudited' /\ SilentOnly'
<1> SUFFICES ASSUME TypeOK, NeverSilentNeverAudited, SilentOnly, [Next]_vars
             PROVE  NeverSilentNeverAudited' /\ SilentOnly'
  OBVIOUS
<1> USE DEF TypeOK, NeverSilentNeverAudited, SilentOnly, Works, Fails, Idle, ScanIdle
<1> DEFINE Goal == NeverSilentNeverAudited' /\ SilentOnly'
<1>1. ASSUME NEW t \in Threads, NEW a \in Agents, SelectAgent(t, a) PROVE Goal
  BY <1>1 DEF SelectAgent
<1>2. ASSUME NEW t \in Threads, UpsertAgent(t) PROVE Goal
  BY <1>2 DEF UpsertAgent
<1>3. ASSUME NEW t \in Threads, AuditRecovered(t) PROVE Goal
  BY <1>3 DEF AuditRecovered, InsertAudit
<1>4. CASE SelectStale  BY <1>4 DEF SelectStale, StaleAgents
<1>5. ASSUME NEW a \in Agents, MarkOffline(a) PROVE Goal
  BY <1>5 DEF MarkOffline, UpdateOnline
<1>6. CASE AuditOffline  BY <1>6 DEF AuditOffline, InsertAudit
<1>7. CASE SelectFresh  BY <1>7 DEF SelectFresh, FreshAgents
<1>8. ASSUME NEW a \in Agents, MarkOnline(a) PROVE Goal
  BY <1>8 DEF MarkOnline, UpdateOnline
<1>9. CASE AuditOnline  BY <1>9 DEF AuditOnline, InsertAudit
<1>10. CASE ScanEnds  BY <1>10 DEF ScanEnds
<1>11. ASSUME NEW a \in Agents, Lapse(a) PROVE Goal
  BY <1>11 DEF Lapse
<1>12. CASE ServerCrash  BY <1>12 DEF ServerCrash
<1>13. CASE UNCHANGED vars  BY <1>13 DEF vars
<1> QED
  BY <1>1, <1>2, <1>3, <1>4, <1>5, <1>6, <1>7, <1>8, <1>9, <1>10, <1>11, <1>12,
     <1>13 DEF Next, HandlerStep, ScannerStep

(* A row is taken off the scanner's list when it becomes the one at work.  *)
LEMMA VisitedNext == TypeOK /\ VisitedOnce /\ [Next]_vars => VisitedOnce'
  BY PresenceAssumption
  DEF TypeOK, VisitedOnce, Next, HandlerStep, ScannerStep, vars, SelectAgent,
      UpsertAgent, AuditRecovered, SelectStale, MarkOffline, AuditOffline,
      SelectFresh, MarkOnline, AuditOnline, ScanEnds, Lapse, ServerCrash, ScanIdle,
      StaleAgents, FreshAgents

(* Every step keeps an 'offline' row, written, due or to come, backed by a *)
(* silence or an error of its own.                                         *)
LEMMA SpellsNext ==
  TypeOK /\ VisitedOnce /\ SpellsKept /\ [Next]_vars => SpellsKept'
<1> SUFFICES ASSUME TypeOK, VisitedOnce, SpellsKept, [Next]_vars, NEW x \in Agents
             PROVE  (offlineRows[x] + One(OfflineDue(x)) + One(OfflineToCome(x))
                       <= lapses[x] + errors)'
  BY DEF SpellsKept
<1> USE DEF TypeOK, VisitedOnce, SpellsKept, Works, Fails, ScanIdle, One, OfflineDue,
            OfflineToCome, OnList
<1> DEFINE Goal == (offlineRows[x] + One(OfflineDue(x)) + One(OfflineToCome(x))
                      <= lapses[x] + errors)'
<1>1. ASSUME NEW t \in Threads, NEW a \in Agents, SelectAgent(t, a) PROVE Goal
  BY <1>1 DEF SelectAgent
<1>2. ASSUME NEW t \in Threads, UpsertAgent(t) PROVE Goal
  BY <1>2 DEF UpsertAgent
<1>3. ASSUME NEW t \in Threads, AuditRecovered(t) PROVE Goal
  BY <1>3 DEF AuditRecovered, InsertAudit
<1>4. CASE SelectStale  BY <1>4 DEF SelectStale, StaleAgents
<1>5. ASSUME NEW a \in Agents, MarkOffline(a) PROVE Goal
  BY <1>5 DEF MarkOffline, UpdateOnline
<1>6. CASE AuditOffline  BY <1>6 DEF AuditOffline, InsertAudit
<1>7. CASE SelectFresh  BY <1>7 DEF SelectFresh, FreshAgents
<1>8. ASSUME NEW a \in Agents, MarkOnline(a) PROVE Goal
  BY <1>8 DEF MarkOnline, UpdateOnline
<1>9. CASE AuditOnline  BY <1>9 DEF AuditOnline, InsertAudit
<1>10. CASE ScanEnds  BY <1>10 DEF ScanEnds
<1>11. ASSUME NEW a \in Agents, Lapse(a) PROVE Goal
  BY <1>11 DEF Lapse
<1>12. CASE ServerCrash  BY <1>12 DEF ServerCrash
<1>13. CASE UNCHANGED vars  BY <1>13 DEF vars
<1> QED
  BY <1>1, <1>2, <1>3, <1>4, <1>5, <1>6, <1>7, <1>8, <1>9, <1>10, <1>11, <1>12,
     <1>13 DEF Next, HandlerStep, ScannerStep

(* The types and the inductive invariant hold in every behaviour.          *)
THEOREM Invariance == Spec => [](TypeOK /\ PresenceInv)
<1>1. Init => TypeOK
  BY DEF Init, TypeOK, Idle, ScanIdle
<1>2. Init => PresenceInv
  BY DEF Init, PresenceInv, NeverSilentNeverAudited, SilentOnly, VisitedOnce,
     SpellsKept, Idle, ScanIdle, One, OfflineDue, OfflineToCome, OnList
<1>3. TypeOK /\ PresenceInv /\ [Next]_vars => (TypeOK /\ PresenceInv)'
  BY TypeNext, SilentNext, VisitedNext, SpellsNext DEF PresenceInv
<1> QED
  BY <1>1, <1>2, <1>3, PTL DEF Spec

(* The type invariant holds for any number of agents and handler threads:  *)
(* an UpsertAgent call or a scan that is about to write a row or an audit  *)
(* row is about to write it for an agent.                                  *)
THEOREM TypeCorrect == Spec => []TypeOK
  BY Invariance, PTL

(* An agent that always beat in time is never shown offline nor audited.   *)
THEOREM NeverSilent == Spec => []NeverSilentNeverAudited
<1>1. PresenceInv => NeverSilentNeverAudited
  BY DEF PresenceInv
<1> QED
  BY <1>1, Invariance, PTL

(* The scanner records a silence at most once, errors apart.               *)
THEOREM OneRowPerSilence == Spec => []OneOfflineRowPerSilence
<1>1. TypeOK /\ PresenceInv => OneOfflineRowPerSilence
  <2> SUFFICES ASSUME TypeOK, PresenceInv, NEW a \in Agents
               PROVE  offlineRows[a] <= lapses[a] + errors
    BY Zenon DEF OneOfflineRowPerSilence
  <2>1. One(OfflineDue(a)) \in Nat /\ One(OfflineToCome(a)) \in Nat
    BY DEF One
  <2>2. offlineRows[a] + One(OfflineDue(a)) + One(OfflineToCome(a)) <= lapses[a] + errors
    BY DEF PresenceInv, SpellsKept
  <2>3. offlineRows[a] \in Nat /\ lapses[a] \in Nat /\ errors \in Nat
    BY DEF TypeOK
  <2> QED
    BY <2>1, <2>2, <2>3
<1> QED
  BY <1>1, Invariance, PTL
=============================================================================
