------------------------ MODULE AgentGatewayProofs --------------------------
(* Proofs about the tool calls: first about their rows (ToolRepository),   *)
(* whose invariants hold for every set of calls, sessions, clients and     *)
(* turns and for every limit, then about the gateway (AgentGateway).       *)
EXTENDS AgentGateway, FiniteSetTheorems, TLAPS

\* What the audit trail must also say for AuditTrailIsComplete to be kept: the
\* call went through "queued" before it ran.
RunsWereQueued ==
  \A c \in Calls : "running" \in entered[c] => "queued" \in entered[c]

\* The inductive invariant of the rows: all but the two limits.
RowInv == RepoTypeOK /\ LedgerAgrees /\ AuditTrailIsComplete /\ RunsWereQueued

-----------------------------------------------------------------------------
(* The state graph.                                                        *)

\* Where the moves of LEGAL_TOOL_TRANSITIONS start, for the destinations the
\* audit trail speaks of; no move leaves a terminal status.
LEMMA LegalSources ==
  ASSUME NEW s \in Statuses \cup {Absent}, NEW to \in LegalTransitions[s]
  PROVE  /\ s \in LiveStatuses
         /\ to \in Statuses
         /\ to \in {"running", "cancelled"} => s \in {"queued", "running"}
         /\ to = "running" => s = "queued"
         /\ to = "completed" => s = "running"
         /\ to \in {"approved", "denied"} => s = "awaiting_approval"
BY DEF LegalTransitions, Statuses, LiveStatuses, TerminalStatuses, Absent

\* The outcome column of a status is open or terminal.
LEMMA OutcomeType ==
  ASSUME NEW s \in Statuses \cup {Absent}
  PROVE  Outcome(s) \in TerminalStatuses \cup {"open"}
BY DEF Outcome

-----------------------------------------------------------------------------
(* The rows.                                                               *)

\* One legal move of one call keeps the rows consistent, whichever method of
\* the repository makes it.
LEMMA MoveKeepsRows ==
  ASSUME RowInv, NEW c \in Calls, NEW to, MayEnter(c, to), Enter(c, to),
         UNCHANGED <<target, cap>>
  PROVE  RowInv'
<1>1. status[c] \in Statuses \cup {Absent}
  BY DEF RowInv, RepoTypeOK
<1>2. to \in LegalTransitions[status[c]]
  BY DEF MayEnter
<1>3. /\ status[c] \in LiveStatuses
      /\ to \in Statuses
      /\ to = "running" => status[c] = "queued"
      /\ to = "completed" => status[c] = "running"
      /\ to \in {"approved", "denied"} => status[c] = "awaiting_approval"
  BY <1>1, <1>2, LegalSources
<1>4. status[c] \in entered[c]
  BY <1>3 DEF RowInv, AuditTrailIsComplete, LiveStatuses, Absent
<1>5. Outcome(to) \in TerminalStatuses \cup {"open"}
  BY <1>3, OutcomeType
<1>6. RepoTypeOK'
  BY <1>3, <1>5 DEF RowInv, RepoTypeOK, Enter
<1>7. LedgerAgrees'
  BY DEF RowInv, RepoTypeOK, LedgerAgrees, Enter, Outcome
<1>8. RunsWereQueued'
  BY <1>3, <1>4 DEF RowInv, RepoTypeOK, RunsWereQueued, Enter
<1>9. AuditTrailIsComplete'
  BY <1>3, <1>4
  DEF RowInv, RepoTypeOK, AuditTrailIsComplete, RunsWereQueued, Enter, Absent
<1>10. QED
  BY <1>6, <1>7, <1>8, <1>9 DEF RowInv

\* The first row of a call starts it as proposed.
LEMMA CreateKeepsRows ==
  ASSUME RowInv, NEW c \in Calls, NEW s \in Sessions, CreateToolCall(c, s)
  PROVE  RowInv'
<1>1. RepoTypeOK'
  BY DEF RowInv, RepoTypeOK, CreateToolCall, Enter, Outcome, Statuses,
         LiveStatuses, TerminalStatuses
<1>2. LedgerAgrees'
  BY DEF RowInv, RepoTypeOK, LedgerAgrees, CreateToolCall, Enter, Outcome
<1>3. RunsWereQueued'
  BY DEF RowInv, RepoTypeOK, RunsWereQueued, CreateToolCall, Enter
<1>4. AuditTrailIsComplete'
  BY DEF RowInv, RepoTypeOK, AuditTrailIsComplete, CreateToolCall, Enter, Absent
<1>5. QED
  BY <1>1, <1>2, <1>3, <1>4 DEF RowInv

\* The loss of a session moves all its live rows at once.
LEMMA DisconnectKeepsRows ==
  ASSUME RowInv, NEW s \in Sessions, DisconnectSession(s)
  PROVE  RowInv'
<1>1. RepoTypeOK'
  BY DEF RowInv, RepoTypeOK, DisconnectSession, Statuses, TerminalStatuses
<1>2. LedgerAgrees'
  BY DEF RowInv, RepoTypeOK, LedgerAgrees, DisconnectSession, Outcome,
         TerminalStatuses
<1>3. RunsWereQueued'
  BY DEF RowInv, RepoTypeOK, RunsWereQueued, DisconnectSession
<1>4. AuditTrailIsComplete'
  BY DEF RowInv, RepoTypeOK, AuditTrailIsComplete, DisconnectSession, Absent
<1>5. QED
  BY <1>1, <1>2, <1>3, <1>4 DEF RowInv

\* Advertisements and their expiry do not touch the rows of calls.
LEMMA CapabilitiesKeepRows ==
  ASSUME RowInv, UNCHANGED <<status, target, ledger, entered>>,
         cap' \in [Sessions -> BOOLEAN]
  PROVE  RowInv'
BY DEF RowInv, RepoTypeOK, LedgerAgrees, AuditTrailIsComplete, RunsWereQueued

LEMMA RowInvInit == RepoInit => RowInv
BY DEF RepoInit, RowInv, RepoTypeOK, LedgerAgrees, AuditTrailIsComplete,
       RunsWereQueued, Outcome, TerminalStatuses, Absent

LEMMA RowInvNext == RowInv /\ [RepoNext]_repoVars => RowInv'
<1> SUFFICES ASSUME RowInv, [RepoNext]_repoVars PROVE RowInv'
  OBVIOUS
<1>1. ASSUME NEW c \in Calls, NEW s \in Sessions, CreateToolCall(c, s)
      PROVE  RowInv'
  BY <1>1, CreateKeepsRows
<1>2. ASSUME NEW c \in Calls, NEW to \in PlainTransitions, Transition(c, to)
      PROVE  RowInv'
  BY <1>2, MoveKeepsRows DEF Transition
<1>3. ASSUME NEW c \in Calls, QueueWithParallelLimit(c) PROVE RowInv'
  BY <1>3, MoveKeepsRows DEF QueueWithParallelLimit
<1>4. ASSUME NEW c \in Calls, NEW yes \in BOOLEAN, RecordApproval(c, yes)
      PROVE  RowInv'
  BY <1>4, MoveKeepsRows DEF RecordApproval
<1>5. ASSUME NEW c \in Calls, NEW result \in ResultStatuses,
             RecordResult(c, result)
      PROVE  RowInv'
  <2>1. Outcome(result) = result
    BY DEF Outcome, ResultStatuses, TerminalStatuses
  <2>2. Enter(c, result)
    BY <1>5, <2>1 DEF RecordResult, Enter
  <2>3. QED
    BY <1>5, <2>2, MoveKeepsRows DEF RecordResult
<1>6. ASSUME NEW s \in Sessions, NEW enabled \in BOOLEAN,
             ReplaceCapabilities(s, enabled)
      PROVE  RowInv'
  <2>1. cap \in [Sessions -> BOOLEAN]
    BY DEF RowInv, RepoTypeOK
  <2>2. cap' \in [Sessions -> BOOLEAN]
    BY <1>6, <2>1 DEF ReplaceCapabilities
  <2>3. QED
    BY <1>6, <2>2, CapabilitiesKeepRows DEF ReplaceCapabilities
<1>7. ASSUME NEW s \in Sessions, ExpireCapability(s) PROVE RowInv'
  <2>1. cap' \in [Sessions -> BOOLEAN]
    BY <1>7 DEF ExpireCapability, RowInv, RepoTypeOK
  <2>2. QED
    BY <1>7, <2>1, CapabilitiesKeepRows DEF ExpireCapability
<1>8. ASSUME NEW s \in Sessions, DisconnectSession(s) PROVE RowInv'
  BY <1>8, DisconnectKeepsRows
<1>9. CASE UNCHANGED repoVars
  <2>1. cap' \in [Sessions -> BOOLEAN]
    BY <1>9 DEF repoVars, RowInv, RepoTypeOK
  <2>2. QED
    BY <1>9, <2>1, CapabilitiesKeepRows DEF repoVars
<1>10. QED
  BY <1>1, <1>2, <1>3, <1>4, <1>5, <1>6, <1>7, <1>8, <1>9 DEF RepoNext

\* The rows keep their types under every sequence of repository transactions.
THEOREM RepoTypes == RepoSpec => []RepoTypeOK
<1>1. RowInv => RepoTypeOK
  BY DEF RowInv
<1>2. QED
  BY <1>1, RowInvInit, RowInvNext, PTL DEF RepoSpec

\* The replay ledger never disagrees with the row it stands for.
THEOREM RepoLedger == RepoSpec => []LedgerAgrees
<1>1. RowInv => LedgerAgrees
  BY DEF RowInv
<1>2. QED
  BY <1>1, RowInvInit, RowInvNext, PTL DEF RepoSpec

\* The audit trail names the states every call went through.
THEOREM RepoAuditTrail == RepoSpec => []AuditTrailIsComplete
<1>1. RowInv => AuditTrailIsComplete
  BY DEF RowInv
<1>2. QED
  BY <1>1, RowInvInit, RowInvNext, PTL DEF RepoSpec

-----------------------------------------------------------------------------
(* Outcomes are final: no invariant but the types is needed.               *)

LEMMA FinalStep ==
  ASSUME RepoTypeOK, [RepoNext]_repoVars, NEW d \in Calls, status[d] # Absent
  PROVE  /\ target'[d] = target[d]
         /\ status[d] \in TerminalStatuses =>
              status'[d] = status[d] /\ ledger'[d] = ledger[d]
<1>1. ASSUME NEW c \in Calls, NEW to, MayEnter(c, to)
      PROVE  status[c] \notin TerminalStatuses
  <2>1. status[c] \in Statuses \cup {Absent} /\ to \in LegalTransitions[status[c]]
    BY <1>1 DEF RepoTypeOK, MayEnter
  <2>2. status[c] \in LiveStatuses
    BY <2>1, LegalSources
  <2>3. QED
    BY <2>2 DEF LiveStatuses, TerminalStatuses
<1>2. ASSUME NEW c \in Calls, NEW s \in Sessions, CreateToolCall(c, s)
      PROVE  /\ target'[d] = target[d]
             /\ status'[d] = status[d] /\ ledger'[d] = ledger[d]
  BY <1>2 DEF CreateToolCall, Enter, RepoTypeOK
<1>3. ASSUME NEW c \in Calls, NEW to, MayEnter(c, to), Enter(c, to),
             UNCHANGED target
      PROVE  /\ target'[d] = target[d]
             /\ status[d] \in TerminalStatuses =>
                  status'[d] = status[d] /\ ledger'[d] = ledger[d]
  BY <1>1, <1>3 DEF Enter, RepoTypeOK
<1>4. ASSUME NEW c \in Calls, NEW result \in ResultStatuses,
             RecordResult(c, result)
      PROVE  /\ target'[d] = target[d]
             /\ status[d] \in TerminalStatuses =>
                  status'[d] = status[d] /\ ledger'[d] = ledger[d]
  BY <1>4 DEF RecordResult, RepoTypeOK
<1>5. ASSUME NEW s \in Sessions, DisconnectSession(s)
      PROVE  /\ target'[d] = target[d]
             /\ status[d] \in TerminalStatuses =>
                  status'[d] = status[d] /\ ledger'[d] = ledger[d]
  BY <1>5 DEF DisconnectSession, LiveCallsOf, LiveStatuses, TerminalStatuses
<1>6. CASE UNCHANGED <<status, target, ledger>>
  BY <1>6
<1>7. QED
  BY <1>2, <1>3, <1>4, <1>5, <1>6
  DEF RepoNext, repoVars, Transition, QueueWithParallelLimit, RecordApproval,
      ReplaceCapabilities, ExpireCapability

\* No sequence of repository transactions reopens a terminal row, rewrites its
\* outcome or reroutes a call.
THEOREM RepoOutcomesFinal == RepoSpec => OutcomeIsFinal
<1>1. RepoTypeOK /\ [RepoNext]_repoVars =>
        [\A c \in Calls :
           status[c] # Absent =>
             /\ target'[c] = target[c]
             /\ status[c] \in TerminalStatuses =>
                  /\ status'[c] = status[c]
                  /\ ledger'[c] = ledger[c]]_repoVars
  BY FinalStep
<1>2. QED
  BY <1>1, RepoTypes, PTL DEF RepoSpec, OutcomeIsFinal

-----------------------------------------------------------------------------
(* The two limits.                                                         *)

LimitInv == RepoTypeOK /\ ParallelLimit /\ TurnLimit

\* A set that shrinks stays within the limit it was under.
LEMMA SmallerIsFine ==
  ASSUME NEW S, NEW T, S \subseteq Calls, T \subseteq S,
         NEW limit \in Nat, Cardinality(S) <= limit
  PROVE  Cardinality(T) <= limit
<1>1. IsFiniteSet(S) /\ Cardinality(S) \in Nat
  BY CallsAssumption, FS_Subset, FS_CardinalityType
<1>2. IsFiniteSet(T) /\ Cardinality(T) \in Nat /\ Cardinality(T) <= Cardinality(S)
  BY <1>1, FS_Subset, FS_CardinalityType
<1>3. QED
  BY <1>1, <1>2

\* A set below the limit may gain one call.
LEMMA OneMoreIsFine ==
  ASSUME NEW S, NEW T, NEW c \in Calls, S \subseteq Calls, T \subseteq S \cup {c},
         NEW limit \in Nat, ~(Cardinality(S) >= limit)
  PROVE  Cardinality(T) <= limit
<1>1. IsFiniteSet(S) /\ Cardinality(S) \in Nat
  BY CallsAssumption, FS_Subset, FS_CardinalityType
<1>2. Cardinality(S \cup {c}) =
        IF c \in S THEN Cardinality(S) ELSE Cardinality(S) + 1
  BY <1>1, FS_AddElement
<1>3. Cardinality(S \cup {c}) <= limit
  BY <1>1, <1>2
<1>4. S \cup {c} \subseteq Calls
  OBVIOUS
<1>5. QED
  BY <1>3, <1>4, SmallerIsFine

\* Rows other than those of c stay, and c neither appears nor enters a slot.
LEMMA QuietStepKeepsLimits ==
  ASSUME LimitInv, RepoTypeOK', UNCHANGED target,
         \A d \in Calls : status'[d] # Absent => status[d] # Absent,
         \A d \in Calls : status'[d] \in ExecutionStatuses =>
                            status[d] \in ExecutionStatuses
  PROVE  LimitInv'
<1>1. ASSUME NEW client \in Clients
      PROVE  Cardinality(Executing(client)') <= MaxParallelCalls
  <2>1. Executing(client)' \subseteq Executing(client)
    BY DEF Executing
  <2>2. Executing(client) \subseteq Calls
    BY DEF Executing
  <2>3. Cardinality(Executing(client)) <= MaxParallelCalls
    BY DEF LimitInv, ParallelLimit
  <2>4. QED
    BY <2>1, <2>2, <2>3, SmallerIsFine, LimitsAssumption
<1>2. ASSUME NEW t \in Turns
      PROVE  Cardinality(CallsOfTurn(t)') <= MaxCallsPerTurn
  <2>1. CallsOfTurn(t)' \subseteq CallsOfTurn(t)
    BY DEF CallsOfTurn
  <2>2. CallsOfTurn(t) \subseteq Calls
    BY DEF CallsOfTurn
  <2>3. Cardinality(CallsOfTurn(t)) <= MaxCallsPerTurn
    BY DEF LimitInv, TurnLimit
  <2>4. QED
    BY <2>1, <2>2, <2>3, SmallerIsFine, LimitsAssumption
<1>3. QED
  BY <1>1, <1>2 DEF LimitInv, ParallelLimit, TurnLimit

\* create_tool_call counts the turn's rows in the transaction that adds one.
LEMMA CreateKeepsLimits ==
  ASSUME LimitInv, RepoTypeOK', NEW c \in Calls, NEW s \in Sessions,
         CreateToolCall(c, s)
  PROVE  LimitInv'
<1>1. ASSUME NEW client \in Clients
      PROVE  Cardinality(Executing(client)') <= MaxParallelCalls
  <2>1. Executing(client)' \subseteq Executing(client)
    BY DEF LimitInv, RepoTypeOK, Executing, ExecutionStatuses, CreateToolCall,
           Enter
  <2>2. Executing(client) \subseteq Calls
    BY DEF Executing
  <2>3. Cardinality(Executing(client)) <= MaxParallelCalls
    BY DEF LimitInv, ParallelLimit
  <2>4. QED
    BY <2>1, <2>2, <2>3, SmallerIsFine, LimitsAssumption
<1>2. ASSUME NEW t \in Turns
      PROVE  Cardinality(CallsOfTurn(t)') <= MaxCallsPerTurn
  <2>1. CallsOfTurn(t) \subseteq Calls
    BY DEF CallsOfTurn
  <2>2. CASE TurnOf[c] = t
    <3>1. CallsOfTurn(t)' \subseteq CallsOfTurn(t) \cup {c}
      BY DEF LimitInv, RepoTypeOK, CallsOfTurn, CreateToolCall, Enter
    <3>2. ~(Cardinality(CallsOfTurn(t)) >= MaxCallsPerTurn)
      BY <2>2 DEF CreateToolCall, TurnIsFull
    <3>3. QED
      BY <2>1, <3>1, <3>2, OneMoreIsFine, LimitsAssumption
  <2>3. CASE TurnOf[c] # t
    <3>1. CallsOfTurn(t)' \subseteq CallsOfTurn(t)
      BY <2>3 DEF LimitInv, RepoTypeOK, CallsOfTurn, CreateToolCall, Enter
    <3>2. Cardinality(CallsOfTurn(t)) <= MaxCallsPerTurn
      BY DEF LimitInv, TurnLimit
    <3>3. QED
      BY <2>1, <3>1, <3>2, SmallerIsFine, LimitsAssumption
  <2>4. QED
    BY <2>2, <2>3
<1>3. QED
  BY <1>1, <1>2 DEF LimitInv, ParallelLimit, TurnLimit

\* queue_with_parallel_limit counts the client's other calls in the transaction
\* that queues one more.
LEMMA QueueKeepsLimits ==
  ASSUME LimitInv, RepoTypeOK', NEW c \in Calls, QueueWithParallelLimit(c)
  PROVE  LimitInv'
<1>1. status[c] # Absent
  BY DEF QueueWithParallelLimit, MayEnter, LegalTransitions, Absent
<1>2. /\ UNCHANGED target
      /\ status' = [status EXCEPT ![c] = "queued"]
  BY DEF QueueWithParallelLimit, Enter
<1>3. ASSUME NEW client \in Clients
      PROVE  Cardinality(Executing(client)') <= MaxParallelCalls
  <2>1. Executing(client) \subseteq Calls
    BY DEF Executing
  <2>2. CASE ClientOf[target[c]] = client
    <3>1. Executing(client)' \subseteq (Executing(client) \ {c}) \cup {c}
      BY <1>2 DEF LimitInv, RepoTypeOK, Executing
    <3>2. ~(Cardinality(Executing(client) \ {c}) >= MaxParallelCalls)
      BY <2>2 DEF QueueWithParallelLimit, ClientIsFull
    <3>3. Executing(client) \ {c} \subseteq Calls
      BY <2>1
    <3>4. QED
      BY <3>1, <3>2, <3>3, OneMoreIsFine, LimitsAssumption
  <2>3. CASE ClientOf[target[c]] # client
    <3>1. Executing(client)' \subseteq Executing(client)
      BY <1>2, <2>3 DEF LimitInv, RepoTypeOK, Executing
    <3>2. Cardinality(Executing(client)) <= MaxParallelCalls
      BY DEF LimitInv, ParallelLimit
    <3>3. QED
      BY <2>1, <3>1, <3>2, SmallerIsFine, LimitsAssumption
  <2>4. QED
    BY <2>2, <2>3
<1>4. ASSUME NEW t \in Turns
      PROVE  Cardinality(CallsOfTurn(t)') <= MaxCallsPerTurn
  <2>1. CallsOfTurn(t)' \subseteq CallsOfTurn(t)
    BY <1>1, <1>2 DEF LimitInv, RepoTypeOK, CallsOfTurn
  <2>2. CallsOfTurn(t) \subseteq Calls
    BY DEF CallsOfTurn
  <2>3. Cardinality(CallsOfTurn(t)) <= MaxCallsPerTurn
    BY DEF LimitInv, TurnLimit
  <2>4. QED
    BY <2>1, <2>2, <2>3, SmallerIsFine, LimitsAssumption
<1>5. QED
  BY <1>3, <1>4 DEF LimitInv, ParallelLimit, TurnLimit

LEMMA LimitInvInit == RepoInit => LimitInv
<1> SUFFICES ASSUME RepoInit PROVE LimitInv
  OBVIOUS
<1>1. RepoTypeOK
  BY RowInvInit DEF RowInv
<1>2. \A client : Executing(client) = {}
  BY DEF RepoInit, Executing, ExecutionStatuses, Absent
<1>3. \A t : CallsOfTurn(t) = {}
  BY DEF RepoInit, CallsOfTurn
<1>4. QED
  BY <1>1, <1>2, <1>3, FS_EmptySet, LimitsAssumption
  DEF LimitInv, ParallelLimit, TurnLimit

LEMMA LimitInvNext ==
  LimitInv /\ RepoTypeOK' /\ [RepoNext]_repoVars => LimitInv'
<1> SUFFICES ASSUME LimitInv, RepoTypeOK', [RepoNext]_repoVars PROVE LimitInv'
  OBVIOUS
<1>1. ASSUME NEW c \in Calls, NEW to, MayEnter(c, to)
      PROVE  /\ status[c] # Absent
             /\ to = "running" => status[c] \in ExecutionStatuses
  <2>1. status[c] \in Statuses \cup {Absent} /\ to \in LegalTransitions[status[c]]
    BY <1>1 DEF LimitInv, RepoTypeOK, MayEnter
  <2>2. status[c] \in LiveStatuses /\ (to = "running" => status[c] = "queued")
    BY <2>1, LegalSources
  <2>3. QED
    BY <2>2 DEF LiveStatuses, ExecutionStatuses, Absent
<1>2. ASSUME NEW c \in Calls, NEW to, MayEnter(c, to), to # "queued",
             to # Absent, Enter(c, to), UNCHANGED target
      PROVE  LimitInv'
  <2>1. \A d \in Calls : status'[d] # Absent => status[d] # Absent
    BY <1>1, <1>2 DEF Enter, LimitInv, RepoTypeOK
  <2>2. \A d \in Calls : status'[d] \in ExecutionStatuses =>
                           status[d] \in ExecutionStatuses
    BY <1>1, <1>2 DEF Enter, LimitInv, RepoTypeOK, ExecutionStatuses
  <2>3. QED
    BY <1>2, <2>1, <2>2, QuietStepKeepsLimits
<1>3. ASSUME NEW c \in Calls, NEW to \in PlainTransitions, Transition(c, to)
      PROVE  LimitInv'
  BY <1>2, <1>3 DEF Transition, PlainTransitions, Absent
<1>4. ASSUME NEW c \in Calls, NEW yes \in BOOLEAN, RecordApproval(c, yes)
      PROVE  LimitInv'
  BY <1>2, <1>4 DEF RecordApproval, Verdict, Absent
<1>5. ASSUME NEW c \in Calls, NEW result \in ResultStatuses,
             RecordResult(c, result)
      PROVE  LimitInv'
  <2>1. Enter(c, result)
    BY <1>5 DEF RecordResult, Enter, Outcome, ResultStatuses, TerminalStatuses
  <2>2. QED
    BY <1>2, <1>5, <2>1 DEF RecordResult, ResultStatuses, Absent
<1>6. ASSUME NEW s \in Sessions, DisconnectSession(s) PROVE LimitInv'
  <2>1. \A d \in Calls : /\ status'[d] # Absent => status[d] # Absent
                         /\ status'[d] \in ExecutionStatuses =>
                              status[d] \in ExecutionStatuses
    BY <1>6 DEF DisconnectSession, LiveCallsOf, LiveStatuses, ExecutionStatuses,
                Absent
  <2>2. QED
    BY <1>6, <2>1, QuietStepKeepsLimits DEF DisconnectSession
<1>7. CASE UNCHANGED <<status, target>>
  BY <1>7, QuietStepKeepsLimits
<1>8. QED
  BY <1>3, <1>4, <1>5, <1>6, <1>7, CreateKeepsLimits, QueueKeepsLimits
  DEF RepoNext, repoVars, ReplaceCapabilities, ExpireCapability

\* Whatever the limit and however many sessions a client goes through, it never
\* has more calls queued or running than the limit allows.
THEOREM RepoParallelLimit == RepoSpec => []ParallelLimit
<1>1. LimitInv => ParallelLimit
  BY DEF LimitInv
<1>2. QED
  BY <1>1, LimitInvInit, LimitInvNext, RepoTypes, PTL DEF RepoSpec

\* A chat turn never creates more rows than max_calls_per_turn.
THEOREM RepoTurnLimit == RepoSpec => []TurnLimit
<1>1. LimitInv => TurnLimit
  BY DEF LimitInv
<1>2. QED
  BY <1>1, LimitInvInit, LimitInvNext, RepoTypes, PTL DEF RepoSpec


-----------------------------------------------------------------------------
(* The inductive invariant.                                                *)

\* The steps of a socket that has a message in hand.
Reading ==
  {"approve", "queue", "lapse", "arm", "undo", "start", "write", "finish",
   "bye", "result", "leave"}

\* The outcomes the receive loop records: those with a method for them.
Recorded == {"denied", "completed", "failed", "cancelled", "timed_out"}

\* What a handler knows of its message m at the step it has reached.
MessageOK(step, m) ==
  /\ step \in Reading => m \in Messages
  /\ step \in {"write", "finish"} => m.outcome \in Recorded
  /\ step = "result" => m.type = "result" /\ m.outcome \in Recorded
  /\ step = "start" => m.kind = "started" \/ m.outcome \in Recorded
  /\ step \in {"result", "start", "write", "finish"} /\ m.type = "result" =>
       /\ m.kind \in ResultKinds
       /\ m.kind = "completed" => m.outcome = "completed"

MessageInv ==
  /\ sock \in [Sessions -> SockSteps]
  /\ msg \in [Sessions -> Messages \cup {None}]
  /\ \A s \in Sessions : MessageOK(sock[s], msg[s])

\* A successful result that is about to resolve its waiter has been committed.
CommittedInv ==
  \A s \in Sessions :
    /\ sock[s] = "finish"
    /\ msg[s].type = "result"
    /\ msg[s].kind = "completed"
    => status[msg[s].call] = "completed"

\* No future exists before dispatch registers the waiter.
BeforeSend ==
  {"idle", "validate", "mark_valid", "mark_invalid", "ask", "dispatch", "queue",
   "lapse", "register"}

FutureInv == \A c \in Calls : prop[c] \in BeforeSend => future[c] = "none"

\* The two places that queue a call know why they may.
ApprovalInv ==
  /\ \A c \in Calls : prop[c] = "queue" => c \notin NeedsApproval
  /\ \A s \in Sessions :
       sock[s] = "queue" => "approved" \in entered[msg[s].call]

\* The steps of a socket that holds _lifecycle_lock.
Registering == {"advertise", "add", "refresh", "apply_on", "apply_off"}

\* One socket at a time changes the registry, and a session is added only when
\* its client has no other.
LifecycleInv ==
  /\ \A s, r \in Sessions :
       sock[s] \in Registering /\ sock[r] \in Registering => s = r
  /\ \A s \in Sessions : sock[s] = "add" => Predecessors(s) = {}

-----------------------------------------------------------------------------
(* Every step is a repository step.                                        *)

\* One protocol move is one of the transactions of ToolRepository.
LEMMA ApplyIsRepoStep ==
  ASSUME NEW c \in Calls, NEW to \in PlainTransitions, Apply(c, to)
  PROVE  [RepoNext]_repoVars
BY DEF Apply, RepoNext

LEMMA LapseIsRepoStep ==
  ASSUME NEW c \in Calls, Lapse(c)
  PROVE  [RepoNext]_repoVars
BY DEF Lapse, RepoNext, PlainTransitions

\* The receive loop records an outcome by a method of the repository.
LEMMA RecordIsRepoStep ==
  ASSUME NEW c \in Calls, NEW outcome \in Recorded, RecordOutcome(c, outcome)
  PROVE  [RepoNext]_repoVars
<1>1. CASE outcome = "denied"
  BY <1>1 DEF RecordOutcome, RepoNext
<1>2. CASE outcome \in {"completed", "failed"}
  BY <1>2 DEF RecordOutcome, RepoNext, ResultStatuses
<1>3. CASE outcome \in {"cancelled", "timed_out"}
  BY <1>3 DEF RecordOutcome, RepoNext, PlainTransitions
<1>4. QED
  BY <1>1, <1>2, <1>3 DEF Recorded

LEMMA ProposalRepoStep ==
  ASSUME NEW c \in Calls, ProposalStep(c)
  PROVE  [RepoNext]_repoVars
<1>1. CASE MarkValid(c)
  BY <1>1, ApplyIsRepoStep DEF MarkValid, PlainTransitions
<1>2. CASE MarkInvalid(c)
  BY <1>2, ApplyIsRepoStep DEF MarkInvalid, PlainTransitions
<1>3. CASE RequireApproval(c)
  BY <1>3, ApplyIsRepoStep DEF RequireApproval, PlainTransitions
<1>4. CASE DispatchQueue(c)
  BY <1>4 DEF DispatchQueue, RepoNext
<1>5. CASE DispatchLapse(c)
  BY <1>5, LapseIsRepoStep DEF DispatchLapse
<1>6. CASE \/ Validate(c) \/ Dispatch(c) \/ DispatchRegister(c) \/ Sent(c)
           \/ SendFailed(c) \/ Aborted(c) \/ TakeResult(c)
  BY <1>6 DEF Validate, Dispatch, DispatchRegister, Sent, SendFailed, Aborted,
              TakeResult
<1>7. QED
  BY <1>1, <1>2, <1>3, <1>4, <1>5, <1>6 DEF ProposalStep

LEMMA SocketRepoStep ==
  ASSUME MessageInv, NEW s \in Sessions, SocketStep(s)
  PROVE  [RepoNext]_repoVars
<1>1. CASE Advertise(s) \/ RefreshTables(s)
  BY <1>1 DEF Advertise, RefreshTables, RepoNext
<1>2. CASE Approve(s) \/ QueueApproved(s)
  <2>1. msg[s].call \in Calls
    BY <1>2 DEF Approve, QueueApproved, MessageInv, MessageOK, Reading,
           Messages
  <2>2. QED
    BY <1>2, <2>1 DEF Approve, QueueApproved, RepoNext
<1>3. CASE StartCall(s)
  <2>1. msg[s].call \in Calls
    BY <1>3 DEF StartCall, MessageInv, MessageOK, Reading,
           Messages
  <2>2. QED
    BY <1>3, <2>1, ApplyIsRepoStep DEF StartCall, PlainTransitions
<1>4. CASE LapseCall(s)
  <2>1. msg[s].call \in Calls
    BY <1>4 DEF LapseCall, MessageInv, MessageOK, Reading,
           Messages
  <2>2. QED
    BY <1>4, <2>1, LapseIsRepoStep DEF LapseCall
<1>5. CASE WriteOutcome(s)
  <2>1. msg[s].call \in Calls /\ msg[s].outcome \in Recorded
    BY <1>5 DEF WriteOutcome, MessageInv, MessageOK, Reading,
           Messages
  <2>2. QED
    BY <1>5, <2>1, RecordIsRepoStep DEF WriteOutcome
<1>6. CASE \/ AddSession(s) \/ RefreshMemory(s) \/ ArmExecution(s)
           \/ HandleResult(s) \/ FinishOutcome(s) \/ SocketDisconnected(s)
           \/ \E p \in Sessions : ReplacePredecessor(s, p)
  BY <1>6 DEF AddSession, RefreshMemory, ArmExecution, HandleResult,
              FinishOutcome, SocketDisconnected, ReplacePredecessor,
              BeginTeardown
<1>7. QED
  BY <1>1, <1>2, <1>3, <1>4, <1>5, <1>6 DEF SocketStep

LEMMA TimerRepoStep ==
  ASSUME NEW c \in Calls, TimerStep(c)
  PROVE  [RepoNext]_repoVars
<1>1. CASE TimerStart(c)
  BY <1>1, ApplyIsRepoStep DEF TimerStart, PlainTransitions
<1>2. CASE TimerLapse(c)
  BY <1>2, LapseIsRepoStep DEF TimerLapse
<1>3. CASE TimerExpire(c)
  BY <1>3, ApplyIsRepoStep DEF TimerExpire, PlainTransitions
<1>4. CASE TimerWake(c) \/ TimerCheck(c) \/ TimerFinish(c)
  BY <1>4 DEF TimerWake, TimerCheck, TimerFinish
<1>5. QED
  BY <1>1, <1>2, <1>3, <1>4 DEF TimerStep

LEMMA EnvironmentRepoStep ==
  ASSUME Environment
  PROVE  [RepoNext]_repoVars
<1>1. ASSUME NEW c \in Calls, NEW s \in Sessions, Propose(c, s)
      PROVE  [RepoNext]_repoVars
  BY <1>1 DEF Propose, RepoNext
<1>2. ASSUME NEW s \in Sessions, CapabilityExpires(s)
      PROVE  [RepoNext]_repoVars
  BY <1>2 DEF CapabilityExpires, RepoNext
<1>3. ASSUME NEW s \in Sessions,
             \/ Connect(s) \/ Refresh(s) \/ DropSocket(s) \/ HandleEvent(s)
             \/ ReceiveResult(s) \/ SocketFault(s)
             \/ Disconnect(<<"revocation", s>>, s)
      PROVE  UNCHANGED repoVars
  BY <1>3 DEF Connect, Refresh, DropSocket, HandleEvent, ReceiveResult,
              SocketFault, Disconnect, BeginTeardown
<1>4. ASSUME NEW c \in Calls,
             CancelTurn(c) \/ ProposalFault(c) \/ InterruptAbort(c) \/ TimerFault(c)
      PROVE  UNCHANGED repoVars
  BY <1>4 DEF CancelTurn, ProposalFault, InterruptAbort, TimerFault
<1>5. CASE TeardownFault \/ Restart
  BY <1>5 DEF TeardownFault, Restart
<1>6. QED
  BY <1>1, <1>2, <1>3, <1>4, <1>5 DEF Environment

\* Whatever the tasks interleave, a step makes at most one transaction, and it
\* is one ToolRepository has.
LEMMA NextIsRepoStep ==
  ASSUME MessageInv, teardown # None => teardown.session \in Sessions,
         [Next]_vars
  PROVE  [RepoNext]_repoVars
<1>1. ASSUME NEW c \in Calls, ProposalStep(c) \/ TimerStep(c)
      PROVE  [RepoNext]_repoVars
  BY <1>1, ProposalRepoStep, TimerRepoStep
<1>2. CASE \E c \in Calls, s \in Sessions : Disconnect(<<"proposal", c>>, s)
  BY <1>2 DEF Disconnect, BeginTeardown
<1>3. CASE \E s \in Sessions : Disconnect(<<"socket", s>>, s)
  BY <1>3 DEF Disconnect, BeginTeardown
<1>4. CASE CommitTeardown
  BY <1>4 DEF CommitTeardown, RepoNext
<1>5. CASE FinishTeardown \/ AtRest \/ UNCHANGED vars
  BY <1>5 DEF FinishTeardown, AtRest, vars
<1>6. QED
  BY <1>1, <1>2, <1>3, <1>4, <1>5, SocketRepoStep, EnvironmentRepoStep
  DEF Next, TeardownStep

-----------------------------------------------------------------------------
(* Which steps touch what.                                                 *)

\* The steps a socket takes itself, those its peer causes included.
SocketMove(s) ==
  \/ Advertise(s) \/ AddSession(s) \/ RefreshTables(s) \/ RefreshMemory(s)
  \/ Approve(s) \/ QueueApproved(s) \/ ArmExecution(s) \/ HandleResult(s)
  \/ StartCall(s) \/ LapseCall(s) \/ WriteOutcome(s) \/ FinishOutcome(s)
  \/ SocketDisconnected(s) \/ Connect(s) \/ Refresh(s) \/ DropSocket(s)
  \/ HandleEvent(s) \/ ReceiveResult(s) \/ SocketFault(s)

LEMMA SocketFrame ==
  ASSUME [Next]_vars
  PROVE  \/ \E s \in Sessions : SocketMove(s)
         \/ TeardownFault \/ Restart
         \/ UNCHANGED <<sock, msg>>
<1>1. ASSUME NEW c \in Calls, ProposalStep(c) PROVE UNCHANGED <<sock, msg>>
  BY <1>1 DEF ProposalStep, Validate, MarkValid, MarkInvalid, RequireApproval,
              Dispatch, DispatchQueue, DispatchLapse, DispatchRegister, Sent,
              SendFailed, Aborted, TakeResult
<1>2. ASSUME NEW c \in Calls, TimerStep(c) PROVE UNCHANGED <<sock, msg>>
  BY <1>2 DEF TimerStep, TimerWake, TimerCheck, TimerStart, TimerLapse,
              TimerExpire, TimerFinish
<1>3. ASSUME NEW by, NEW s, BeginTeardown(by, s) PROVE UNCHANGED <<sock, msg>>
  BY <1>3 DEF BeginTeardown, taskVars
<1>4. CASE TeardownStep \/ AtRest \/ UNCHANGED vars
  BY <1>4 DEF TeardownStep, CommitTeardown, FinishTeardown, AtRest, vars, taskVars
<1>5. ASSUME NEW s \in Sessions, SocketStep(s)
      PROVE  SocketMove(s) \/ UNCHANGED <<sock, msg>>
  BY <1>3, <1>5 DEF SocketStep, SocketMove, ReplacePredecessor
<1>6. ASSUME NEW c \in Calls,
             \/ \E s \in Sessions : Propose(c, s)
             \/ CancelTurn(c) \/ ProposalFault(c) \/ InterruptAbort(c)
             \/ TimerFault(c)
      PROVE  UNCHANGED <<sock, msg>>
  BY <1>6 DEF Propose, CancelTurn, ProposalFault, InterruptAbort, TimerFault
<1>7. ASSUME NEW s \in Sessions, CapabilityExpires(s)
      PROVE  UNCHANGED <<sock, msg>>
  BY <1>7 DEF CapabilityExpires, taskVars
<1>8. QED
  BY <1>1, <1>2, <1>3, <1>4, <1>5, <1>6, <1>7
  DEF Next, Environment, Disconnect, SocketMove

\* The steps that change the registry of sessions.
LEMMA RegistryFrame ==
  ASSUME [Next]_vars
  PROVE  \/ \E s \in Sessions : AddSession(s)
         \/ live' \subseteq live
<1>1. ASSUME NEW c \in Calls, ProposalStep(c) PROVE UNCHANGED live
  BY <1>1 DEF ProposalStep, Validate, MarkValid, MarkInvalid, RequireApproval,
              Dispatch, DispatchQueue, DispatchLapse, DispatchRegister, Sent,
              SendFailed, Aborted, TakeResult, memVars
<1>2. ASSUME NEW c \in Calls, TimerStep(c) PROVE UNCHANGED live
  BY <1>2 DEF TimerStep, TimerWake, TimerCheck, TimerStart, TimerLapse,
              TimerExpire, TimerFinish, memVars
<1>3. ASSUME NEW by, NEW s, BeginTeardown(by, s) PROVE live' \subseteq live
  BY <1>3 DEF BeginTeardown
<1>4. CASE TeardownStep \/ AtRest \/ UNCHANGED vars
  BY <1>4 DEF TeardownStep, CommitTeardown, FinishTeardown, AtRest, vars, memVars
<1>5. ASSUME NEW s \in Sessions, SocketStep(s)
      PROVE  AddSession(s) \/ live' \subseteq live
  BY <1>3, <1>5
  DEF SocketStep, Advertise, RefreshTables, RefreshMemory, Approve,
      QueueApproved, ArmExecution, HandleResult, StartCall, LapseCall,
      WriteOutcome, FinishOutcome, SocketDisconnected, ReplacePredecessor, memVars
<1>6. ASSUME NEW c \in Calls,
             \/ \E s \in Sessions : Propose(c, s)
             \/ CancelTurn(c) \/ ProposalFault(c) \/ InterruptAbort(c)
             \/ TimerFault(c)
      PROVE  UNCHANGED live
  BY <1>6 DEF Propose, CancelTurn, ProposalFault, InterruptAbort, TimerFault,
              memVars
<1>7. ASSUME NEW s \in Sessions,
             \/ Connect(s) \/ Refresh(s) \/ DropSocket(s) \/ HandleEvent(s)
             \/ ReceiveResult(s) \/ SocketFault(s) \/ CapabilityExpires(s)
      PROVE  UNCHANGED live
  BY <1>7 DEF Connect, Refresh, DropSocket, HandleEvent, ReceiveResult,
              SocketFault, CapabilityExpires, memVars
<1>8. CASE TeardownFault \/ Restart
  BY <1>8 DEF TeardownFault, Restart
<1>9. QED
  BY <1>1, <1>2, <1>3, <1>4, <1>5, <1>6, <1>7, <1>8
  DEF Next, Environment, Disconnect

-----------------------------------------------------------------------------
(* The decisions of the receive loop.                                      *)

LEMMA EventDecision ==
  ASSUME NEW s \in Sessions, NEW c \in Calls, NEW kind \in EventKinds
  PROVE  /\ EventStep(s, c, kind) \in
              {"idle", "finally", "approve", "write", "start", "lapse", "bye"}
         /\ EventStep(s, c, kind) = "write" =>
              EventOutcome(c, kind) \in Recorded
         /\ EventStep(s, c, kind) = "start" =>
              kind = "started" \/ EventOutcome(c, kind) \in Recorded
         /\ EventOutcome(c, kind) \in Statuses
<1>1. CASE kind = "approved"
  BY <1>1 DEF EventStep, ApprovedStep, EventOutcome, Statuses, LiveStatuses,
              TerminalStatuses
<1>2. CASE kind = "denied"
  BY <1>2 DEF EventStep, DeniedStep, EventOutcome, Recorded, Statuses,
              LiveStatuses, TerminalStatuses
<1>3. CASE kind \in {"started", "progress", "completed", "client_disconnected"}
  BY <1>3 DEF EventStep, StartStep, EventOutcome, Statuses,
              LiveStatuses, TerminalStatuses
<1>4. CASE kind \in {"failed", "cancelled", "timed_out"}
  BY <1>4 DEF EventStep, FailureStep, StartStep, EventOutcome, Recorded,
              Statuses, LiveStatuses, TerminalStatuses
<1>5. QED
  BY <1>1, <1>2, <1>3, <1>4 DEF EventKinds

LEMMA ResultDecision ==
  ASSUME NEW c, NEW kind
  PROVE  ResultStep(c, kind) \in {"idle", "finally", "start", "lapse", "write"}
BY DEF ResultStep, StartStep

-----------------------------------------------------------------------------
(* MessageInv.                                                             *)

\* A handler moves its own socket and hands on a message it may have.
LEMMA OneSocketMoves ==
  ASSUME MessageInv, NEW s \in Sessions, NEW step \in SockSteps,
         sock' = [sock EXCEPT ![s] = step],
         NEW m, MessageOK(step, m), m \in Messages \cup {None},
         msg' = [msg EXCEPT ![s] = m] \/ (msg' = msg /\ m = msg[s])
  PROVE  MessageInv'
<1>1. /\ sock' \in [Sessions -> SockSteps]
      /\ msg' \in [Sessions -> Messages \cup {None}]
  BY DEF MessageInv
<1>2. ASSUME NEW r \in Sessions PROVE MessageOK(sock'[r], msg'[r])
  <2>1. CASE r = s
    <3>1. sock'[r] = step /\ msg'[r] = m
      BY <2>1 DEF MessageInv
    <3>2. QED
      BY <3>1
  <2>2. CASE r # s
    <3>1. sock'[r] = sock[r] /\ msg'[r] = msg[r]
      BY <2>2 DEF MessageInv
    <3>2. QED
      BY <3>1 DEF MessageInv
  <2>3. QED
    BY <2>1, <2>2
<1>3. QED
  BY <1>1, <1>2 DEF MessageInv, MessageOK

\* The message is dropped, or its handler is at a step that knows as much of it.
LEMMA SocketGoesOn ==
  ASSUME MessageInv, NEW s \in Sessions, NEW step \in SockSteps \ {"result"},
         \/ /\ SockGoto(s, step)
            /\ msg' = [msg EXCEPT ![s] = None]
            /\ step \notin Reading
         \/ /\ SockGoto(s, step)
            /\ UNCHANGED msg
            /\ \/ step \notin Reading
               \/ /\ sock[s] \in Reading
                  /\ step \in {"write", "finish"} => msg[s].outcome \in Recorded
                  /\ step = "start" =>
                       msg[s].kind = "started" \/ msg[s].outcome \in Recorded
                  /\ step \in {"start", "write", "finish"} =>
                       sock[s] \in {"result", "start", "write", "finish"}
  PROVE  MessageInv'
<1>1. CASE msg' = [msg EXCEPT ![s] = None] /\ step \notin Reading
  <2>1. MessageOK(step, None)
    BY <1>1 DEF MessageOK, Reading
  <2>2. QED
    BY <1>1, <2>1, OneSocketMoves DEF SockGoto
<1>2. CASE UNCHANGED msg
  <2>1. MessageOK(step, msg[s])
    BY <1>2 DEF MessageInv, MessageOK, Reading
  <2>2. msg[s] \in Messages \cup {None}
    BY DEF MessageInv
  <2>3. QED
    BY <1>2, <2>1, <2>2, OneSocketMoves DEF SockGoto
<1>3. QED
  BY <1>1, <1>2

LEMMA SocketIsFree ==
  ASSUME MessageInv, NEW s \in Sessions, SockIdle(s) \/ SockError(s)
  PROVE  MessageInv'
<1>1. /\ {"idle", "finally"} \subseteq SockSteps \ {"result"}
      /\ "idle" \notin Reading /\ "finally" \notin Reading
  BY DEF SockSteps, Reading
<1>2. CASE SockIdle(s)
  BY <1>1, <1>2, SocketGoesOn DEF SockIdle
<1>3. CASE SockError(s)
  BY <1>1, <1>3, SocketGoesOn DEF SockError
<1>4. QED
  BY <1>2, <1>3

LEMMA MessageInvNext == MessageInv /\ [Next]_vars => MessageInv'
<1> SUFFICES ASSUME MessageInv, [Next]_vars PROVE MessageInv'
  OBVIOUS
<1>1. ASSUME NEW s \in Sessions, SocketMove(s) PROVE MessageInv'
  <2>1. CASE \/ Advertise(s) \/ AddSession(s) \/ RefreshTables(s)
             \/ RefreshMemory(s) \/ Connect(s) \/ Refresh(s) \/ DropSocket(s)
    <3>1. CASE AddSession(s) \/ RefreshMemory(s)
      BY <3>1, SocketIsFree DEF AddSession, RefreshMemory
    <3>2. CASE ~(AddSession(s) \/ RefreshMemory(s))
      <4>1. /\ UNCHANGED msg
            /\ \E step \in {"add", "apply_on", "apply_off", "advertise",
                            "refresh", "finally"} : SockGoto(s, step)
        BY <2>1, <3>2
        DEF Advertise, RefreshTables, Connect, Refresh, DropSocket
      <4>2. QED
        BY <4>1, SocketGoesOn DEF Reading, SockSteps
    <3>3. QED
      BY <3>1, <3>2
  <2>2. CASE Approve(s) \/ QueueApproved(s) \/ ArmExecution(s)
    <3>1. CASE SockIdle(s) \/ SockError(s)
      BY <3>1, SocketIsFree
    <3>2. CASE ~(SockIdle(s) \/ SockError(s))
      <4>1. /\ UNCHANGED msg
            /\ sock[s] \in Reading
            /\ \E step \in {"queue", "lapse", "arm", "undo"} : SockGoto(s, step)
        BY <2>2, <3>2 DEF Approve, QueueApproved, ArmExecution, Reading
      <4>2. QED
        BY <4>1, SocketGoesOn DEF SockSteps
    <3>3. QED
      BY <3>1, <3>2
  <2>3. CASE StartCall(s)
    <3>1. MessageOK("start", msg[s])
      BY <2>3 DEF StartCall, MessageInv
    <3>2. msg[s].kind = "started" \/ msg[s].outcome \in Recorded
      BY <3>1 DEF MessageOK
    <3>3. QED
      BY <2>3, <3>2, SocketGoesOn
      DEF StartCall, SockIdle, SockError, Reading, SockSteps
  <2>4. CASE LapseCall(s) \/ SocketDisconnected(s)
    BY <2>4, SocketGoesOn
    DEF LapseCall, SocketDisconnected, SockIdle, SockError, Reading, SockSteps
  <2>5. CASE WriteOutcome(s)
    <3>1. MessageOK("write", msg[s])
      BY <2>5 DEF WriteOutcome, MessageInv
    <3>2. msg[s].outcome \in Recorded
      BY <3>1 DEF MessageOK
    <3>3. QED
      BY <2>5, <3>2, SocketGoesOn
      DEF WriteOutcome, SockError, Reading, SockSteps
  <2>6. CASE FinishOutcome(s)
    BY <2>6, SocketGoesOn DEF FinishOutcome, SockIdle, Reading, SockSteps
  <2>7. CASE SocketFault(s)
    BY <2>7, SocketGoesOn DEF SocketFault, SockError, Reading, SockSteps
  <2>8. CASE HandleResult(s)
    <3>1. PICK step \in {"idle", "finally", "start", "lapse", "write"} :
            /\ SockGoto(s, step)
            /\ msg' = IF step \in {"idle", "finally"}
                      THEN [msg EXCEPT ![s] = None] ELSE msg
      BY <2>8, ResultDecision DEF HandleResult
    <3>2. sock[s] = "result" /\ MessageOK("result", msg[s])
      BY <2>8 DEF HandleResult, MessageInv
    <3>3. msg[s].outcome \in Recorded
      BY <3>2 DEF MessageOK
    <3>4. QED
      BY <3>1, <3>2, <3>3, SocketGoesOn DEF Reading, SockSteps
  <2>9. CASE HandleEvent(s)
    <3>1. PICK c \in Delivered(s), kind \in EventKinds \cap LinkKinds :
            LET step == EventStep(s, c, kind) IN
            /\ SockGoto(s, step)
            /\ msg' = IF step \in {"idle", "finally"} THEN msg
                      ELSE [msg EXCEPT ![s] =
                              [type |-> "event", call |-> c, kind |-> kind,
                               outcome |-> EventOutcome(c, kind)]]
      BY <2>9 DEF HandleEvent
    <3>2. c \in Calls /\ kind \in EventKinds
      BY DEF Delivered
    <3> DEFINE step == EventStep(s, c, kind)
               outcome == EventOutcome(c, kind)
               m == [type |-> "event", call |-> c, kind |-> kind,
                     outcome |-> outcome]
    <3>3. /\ step \in {"idle", "finally", "approve", "write", "start", "lapse",
                       "bye"}
          /\ step = "write" => outcome \in Recorded
          /\ step = "start" => kind = "started" \/ outcome \in Recorded
          /\ outcome \in Statuses
      BY <3>2, EventDecision
    <3>4. /\ SockGoto(s, step)
          /\ msg' = IF step \in {"idle", "finally"} THEN msg
                    ELSE [msg EXCEPT ![s] = m]
      BY <3>1
    <3> HIDE DEF step, outcome
    <3>5. CASE step \in {"idle", "finally"}
      BY <3>4, <3>5, SocketGoesOn DEF Reading, SockSteps
    <3>6. CASE step \notin {"idle", "finally"}
      <4>1. m \in Messages
        BY <3>2, <3>3 DEF Messages
      <4>2. MessageOK(step, m)
        BY <3>3, <4>1 DEF MessageOK
      <4>3. QED
        BY <3>3, <3>4, <3>6, <4>1, <4>2, OneSocketMoves DEF SockGoto, SockSteps
    <3>7. QED
      BY <3>5, <3>6
  <2>10. CASE ReceiveResult(s)
    <3>1. CASE SockError(s)
      BY <3>1, SocketIsFree
    <3>2. ASSUME NEW c \in Delivered(s), NEW kind \in ResultKinds,
                 SockGoto(s, "result"),
                 msg' = [msg EXCEPT ![s] =
                   [type |-> "result", call |-> c, kind |-> kind,
                    outcome |-> IF kind \in {"denied", "client_disconnected"}
                                THEN "failed" ELSE kind]]
          PROVE  MessageInv'
      <4>1. c \in Calls
        BY DEF Delivered
      <4> DEFINE outcome == IF kind \in {"denied", "client_disconnected"}
                            THEN "failed" ELSE kind
                 m == [type |-> "result", call |-> c, kind |-> kind,
                       outcome |-> outcome]
      <4>2. /\ outcome \in Recorded /\ outcome \in Statuses
            /\ kind = "completed" => outcome = "completed"
            /\ kind \in EventKinds
        BY DEF Recorded, ResultKinds, EventKinds, Statuses, TerminalStatuses
      <4>3. msg' = [msg EXCEPT ![s] = m]
        BY <3>2
      <4> HIDE DEF outcome
      <4>4. m \in Messages
        <5>1. "result" \in {"event", "result"}
          OBVIOUS
        <5> QED
          BY <4>1, <4>2, <5>1, Zenon DEF Messages
      <4>5. MessageOK("result", m)
        BY <4>2, <4>4 DEF MessageOK
      <4>6. sock' = [sock EXCEPT ![s] = "result"] /\ "result" \in SockSteps
        BY <3>2 DEF SockGoto, SockSteps
      <4> HIDE DEF m
      <4>7. QED
        BY <4>3, <4>4, <4>5, <4>6, OneSocketMoves
    <3>3. QED
      BY <2>10, <3>1, <3>2 DEF ReceiveResult
  <2>11. QED
    BY <1>1, <2>1, <2>2, <2>3, <2>4, <2>5, <2>6, <2>7, <2>8, <2>9, <2>10
    DEF SocketMove
<1>2. CASE TeardownFault
  <2>1. CASE UNCHANGED <<sock, msg>>
    BY <2>1 DEF MessageInv, MessageOK
  <2>2. ASSUME NEW who,
               \/ SockGoto(who, "closed") /\ UNCHANGED msg
               \/ SockError(who)
        PROVE  MessageInv'
    <3>1. CASE who \in Sessions
      BY <2>2, <3>1, SocketGoesOn DEF SockError, Reading, SockSteps
    <3>2. CASE who \notin Sessions
      <4>1. UNCHANGED <<sock, msg>>
        BY <2>2, <3>2 DEF SockError, SockGoto, MessageInv
      <4>2. QED
        BY <4>1 DEF MessageInv, MessageOK
    <3>3. QED
      BY <3>1, <3>2
  <2>3. QED
    BY <1>2, <2>1, <2>2 DEF TeardownFault
<1>3. CASE Restart
  BY <1>3 DEF Restart, MessageInv, MessageOK, Reading, SockSteps
<1>4. CASE UNCHANGED <<sock, msg>>
  BY <1>4 DEF MessageInv, MessageOK
<1>5. QED
  BY <1>1, <1>2, <1>3, <1>4, SocketFrame

-----------------------------------------------------------------------------
(* Types.                                                                  *)

\* The variables of AgentGateway other than sock and msg, which are MessageInv's.
MemoryTypes ==
  /\ live \subseteq Sessions /\ offered \subseteq Sessions /\ seen \subseteq Sessions
  /\ pending \subseteq Calls /\ awaiting \subseteq Calls
  /\ future \in [Calls -> FutureStates]
  /\ terminal \in [Calls -> Statuses \cup {Absent}]
  /\ teardown \in Teardowns \cup {None}

TaskTypes ==
  /\ prop \in [Calls -> PropSteps]
  /\ answer \in [Calls -> Answers]
  /\ timer \in [Calls -> TimerSteps]
  /\ cancels \in Nat /\ faults \in Nat /\ restarts \in Nat

LEMMA RememberType ==
  ASSUME terminal \in [Calls -> Statuses \cup {Absent}],
         NEW new \in SUBSET Calls, NEW outcome \in Statuses,
         Remember(new, outcome)
  PROVE  terminal' \in [Calls -> Statuses \cup {Absent}]
BY DEF Remember

LEMMA SettleType ==
  ASSUME NEW f \in FutureStates, NEW outcome \in FutureStates
  PROVE  Settle(f, outcome) \in FutureStates
BY DEF Settle

LEMMA ProposalTypes ==
  ASSUME MemoryTypes, TaskTypes, NEW c \in Calls, ProposalStep(c)
  PROVE  MemoryTypes' /\ TaskTypes'
<1>1. CASE Validate(c) \/ MarkValid(c) \/ MarkInvalid(c) \/ RequireApproval(c)
  BY <1>1 DEF Validate, MarkValid, MarkInvalid, RequireApproval, MemoryTypes,
              TaskTypes, PropSteps, Answers, PropGoto, Answer, memVars, budgetVars
<1>2. CASE Dispatch(c) \/ DispatchQueue(c) \/ DispatchLapse(c)
  BY <1>2 DEF Dispatch, DispatchQueue, DispatchLapse, MemoryTypes, TaskTypes,
              PropSteps, Answers, PropGoto, Answer, memVars, budgetVars
<1>3. CASE DispatchRegister(c)
  BY <1>3 DEF DispatchRegister, MemoryTypes, TaskTypes, PropSteps, Answers,
              FutureStates, PropGoto, Answer, memVars, budgetVars
<1>4. CASE Sent(c) \/ SendFailed(c) \/ Aborted(c) \/ TakeResult(c)
  BY <1>4 DEF Sent, SendFailed, Aborted, TakeResult, MemoryTypes, TaskTypes,
              PropSteps, Answers, TimerSteps, PropGoto, Answer, memVars, budgetVars
<1>5. QED
  BY <1>1, <1>2, <1>3, <1>4 DEF ProposalStep

LEMMA TimerTypes ==
  ASSUME MemoryTypes, TaskTypes, NEW c \in Calls, TimerStep(c)
  PROVE  MemoryTypes' /\ TaskTypes'
<1>1. CASE \/ TimerWake(c) \/ TimerCheck(c) \/ TimerStart(c) \/ TimerLapse(c)
           \/ TimerExpire(c)
  BY <1>1 DEF TimerWake, TimerCheck, TimerStart, TimerLapse, TimerExpire,
              MemoryTypes, TaskTypes, TimerSteps, TimerGoto, StartStep, memVars,
              budgetVars
<1>2. CASE TimerFinish(c)
  <2>1. TaskTypes'
    BY <1>2 DEF TimerFinish, TaskTypes, TimerSteps, TimerGoto, budgetVars
  <2>2. terminal' \in [Calls -> Statuses \cup {Absent}]
    <3>1. "timed_out" \in Statuses
      BY DEF Statuses, TerminalStatuses
    <3>2. QED
      BY <1>2, <3>1, RememberType DEF TimerFinish, MemoryTypes
  <2>3. future' \in [Calls -> FutureStates]
    BY <1>2 DEF TimerFinish, MemoryTypes, FutureStates, Settle
  <2>4. QED
    BY <1>2, <2>1, <2>2, <2>3 DEF TimerFinish, MemoryTypes
<1>3. QED
  BY <1>1, <1>2 DEF TimerStep

\* Popping waiters of s never invents a call or a session.
LEMMA BeginTeardownTypes ==
  ASSUME MemoryTypes, TaskTypes, NEW by \in Owners, NEW s \in Sessions,
         BeginTeardown(by, s)
  PROVE  MemoryTypes' /\ TaskTypes'
<1>1. teardown' \in Teardowns
  BY DEF BeginTeardown, Teardowns, MemoryTypes
<1>2. QED
  BY <1>1 DEF BeginTeardown, MemoryTypes, TaskTypes, taskVars, budgetVars

LEMMA FinishTypes ==
  ASSUME MemoryTypes, TaskTypes, MessageInv, NEW s \in Sessions, FinishOutcome(s)
  PROVE  MemoryTypes' /\ TaskTypes'
<1> DEFINE m == msg[s]
           outcome == IF m.type = "event" THEN m.outcome ELSE m.kind
<1>1. m \in Messages /\ MessageOK("finish", m)
  BY DEF FinishOutcome, MessageInv, MessageOK, Reading
<1>2. m.call \in Calls /\ outcome \in Statuses
  BY <1>1 DEF MessageOK, Messages, Recorded, ResultKinds, Statuses,
              TerminalStatuses
<1>3. FinishCall(m.call, outcome, ResultVerdict(s))
  BY DEF FinishOutcome
<1>4. ResultVerdict(s) \in FutureStates
  BY DEF ResultVerdict, FutureStates
<1> HIDE DEF m, outcome
<1>5. terminal' \in [Calls -> Statuses \cup {Absent}]
  BY <1>2, <1>3, RememberType DEF FinishCall, MemoryTypes
<1>6. future' \in [Calls -> FutureStates]
  BY <1>2, <1>3, <1>4, SettleType DEF FinishCall, MemoryTypes
<1>7. timer' \in [Calls -> TimerSteps] /\ pending' \subseteq Calls
  BY <1>2, <1>3 DEF FinishCall, MemoryTypes, TaskTypes, TimerSteps
<1>8. QED
  BY <1>5, <1>6, <1>7 DEF FinishOutcome, MemoryTypes, TaskTypes, budgetVars

LEMMA SocketTypes ==
  ASSUME MemoryTypes, TaskTypes, MessageInv, NEW s \in Sessions, SocketMove(s)
  PROVE  MemoryTypes' /\ TaskTypes'
<1>1. CASE \/ Advertise(s) \/ AddSession(s) \/ RefreshTables(s)
           \/ RefreshMemory(s) \/ Connect(s) \/ Refresh(s) \/ DropSocket(s)
  BY <1>1 DEF Advertise, AddSession, RefreshTables, RefreshMemory, Connect,
              Refresh, DropSocket, MemoryTypes, TaskTypes, memVars, budgetVars
<1>2. CASE \/ Approve(s) \/ QueueApproved(s) \/ HandleResult(s) \/ StartCall(s)
           \/ LapseCall(s) \/ WriteOutcome(s) \/ SocketDisconnected(s)
           \/ HandleEvent(s) \/ ReceiveResult(s)
  BY <1>2 DEF Approve, QueueApproved, HandleResult, StartCall, LapseCall,
              WriteOutcome, SocketDisconnected, HandleEvent, ReceiveResult,
              MemoryTypes, TaskTypes, memVars, budgetVars
<1>3. CASE ArmExecution(s)
  BY <1>3 DEF ArmExecution, TimerGoto, MemoryTypes, TaskTypes, TimerSteps,
              budgetVars
<1>4. CASE FinishOutcome(s)
  BY <1>4, FinishTypes
<1>5. CASE SocketFault(s)
  BY <1>5 DEF SocketFault, Fault, MemoryTypes, TaskTypes, memVars
<1>6. QED
  BY <1>1, <1>2, <1>3, <1>4, <1>5 DEF SocketMove

LEMMA FaultTypes ==
  ASSUME MemoryTypes, TaskTypes,
         \/ \E c \in Calls : ProposalFault(c) \/ InterruptAbort(c) \/ TimerFault(c)
         \/ TeardownFault
  PROVE  MemoryTypes' /\ TaskTypes'
<1>1. ASSUME NEW c \in Calls,
             ProposalFault(c) \/ InterruptAbort(c) \/ TimerFault(c)
      PROVE  MemoryTypes' /\ TaskTypes'
  BY <1>1 DEF ProposalFault, InterruptAbort, TimerFault, Fault, Answer, PropGoto,
              TimerGoto, PropSteps, Answers, TimerSteps, MemoryTypes, TaskTypes,
              memVars
<1>2. CASE TeardownFault
  BY <1>2 DEF TeardownFault, Fault, Answer, PropGoto, PropSteps, Answers,
              MemoryTypes, TaskTypes
<1>3. QED
  BY <1>1, <1>2

LEMMA TeardownTypes ==
  ASSUME MemoryTypes, TaskTypes, TeardownStep
  PROVE  MemoryTypes' /\ TaskTypes'
<1>1. CASE CommitTeardown
  BY <1>1 DEF CommitTeardown, Teardowns, MemoryTypes, TaskTypes, taskVars,
              budgetVars
<1>2. CASE FinishTeardown
  <2>1. teardown.calls \in SUBSET Calls
    BY <1>2 DEF FinishTeardown, MemoryTypes, Teardowns
  <2>2. "client_disconnected" \in Statuses
    BY DEF Statuses, TerminalStatuses
  <2>3. terminal' \in [Calls -> Statuses \cup {Absent}]
    BY <1>2, <2>1, <2>2, RememberType DEF FinishTeardown, MemoryTypes
  <2>4. future' \in [Calls -> FutureStates]
    BY <1>2 DEF FinishTeardown, Settle, FutureStates, MemoryTypes
  <2>5. timer' \in [Calls -> TimerSteps]
    BY <1>2 DEF FinishTeardown, TaskTypes, TimerSteps
  <2>6. QED
    BY <1>2, <2>3, <2>4, <2>5 DEF FinishTeardown, MemoryTypes, TaskTypes,
       budgetVars
<1>3. QED
  BY <1>1, <1>2 DEF TeardownStep

LEMMA TypesNext ==
  MemoryTypes /\ TaskTypes /\ MessageInv /\ [Next]_vars
    => MemoryTypes' /\ TaskTypes'
<1> SUFFICES ASSUME MemoryTypes, TaskTypes, MessageInv, [Next]_vars
             PROVE  MemoryTypes' /\ TaskTypes'
  OBVIOUS
<1>1. ASSUME NEW c \in Calls, ProposalStep(c) \/ TimerStep(c)
      PROVE  MemoryTypes' /\ TaskTypes'
  BY <1>1, ProposalTypes, TimerTypes
<1>2. ASSUME NEW by \in Owners, NEW s \in Sessions,
             Disconnect(by, s) \/ BeginTeardown(by, s)
      PROVE  MemoryTypes' /\ TaskTypes'
  BY <1>2, BeginTeardownTypes DEF Disconnect
<1>3. /\ \A c \in Calls : <<"proposal", c>> \in Owners
      /\ \A s \in Sessions : /\ <<"socket", s>> \in Owners
                             /\ <<"revocation", s>> \in Owners
  BY DEF Owners
<1>4. ASSUME NEW s \in Sessions, SocketStep(s)
      PROVE  MemoryTypes' /\ TaskTypes'
  BY <1>2, <1>3, <1>4, SocketTypes DEF SocketStep, SocketMove, ReplacePredecessor,
     Predecessors, MemoryTypes
<1>5. ASSUME NEW c \in Calls, NEW s \in Sessions, Propose(c, s)
      PROVE  MemoryTypes' /\ TaskTypes'
  BY <1>5 DEF Propose, Answer, PropGoto, PropSteps, Answers, MemoryTypes,
              TaskTypes, memVars, budgetVars
<1>6. ASSUME NEW c \in Calls, CancelTurn(c) PROVE MemoryTypes' /\ TaskTypes'
  BY <1>6 DEF CancelTurn, Answer, PropGoto, PropSteps, Answers, Settle,
              FutureStates, MemoryTypes, TaskTypes
<1>7. ASSUME NEW s \in Sessions, CapabilityExpires(s)
      PROVE  MemoryTypes' /\ TaskTypes'
  BY <1>7 DEF CapabilityExpires, MemoryTypes, TaskTypes, memVars, taskVars,
              budgetVars
<1>8. CASE Restart
  BY <1>8 DEF Restart, MemoryTypes, TaskTypes, FutureStates, PropSteps, Answers,
              TimerSteps
<1>9. CASE AtRest \/ UNCHANGED vars
  BY <1>9 DEF AtRest, vars, memVars, taskVars, budgetVars, MemoryTypes, TaskTypes
<1>10. QED
  BY <1>1, <1>2, <1>3, <1>4, <1>5, <1>6, <1>7, <1>8, <1>9, FaultTypes,
     TeardownTypes, SocketTypes
  DEF Next, Environment, SocketMove

-----------------------------------------------------------------------------
(* The base of every invariant below.                                      *)

GatewayInv == RowInv /\ MemoryTypes /\ TaskTypes /\ MessageInv

LEMMA GatewayInvInit == Init => GatewayInv
<1> SUFFICES ASSUME Init PROVE GatewayInv
  OBVIOUS
<1>1. RowInv
  BY RowInvInit DEF Init
<1>2. MemoryTypes /\ TaskTypes
  BY DEF Init, MemoryTypes, TaskTypes, FutureStates, PropSteps, Answers, TimerSteps
<1>3. MessageInv
  BY DEF Init, MessageInv, MessageOK, SockSteps, Reading
<1>4. QED
  BY <1>1, <1>2, <1>3 DEF GatewayInv

LEMMA GatewayRepoStep ==
  ASSUME GatewayInv, [Next]_vars
  PROVE  [RepoNext]_repoVars
<1>1. teardown # None => teardown.session \in Sessions
  BY DEF GatewayInv, MemoryTypes, Teardowns
<1>2. QED
  BY <1>1, NextIsRepoStep DEF GatewayInv

LEMMA GatewayInvNext == GatewayInv /\ [Next]_vars => GatewayInv'
<1> SUFFICES ASSUME GatewayInv, [Next]_vars PROVE GatewayInv'
  OBVIOUS
<1>1. RowInv'
  BY GatewayRepoStep, RowInvNext DEF GatewayInv
<1>2. QED
  BY <1>1, TypesNext, MessageInvNext DEF GatewayInv

LEMMA GatewayInvAlways == Spec => []GatewayInv
BY GatewayInvInit, GatewayInvNext, PTL DEF Spec

\* Tables, registry, waiters and tasks keep their types, however the handlers,
\* timers, teardowns and faults interleave.
THEOREM GatewayTypes == Spec => []TypeOK
<1>1. GatewayInv => TypeOK
  BY DEF GatewayInv, RowInv, MemoryTypes, TaskTypes, MessageInv, TypeOK
<1>2. QED
  BY <1>1, GatewayInvAlways, PTL

\* Every step of every task is one transaction of the repository or none.
THEOREM GatewayRepositorySteps == Spec => RepositorySteps
<1>1. GatewayInv /\ [Next]_vars => [RepoNext]_repoVars
  BY GatewayRepoStep
<1>2. QED
  BY <1>1, GatewayInvAlways, PTL DEF Spec, RepositorySteps

\* The gateway implements the repository, so that what the first part
\* proves of the tables holds while the tasks run.
THEOREM GatewayImplementsRepository == Spec => RepoSpec
<1>1. Init => RepoInit
  BY DEF Init
<1>2. QED
  BY <1>1, GatewayRepositorySteps, PTL DEF Spec, RepoSpec, RepositorySteps

\* Concurrent dispatches and approvals on several sessions of one client never
\* put more of its calls in execution than the limit.
THEOREM GatewayParallelLimit == Spec => []ParallelLimit
BY GatewayImplementsRepository, RepoParallelLimit, PTL

-----------------------------------------------------------------------------
(* SuccessIsDurable.                                                       *)

DurableInv == CommittedInv /\ SuccessIsDurable

\* completed is an outcome, hence final.
LEMMA CompletedStays ==
  ASSUME GatewayInv, [Next]_vars, NEW c \in Calls, status[c] = "completed"
  PROVE  status'[c] = "completed"
<1>1. [RepoNext]_repoVars /\ RepoTypeOK
  BY GatewayRepoStep DEF GatewayInv, RowInv
<1>2. status[c] # Absent /\ status[c] \in TerminalStatuses
  BY DEF Absent, TerminalStatuses
<1>3. QED
  BY <1>1, <1>2, FinalStep

\* A handler leaves the other sockets alone.
LEMMA OtherSocketsStay ==
  ASSUME MessageInv, NEW s \in Sessions, SocketMove(s),
         NEW r \in Sessions, r # s
  PROVE  sock'[r] = sock[r] /\ msg'[r] = msg[r]
BY DEF SocketMove, Advertise, AddSession, RefreshTables, RefreshMemory,
       Approve, QueueApproved, ArmExecution, HandleResult, StartCall,
       LapseCall, WriteOutcome, FinishOutcome, SocketDisconnected, Connect,
       Refresh, DropSocket, HandleEvent, ReceiveResult, SocketFault,
       SockGoto, SockIdle, SockError, MessageInv

\* A result reaches "finish" only through its transaction.
LEMMA CommittedStep ==
  ASSUME GatewayInv, CommittedInv, [Next]_vars
  PROVE  CommittedInv'
<1> SUFFICES ASSUME NEW r \in Sessions, sock'[r] = "finish",
                    msg'[r].type = "result", msg'[r].kind = "completed"
             PROVE  status'[msg'[r].call] = "completed"
  BY DEF CommittedInv
<1>1. CASE sock[r] = "finish" /\ msg'[r] = msg[r]
  <2>1. status[msg[r].call] = "completed"
    BY <1>1 DEF CommittedInv
  <2>2. msg[r].call \in Calls
    BY <1>1 DEF GatewayInv, MessageInv, MessageOK, Reading, Messages
  <2>3. QED
    BY <1>1, <2>1, <2>2, CompletedStays
<1>2. CASE WriteOutcome(r)
  <2>1. msg'[r] = msg[r] /\ sock[r] = "write"
    BY <1>2 DEF WriteOutcome, SockError, SockGoto, GatewayInv, MessageInv
  <2>2. msg[r] \in Messages /\ MessageOK("write", msg[r])
    BY <2>1 DEF GatewayInv, MessageInv, MessageOK, Reading
  <2>3. msg[r].outcome = "completed" /\ msg[r].call \in Calls
    BY <2>1, <2>2 DEF MessageOK, Messages
  <2>4. CASE RecordOutcome(msg[r].call, "completed")
    BY <2>1, <2>3, <2>4
    DEF RecordOutcome, RecordResult, GatewayInv, RowInv, RepoTypeOK
  <2>5. CASE status[msg[r].call] = "completed"
    BY <2>1, <2>3, <2>5, CompletedStays
  <2>6. CASE SockError(r)
    BY <2>1, <2>6 DEF SockError, SockGoto, GatewayInv, MessageInv
  <2>7. QED
    BY <1>2, <2>3, <2>4, <2>5, <2>6 DEF WriteOutcome
<1>3. CASE ~(sock[r] = "finish" /\ msg'[r] = msg[r]) /\ ~WriteOutcome(r)
  <2>1. ASSUME NEW s \in Sessions, SocketMove(s), ~WriteOutcome(r)
        PROVE  sock'[r] # "finish" \/ (sock[r] = "finish" /\ msg'[r] = msg[r])
    <3>1. CASE s # r
      BY <2>1, <3>1, OtherSocketsStay DEF GatewayInv
    <3>2. CASE s = r /\ HandleEvent(s)
      <4>1. PICK c \in Delivered(s), kind \in EventKinds :
              SockGoto(s, EventStep(s, c, kind))
        BY <3>2 DEF HandleEvent
      <4>2. c \in Calls
        BY DEF Delivered
      <4>3. EventStep(s, c, kind) # "finish"
        BY <4>2, EventDecision
      <4>4. QED
        BY <3>2, <4>1, <4>3 DEF SockGoto, GatewayInv, MessageInv
    <3>3. CASE s = r /\ HandleResult(s)
      <4>1. SockGoto(s, ResultStep(msg[s].call, msg[s].kind))
        BY <3>3 DEF HandleResult
      <4>2. ResultStep(msg[s].call, msg[s].kind) # "finish"
        BY ResultDecision
      <4>3. QED
        BY <3>3, <4>1, <4>2 DEF SockGoto, GatewayInv, MessageInv
    <3>4. CASE s = r /\ ~HandleEvent(s) /\ ~HandleResult(s)
      BY <2>1, <3>4
      DEF SocketMove, Advertise, AddSession, RefreshTables, RefreshMemory,
          Approve, QueueApproved, ArmExecution, StartCall,
          LapseCall, FinishOutcome, SocketDisconnected, Connect,
          Refresh, DropSocket, ReceiveResult, SocketFault,
          SockGoto, SockIdle, SockError, GatewayInv, MessageInv
    <3>5. QED
      BY <3>1, <3>2, <3>3, <3>4
  <2>2. CASE TeardownFault
    BY <1>3, <2>2 DEF TeardownFault, SockError, SockGoto, GatewayInv, MessageInv
  <2>3. CASE Restart
    BY <2>3 DEF Restart
  <2>4. QED
    BY <1>3, <2>1, <2>2, <2>3, SocketFrame
<1>4. QED
  BY <1>1, <1>2, <1>3

\* What a step can do to the future of a call.
LEMMA FutureMoves ==
  ASSUME GatewayInv, FutureInv, [Next]_vars, NEW d \in Calls
  PROVE  \/ future'[d] = future[d]
         \/ future[d] = "none" /\ DispatchRegister(d)
         \/ /\ future[d] = "open"
            /\ \/ future'[d] # "success"
               \/ \E s \in Sessions : /\ FinishOutcome(s)
                                      /\ msg[s].call = d
                                      /\ future'[d] = ResultVerdict(s)
         \/ Restart
<1> USE DEF Settle
<1>1. future \in [Calls -> FutureStates]
  BY DEF GatewayInv, MemoryTypes
<1>2. ASSUME NEW c \in Calls, ProposalStep(c)
      PROVE  future'[d] = future[d] \/ (future[d] = "none" /\ DispatchRegister(d))
  <2>1. CASE DispatchRegister(c)
    BY <1>1, <2>1 DEF DispatchRegister, FutureInv, BeforeSend
  <2>2. CASE ~DispatchRegister(c)
    BY <1>2, <2>2
    DEF ProposalStep, Validate, MarkValid, MarkInvalid, RequireApproval, Dispatch,
        DispatchQueue, DispatchLapse, Sent, SendFailed, Aborted, TakeResult, memVars
  <2>3. QED
    BY <2>1, <2>2
<1>3. ASSUME NEW c \in Calls, TimerStep(c)
      PROVE  \/ future'[d] = future[d]
             \/ future[d] = "open" /\ future'[d] # "success"
  BY <1>1, <1>3 DEF TimerStep, TimerWake, TimerCheck, TimerStart, TimerLapse,
                    TimerExpire, TimerFinish, memVars
<1>4. ASSUME NEW by, NEW s, BeginTeardown(by, s) PROVE UNCHANGED future
  BY <1>4 DEF BeginTeardown
<1>5. CASE TeardownStep
  BY <1>1, <1>5 DEF TeardownStep, CommitTeardown, FinishTeardown
<1>6. ASSUME NEW s \in Sessions, SocketMove(s), ~FinishOutcome(s)
      PROVE  UNCHANGED future
  BY <1>6
  DEF SocketMove, Advertise, AddSession, RefreshTables, RefreshMemory, Approve,
      QueueApproved, ArmExecution, HandleResult, StartCall, LapseCall,
      WriteOutcome, SocketDisconnected, Connect, Refresh, DropSocket, HandleEvent,
      ReceiveResult, SocketFault, memVars
<1>7. ASSUME NEW s \in Sessions, FinishOutcome(s)
      PROVE  \/ future'[d] = future[d]
             \/ future[d] = "open" /\ msg[s].call = d
                  /\ future'[d] = ResultVerdict(s)
  BY <1>1, <1>7 DEF FinishOutcome, FinishCall
<1>8. ASSUME NEW c \in Calls, CancelTurn(c)
      PROVE  \/ future'[d] = future[d]
             \/ future[d] = "open" /\ future'[d] # "success"
  BY <1>1, <1>8 DEF CancelTurn
<1>9. ASSUME NEW c \in Calls,
             \/ \E s \in Sessions : Propose(c, s)
             \/ ProposalFault(c) \/ InterruptAbort(c) \/ TimerFault(c)
      PROVE  UNCHANGED future
  BY <1>9 DEF Propose, ProposalFault, InterruptAbort, TimerFault, memVars
<1>10. CASE \/ \E s \in Sessions : CapabilityExpires(s)
            \/ TeardownFault \/ AtRest \/ UNCHANGED vars
  BY <1>10 DEF CapabilityExpires, TeardownFault, AtRest, vars, memVars
<1>11. ASSUME NEW s \in Sessions, SocketMove(s) \/ SocketStep(s)
       PROVE  \/ future'[d] = future[d]
              \/ future[d] = "open" /\ FinishOutcome(s) /\ msg[s].call = d
                  /\ future'[d] = ResultVerdict(s)
  BY <1>4, <1>6, <1>7, <1>11 DEF SocketStep, SocketMove, ReplacePredecessor
<1>12. CASE Environment
  <2>1. CASE \E s \in Sessions :
               \/ Connect(s) \/ Refresh(s) \/ DropSocket(s)
               \/ HandleEvent(s) \/ ReceiveResult(s) \/ SocketFault(s)
    BY <1>11, <2>1 DEF SocketMove
  <2>2. QED
    BY <1>4, <1>8, <1>9, <1>10, <1>12, <2>1 DEF Environment, Disconnect
<1>13. QED
  BY <1>2, <1>3, <1>4, <1>5, <1>10, <1>11, <1>12 DEF Next, Disconnect

\* The steps of a proposal before "send" come one after the other.
LEMMA PropMoves ==
  ASSUME GatewayInv, [Next]_vars, NEW d \in Calls, prop'[d] \in BeforeSend
  PROVE  /\ prop[d] \in BeforeSend
         /\ ~DispatchRegister(d)
         /\ prop'[d] = "queue" => prop[d] = "queue" \/ Dispatch(d)
<1> USE DEF PropGoto, Answer, BeforeSend
<1>1. prop \in [Calls -> PropSteps]
  BY DEF GatewayInv, TaskTypes
<1>2. ASSUME DispatchRegister(d) PROVE FALSE
  BY <1>1, <1>2 DEF DispatchRegister
<1>3. ASSUME NEW c \in Calls, ProposalStep(c)
      PROVE  /\ prop[d] \in BeforeSend
             /\ prop'[d] = "queue" => prop[d] = "queue" \/ Dispatch(d)
  <2>1. CASE c = d
    BY <1>1, <1>2, <1>3, <2>1
    DEF ProposalStep, Validate, MarkValid, MarkInvalid, RequireApproval,
        Dispatch, DispatchQueue, DispatchLapse, Sent, SendFailed, Aborted,
        TakeResult
  <2>2. CASE c # d
    BY <1>1, <1>3, <2>2
    DEF ProposalStep, Validate, MarkValid, MarkInvalid, RequireApproval,
        Dispatch, DispatchQueue, DispatchLapse, DispatchRegister, Sent,
        SendFailed, Aborted, TakeResult
  <2>3. QED
    BY <2>1, <2>2
<1>4. ASSUME NEW c \in Calls, TimerStep(c) PROVE UNCHANGED prop
  BY <1>4 DEF TimerStep, TimerWake, TimerCheck, TimerStart, TimerLapse,
              TimerExpire, TimerFinish
<1>5. ASSUME NEW by, NEW s, BeginTeardown(by, s) PROVE UNCHANGED prop
  BY <1>5 DEF BeginTeardown, taskVars
<1>6. CASE TeardownStep \/ AtRest \/ UNCHANGED vars
  BY <1>2, <1>6 DEF TeardownStep, CommitTeardown, FinishTeardown, AtRest, vars, taskVars
<1>7. ASSUME NEW s \in Sessions, SocketMove(s) PROVE UNCHANGED prop
  BY <1>7
  DEF SocketMove, Advertise, AddSession, RefreshTables, RefreshMemory, Approve,
      QueueApproved, ArmExecution, HandleResult, StartCall, LapseCall,
      WriteOutcome, FinishOutcome, SocketDisconnected, Connect, Refresh,
      DropSocket, HandleEvent, ReceiveResult, SocketFault
<1>8. ASSUME NEW c \in Calls, \E s \in Sessions : Propose(c, s)
      PROVE  /\ prop[d] \in BeforeSend
             /\ prop'[d] # "queue" \/ prop[d] = "queue"
  BY <1>1, <1>8 DEF Propose
<1>9. ASSUME NEW c \in Calls,
             CancelTurn(c) \/ ProposalFault(c) \/ InterruptAbort(c)
      PROVE  prop'[d] = prop[d]
  BY <1>1, <1>9 DEF CancelTurn, ProposalFault, InterruptAbort
<1>10. CASE \/ \E c \in Calls : TimerFault(c)
            \/ \E s \in Sessions : CapabilityExpires(s)
  BY <1>2, <1>10 DEF TimerFault, CapabilityExpires, taskVars
<1>11. CASE TeardownFault
  BY <1>1, <1>2, <1>11 DEF TeardownFault
<1>12. CASE Restart
  BY <1>2, <1>12 DEF Restart
<1>13. QED
  BY <1>2, <1>3, <1>4, <1>5, <1>6, <1>7, <1>8, <1>9, <1>10, <1>11, <1>12
  DEF Next, Environment, SocketStep, SocketMove, Disconnect, ReplacePredecessor

LEMMA FutureInvStep ==
  ASSUME GatewayInv, FutureInv, [Next]_vars
  PROVE  FutureInv'
<1> SUFFICES ASSUME NEW d \in Calls, prop'[d] \in BeforeSend
             PROVE  future'[d] = "none"
  BY DEF FutureInv
<1>1. prop[d] \in BeforeSend /\ ~DispatchRegister(d)
  BY PropMoves
<1>2. future[d] = "none"
  BY <1>1 DEF FutureInv
<1>3. CASE Restart
  BY <1>3 DEF Restart
<1>4. QED
  BY <1>1, <1>2, <1>3, FutureMoves

\* A turn that takes a success takes it from its future.
LEMMA AnswerMoves ==
  ASSUME GatewayInv, [Next]_vars, NEW d \in Calls, answer'[d] = "success"
  PROVE  answer[d] = "success" \/ future[d] = "success"
<1> USE DEF PropGoto, Answer
<1>1. answer \in [Calls -> Answers]
  BY DEF GatewayInv, TaskTypes
<1>2. ASSUME NEW c \in Calls, ProposalStep(c)
      PROVE  answer[d] = "success" \/ future[d] = "success"
  <2>1. CASE TakeResult(c)
    BY <1>1, <2>1 DEF TakeResult
  <2>2. CASE ~TakeResult(c)
    BY <1>1, <1>2, <2>2
    DEF ProposalStep, Validate, MarkValid, MarkInvalid, RequireApproval,
        Dispatch, DispatchQueue, DispatchLapse, DispatchRegister, Sent,
        SendFailed, Aborted
  <2>3. QED
    BY <2>1, <2>2
<1>3. ASSUME NEW c \in Calls, TimerStep(c) PROVE UNCHANGED answer
  BY <1>3 DEF TimerStep, TimerWake, TimerCheck, TimerStart, TimerLapse,
              TimerExpire, TimerFinish
<1>4. ASSUME NEW by, NEW s, BeginTeardown(by, s) PROVE UNCHANGED answer
  BY <1>4 DEF BeginTeardown, taskVars
<1>5. CASE TeardownStep \/ AtRest \/ UNCHANGED vars
  BY <1>5 DEF TeardownStep, CommitTeardown, FinishTeardown, AtRest, vars, taskVars
<1>6. ASSUME NEW s \in Sessions, SocketMove(s) \/ SocketStep(s)
      PROVE  UNCHANGED answer
  BY <1>4, <1>6
  DEF SocketMove, Advertise, AddSession, RefreshTables, RefreshMemory, Approve,
      QueueApproved, ArmExecution, HandleResult, StartCall, LapseCall,
      WriteOutcome, FinishOutcome, SocketDisconnected, Connect, Refresh,
      DropSocket, HandleEvent, ReceiveResult, SocketFault, SocketStep,
      ReplacePredecessor
<1>7. ASSUME NEW c \in Calls,
             \/ \E s \in Sessions : Propose(c, s)
             \/ CancelTurn(c) \/ ProposalFault(c) \/ InterruptAbort(c)
      PROVE  answer[d] = "success"
  BY <1>1, <1>7 DEF Propose, CancelTurn, ProposalFault, InterruptAbort
<1>8. CASE \/ \E c \in Calls : TimerFault(c)
           \/ \E s \in Sessions : CapabilityExpires(s)
  BY <1>8 DEF TimerFault, CapabilityExpires, taskVars
<1>9. CASE TeardownFault
  BY <1>1, <1>9 DEF TeardownFault
<1>10. CASE Restart
  BY <1>10 DEF Restart
<1>11. CASE Environment
  <2>1. CASE \E s \in Sessions :
               \/ Connect(s) \/ Refresh(s) \/ DropSocket(s)
               \/ HandleEvent(s) \/ ReceiveResult(s) \/ SocketFault(s)
    BY <1>6, <2>1 DEF SocketMove
  <2>2. QED
    BY <1>4, <1>7, <1>8, <1>9, <1>10, <1>11, <2>1 DEF Environment, Disconnect
<1>12. QED
  BY <1>2, <1>3, <1>4, <1>5, <1>6, <1>11 DEF Next, Disconnect

LEMMA SuccessStep ==
  ASSUME GatewayInv, FutureInv, DurableInv, [Next]_vars
  PROVE  SuccessIsDurable'
<1> SUFFICES ASSUME NEW d \in Calls,
                    answer'[d] = "success" \/ future'[d] = "success"
             PROVE  status'[d] = "completed"
  BY DEF SuccessIsDurable
<1>1. CASE answer[d] = "success" \/ future[d] = "success"
  BY <1>1, CompletedStays DEF DurableInv, SuccessIsDurable
<1>2. CASE future'[d] = "success" /\ future[d] # "success"
  <2>1. CASE DispatchRegister(d)
    BY <1>2, <2>1 DEF DispatchRegister, GatewayInv, MemoryTypes
  <2>2. CASE Restart
    BY <1>2, <2>2 DEF Restart
  <2>3. CASE \E s \in Sessions : /\ FinishOutcome(s)
                                 /\ msg[s].call = d
                                 /\ future'[d] = ResultVerdict(s)
    <3>1. PICK s \in Sessions : /\ FinishOutcome(s)
                                /\ msg[s].call = d
                                /\ future'[d] = ResultVerdict(s)
      BY <2>3
    <3>2. msg[s].type = "result" /\ msg[s].kind = "completed"
      BY <1>2, <3>1 DEF ResultVerdict
    <3>3. status[d] = "completed"
      BY <3>1, <3>2 DEF FinishOutcome, DurableInv, CommittedInv
    <3>4. QED
      BY <3>3, CompletedStays
  <2>4. QED
    BY <1>2, <2>1, <2>2, <2>3, FutureMoves
<1>3. QED
  BY <1>1, <1>2, AnswerMoves

\* Through every race of result, timeout, teardown, cancellation, failing
\* transaction and restart, the turn is told of a success only after the
\* transaction that recorded it.
THEOREM GatewaySuccessIsDurable == Spec => []SuccessIsDurable
<1> DEFINE Inv == GatewayInv /\ FutureInv /\ DurableInv
<1>1. Init => Inv
  <2>1. Init => FutureInv /\ DurableInv
    BY DEF Init, FutureInv, DurableInv, CommittedInv, SuccessIsDurable
  <2>2. QED
    BY <2>1, GatewayInvInit
<1>2. Inv /\ [Next]_vars => Inv'
  BY GatewayInvNext, FutureInvStep, SuccessStep, CommittedStep DEF DurableInv
<1>3. Inv => SuccessIsDurable
  BY DEF DurableInv
<1> HIDE DEF Inv
<1>4. QED
  BY <1>1, <1>2, <1>3, PTL DEF Spec

\* A waiter is resolved once, whichever of result, event, timer, teardown and
\* cancelled turn comes first.
THEOREM GatewayResolvedOnce == Spec => ResolvedOnce
<1> DEFINE Inv == GatewayInv /\ FutureInv
<1>1. Init => Inv
  <2>1. Init => FutureInv
    BY DEF Init, FutureInv
  <2>2. QED
    BY <2>1, GatewayInvInit
<1>2. Inv /\ [Next]_vars => Inv'
  BY GatewayInvNext, FutureInvStep
<1>3. Inv /\ [Next]_vars =>
        [\A c \in Calls :
           future[c] \notin {"none", "open"} /\ restarts' = restarts =>
             future'[c] = future[c]]_vars
  <2>1. Inv /\ Restart => restarts' # restarts
    BY DEF GatewayInv, TaskTypes, Restart
  <2>2. QED
    BY <2>1, FutureMoves
<1> HIDE DEF Inv
<1>4. QED
  BY <1>1, <1>2, <1>3, PTL DEF Spec, ResolvedOnce

-----------------------------------------------------------------------------
(* NoExecutionWithoutApproval.                                             *)

\* The audit trail is append-only.
LEMMA EnteredGrows ==
  ASSUME GatewayInv, [Next]_vars, NEW c \in Calls
  PROVE  entered[c] \subseteq entered'[c]
<1>1. [RepoNext]_repoVars /\ entered \in [Calls -> SUBSET Statuses]
  BY GatewayRepoStep DEF GatewayInv, RowInv, RepoTypeOK
<1>2. QED
  BY <1>1 DEF RepoNext, repoVars, CreateToolCall, Transition,
     QueueWithParallelLimit, RecordApproval, RecordResult, ReplaceCapabilities,
     ExpireCapability, DisconnectSession, Enter

\* Only the dispatch of a call that needs no approval and the approval of a
\* waiting one queue a call.
LEMMA QueueMoves ==
  ASSUME GatewayInv, [Next]_vars, NEW d \in Calls,
         "queued" \in entered'[d], "queued" \notin entered[d]
  PROVE  \/ DispatchQueue(d)
         \/ \E s \in Sessions : QueueApproved(s) /\ msg[s].call = d
<1>1. entered \in [Calls -> SUBSET Statuses]
  BY DEF GatewayInv, RowInv, RepoTypeOK
<1>2. ASSUME NEW c, NEW to, to # "queued", Apply(c, to) \/ Transition(c, to)
      PROVE  FALSE
  BY <1>1, <1>2 DEF Apply, Transition, Enter, repoVars
<1>3. ASSUME NEW c, Lapse(c) PROVE FALSE
  BY <1>2, <1>3 DEF Lapse, repoVars
<1>4. ASSUME UNCHANGED repoVars PROVE FALSE
  BY <1>4 DEF repoVars
<1>5. ASSUME UNCHANGED entered PROVE FALSE
  BY <1>5
<1>6. ASSUME NEW c \in Calls, ProposalStep(c) PROVE DispatchQueue(d)
  <2>1. CASE DispatchQueue(c)
    BY <1>1, <1>4, <2>1 DEF DispatchQueue, QueueWithParallelLimit, Enter
  <2>2. CASE ~DispatchQueue(c)
    BY <1>2, <1>3, <1>4, <1>6, <2>2
    DEF ProposalStep, Validate, MarkValid, MarkInvalid, RequireApproval,
        Dispatch, DispatchLapse, DispatchRegister, Sent, SendFailed, Aborted,
        TakeResult
  <2>3. QED
    BY <2>1, <2>2
<1>7. ASSUME NEW c \in Calls, TimerStep(c) PROVE FALSE
  BY <1>2, <1>3, <1>4, <1>7
  DEF TimerStep, TimerWake, TimerCheck, TimerStart, TimerLapse, TimerExpire,
      TimerFinish
<1>8. ASSUME NEW by, NEW s, BeginTeardown(by, s) PROVE FALSE
  BY <1>4, <1>8 DEF BeginTeardown
<1>9. CASE TeardownStep
  BY <1>1, <1>4, <1>9
  DEF TeardownStep, CommitTeardown, FinishTeardown, DisconnectSession
<1>10. CASE AtRest \/ UNCHANGED vars
  BY <1>4, <1>10 DEF AtRest, vars
<1>11. ASSUME NEW c, NEW outcome, outcome # "queued", RecordOutcome(c, outcome)
       PROVE  FALSE
  BY <1>1, <1>2, <1>11
  DEF RecordOutcome, RecordApproval, RecordResult, Enter, Verdict
<1>12. ASSUME NEW s \in Sessions, SocketMove(s) \/ SocketStep(s)
       PROVE  QueueApproved(s) /\ msg[s].call = d
  <2>1. CASE QueueApproved(s)
    BY <1>1, <1>4, <2>1 DEF QueueApproved, QueueWithParallelLimit, Enter
  <2>2. CASE WriteOutcome(s)
    <3>1. MessageOK("write", msg[s])
      BY <2>2 DEF WriteOutcome, GatewayInv, MessageInv
    <3>2. msg[s].outcome # "queued"
      BY <3>1 DEF MessageOK, Recorded
    <3>3. QED
      BY <1>4, <1>11, <2>2, <3>2 DEF WriteOutcome
  <2>3. CASE Approve(s)
    BY <1>1, <1>4, <2>3 DEF Approve, RecordApproval, Enter, Verdict
  <2>4. CASE Advertise(s) \/ RefreshTables(s)
    BY <1>5, <2>4 DEF Advertise, RefreshTables, ReplaceCapabilities
  <2>5. CASE StartCall(s) \/ LapseCall(s)
    BY <1>2, <1>3, <1>4, <2>5 DEF StartCall, LapseCall
  <2>6. CASE \/ AddSession(s) \/ RefreshMemory(s) \/ ArmExecution(s)
             \/ HandleResult(s) \/ FinishOutcome(s) \/ SocketDisconnected(s)
             \/ Connect(s) \/ Refresh(s) \/ DropSocket(s) \/ HandleEvent(s)
             \/ ReceiveResult(s) \/ SocketFault(s)
    BY <1>4, <2>6
    DEF AddSession, RefreshMemory, ArmExecution, HandleResult, FinishOutcome,
        SocketDisconnected, Connect, Refresh, DropSocket, HandleEvent,
        ReceiveResult, SocketFault
  <2>7. QED
    BY <1>8, <1>12, <2>1, <2>2, <2>3, <2>4, <2>5, <2>6
    DEF SocketMove, SocketStep, ReplacePredecessor
<1>13. CASE Environment
  <2>1. ASSUME NEW c \in Calls, NEW s \in Sessions, Propose(c, s) PROVE FALSE
    BY <1>1, <1>4, <2>1 DEF Propose, CreateToolCall, Enter
  <2>2. ASSUME NEW c \in Calls,
               \/ CancelTurn(c) \/ ProposalFault(c) \/ InterruptAbort(c)
               \/ TimerFault(c)
        PROVE  FALSE
    BY <1>4, <2>2 DEF CancelTurn, ProposalFault, InterruptAbort, TimerFault
  <2>3. ASSUME NEW s \in Sessions, CapabilityExpires(s) PROVE FALSE
    BY <1>5, <2>3 DEF CapabilityExpires, ExpireCapability
  <2>4. CASE TeardownFault \/ Restart
    BY <1>4, <2>4 DEF TeardownFault, Restart
  <2>5. CASE \E s \in Sessions :
               \/ Connect(s) \/ Refresh(s) \/ DropSocket(s)
               \/ HandleEvent(s) \/ ReceiveResult(s) \/ SocketFault(s)
    BY <1>12, <2>5 DEF SocketMove
  <2>6. QED
    BY <1>8, <1>13, <2>1, <2>2, <2>3, <2>4, <2>5 DEF Environment, Disconnect
<1>14. QED
  BY <1>6, <1>7, <1>8, <1>9, <1>10, <1>12, <1>13 DEF Next, Disconnect

LEMMA ApprovalInvStep ==
  ASSUME GatewayInv, ApprovalInv, [Next]_vars
  PROVE  ApprovalInv'
<1>1. ASSUME NEW c \in Calls, prop'[c] = "queue" PROVE c \notin NeedsApproval
  <2>1. prop[c] = "queue" \/ Dispatch(c)
    BY <1>1, PropMoves DEF BeforeSend
  <2>2. CASE prop[c] = "queue"
    BY <2>2 DEF ApprovalInv
  <2>3. CASE Dispatch(c)
    BY <1>1, <2>3 DEF Dispatch, PropGoto, Answer, GatewayInv, TaskTypes
  <2>4. QED
    BY <2>1, <2>2, <2>3
<1>2. ASSUME NEW r \in Sessions, sock'[r] = "queue"
      PROVE  "approved" \in entered'[msg'[r].call]
  <2>1. CASE sock[r] = "queue" /\ msg'[r] = msg[r]
    <3>1. msg[r].call \in Calls
      BY <2>1 DEF GatewayInv, MessageInv, MessageOK, Reading, Messages
    <3>2. QED
      BY <2>1, <3>1, EnteredGrows DEF ApprovalInv
  <2>2. CASE Approve(r)
    <3>1. msg[r].call \in Calls
      BY <2>2 DEF Approve, GatewayInv, MessageInv, MessageOK, Reading, Messages
    <3>2. UNCHANGED msg
      BY <1>2, <2>2 DEF Approve, SockError, SockGoto, GatewayInv, MessageInv
    <3>3. CASE SockError(r)
      BY <1>2, <3>3 DEF SockError, SockGoto, GatewayInv, MessageInv
    <3>4. CASE RecordApproval(msg[r].call, TRUE)
      BY <3>1, <3>2, <3>4
      DEF RecordApproval, Enter, Verdict, GatewayInv, RowInv, RepoTypeOK
    <3>5. CASE "approved" \in entered[msg[r].call] /\ UNCHANGED repoVars
      BY <3>2, <3>5 DEF repoVars
    <3>6. QED
      BY <2>2, <3>3, <3>4, <3>5 DEF Approve
  <2>3. CASE ~(sock[r] = "queue" /\ msg'[r] = msg[r]) /\ ~Approve(r)
    <3>1. ASSUME NEW s \in Sessions, SocketMove(s) PROVE FALSE
      <4>1. CASE s # r
        BY <1>2, <2>3, <3>1, <4>1, OtherSocketsStay DEF GatewayInv
      <4>2. CASE s = r /\ HandleEvent(s)
        <5>1. PICK c \in Delivered(s), kind \in EventKinds :
                SockGoto(s, EventStep(s, c, kind))
          BY <4>2 DEF HandleEvent
        <5>2. c \in Calls
          BY DEF Delivered
        <5>3. EventStep(s, c, kind) # "queue"
          BY <5>2, EventDecision
        <5>4. QED
          BY <1>2, <4>2, <5>1, <5>3 DEF SockGoto, GatewayInv, MessageInv
      <4>3. CASE s = r /\ HandleResult(s)
        <5>1. SockGoto(s, ResultStep(msg[s].call, msg[s].kind))
          BY <4>3 DEF HandleResult
        <5>2. ResultStep(msg[s].call, msg[s].kind) # "queue"
          BY ResultDecision
        <5>3. QED
          BY <1>2, <4>3, <5>1, <5>2 DEF SockGoto, GatewayInv, MessageInv
      <4>4. CASE s = r /\ ~HandleEvent(s) /\ ~HandleResult(s)
        BY <1>2, <2>3, <3>1, <4>4
        DEF SocketMove, Advertise, AddSession, RefreshTables, RefreshMemory,
            QueueApproved, ArmExecution, StartCall, LapseCall, WriteOutcome,
            FinishOutcome, SocketDisconnected, Connect, Refresh, DropSocket,
            ReceiveResult, SocketFault, SockGoto, SockIdle, SockError,
            GatewayInv, MessageInv
      <4>5. QED
        BY <4>1, <4>2, <4>3, <4>4
    <3>2. CASE TeardownFault
      BY <1>2, <2>3, <3>2
      DEF TeardownFault, SockError, SockGoto, GatewayInv, MessageInv
    <3>3. CASE Restart
      BY <1>2, <3>3 DEF Restart
    <3>4. CASE UNCHANGED <<sock, msg>>
      BY <1>2, <2>3, <3>4
    <3>5. QED
      BY <3>1, <3>2, <3>3, <3>4, SocketFrame
  <2>4. QED
    BY <2>1, <2>2, <2>3
<1>3. QED
  BY <1>1, <1>2 DEF ApprovalInv

\* Queued by approval only; what runs or completed was queued.
QueuedWithApproval ==
  \A c \in NeedsApproval : "queued" \in entered[c] => "approved" \in entered[c]

LEMMA QueuedWithApprovalStep ==
  ASSUME GatewayInv, ApprovalInv, QueuedWithApproval, [Next]_vars
  PROVE  QueuedWithApproval'
<1> SUFFICES ASSUME NEW d \in NeedsApproval, "queued" \in entered'[d]
             PROVE  "approved" \in entered'[d]
  BY DEF QueuedWithApproval
<1>1. d \in Calls
  BY GatewayAssumption
<1>2. "approved" \in entered[d]
  <2>1. CASE "queued" \in entered[d]
    BY <2>1 DEF QueuedWithApproval
  <2>2. CASE "queued" \notin entered[d]
    <3>1. \/ DispatchQueue(d)
          \/ \E s \in Sessions : QueueApproved(s) /\ msg[s].call = d
      BY <1>1, <2>2, QueueMoves
    <3>2. ~DispatchQueue(d)
      BY <1>1 DEF DispatchQueue, ApprovalInv
    <3>3. QED
      BY <3>1, <3>2 DEF QueueApproved, ApprovalInv
  <2>3. QED
    BY <2>1, <2>2
<1>3. QED
  BY <1>1, <1>2, EnteredGrows

\* On no path, whatever the interleaving of socket, proposal and timer, does a
\* call of a tool with required approval run before the approval is on record.
THEOREM GatewayNoExecutionWithoutApproval == Spec => []NoExecutionWithoutApproval
<1> DEFINE Inv == GatewayInv /\ ApprovalInv /\ QueuedWithApproval
<1>1. Init => Inv
  <2>1. Init => ApprovalInv /\ QueuedWithApproval
    BY GatewayAssumption DEF Init, RepoInit, ApprovalInv, QueuedWithApproval
  <2>2. QED
    BY <2>1, GatewayInvInit
<1>2. Inv /\ [Next]_vars => Inv'
  BY GatewayInvNext, ApprovalInvStep, QueuedWithApprovalStep
<1>3. Inv => NoExecutionWithoutApproval
  BY GatewayAssumption
  DEF GatewayInv, RowInv, AuditTrailIsComplete, RunsWereQueued,
      QueuedWithApproval, NoExecutionWithoutApproval
<1> HIDE DEF Inv
<1>4. QED
  BY <1>1, <1>2, <1>3, PTL DEF Spec

-----------------------------------------------------------------------------
(* OneSessionPerClient.                                                    *)

\* Who starts to change the registry found the lifecycle lock free.
LEMMA RegisteringMoves ==
  ASSUME GatewayInv, [Next]_vars, NEW r \in Sessions, sock'[r] \in Registering
  PROVE  /\ sock[r] \in Registering \/ (~LifecycleLocked /\ SocketMove(r))
         /\ sock'[r] = "add" => sock[r] = "add" \/ Advertise(r)
<1>1. ASSUME NEW s \in Sessions, SocketMove(s)
      PROVE  /\ sock[r] \in Registering \/ (~LifecycleLocked /\ SocketMove(r))
             /\ sock'[r] = "add" => sock[r] = "add" \/ Advertise(r)
  <2>1. CASE s # r
    <3>1. sock'[r] = sock[r]
      BY <1>1, <2>1, OtherSocketsStay DEF GatewayInv
    <3>2. QED
      BY <3>1
  <2>2. CASE s = r /\ HandleEvent(s)
    <3>1. PICK c \in Delivered(s), kind \in EventKinds :
            SockGoto(s, EventStep(s, c, kind))
      BY <2>2 DEF HandleEvent
    <3>2. c \in Calls
      BY DEF Delivered
    <3>3. EventStep(s, c, kind) \notin Registering
      BY <3>2, EventDecision DEF Registering
    <3>4. QED
      BY <2>2, <3>1, <3>3 DEF SockGoto, GatewayInv, MessageInv
  <2>3. CASE s = r /\ HandleResult(s)
    <3>1. SockGoto(s, ResultStep(msg[s].call, msg[s].kind))
      BY <2>3 DEF HandleResult
    <3>2. ResultStep(msg[s].call, msg[s].kind) \notin Registering
      BY ResultDecision DEF Registering
    <3>3. QED
      BY <2>3, <3>1, <3>2 DEF SockGoto, GatewayInv, MessageInv
  <2>4. CASE s = r /\ ~HandleEvent(s) /\ ~HandleResult(s)
    BY <1>1, <2>4
    DEF SocketMove, Advertise, AddSession, RefreshTables, RefreshMemory, Approve,
        QueueApproved, ArmExecution, StartCall, LapseCall, WriteOutcome,
        FinishOutcome, SocketDisconnected, Connect, Refresh, DropSocket,
        ReceiveResult, SocketFault, SockGoto, SockIdle, SockError, Registering,
        GatewayInv, MessageInv
  <2>5. QED
    BY <2>1, <2>2, <2>3, <2>4
<1>2. CASE TeardownFault
  BY <1>2 DEF TeardownFault, SockError, SockGoto, Registering, GatewayInv, MessageInv
<1>3. CASE Restart
  BY <1>3 DEF Restart, Registering
<1>4. CASE UNCHANGED <<sock, msg>>
  BY <1>4
<1>5. QED
  BY <1>1, <1>2, <1>3, <1>4, SocketFrame

LEMMA LifecycleInvStep ==
  ASSUME GatewayInv, LifecycleInv, [Next]_vars
  PROVE  LifecycleInv'
<1>1. ASSUME NEW s \in Sessions, NEW r \in Sessions, s # r,
             sock'[s] \in Registering, sock'[r] \in Registering
      PROVE  FALSE
  <2>1. CASE sock[s] \in Registering /\ sock[r] \in Registering
    BY <1>1, <2>1 DEF LifecycleInv
  <2>2. CASE sock[s] \notin Registering
    <3>1. ~LifecycleLocked /\ SocketMove(s)
      BY <1>1, <2>2, RegisteringMoves
    <3>2. sock[r] = sock'[r]
      BY <1>1, <3>1, OtherSocketsStay DEF GatewayInv
    <3>3. QED
      BY <1>1, <3>1, <3>2 DEF LifecycleLocked, Registering
  <2>3. CASE sock[r] \notin Registering
    <3>1. ~LifecycleLocked /\ SocketMove(r)
      BY <1>1, <2>3, RegisteringMoves
    <3>2. sock[s] = sock'[s]
      BY <1>1, <3>1, OtherSocketsStay DEF GatewayInv
    <3>3. QED
      BY <1>1, <3>1, <3>2 DEF LifecycleLocked, Registering
  <2>4. QED
    BY <2>1, <2>2, <2>3
<1>2. ASSUME NEW s \in Sessions, sock'[s] = "add"
      PROVE  Predecessors(s)' = {}
  <2>1. sock[s] = "add" \/ Advertise(s)
    BY <1>2, RegisteringMoves DEF Registering
  <2>2. Predecessors(s) = {}
    BY <2>1 DEF LifecycleInv, Advertise
  <2>3. CASE live' \subseteq live
    BY <2>2, <2>3 DEF Predecessors
  <2>4. CASE \E r \in Sessions : AddSession(r)
    <3>1. PICK r \in Sessions : AddSession(r)
      BY <2>4
    <3>2. sock[r] \in Registering /\ sock[s] \in Registering
      BY <2>1, <3>1 DEF AddSession, Advertise, Registering
    <3>3. r = s
      BY <3>2 DEF LifecycleInv
    <3>4. sock'[s] = "idle"
      BY <3>1, <3>3 DEF AddSession, SockIdle, SockGoto, GatewayInv, MessageInv
    <3>5. QED
      BY <1>2, <3>4
  <2>5. QED
    BY <2>3, <2>4, RegistryFrame
<1>3. QED
  BY <1>1, <1>2 DEF LifecycleInv

LEMMA OneSessionStep ==
  ASSUME GatewayInv, LifecycleInv, OneSessionPerClient, [Next]_vars
  PROVE  OneSessionPerClient'
<1>1. CASE live' \subseteq live
  BY <1>1 DEF OneSessionPerClient
<1>2. CASE \E s \in Sessions : AddSession(s)
  <2>1. PICK s \in Sessions : AddSession(s)
    BY <1>2
  <2>2. Predecessors(s) = {} /\ live' = live \cup {s}
    BY <2>1 DEF AddSession, LifecycleInv
  <2>3. QED
    BY <2>2 DEF Predecessors, OneSessionPerClient
<1>3. QED
  BY <1>1, <1>2, RegistryFrame

\* However registrations, refreshes, failed sends and revocations compete, a
\* client never has two live sessions.
THEOREM GatewayOneSessionPerClient == Spec => []OneSessionPerClient
<1> DEFINE Inv == GatewayInv /\ LifecycleInv /\ OneSessionPerClient
<1>1. Init => Inv
  <2>1. Init => LifecycleInv /\ OneSessionPerClient
    BY DEF Init, LifecycleInv, OneSessionPerClient, Registering
  <2>2. QED
    BY <2>1, GatewayInvInit
<1>2. Inv /\ [Next]_vars => Inv'
  BY GatewayInvNext, LifecycleInvStep, OneSessionStep
<1>3. Inv => OneSessionPerClient
  OBVIOUS
<1> HIDE DEF Inv
<1>4. QED
  BY <1>1, <1>2, <1>3, PTL DEF Spec

=============================================================================
