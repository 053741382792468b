--------------------------- MODULE ToolRepository ---------------------------
(***************************************************************************)
(* The durable half of a tool call: the tables tool_calls,                 *)
(* tool_idempotency, tool_call_events and client_capabilities behind       *)
(* ToolRepository (src/apps/server/nivelle_core/tool_repository.py).       *)
(*                                                                         *)
(* Every public method runs in one BEGIN IMMEDIATE transaction that        *)
(* commits or rolls back as a whole, so every method is one action.  A     *)
(* method that raises leaves the tables alone and is therefore no action   *)
(* here; who hears of the exception is AgentGateway's business.  Spec lets *)
(* any caller call any method in any order.                                *)
(***************************************************************************)
EXTENDS ToolProtocol, Naturals, FiniteSets

CONSTANTS
  Calls,             \* tool_call_id / idempotency_key pairs the model may create
  Sessions,          \* session_id of every Agent connection
  Clients,           \* paired Link installations
  ClientOf,          \* the client that owns each session
  Turns,             \* request_id of a chat turn
  TurnOf,            \* the turn that proposes each call
  MaxCallsPerTurn,   \* ToolOrchestrationLimits.max_calls_per_turn
  MaxParallelCalls,  \* ToolOrchestrationLimits.max_parallel_calls_per_client
  NoSession          \* target of a call that has no row

ASSUME CallsAssumption == IsFiniteSet(Calls)
ASSUME SessionsAssumption ==
  /\ ClientOf \in [Sessions -> Clients]
  /\ NoSession \notin Sessions
ASSUME TurnsAssumption == TurnOf \in [Calls -> Turns]
ASSUME LimitsAssumption ==
  /\ MaxCallsPerTurn \in Nat \ {0}
  /\ MaxParallelCalls \in Nat \ {0}

VARIABLES
  status,   \* tool_calls.status, Absent before the row exists
  target,   \* tool_calls.target_session_id: exact routing data, immutable
  ledger,   \* tool_idempotency.outcome_status, "open" for NULL
  entered,  \* the to_status values recorded in tool_call_events
  cap       \* client_capabilities: the session's row is enabled and not expired

repoVars == <<status, target, ledger, entered, cap>>

RepoTypeOK ==
  /\ status \in [Calls -> Statuses \cup {Absent}]
  /\ target \in [Calls -> Sessions \cup {NoSession}]
  /\ ledger \in [Calls -> TerminalStatuses \cup {"open"}]
  /\ entered \in [Calls -> SUBSET Statuses]
  /\ cap \in [Sessions -> BOOLEAN]

RepoInit ==
  /\ status = [c \in Calls |-> Absent]
  /\ target = [c \in Calls |-> NoSession]
  /\ ledger = [c \in Calls |-> "open"]
  /\ entered = [c \in Calls |-> {}]
  /\ cap = [s \in Sessions |-> FALSE]

-----------------------------------------------------------------------------
(* The write every transition makes, and the test it makes first.          *)

\* Variant: the ledger takes every status, not only outcomes.
OutcomeOfAnyStatus(to) == to

Outcome(to) == IF to \in TerminalStatuses THEN to ELSE "open"

\* Variant: a live call may go anywhere.
MayEnterIfLive(c, to) == status[c] \in LiveStatuses /\ status[c] # to

MayEnter(c, to) == to \in LegalTransitions[status[c]]

\* _transition_locked raises: neither a no-op nor a legal move.
Refused(c, to) == status[c] # to /\ ~MayEnter(c, to)

\* The rows of _transition_locked: status, ledger and one audit event together.
Enter(c, to) ==
  /\ status' = [status EXCEPT ![c] = to]
  /\ ledger' = [ledger EXCEPT ![c] = Outcome(to)]
  /\ entered' = [entered EXCEPT ![c] = @ \cup {to}]

\* The calls that hold one of a client's parallel slots, over all its sessions.
Executing(client) ==
  {c \in Calls : /\ status[c] \in ExecutionStatuses
                 /\ ClientOf[target[c]] = client}

\* The calls one chat turn has created.
CallsOfTurn(t) == {c \in Calls : status[c] # Absent /\ TurnOf[c] = t}

-----------------------------------------------------------------------------
(* The public methods.                                                     *)

\* Variant: the limit itself still leaves room.
TurnIsOverfull(c) == Cardinality(CallsOfTurn(TurnOf[c])) > MaxCallsPerTurn

TurnIsFull(c) == Cardinality(CallsOfTurn(TurnOf[c])) >= MaxCallsPerTurn

CreateToolCall(c, s) ==
  /\ status[c] = Absent
  /\ ~TurnIsFull(c)
  /\ Enter(c, "proposed")
  /\ target' = [target EXCEPT ![c] = s]
  /\ UNCHANGED cap

Transition(c, to) ==
  /\ MayEnter(c, to)
  /\ Enter(c, to)
  /\ UNCHANGED <<target, cap>>

\* Variant: the limit itself still leaves room.
ClientIsOverfull(c) ==
  Cardinality(Executing(ClientOf[target[c]]) \ {c}) > MaxParallelCalls

\* No room for c beside the other queued and running calls of its client.
ClientIsFull(c) ==
  Cardinality(Executing(ClientOf[target[c]]) \ {c}) >= MaxParallelCalls

QueueWithParallelLimit(c) ==
  /\ MayEnter(c, "queued")
  /\ ~ClientIsFull(c)
  /\ Enter(c, "queued")
  /\ UNCHANGED <<target, cap>>

Verdict(yes) == IF yes THEN "approved" ELSE "denied"

RecordApproval(c, yes) ==
  /\ Verdict(yes) \notin entered[c]
  /\ MayEnter(c, Verdict(yes))
  /\ Enter(c, Verdict(yes))
  /\ UNCHANGED <<target, cap>>

ResultStatuses == {"completed", "failed", "cancelled", "timed_out"}

\* Variant: the result is recorded, its idempotency key stays open.
RecordResultWithoutLedger(c, result) ==
  /\ result \in ResultStatuses
  /\ MayEnter(c, result)
  /\ status' = [status EXCEPT ![c] = result]
  /\ entered' = [entered EXCEPT ![c] = @ \cup {result}]
  /\ UNCHANGED <<target, ledger, cap>>

\* Variant: a result is taken for every call that is not over yet.
RecordResultOfLiveCall(c, result) ==
  /\ result \in ResultStatuses
  /\ status[c] \in LiveStatuses
  /\ Enter(c, result)
  /\ UNCHANGED <<target, cap>>

RecordResult(c, result) ==
  /\ result \in ResultStatuses
  /\ status[c] \notin TerminalStatuses
  /\ MayEnter(c, result)
  /\ status' = [status EXCEPT ![c] = result]
  /\ ledger' = [ledger EXCEPT ![c] = result]
  /\ entered' = [entered EXCEPT ![c] = @ \cup {result}]
  /\ UNCHANGED <<target, cap>>

\* The advertised session's rows replace every live row of its client.
ReplaceCapabilities(s, enabled) ==
  /\ cap' = [r \in Sessions |->
               IF r = s THEN enabled
               ELSE cap[r] /\ ClientOf[r] # ClientOf[s]]
  /\ UNCHANGED <<status, target, ledger, entered>>

\* Time passes the row's expires_at (capability_ttl_seconds after it was written).
ExpireCapability(s) ==
  /\ cap[s]
  /\ cap' = [cap EXCEPT ![s] = FALSE]
  /\ UNCHANGED <<status, target, ledger, entered>>

\* Variants: every row of the session, and only those in execution.
AllCallsOf(s) == {c \in Calls : target[c] = s}
ExecutingCallsOf(s) ==
  {c \in Calls : target[c] = s /\ status[c] \in ExecutionStatuses}

LiveCallsOf(s) == {c \in Calls : target[c] = s /\ status[c] \in LiveStatuses}

DisconnectSession(s) ==
  /\ cap' = [cap EXCEPT ![s] = FALSE]
  /\ status' = [c \in Calls |->
       IF c \in LiveCallsOf(s) THEN "client_disconnected" ELSE status[c]]
  /\ ledger' = [c \in Calls |->
       IF c \in LiveCallsOf(s) THEN "client_disconnected" ELSE ledger[c]]
  /\ entered' = [c \in Calls |->
       IF c \in LiveCallsOf(s)
       THEN entered[c] \cup {"client_disconnected"} ELSE entered[c]]
  /\ UNCHANGED target

\* The destinations ToolOrchestrator passes to transition; queued, approved,
\* denied, completed and failed have methods of their own.
PlainTransitions ==
  {"validated", "validation_failed", "awaiting_approval", "running",
   "cancelled", "timed_out", "client_disconnected"}

RepoNext ==
  \/ \E c \in Calls, s \in Sessions : CreateToolCall(c, s)
  \/ \E c \in Calls, to \in PlainTransitions : Transition(c, to)
  \/ \E c \in Calls : QueueWithParallelLimit(c)
  \/ \E c \in Calls, yes \in BOOLEAN : RecordApproval(c, yes)
  \/ \E c \in Calls, result \in ResultStatuses : RecordResult(c, result)
  \/ \E s \in Sessions, enabled \in BOOLEAN : ReplaceCapabilities(s, enabled)
  \/ \E s \in Sessions : ExpireCapability(s)
  \/ \E s \in Sessions : DisconnectSession(s)

RepoSpec == RepoInit /\ [][RepoNext]_repoVars

-----------------------------------------------------------------------------
(* What the tables promise, whatever the callers do.                       *)

\* However many sessions a client has had and whichever of them its calls are
\* pinned to, no more than MaxParallelCalls of them are queued or running: the
\* count in queue_with_parallel_limit is taken in the transaction that queues.
ParallelLimit ==
  \A client \in Clients : Cardinality(Executing(client)) <= MaxParallelCalls

\* A chat turn never owns more rows than its limit, terminal ones included, so
\* a turn cannot spend its budget again by letting earlier calls fail.
TurnLimit == \A t \in Turns : Cardinality(CallsOfTurn(t)) <= MaxCallsPerTurn

\* The replay ledger and the call row close together and agree on the outcome,
\* although record_result and _transition_locked write them in separate SQL.
LedgerAgrees ==
  \A c \in Calls : ledger[c] = Outcome(status[c])

\* A call passes through the states its audit events name: every executed call
\* was queued, every approved or denied one was waiting for the user.
AuditTrailIsComplete ==
  \A c \in Calls :
    /\ status[c] # Absent => status[c] \in entered[c]
    /\ "completed" \in entered[c] => {"queued", "running"} \subseteq entered[c]
    /\ entered[c] \cap {"approved", "denied"} # {} =>
         "awaiting_approval" \in entered[c]

\* An outcome is final and a call is never rerouted: once a row is terminal no
\* transaction of any caller moves it, and its target never changes.
OutcomeIsFinal ==
  [][\A c \in Calls :
       status[c] # Absent =>
         /\ target'[c] = target[c]
         /\ status[c] \in TerminalStatuses =>
              /\ status'[c] = status[c]
              /\ ledger'[c] = ledger[c]]_repoVars

=============================================================================
