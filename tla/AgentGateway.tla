----------------------------- MODULE AgentGateway -----------------------------
(***************************************************************************)
(* Core's Agent Gateway at the granularity of asyncio: the tasks that      *)
(* propose tool calls (tool_execution.py), the Agent sockets (app.py), the *)
(* timeout tasks and the session teardown (agent_gateway.py), over the     *)
(* tables of ToolRepository.                                               *)
(*                                                                         *)
(* One action is the code of one task between two awaits that can really   *)
(* suspend.  _state_lock and send_lock are never held across an await that *)
(* another task of the model contends for, so a block under them is part   *)
(* of one action.  _dispatch_lock, _result_lock and _lifecycle_lock are    *)
(* held across database transactions; a lock is held by the task whose     *)
(* program counter lies in its "async with" block.  Reads that follow one  *)
(* another inside a handler are one step with the branch they decide;      *)
(* every write is a step of its own, so that a teardown, which takes       *)
(* neither the dispatch nor the result lock, can fall between them.        *)
(***************************************************************************)
EXTENDS ToolRepository

CONSTANTS
  NeedsApproval,      \* calls whose tool has default_approval_mode # not_required
  TerminalRetention,  \* AgentGateway.terminal_retention
  MaxCancels,         \* bound: chat.cancel or a lost chat socket
  MaxFaults,          \* bound: transactions that raise, teardowns cut short
  MaxRestarts,        \* bound: restarts of the Core process
  CapabilityChurn,    \* bound: whether advertisements are refreshed and expire
  LinkKinds,          \* bound: the kinds of messages Link sends in the instance
  None

ASSUME GatewayAssumption ==
  /\ NeedsApproval \subseteq Calls
  /\ TerminalRetention \in Nat \ {0}
  /\ {MaxCancels, MaxFaults, MaxRestarts} \subseteq Nat
  /\ CapabilityChurn \in BOOLEAN

VARIABLES
  live,      \* sessions in _sessions
  offered,   \* sessions whose registered advertisement enables the tool
  seen,      \* _seen_sessions
  pending,   \* calls in _pending
  awaiting,  \* calls whose _PendingCall.awaiting_approval is set
  future,    \* _PendingCall.future of each call
  terminal,  \* _terminal: the remembered outcome of a call, or Absent
  teardown,  \* the _disconnect_without_lifecycle in progress, or None
  prop,      \* program counter of execute_tool_proposals for each call
  answer,    \* what the chat turn was given for each call
  sock,      \* program counter of each Agent socket
  msg,       \* the message the socket is handling, or None
  timer,     \* program counter of each call's _expire_call task
  cancels, faults, restarts

memVars == <<live, offered, seen, pending, awaiting, future, terminal, teardown>>
taskVars == <<prop, answer, sock, msg, timer>>
budgetVars == <<cancels, faults, restarts>>
vars == <<repoVars, memVars, taskVars, budgetVars>>

FutureStates ==
  {"none", "open", "success", "result", "remote", "timeout", "disconnected",
   "cancelled"}
Answers ==
  {"none", "success", "result", "failure", "rejected", "raised", "cancelled", "lost"}

PropSteps ==
  {"idle", "validate", "mark_valid", "mark_invalid", "ask", "dispatch", "queue",
   "lapse", "register", "send", "wait", "abort", "abort_cancelled", "done"}
SockSteps ==
  {"new", "advertise", "add", "idle", "approve", "queue", "lapse", "arm", "undo",
   "start", "write", "finish", "bye", "result", "leave", "refresh", "apply_on",
   "apply_off", "finally", "closed"}
TimerSteps == {"off", "armed", "wait", "start", "lapse", "expire", "finish"}

EventKinds ==
  {"approved", "denied", "started", "progress", "completed", "failed",
   "cancelled", "timed_out", "client_disconnected"}
ResultKinds ==
  {"completed", "failed", "cancelled", "timed_out", "denied",
   "client_disconnected"}
Messages ==
  [type : {"event", "result"}, call : Calls, kind : EventKinds,
   outcome : Statuses]

\* Who may run a teardown: a proposal that could not be sent, a socket, or the
\* revocation of the session's client.
Owners ==
  ({"proposal"} \X Calls) \cup ({"socket"} \X Sessions)
    \cup ({"revocation"} \X Sessions)
Teardowns ==
  [by : Owners, session : Sessions, calls : SUBSET Calls, committed : BOOLEAN]

ASSUME NoneAssumption == None \notin Messages \cup Teardowns

TypeOK ==
  /\ RepoTypeOK
  /\ live \subseteq Sessions /\ offered \subseteq Sessions /\ seen \subseteq Sessions
  /\ pending \subseteq Calls /\ awaiting \subseteq Calls
  /\ future \in [Calls -> FutureStates]
  /\ terminal \in [Calls -> Statuses \cup {Absent}]
  /\ teardown \in Teardowns \cup {None}
  /\ prop \in [Calls -> PropSteps]
  /\ answer \in [Calls -> Answers]
  /\ sock \in [Sessions -> SockSteps]
  /\ msg \in [Sessions -> Messages \cup {None}]
  /\ timer \in [Calls -> TimerSteps]
  /\ cancels \in Nat /\ faults \in Nat /\ restarts \in Nat

Init ==
  /\ RepoInit
  /\ live = {} /\ offered = {} /\ seen = {}
  /\ pending = {} /\ awaiting = {}
  /\ future = [c \in Calls |-> "none"]
  /\ terminal = [c \in Calls |-> Absent]
  /\ teardown = None
  /\ prop = [c \in Calls |-> "idle"]
  /\ answer = [c \in Calls |-> "none"]
  /\ sock = [s \in Sessions |-> "new"]
  /\ msg = [s \in Sessions |-> None]
  /\ timer = [c \in Calls |-> "off"]
  /\ cancels = 0 /\ faults = 0 /\ restarts = 0

-----------------------------------------------------------------------------
(* Locks.                                                                  *)

Handling(s, type) == msg[s] # None /\ msg[s].type = type

DispatchLocked ==
  \/ \E c \in Calls : prop[c] \in {"queue", "lapse", "register"}
  \/ \E c \in Calls : timer[c] \in {"wait", "start", "lapse", "expire", "finish"}
  \/ \E s \in Sessions :
       \/ sock[s] \in {"approve", "queue", "arm", "undo", "bye"}
       \/ /\ sock[s] \in {"start", "lapse", "write", "finish"}
          /\ Handling(s, "event")

\* Variant: only the timers take _result_lock.
ResultLockedByTimers ==
  \E c \in Calls : timer[c] \in {"start", "lapse", "expire", "finish"}

ResultLocked ==
  \/ \E c \in Calls : timer[c] \in {"start", "lapse", "expire", "finish"}
  \/ \E s \in Sessions : /\ sock[s] \in {"start", "lapse", "write", "finish"}
                         /\ Handling(s, "result")

LifecycleLocked ==
  \/ teardown # None
  \/ \E s \in Sessions :
       sock[s] \in {"advertise", "add", "refresh", "apply_on", "apply_off"}

-----------------------------------------------------------------------------
(* In-memory bookkeeping shared by the handlers.                           *)

\* Variant: no "if not future.done()".
SettleAlways(f, outcome) == outcome

\* future.set_result / set_exception behind "if not future.done()".
Settle(f, outcome) == IF f = "open" THEN outcome ELSE f

\* _remember_terminal_locked for the calls in new: beyond the retention the
\* oldest records go, the new ones last.
Remember(new, outcome) ==
  LET known == new \cup {c \in Calls : terminal[c] # Absent}
      room == IF Cardinality(known) > TerminalRetention
              THEN TerminalRetention ELSE Cardinality(known)
  IN \E kept \in SUBSET known :
       /\ Cardinality(kept) = room
       /\ new \subseteq kept \/ kept \subseteq new
       /\ terminal' = [c \in Calls |->
            IF c \notin kept THEN Absent
            ELSE IF c \in new THEN outcome ELSE terminal[c]]

\* _finish_with_result, _finish_with_exception: pop, remember, stop the timer,
\* resolve.
FinishCall(c, outcome, verdict) ==
  /\ pending' = pending \ {c}
  /\ Remember({c}, outcome)
  /\ timer' = IF c \in pending THEN [timer EXCEPT ![c] = "off"] ELSE timer
  /\ future' = IF c \in pending
               THEN [future EXCEPT ![c] = Settle(@, verdict)] ELSE future

\* The transition, or the no-op when the call is already there.
Apply(c, to) ==
  \/ Transition(c, to)
  \/ status[c] = to /\ UNCHANGED repoVars

\* Variant: the row is closed behind the ledger's back.
LapseWithoutLedger(c) ==
  IF status[c] \in LiveStatuses
  THEN /\ status' = [status EXCEPT ![c] = "client_disconnected"]
       /\ entered' = [entered EXCEPT ![c] = @ \cup {"client_disconnected"}]
       /\ UNCHANGED <<target, ledger, cap>>
  ELSE UNCHANGED repoVars

\* _require_live_capability without a live row: close the call, then raise.
Lapse(c) ==
  IF status[c] \in LiveStatuses
  THEN Transition(c, "client_disconnected")
  ELSE UNCHANGED repoVars

PropGoto(c, step) == prop' = [prop EXCEPT ![c] = step]
SockGoto(s, step) == sock' = [sock EXCEPT ![s] = step]
TimerGoto(c, step) == timer' = [timer EXCEPT ![c] = step]

\* The proposal loop appends a result for c, or an exception leaves it.
Answer(c, a) ==
  /\ PropGoto(c, "done")
  /\ answer' = [answer EXCEPT ![c] = a]

\* Back in the receive loop, or out of it by an exception.
SockIdle(s) == SockGoto(s, "idle") /\ msg' = [msg EXCEPT ![s] = None]
SockError(s) == SockGoto(s, "finally") /\ msg' = [msg EXCEPT ![s] = None]

-----------------------------------------------------------------------------
(* execute_tool_proposals and AgentGateway.dispatch: one task per call.    *)

\* A turn works through its proposals one by one and ends with an exception.
TurnContinues(t) ==
  \A d \in Calls : TurnOf[d] = t =>
    /\ prop[d] \in {"idle", "done"}
    /\ answer[d] \notin {"raised", "cancelled", "lost"}

\* The turn took its capability snapshot from s at some earlier moment, so s
\* may be gone by now; a full turn gets a bounded failure instead of a row.
Propose(c, s) ==
  /\ prop[c] = "idle"
  /\ TurnContinues(TurnOf[c])
  /\ s \in seen
  /\ \/ CreateToolCall(c, s) /\ PropGoto(c, "validate") /\ UNCHANGED answer
     \/ TurnIsFull(c) /\ Answer(c, "rejected") /\ UNCHANGED repoVars
  /\ UNCHANGED <<memVars, sock, msg, timer, budgetVars>>

\* ToolOrchestrator.validate reads the capability, then writes the verdict.
Validate(c) ==
  /\ prop[c] = "validate"
  /\ PropGoto(c, IF cap[target[c]] THEN "mark_valid" ELSE "mark_invalid")
  /\ UNCHANGED <<repoVars, memVars, answer, sock, msg, timer, budgetVars>>

MarkValid(c) ==
  /\ prop[c] = "mark_valid"
  /\ \/ /\ Apply(c, "validated")
        /\ PropGoto(c, IF c \in NeedsApproval THEN "ask" ELSE "dispatch")
        /\ UNCHANGED answer
     \/ Refused(c, "validated") /\ Answer(c, "raised") /\ UNCHANGED repoVars
  /\ UNCHANGED <<memVars, sock, msg, timer, budgetVars>>

MarkInvalid(c) ==
  /\ prop[c] = "mark_invalid"
  /\ \/ Apply(c, "validation_failed") /\ Answer(c, "rejected")
     \/ /\ Refused(c, "validation_failed")
        /\ Answer(c, "raised")
        /\ UNCHANGED repoVars
  /\ UNCHANGED <<memVars, sock, msg, timer, budgetVars>>

RequireApproval(c) ==
  /\ prop[c] = "ask"
  /\ \/ /\ Apply(c, "awaiting_approval")
        /\ PropGoto(c, "dispatch")
        /\ UNCHANGED answer
     \/ /\ Refused(c, "awaiting_approval")
        /\ Answer(c, "raised")
        /\ UNCHANGED repoVars
  /\ UNCHANGED <<memVars, sock, msg, timer, budgetVars>>

\* dispatch takes _dispatch_lock, finds the exact session, correlates the row
\* and refuses a second dispatch; queue() then reads the live capability.
Routable(c) ==
  /\ target[c] \in live \cap offered
  /\ c \notin pending
  /\ terminal[c] = Absent
  /\ status[c] = (IF c \in NeedsApproval THEN "awaiting_approval" ELSE "validated")

Dispatch(c) ==
  /\ prop[c] = "dispatch"
  /\ ~DispatchLocked
  /\ \/ /\ Routable(c)
        /\ PropGoto(c, CASE c \in NeedsApproval -> "register"
                         [] c \notin NeedsApproval /\ cap[target[c]] -> "queue"
                         [] OTHER -> "lapse")
        /\ UNCHANGED answer
     \/ ~Routable(c) /\ Answer(c, "rejected")
  /\ UNCHANGED <<repoVars, memVars, sock, msg, timer, budgetVars>>

\* A call over the parallel limit is refused and stays validated; a row the
\* teardown closed in between makes the transition raise.
DispatchQueue(c) ==
  /\ prop[c] = "queue"
  /\ \/ QueueWithParallelLimit(c) /\ PropGoto(c, "register") /\ UNCHANGED answer
     \/ ClientIsFull(c) /\ Answer(c, "rejected") /\ UNCHANGED repoVars
     \/ /\ ~ClientIsFull(c) /\ ~MayEnter(c, "queued")
        /\ Answer(c, "raised")
        /\ UNCHANGED repoVars
  /\ UNCHANGED <<memVars, sock, msg, timer, budgetVars>>

\* ToolCapabilityUnavailableError is not one of the errors the loop catches.
DispatchLapse(c) ==
  /\ prop[c] = "lapse"
  /\ Lapse(c)
  /\ Answer(c, "raised")
  /\ UNCHANGED <<memVars, sock, msg, timer, budgetVars>>

\* The waiter exists only if the session is still the one that was routed to.
DispatchRegister(c) ==
  /\ prop[c] = "register"
  /\ \/ /\ target[c] \in live
        /\ pending' = pending \cup {c}
        /\ awaiting' = IF c \in NeedsApproval THEN awaiting \cup {c} ELSE awaiting
        /\ future' = [future EXCEPT ![c] = "open"]
        /\ PropGoto(c, "send")
        /\ UNCHANGED answer
     \/ /\ target[c] \notin live
        /\ Answer(c, "rejected")
        /\ UNCHANGED <<pending, awaiting, future>>
  /\ UNCHANGED <<repoVars, live, offered, seen, terminal, teardown, sock, msg,
                 timer, budgetVars>>

\* Variant: the timeout of the request is never armed.
SentWithoutTimer(c) ==
  /\ prop[c] = "send"
  /\ PropGoto(c, "wait")
  /\ UNCHANGED <<repoVars, memVars, answer, sock, msg, timer, budgetVars>>

\* The write on the Agent socket returned: arm the timeout of an open waiter.
Sent(c) ==
  /\ prop[c] = "send"
  /\ PropGoto(c, "wait")
  /\ timer' = IF c \in pending /\ future[c] = "open" /\ timer[c] = "off"
              THEN [timer EXCEPT ![c] = "armed"] ELSE timer
  /\ UNCHANGED <<repoVars, memVars, answer, sock, msg, budgetVars>>

\* The write failed or outlived the deadline: the session cannot be trusted.
SendFailed(c) ==
  /\ prop[c] = "send"
  /\ PropGoto(c, "abort")
  /\ UNCHANGED <<repoVars, memVars, answer, sock, msg, timer, budgetVars>>

\* disconnect(handle) has returned to its caller.
Gone(s) == s \notin live /\ (teardown # None => teardown.session # s)

\* Variant: the proposal does not wait for the disconnect it asked for.
AbortedEarly(c) ==
  /\ prop[c] \in {"abort", "abort_cancelled"}
  /\ target[c] \notin live
  /\ Answer(c, IF prop[c] = "abort" THEN "failure" ELSE "cancelled")
  /\ UNCHANGED <<repoVars, memVars, sock, msg, timer, budgetVars>>

Aborted(c) ==
  /\ prop[c] \in {"abort", "abort_cancelled"}
  /\ Gone(target[c])
  /\ Answer(c, IF prop[c] = "abort" THEN "failure" ELSE "cancelled")
  /\ UNCHANGED <<repoVars, memVars, sock, msg, timer, budgetVars>>

\* "return await future" of execute().
TakeResult(c) ==
  /\ prop[c] = "wait"
  /\ future[c] \notin {"none", "open", "cancelled"}
  /\ Answer(c, IF future[c] \in {"success", "result"} THEN future[c]
               ELSE "failure")
  /\ UNCHANGED <<repoVars, memVars, sock, msg, timer, budgetVars>>

\* chat.cancel or the loss of the chat socket, at any await of the task.  While
\* the request is being written it becomes a teardown of the Agent session.
CancelTurn(c) ==
  /\ cancels < MaxCancels
  /\ cancels' = cancels + 1
  /\ prop[c] \notin {"idle", "done", "abort", "abort_cancelled"}
  /\ IF prop[c] = "send"
     THEN PropGoto(c, "abort_cancelled") /\ UNCHANGED answer
     ELSE Answer(c, "cancelled")
  /\ future' = IF prop[c] = "wait"
               THEN [future EXCEPT ![c] = Settle(@, "cancelled")] ELSE future
  /\ UNCHANGED <<repoVars, live, offered, seen, pending, awaiting, terminal,
                 teardown, sock, msg, timer, faults, restarts>>

-----------------------------------------------------------------------------
(* The Agent socket: registration, capability refresh, the receive loop.   *)

\* register takes _lifecycle_lock for the whole takeover.
Connect(s) ==
  /\ sock[s] = "new"
  /\ ~LifecycleLocked
  /\ SockGoto(s, "advertise")
  /\ UNCHANGED <<repoVars, memVars, prop, answer, msg, timer, budgetVars>>

\* Variant: a session that offers no tool is not replaced.
OfferingPredecessors(s) ==
  {p \in live \cap offered : ClientOf[p] = ClientOf[s]}

\* Variant: register never looks for an older session.
NoPredecessors(s) == {}

Predecessors(s) == {p \in live : ClientOf[p] = ClientOf[s]}

Advertise(s) ==
  /\ sock[s] = "advertise"
  /\ teardown = None
  /\ Predecessors(s) = {}
  /\ ReplaceCapabilities(s, TRUE)
  /\ SockGoto(s, "add")
  /\ UNCHANGED <<memVars, prop, answer, msg, timer, budgetVars>>

AddSession(s) ==
  /\ sock[s] = "add"
  /\ live' = live \cup {s}
  /\ offered' = offered \cup {s}
  /\ seen' = seen \cup {s}
  /\ SockIdle(s)
  /\ UNCHANGED <<repoVars, pending, awaiting, future, terminal, teardown, prop,
                 answer, timer, budgetVars>>

\* client.capabilities on the live socket: the tool may be switched off.
Refresh(s) ==
  /\ CapabilityChurn
  /\ sock[s] = "idle"
  /\ ~LifecycleLocked
  /\ SockGoto(s, IF s \in live THEN "refresh" ELSE "finally")
  /\ UNCHANGED <<repoVars, memVars, prop, answer, msg, timer, budgetVars>>

RefreshTables(s) ==
  /\ sock[s] = "refresh"
  /\ \E enabled \in BOOLEAN :
       /\ ReplaceCapabilities(s, enabled)
       /\ SockGoto(s, IF enabled THEN "apply_on" ELSE "apply_off")
  /\ UNCHANGED <<memVars, prop, answer, msg, timer, budgetVars>>

RefreshMemory(s) ==
  /\ sock[s] \in {"apply_on", "apply_off"}
  /\ offered' = IF sock[s] = "apply_on" THEN offered \cup {s} ELSE offered \ {s}
  /\ SockIdle(s)
  /\ UNCHANGED <<repoVars, live, seen, pending, awaiting, future, terminal,
                 teardown, prop, answer, timer, budgetVars>>

\* The requests Link can know of: those whose delivery has begun.
Delivered(s) == {c \in Calls : target[c] = s /\ future[c] # "none"}

\* What handle_event decides from the status it read under _dispatch_lock.
ApprovedStep(c) ==
  CASE status[c] \in ExecutionStatuses -> "idle"
    [] status[c] \notin ExecutionStatuses \cup {"awaiting_approval", "approved"}
         -> "finally"
    [] status[c] \in {"awaiting_approval", "approved"} /\ c \notin pending
         -> "finally"
    [] status[c] \in {"awaiting_approval", "approved"} /\ c \in pending \ awaiting
         -> "idle"
    [] OTHER -> "approve"

DeniedStep(c) ==
  CASE status[c] = "denied" -> "idle"
    [] status[c] = "awaiting_approval" /\ c \in pending -> "write"
    [] OTHER -> "finally"

StartStep(c) == IF cap[target[c]] THEN "start" ELSE "lapse"

\* failed, cancelled and timed_out: while the prompt is open they close it.
FailureStep(c, kind) ==
  CASE status[c] = "awaiting_approval" ->
         IF c \in pending THEN "write" ELSE "finally"
    [] status[c] = "queued" /\ kind # "cancelled" -> StartStep(c)
    [] OTHER -> "write"

EventStep(s, c, kind) ==
  CASE s \notin live -> "finally"
    [] s \in live /\ kind = "approved" -> ApprovedStep(c)
    [] s \in live /\ kind = "denied" -> DeniedStep(c)
    [] s \in live /\ kind = "started" ->
         IF status[c] = "running" THEN "idle" ELSE StartStep(c)
    [] s \in live /\ kind \in {"progress", "completed"} ->
         IF status[c] = "running" THEN "idle" ELSE "finally"
    [] s \in live /\ kind = "client_disconnected" -> "bye"
    [] OTHER -> FailureStep(c, kind)

\* Variant: the event type is taken for a status.
EventKindAsOutcome(c, kind) == kind

\* The status the event is recorded as: a failure before approval is a denial.
EventOutcome(c, kind) ==
  CASE kind = "approved" -> "approved"
    [] kind \in {"started", "progress"} -> "running"
    [] kind \in {"failed", "cancelled"} /\ status[c] = "awaiting_approval"
         -> "denied"
    [] OTHER -> kind

HandleEvent(s) ==
  /\ sock[s] = "idle"
  /\ ~DispatchLocked
  /\ \E c \in Delivered(s), kind \in EventKinds \cap LinkKinds :
       LET step == EventStep(s, c, kind) IN
       /\ SockGoto(s, step)
       /\ msg' = IF step \in {"idle", "finally"} THEN msg
                 ELSE [msg EXCEPT ![s] =
                         [type |-> "event", call |-> c, kind |-> kind,
                          outcome |-> EventOutcome(c, kind)]]
  /\ UNCHANGED <<repoVars, memVars, prop, answer, timer, budgetVars>>

\* record_approval(TRUE); a second approval finds its own audit event and is
\* no error.  queue() then looks for the live capability.
Approve(s) ==
  /\ sock[s] = "approve"
  /\ LET c == msg[s].call IN
     \/ /\ \/ RecordApproval(c, TRUE)
           \/ "approved" \in entered[c] /\ UNCHANGED repoVars
        /\ SockGoto(s, IF cap[target[c]] THEN "queue" ELSE "lapse")
        /\ UNCHANGED msg
     \/ /\ "approved" \notin entered[c]
        /\ ~MayEnter(c, "approved")
        /\ SockError(s)
        /\ UNCHANGED repoVars
  /\ UNCHANGED <<memVars, prop, answer, timer, budgetVars>>

\* An approved request that cannot be queued takes the whole session down.
QueueApproved(s) ==
  /\ sock[s] = "queue"
  /\ LET c == msg[s].call IN
     \/ QueueWithParallelLimit(c) /\ SockGoto(s, "arm")
     \/ status[c] = "queued" /\ SockGoto(s, "arm") /\ UNCHANGED repoVars
     \/ /\ status[c] # "queued"
        /\ ClientIsFull(c) \/ ~MayEnter(c, "queued")
        /\ SockGoto(s, "undo")
        /\ UNCHANGED repoVars
  /\ UNCHANGED <<memVars, msg, prop, answer, timer, budgetVars>>

\* Variant: the approval timer is cancelled, no execution timer follows.
ArmNothing(s) ==
  /\ sock[s] = "arm"
  /\ awaiting' = awaiting \ {msg[s].call}
  /\ TimerGoto(msg[s].call, "off")
  /\ SockIdle(s)
  /\ UNCHANGED <<repoVars, live, offered, seen, pending, future, terminal,
                 teardown, prop, answer, budgetVars>>

\* _begin_execution_timeout: the approval timer gives way to the execution
\* timer, unless the chat turn has abandoned its waiter meanwhile.
ArmExecution(s) ==
  /\ sock[s] = "arm"
  /\ LET c == msg[s].call IN
     \/ /\ c \in pending /\ future[c] = "open"
        /\ awaiting' = awaiting \ {c}
        /\ TimerGoto(c, "armed")
        /\ SockIdle(s)
     \/ /\ c \notin pending \/ future[c] # "open"
        /\ SockError(s)
        /\ UNCHANGED <<awaiting, timer>>
  /\ UNCHANGED <<repoVars, live, offered, seen, pending, future, terminal,
                 teardown, prop, answer, budgetVars>>

\* tool.result: require_session comes before _result_lock is requested.
ReceiveResult(s) ==
  /\ sock[s] = "idle"
  /\ \E c \in Delivered(s), kind \in ResultKinds \cap LinkKinds :
       \/ /\ s \in live
          /\ SockGoto(s, "result")
          /\ msg' = [msg EXCEPT ![s] =
               [type |-> "result", call |-> c, kind |-> kind,
                outcome |-> IF kind \in {"denied", "client_disconnected"}
                            THEN "failed" ELSE kind]]
       \/ s \notin live /\ SockError(s)
  /\ UNCHANGED <<repoVars, memVars, prop, answer, timer, budgetVars>>

\* Under _result_lock: a remembered outcome settles a repetition or refuses a
\* contradiction; otherwise a queued call is started before its result counts.
ResultStep(c, kind) ==
  CASE terminal[c] = kind -> "idle"
    [] terminal[c] \notin {Absent, kind} -> "finally"
    [] terminal[c] = Absent /\ status[c] = "queued" /\ kind # "cancelled"
         -> StartStep(c)
    [] /\ terminal[c] = Absent
       /\ kind \in {"denied", "client_disconnected"}
       /\ status[c] \notin {"queued", "running"} -> "finally"
    [] OTHER -> "write"

HandleResult(s) ==
  /\ sock[s] = "result"
  /\ ~ResultLocked
  /\ LET step == ResultStep(msg[s].call, msg[s].kind) IN
     /\ SockGoto(s, step)
     /\ msg' = IF step \in {"idle", "finally"} THEN [msg EXCEPT ![s] = None]
               ELSE msg
  /\ UNCHANGED <<repoVars, memVars, prop, answer, timer, budgetVars>>

\* orchestrator.start, for tool.started and ahead of a failure or a result.
StartCall(s) ==
  /\ sock[s] = "start"
  /\ LET c == msg[s].call IN
     \/ /\ Apply(c, "running")
        /\ IF msg[s].kind = "started" THEN SockIdle(s)
           ELSE SockGoto(s, "write") /\ UNCHANGED msg
     \/ Refused(c, "running") /\ SockError(s) /\ UNCHANGED repoVars
  /\ UNCHANGED <<memVars, prop, answer, timer, budgetVars>>

LapseCall(s) ==
  /\ sock[s] = "lapse"
  /\ Lapse(msg[s].call)
  /\ IF msg[s].kind = "approved" THEN SockGoto(s, "undo") /\ UNCHANGED msg
     ELSE SockError(s)
  /\ UNCHANGED <<memVars, prop, answer, timer, budgetVars>>

\* The repository method that records each outcome.
RecordOutcome(c, outcome) ==
  CASE outcome = "denied" -> RecordApproval(c, FALSE)
    [] outcome \in {"completed", "failed"} -> RecordResult(c, outcome)
    [] OTHER -> Transition(c, outcome)

\* Variant: a refused transition is taken for a repetition.
WriteOutcomeOrNot(s) ==
  /\ sock[s] = "write"
  /\ \/ RecordOutcome(msg[s].call, msg[s].outcome)
     \/ ~MayEnter(msg[s].call, msg[s].outcome) /\ UNCHANGED repoVars
  /\ SockGoto(s, "finish")
  /\ UNCHANGED <<memVars, prop, answer, msg, timer, budgetVars>>

WriteOutcome(s) ==
  /\ sock[s] = "write"
  /\ LET c == msg[s].call outcome == msg[s].outcome IN
     \/ RecordOutcome(c, outcome) /\ SockGoto(s, "finish") /\ UNCHANGED msg
     \/ /\ status[c] = outcome
        /\ SockGoto(s, "finish")
        /\ UNCHANGED <<repoVars, msg>>
     \/ Refused(c, outcome) /\ SockError(s) /\ UNCHANGED repoVars
  /\ UNCHANGED <<memVars, prop, answer, timer, budgetVars>>

\* Only a typed result can hand the turn a success; an event ends it with an
\* AgentRemoteTerminalError.
ResultVerdict(s) ==
  CASE msg[s].type = "event" -> "remote"
    [] msg[s].type = "result" /\ msg[s].kind = "completed" -> "success"
    [] OTHER -> "result"

FinishOutcome(s) ==
  /\ sock[s] = "finish"
  /\ LET m == msg[s] IN
     /\ FinishCall(m.call, IF m.type = "event" THEN m.outcome ELSE m.kind,
                   ResultVerdict(s))
     /\ IF m.type = "result" /\ m.kind = "client_disconnected"
        THEN SockGoto(s, "leave") /\ UNCHANGED msg
        ELSE SockIdle(s)
  /\ UNCHANGED <<repoVars, live, offered, seen, awaiting, teardown, prop, answer,
                 budgetVars>>

\* The receive loop ends: the peer went away, or Core closed the socket.
DropSocket(s) ==
  /\ sock[s] = "idle"
  /\ SockGoto(s, "finally")
  /\ UNCHANGED <<repoVars, memVars, prop, answer, msg, timer, budgetVars>>

\* await disconnect(handle) returns: the message loop goes on after a reported
\* disconnect, raises after a failed approval, and ends in the finally block.
SocketDisconnected(s) ==
  /\ Gone(s)
  /\ \/ sock[s] \in {"bye", "leave"} /\ SockIdle(s)
     \/ sock[s] = "undo" /\ SockError(s)
     \/ sock[s] = "finally" /\ SockGoto(s, "closed") /\ UNCHANGED msg
  /\ UNCHANGED <<repoVars, memVars, prop, answer, timer, budgetVars>>

-----------------------------------------------------------------------------
(* _disconnect_without_lifecycle: forget the session and its waiters, close  *)
(* its rows in one transaction, then tell the waiters.                      *)

MayDisconnect(by, s) ==
  \/ by[1] = "proposal" /\ prop[by[2]] \in {"abort", "abort_cancelled"}
       /\ target[by[2]] = s
  \/ /\ by = <<"socket", s>>
     /\ sock[s] \in {"finally", "undo", "bye", "leave"}
  \/ by = <<"revocation", s>>

BeginTeardown(by, s) ==
  /\ s \in live
  /\ live' = live \ {s}
  /\ pending' = {c \in pending : target[c] # s}
  /\ teardown' = [by |-> by, session |-> s, committed |-> FALSE,
                  calls |-> {c \in pending : target[c] = s}]
  /\ UNCHANGED <<repoVars, offered, seen, awaiting, future, terminal, taskVars,
                 budgetVars>>

\* disconnect(handle), disconnect_client.
Disconnect(by, s) ==
  /\ ~LifecycleLocked
  /\ MayDisconnect(by, s)
  /\ BeginTeardown(by, s)

\* register, which already holds the lifecycle lock.
ReplacePredecessor(s, p) ==
  /\ sock[s] = "advertise"
  /\ teardown = None
  /\ p \in Predecessors(s)
  /\ BeginTeardown(<<"socket", s>>, p)

CommitTeardown ==
  /\ teardown # None
  /\ ~teardown.committed
  /\ DisconnectSession(teardown.session)
  /\ teardown' = [teardown EXCEPT !.committed = TRUE]
  /\ UNCHANGED <<live, offered, seen, pending, awaiting, future, terminal,
                 taskVars, budgetVars>>

\* Variant: the waiters are popped and remembered but never resolved.
FinishTeardownQuietly ==
  /\ teardown # None
  /\ teardown.committed
  /\ timer' = [c \in Calls |-> IF c \in teardown.calls THEN "off" ELSE timer[c]]
  /\ Remember(teardown.calls, "client_disconnected")
  /\ teardown' = None
  /\ UNCHANGED <<repoVars, live, offered, seen, pending, awaiting, future, prop,
                 answer, sock, msg, budgetVars>>

FinishTeardown ==
  /\ teardown # None
  /\ teardown.committed
  /\ future' = [c \in Calls |-> IF c \in teardown.calls
                                THEN Settle(future[c], "disconnected")
                                ELSE future[c]]
  /\ timer' = [c \in Calls |-> IF c \in teardown.calls THEN "off" ELSE timer[c]]
  /\ Remember(teardown.calls, "client_disconnected")
  /\ teardown' = None
  /\ UNCHANGED <<repoVars, live, offered, seen, pending, awaiting, prop, answer,
                 sock, msg, budgetVars>>

-----------------------------------------------------------------------------
(* _expire_call: the timeout task of one waiter.                           *)

\* The deadline passed and _dispatch_lock was granted.
TimerWake(c) ==
  /\ timer[c] = "armed"
  /\ ~DispatchLocked
  /\ TimerGoto(c, "wait")
  /\ UNCHANGED <<repoVars, memVars, prop, answer, sock, msg, budgetVars>>

\* Variant: a queued call is timed out without having been started.
TimerCheckWithoutStart(c) ==
  /\ timer[c] = "wait"
  /\ ~ResultLocked
  /\ TimerGoto(c, IF c \in pending THEN "expire" ELSE "off")
  /\ UNCHANGED <<repoVars, memVars, prop, answer, sock, msg, budgetVars>>

TimerCheck(c) ==
  /\ timer[c] = "wait"
  /\ ~ResultLocked
  /\ TimerGoto(c, CASE c \notin pending -> "off"
                    [] /\ c \in pending \ awaiting
                       /\ status[c] = "queued" -> StartStep(c)
                    [] OTHER -> "expire")
  /\ UNCHANGED <<repoVars, memVars, prop, answer, sock, msg, budgetVars>>

TimerStart(c) ==
  /\ timer[c] = "start"
  /\ \/ Apply(c, "running") /\ TimerGoto(c, "expire")
     \/ Refused(c, "running") /\ TimerGoto(c, "finish") /\ UNCHANGED repoVars
  /\ UNCHANGED <<memVars, prop, answer, sock, msg, budgetVars>>

TimerLapse(c) ==
  /\ timer[c] = "lapse"
  /\ Lapse(c)
  /\ TimerGoto(c, "finish")
  /\ UNCHANGED <<memVars, prop, answer, sock, msg, budgetVars>>

\* Variant: the wait is timed out in memory only.
TimerExpireInMemory(c) ==
  /\ timer[c] = "expire"
  /\ TimerGoto(c, "finish")
  /\ UNCHANGED <<repoVars, memVars, prop, answer, sock, msg, budgetVars>>

\* A refused transition lands in the handler that ends the wait all the same.
TimerExpire(c) ==
  /\ timer[c] = "expire"
  /\ \/ Apply(c, "timed_out")
     \/ Refused(c, "timed_out") /\ UNCHANGED repoVars
  /\ TimerGoto(c, "finish")
  /\ UNCHANGED <<memVars, prop, answer, sock, msg, budgetVars>>

TimerFinish(c) ==
  /\ timer[c] = "finish"
  /\ TimerGoto(c, "off")
  /\ \/ /\ c \in pending
        /\ pending' = pending \ {c}
        /\ future' = [future EXCEPT ![c] = Settle(@, "timeout")]
        /\ Remember({c}, "timed_out")
     \/ c \notin pending /\ UNCHANGED <<pending, future, terminal>>
  /\ UNCHANGED <<repoVars, live, offered, seen, awaiting, teardown, prop, answer,
                 sock, msg, budgetVars>>

-----------------------------------------------------------------------------
(* Failing transactions, interrupted teardowns, the death of the process.  *)

Fault == faults < MaxFaults /\ faults' = faults + 1

ProposalFault(c) ==
  /\ Fault
  /\ prop[c] \in {"validate", "mark_valid", "mark_invalid", "ask", "queue", "lapse"}
  /\ Answer(c, "raised")
  /\ UNCHANGED <<repoVars, memVars, sock, msg, timer, cancels, restarts>>

\* The turn is cancelled while it awaits its own disconnect(): a teardown it runs
\* stops where it is, for nothing shields it.
InterruptAbort(c) ==
  /\ Fault
  /\ prop[c] \in {"abort", "abort_cancelled"}
  /\ Answer(c, "cancelled")
  /\ teardown' = IF teardown # None /\ teardown.by = <<"proposal", c>>
                 THEN None ELSE teardown
  /\ UNCHANGED <<repoVars, live, offered, seen, pending, awaiting, future,
                 terminal, sock, msg, timer, cancels, restarts>>

\* Variant: the exception of a failing write is swallowed.
SocketFaultSwallowed(s) ==
  /\ Fault
  /\ sock[s] = "write"
  /\ SockGoto(s, "finish")
  /\ UNCHANGED <<repoVars, memVars, prop, answer, msg, timer, cancels, restarts>>

\* Inside the try block of an approval the exception takes the session down.
SocketFault(s) ==
  /\ Fault
  /\ \/ /\ sock[s] = "advertise" /\ teardown = None
        /\ SockGoto(s, "closed") /\ UNCHANGED msg
     \/ /\ \/ sock[s] = "queue"
           \/ sock[s] = "lapse" /\ msg[s].kind = "approved"
        /\ SockGoto(s, "undo") /\ UNCHANGED msg
     \/ /\ \/ sock[s] \in {"refresh", "approve", "start", "write"}
           \/ sock[s] = "lapse" /\ msg[s].kind # "approved"
        /\ SockError(s)
  /\ UNCHANGED <<repoVars, memVars, prop, answer, timer, cancels, restarts>>

TimerFault(c) ==
  /\ Fault
  /\ timer[c] \in {"start", "lapse", "expire"}
  /\ TimerGoto(c, "finish")
  /\ UNCHANGED <<repoVars, memVars, prop, answer, sock, msg, cancels, restarts>>

\* disconnect_session raises: the waiters were already popped from _pending and
\* the exception leaves disconnect before it resolves them.
TeardownFault ==
  /\ Fault
  /\ teardown # None /\ ~teardown.committed
  /\ teardown' = None
  /\ LET kind == teardown.by[1] who == teardown.by[2] IN
     /\ IF kind = "proposal" THEN Answer(who, "raised") ELSE UNCHANGED <<prop, answer>>
     /\ IF kind = "socket"
        THEN IF sock[who] \in {"advertise", "finally"}
             THEN SockGoto(who, "closed") /\ UNCHANGED msg
             ELSE SockError(who)
        ELSE UNCHANGED <<sock, msg>>
  /\ UNCHANGED <<repoVars, live, offered, seen, pending, awaiting, future,
                 terminal, timer, cancels, restarts>>

\* A new process starts from the tables alone.  lifespan() recovers interrupted
\* conversations and nothing else, so the tool-call rows stay as they are.
Restart ==
  /\ restarts < MaxRestarts
  /\ restarts' = restarts + 1
  /\ live' = {} /\ offered' = {} /\ seen' = {}
  /\ pending' = {} /\ awaiting' = {}
  /\ future' = [c \in Calls |-> "none"]
  /\ terminal' = [c \in Calls |-> Absent]
  /\ teardown' = None
  /\ prop' = [c \in Calls |-> IF prop[c] = "idle" THEN "idle" ELSE "done"]
  /\ answer' = [c \in Calls |->
       IF prop[c] \in {"idle", "done"} THEN answer[c] ELSE "lost"]
  /\ sock' = [s \in Sessions |-> IF sock[s] = "new" THEN "new" ELSE "closed"]
  /\ msg' = [s \in Sessions |-> None]
  /\ timer' = [c \in Calls |-> "off"]
  /\ UNCHANGED <<repoVars, cancels, faults>>

CapabilityExpires(s) ==
  /\ CapabilityChurn
  /\ ExpireCapability(s)
  /\ UNCHANGED <<memVars, taskVars, budgetVars>>

-----------------------------------------------------------------------------
(* The specification.                                                      *)

\* Every socket is closed and no task is left: the system may rest.
AtRest ==
  /\ \A s \in Sessions : sock[s] = "closed"
  /\ \A c \in Calls : prop[c] \in {"idle", "done"} /\ timer[c] = "off"
  /\ teardown = None
  /\ UNCHANGED vars

\* The steps of each task, the ones that take a lock included.
ProposalStep(c) ==
  \/ Validate(c) \/ MarkValid(c) \/ MarkInvalid(c) \/ RequireApproval(c)
  \/ Dispatch(c) \/ DispatchQueue(c) \/ DispatchLapse(c) \/ DispatchRegister(c)
  \/ Sent(c) \/ SendFailed(c) \/ Aborted(c) \/ TakeResult(c)
SocketStep(s) ==
  \/ Advertise(s) \/ AddSession(s) \/ RefreshTables(s) \/ RefreshMemory(s)
  \/ Approve(s) \/ QueueApproved(s) \/ ArmExecution(s) \/ HandleResult(s)
  \/ StartCall(s) \/ LapseCall(s) \/ WriteOutcome(s) \/ FinishOutcome(s)
  \/ SocketDisconnected(s)
  \/ \E p \in Sessions : ReplacePredecessor(s, p)
TimerStep(c) ==
  \/ TimerWake(c) \/ TimerCheck(c)
  \/ TimerStart(c) \/ TimerLapse(c) \/ TimerExpire(c) \/ TimerFinish(c)
TeardownStep == CommitTeardown \/ FinishTeardown

\* What users, Link, the network and the clock do when they like.
Environment ==
  \/ \E c \in Calls, s \in Sessions : Propose(c, s)
  \/ \E c \in Calls : CancelTurn(c)
  \/ \E s \in Sessions : Connect(s) \/ Refresh(s) \/ DropSocket(s)
  \/ \E s \in Sessions : HandleEvent(s) \/ ReceiveResult(s)
  \/ \E s \in Sessions : Disconnect(<<"revocation", s>>, s)
  \/ \E s \in Sessions : CapabilityExpires(s)
  \/ \E c \in Calls : ProposalFault(c) \/ InterruptAbort(c) \/ TimerFault(c)
  \/ \E s \in Sessions : SocketFault(s)
  \/ TeardownFault
  \/ Restart

Next ==
  \/ Environment
  \/ \E c \in Calls : ProposalStep(c) \/ TimerStep(c)
  \/ \E s \in Sessions : SocketStep(s)
  \/ \E c \in Calls, s \in Sessions : Disconnect(<<"proposal", c>>, s)
  \/ \E s \in Sessions : Disconnect(<<"socket", s>>, s)
  \/ TeardownStep
  \/ AtRest

Spec == Init /\ [][Next]_vars

\* The event loop schedules every runnable task and deadlines pass.  The lock
\* _lifecycle_lock can be taken over and over by refreshes that change nothing,
\* and asyncio.Lock grants its waiters in arrival order, hence strong fairness
\* for the steps that wait for it; the other two locks are only ever held by
\* handlers that move a call forward.  Users, Link and the network owe nothing.
Fairness ==
  /\ \A c \in Calls :
       /\ WF_vars(ProposalStep(c))
       /\ WF_vars(TimerStep(c))
       /\ SF_vars(\E s \in Sessions : Disconnect(<<"proposal", c>>, s))
  /\ \A s \in Sessions :
       /\ WF_vars(SocketStep(s))
       /\ SF_vars(Disconnect(<<"socket", s>>, s))
  /\ WF_vars(TeardownStep)

FairSpec == Spec /\ Fairness

-----------------------------------------------------------------------------
(* Safety.                                                                 *)

\* The turn is told "completed" only when the table says so: whatever races a
\* result (timeout, teardown, cancelled waiter, failing transaction, restart),
\* no success reaches the model before its transaction has committed.
SuccessIsDurable ==
  \A c \in Calls :
    answer[c] = "success" \/ future[c] = "success" => status[c] = "completed"

\* A waiter is resolved at most once and never changes its mind; only the death
\* of the process takes its verdict away.
ResolvedOnce ==
  [][\A c \in Calls :
       future[c] \notin {"none", "open"} /\ restarts' = restarts =>
         future'[c] = future[c]]_vars

\* No verdict precedes the table: when a waiter has been told anything, its row
\* is terminal, so what the turn reports can no longer be contradicted.
ToldIsTerminal ==
  \A c \in Calls :
    future[c] \notin {"none", "open", "cancelled"} =>
      status[c] \in TerminalStatuses

\* A turn that was told "timed out" or "failed" is not told wrong: its row can
\* never turn out completed, however late Link's result arrives.
NoLateSuccess ==
  \A c \in Calls :
    future[c] \in {"timeout", "remote"} => status[c] # "completed"

\* A call whose tool needs the user's approval is neither queued nor run before
\* the approval is on record, on every path that leads to execution.
NoExecutionWithoutApproval ==
  \A c \in NeedsApproval :
    entered[c] \cap {"queued", "running", "completed"} # {} =>
      "approved" \in entered[c]

\* Whoever still waits will be answered by someone: a waiter that is open has
\* an armed timer, or a teardown is about to resolve it.
WaiterIsGuarded ==
  \A c \in Calls :
    prop[c] = "wait" /\ future[c] = "open" =>
      \/ c \in pending /\ timer[c] # "off"
      \/ teardown # None /\ c \in teardown.calls

\* Once the teardown of a session is over, none of its calls is left approved,
\* queued or running, whichever handlers were under way when it fell between
\* their steps.  (A proposal made from an older snapshot may still be validated.)
GoneSessionLeavesNothing ==
  \A c \in Calls :
    status[c] # Absent /\ Gone(target[c]) =>
      status[c] \in TerminalStatuses \cup {"proposed"}

\* One live Agent session per client, also while a newer connection takes over.
OneSessionPerClient ==
  \A s, r \in live : ClientOf[s] = ClientOf[r] => s = r

\* Every step of every task is one repository transaction or leaves the tables
\* alone: the promises of ToolRepository hold for the whole gateway.
RepositorySteps == [][RepoNext]_repoVars

-----------------------------------------------------------------------------
(* What the chat turn may rely on, as ToolCallPromise states it.           *)

Told(c) ==
  CASE answer[c] = "none" -> "nothing"
    [] answer[c] = "success" -> "success"
    [] answer[c] \in {"result", "failure"} -> "ended"
    [] answer[c] = "rejected" -> "rejected"
    [] OTHER -> "abandoned"

Promise == INSTANCE ToolCallPromise WITH told <- [c \in Calls |-> Told(c)]

\* The gateway implements ToolCallPromise: rows only ever take legal moves, and
\* a turn is told a success or an end only when the row has reached it, through
\* every race of result, timeout, teardown and cancellation.
KeepsPromise == Promise!Spec

-----------------------------------------------------------------------------
(* Liveness.                                                               *)

\* A turn that waits for a tool result gets an answer even if Link never sends
\* another byte.
WaiterIsAnswered ==
  \A c \in Calls : prop[c] = "wait" ~> prop[c] = "done"

\* docs/TOOLS_ARCHITECTURE.md:130-131: when a connection ends, its unfinished
\* calls are closed as client_disconnected.
DisconnectedCallsEnd ==
  \A c \in Calls :
    (status[c] \in LiveStatuses /\ sock[target[c]] = "closed")
      ~> status[c] \in TerminalStatuses

=============================================================================
