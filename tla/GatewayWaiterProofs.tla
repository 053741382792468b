------------------------ MODULE GatewayWaiterProofs -------------------------
(* Proofs about the waiters of AgentGateway: what a turn is told, that it  *)
(* is told at all, and what is left of a session that is gone.  They hold  *)
(* until the first fault: a transaction that raises or a teardown cut      *)
(* short leaves the waiter and its row apart.                              *)
EXTENDS AgentGatewayProofs

-----------------------------------------------------------------------------
(* The steps without a fault.                                              *)

ProposalMove(c) ==
  ProposalStep(c) \/ CancelTurn(c) \/ \E s \in Sessions : Propose(c, s)

\* A teardown begins while no other is under way and, unless it is register that
\* replaces an older session, while nobody changes the registry.
TeardownBegins(s) ==
  /\ teardown = None
  /\ \A r \in Sessions : sock[r] \notin {"add", "refresh", "apply_on", "apply_off"}
  /\ \E by \in Owners : BeginTeardown(by, s)

LEMMA QuietStep ==
  ASSUME GatewayInv, LifecycleInv, [Next]_vars, faults' = 0
  PROVE  \/ \E c \in Calls : ProposalMove(c)
         \/ \E c \in Calls : TimerStep(c)
         \/ \E s \in Sessions : SocketMove(s) /\ ~SocketFault(s)
         \/ \E s \in Sessions : TeardownBegins(s)
         \/ \E s \in Sessions : CapabilityExpires(s)
         \/ CommitTeardown \/ FinishTeardown \/ Restart \/ UNCHANGED vars
<1>1. ~Fault
  BY DEF Fault, GatewayInv, TaskTypes
<1>2. ASSUME NEW c \in Calls, ProposalFault(c) \/ InterruptAbort(c) \/ TimerFault(c)
      PROVE  FALSE
  BY <1>1, <1>2 DEF ProposalFault, InterruptAbort, TimerFault
<1>3. ~TeardownFault
  BY <1>1 DEF TeardownFault
<1>4. \A s \in Sessions : ~SocketFault(s)
  BY <1>1 DEF SocketFault
<1>5. /\ \A c \in Calls : <<"proposal", c>> \in Owners
      /\ \A s \in Sessions : /\ <<"socket", s>> \in Owners
                             /\ <<"revocation", s>> \in Owners
  BY DEF Owners
<1>6. ASSUME NEW by \in Owners, NEW s \in Sessions, Disconnect(by, s)
      PROVE  TeardownBegins(s)
  BY <1>6 DEF Disconnect, LifecycleLocked, TeardownBegins
<1>7. ASSUME NEW s \in Sessions, NEW p \in Sessions, ReplacePredecessor(s, p)
      PROVE  TeardownBegins(p)
  BY <1>5, <1>7 DEF ReplacePredecessor, TeardownBegins, LifecycleInv, Registering
<1>8. ASSUME NEW s \in Sessions, SocketStep(s)
      PROVE  (SocketMove(s) /\ ~SocketFault(s)) \/ \E p \in Sessions : TeardownBegins(p)
  BY <1>4, <1>7, <1>8 DEF SocketStep, SocketMove
<1>9. CASE Environment
  BY <1>2, <1>3, <1>4, <1>5, <1>6, <1>9 DEF Environment, ProposalMove, SocketMove
<1>10. CASE AtRest
  BY <1>10 DEF AtRest
<1> QED
  BY <1>5, <1>6, <1>8, <1>9, <1>10 DEF Next, ProposalMove, TeardownStep

-----------------------------------------------------------------------------
(* Who moves what.                                                         *)

\* The state graph of the protocol, seen from any call.
LEMMA RowMoves ==
  ASSUME GatewayInv, [Next]_vars, NEW d \in Calls
  PROVE  \/ status'[d] = status[d]
         \/ status[d] = Absent /\ status'[d] = "proposed"
         \/ status'[d] \in LegalTransitions[status[d]]
<1>1. [RepoNext]_repoVars /\ RepoTypeOK
  BY GatewayRepoStep DEF GatewayInv, RowInv
<1>2. ASSUME NEW s \in Sessions, DisconnectSession(s)
      PROVE  status'[d] = status[d] \/ status'[d] \in LegalTransitions[status[d]]
  BY <1>2 DEF DisconnectSession, LiveCallsOf, LegalTransitions, LiveStatuses, Statuses
<1> QED
  BY <1>1, <1>2
  DEF RepoNext, repoVars, RepoTypeOK, CreateToolCall, Transition, MayEnter, Enter,
      QueueWithParallelLimit, RecordApproval, RecordResult, ReplaceCapabilities,
      ExpireCapability

\* Queued, running and over: no legal move leads back.
Started == {"queued", "running"} \cup TerminalStatuses

LEMMA RowsGoForward ==
  ASSUME GatewayInv, [Next]_vars, NEW d \in Calls
  PROVE  /\ status[d] \in Started => status'[d] \in Started
         /\ status[d] \in TerminalStatuses => status'[d] = status[d]
         /\ status[d] # Absent => status'[d] # Absent /\ target'[d] = target[d]
         /\ status[d] \notin {Absent, "proposed"} => status'[d] \notin {Absent, "proposed"}
<1>1. status[d] \in Statuses \cup {Absent}
  BY DEF GatewayInv, RowInv, RepoTypeOK
<1>2. status[d] # Absent => target'[d] = target[d]
  BY GatewayRepoStep, FinalStep DEF GatewayInv, RowInv
<1> QED
  BY <1>1, <1>2, RowMoves
  DEF LegalTransitions, Statuses, LiveStatuses, TerminalStatuses, Started, Absent

\* The handlers that move the row of d, by where they move it.
StatusMove(d) ==
  \/ status'[d] = status[d]
  \/ status'[d] = "proposed" /\ status[d] = Absent /\ \E s \in Sessions : Propose(d, s)
  \/ status'[d] = "validated" /\ MarkValid(d)
  \/ status'[d] = "awaiting_approval" /\ RequireApproval(d)
  \/ status'[d] = "approved" /\ \E s \in Sessions : Approve(s) /\ msg[s].call = d
  \/ /\ status'[d] = "queued"
     /\ DispatchQueue(d) \/ \E s \in Sessions : QueueApproved(s) /\ msg[s].call = d
  \/ /\ status'[d] = "running"
     /\ TimerStart(d) \/ \E s \in Sessions : StartCall(s) /\ msg[s].call = d
  \/ /\ status'[d] = "completed"
     /\ \E s \in Sessions : /\ WriteOutcome(s)
                            /\ msg[s].call = d /\ msg[s].outcome = "completed"
  \/ status'[d] = "client_disconnected"
  \/ /\ status'[d] \in TerminalStatuses \ {"completed"}
     /\ \/ MarkInvalid(d) \/ TimerExpire(d)
        \/ \E s \in Sessions : WriteOutcome(s) /\ msg[s].call = d

LEMMA StatusMoves ==
  ASSUME GatewayInv, LifecycleInv, [Next]_vars, faults' = 0, NEW d \in Calls
  PROVE  StatusMove(d)
<1> USE DEF StatusMove
<1>0. status \in [Calls -> Statuses \cup {Absent}]
  BY DEF GatewayInv, RowInv, RepoTypeOK
<1>1. ASSUME NEW c \in Calls, NEW to, Apply(c, to) \/ Transition(c, to)
      PROVE  status'[d] = status[d] \/ (c = d /\ status'[d] = to)
  BY <1>0, <1>1 DEF Apply, Transition, Enter, repoVars
<1>2. ASSUME NEW c \in Calls, Lapse(c)
      PROVE  status'[d] = status[d] \/ status'[d] = "client_disconnected"
  BY <1>1, <1>2 DEF Lapse, repoVars
<1>3. ASSUME UNCHANGED repoVars PROVE status'[d] = status[d]
  BY <1>3 DEF repoVars
<1>4. ASSUME NEW c \in Calls, ProposalMove(c) PROVE StatusMove(d)
  <2>1. CASE MarkValid(c)
    BY <1>1, <1>3, <2>1 DEF MarkValid
  <2>2. CASE MarkInvalid(c)
    BY <1>1, <1>3, <2>2 DEF MarkInvalid, TerminalStatuses
  <2>3. CASE RequireApproval(c)
    BY <1>1, <1>3, <2>3 DEF RequireApproval
  <2>4. CASE DispatchQueue(c)
    BY <1>0, <1>3, <2>4 DEF DispatchQueue, QueueWithParallelLimit, Enter
  <2>5. CASE DispatchLapse(c)
    BY <1>2, <2>5 DEF DispatchLapse
  <2>6. CASE \/ Validate(c) \/ Dispatch(c) \/ DispatchRegister(c) \/ Sent(c)
             \/ SendFailed(c) \/ Aborted(c) \/ TakeResult(c) \/ CancelTurn(c)
    BY <1>3, <2>6 DEF Validate, Dispatch, DispatchRegister, Sent, SendFailed, Aborted,
                      TakeResult, CancelTurn
  <2>7. ASSUME NEW s \in Sessions, Propose(c, s) PROVE StatusMove(d)
    BY <1>0, <1>3, <2>7 DEF Propose, CreateToolCall, Enter
  <2> QED
    BY <1>4, <2>1, <2>2, <2>3, <2>4, <2>5, <2>6, <2>7 DEF ProposalMove, ProposalStep
<1>5. ASSUME NEW c \in Calls, TimerStep(c) PROVE StatusMove(d)
  <2>1. CASE TimerStart(c)
    BY <1>1, <1>3, <2>1 DEF TimerStart
  <2>2. CASE TimerLapse(c)
    BY <1>2, <2>2 DEF TimerLapse
  <2>3. CASE TimerExpire(c)
    BY <1>1, <1>3, <2>3 DEF TimerExpire, TerminalStatuses
  <2>4. CASE TimerWake(c) \/ TimerCheck(c) \/ TimerFinish(c)
    BY <1>3, <2>4 DEF TimerWake, TimerCheck, TimerFinish
  <2> QED
    BY <1>5, <2>1, <2>2, <2>3, <2>4 DEF TimerStep
<1>6. ASSUME NEW s \in Sessions, SocketMove(s) PROVE StatusMove(d)
  <2>1. ASSUME sock[s] \in Reading PROVE msg[s] \in Messages /\ msg[s].call \in Calls
    BY <2>1 DEF GatewayInv, MessageInv, MessageOK, Messages
  <2>2. CASE Approve(s)
    BY <1>0, <1>3, <2>1, <2>2 DEF Approve, Reading, RecordApproval, Enter, Verdict
  <2>3. CASE QueueApproved(s)
    BY <1>0, <1>3, <2>1, <2>3 DEF QueueApproved, Reading, QueueWithParallelLimit, Enter
  <2>4. CASE StartCall(s)
    BY <1>1, <1>3, <2>1, <2>4 DEF StartCall, Reading
  <2>5. CASE LapseCall(s)
    BY <1>2, <2>1, <2>5 DEF LapseCall, Reading
  <2>6. CASE WriteOutcome(s)
    <3>1. msg[s].call \in Calls /\ msg[s].outcome \in Recorded
      BY <2>1, <2>6 DEF WriteOutcome, Reading, GatewayInv, MessageInv, MessageOK
    <3> DEFINE c == msg[s].call
               outcome == msg[s].outcome
    <3>2. RecordOutcome(c, outcome) =>
            status'[d] = status[d] \/ (c = d /\ status'[d] = outcome)
      BY <1>0, <1>1, <3>1
      DEF RecordOutcome, RecordApproval, Verdict, RecordResult, Enter, Recorded
    <3>3. outcome \in TerminalStatuses
      BY <3>1 DEF Recorded, TerminalStatuses
    <3>4. \/ status'[d] = status[d]
          \/ c = d /\ status'[d] = outcome
      BY <1>3, <2>6, <3>2 DEF WriteOutcome
    <3> QED
      BY <2>6, <3>3, <3>4
  <2>7. CASE Advertise(s) \/ RefreshTables(s)
    BY <2>7 DEF Advertise, RefreshTables, ReplaceCapabilities
  <2>8. CASE \/ AddSession(s) \/ RefreshMemory(s) \/ ArmExecution(s)
             \/ HandleResult(s) \/ FinishOutcome(s) \/ SocketDisconnected(s)
             \/ Connect(s) \/ Refresh(s) \/ DropSocket(s) \/ HandleEvent(s)
             \/ ReceiveResult(s) \/ SocketFault(s)
    BY <1>3, <2>8
    DEF AddSession, RefreshMemory, ArmExecution, HandleResult, FinishOutcome,
        SocketDisconnected, Connect, Refresh, DropSocket, HandleEvent,
        ReceiveResult, SocketFault
  <2> QED
    BY <1>6, <2>2, <2>3, <2>4, <2>5, <2>6, <2>7, <2>8 DEF SocketMove
<1>7. CASE CommitTeardown
  BY <1>7 DEF CommitTeardown, DisconnectSession
<1>8. CASE FinishTeardown \/ Restart \/ UNCHANGED vars
  BY <1>3, <1>8 DEF FinishTeardown, Restart, vars
<1>9. ASSUME NEW s \in Sessions, TeardownBegins(s) \/ CapabilityExpires(s)
      PROVE  StatusMove(d)
  BY <1>3, <1>9
  DEF TeardownBegins, BeginTeardown, CapabilityExpires, ExpireCapability
<1> HIDE DEF StatusMove
<1> QED
  BY <1>4, <1>5, <1>6, <1>7, <1>8, <1>9, QuietStep

\* The task that proposes d, by where it goes.
TurnMove(d) ==
  \/ prop'[d] = prop[d]
  \/ prop'[d] = "validate" /\ prop[d] = "idle" /\ \E s \in seen : CreateToolCall(d, s)
  \/ prop'[d] = "mark_valid" /\ Validate(d) /\ cap[target[d]]
  \/ prop'[d] = "mark_invalid" /\ Validate(d)
  \/ prop'[d] \in {"ask", "dispatch"} /\ MarkValid(d) /\ status'[d] = "validated"
  \/ prop'[d] = "dispatch" /\ RequireApproval(d)
  \/ prop'[d] \in {"queue", "lapse"} /\ prop[d] = "dispatch"
  \/ /\ prop'[d] = "register" /\ prop[d] = "dispatch" /\ UNCHANGED repoVars
     /\ d \in NeedsApproval /\ status[d] = "awaiting_approval"
  \/ /\ prop'[d] = "register" /\ prop[d] = "queue"
     /\ status'[d] = "queued" /\ status[d] # Absent
  \/ prop'[d] = "send" /\ DispatchRegister(d) /\ target[d] \in live
  \/ prop'[d] = "wait" /\ Sent(d)
  \/ prop'[d] \in {"abort", "abort_cancelled"} /\ prop[d] = "send"
  \/ prop'[d] = "done"

\* What the turn is told about d, by where it learns it.
AnswerMove(d) ==
  \/ answer'[d] = answer[d]
  \/ /\ prop[d] # "done" /\ prop'[d] = "done"
     /\ \/ answer'[d] \in {"rejected", "raised", "cancelled", "lost"}
        \/ answer'[d] = "failure" /\ prop[d] = "abort" /\ Gone(target[d])
        \/ /\ prop[d] = "wait" /\ future[d] \notin {"none", "open", "cancelled"}
           /\ answer'[d] = IF future[d] \in {"success", "result"} THEN future[d] ELSE "failure"

LEMMA TurnMoves ==
  ASSUME GatewayInv, LifecycleInv, [Next]_vars, faults' = 0, NEW d \in Calls
  PROVE  TurnMove(d) /\ AnswerMove(d)
<1> USE DEF PropGoto, Answer
<1>1. prop \in [Calls -> PropSteps] /\ answer \in [Calls -> Answers]
  BY DEF GatewayInv, TaskTypes
<1>2. ASSUME UNCHANGED <<prop, answer>> PROVE TurnMove(d) /\ AnswerMove(d)
  BY <1>2 DEF TurnMove, AnswerMove
<1>3. ASSUME NEW c \in Calls, c # d, ProposalMove(c)
      PROVE  prop'[d] = prop[d] /\ answer'[d] = answer[d]
  BY <1>1, <1>3
  DEF ProposalMove, ProposalStep, Validate, MarkValid, MarkInvalid, RequireApproval,
      Dispatch, DispatchQueue, DispatchLapse, DispatchRegister, Sent, SendFailed,
      Aborted, TakeResult, CancelTurn, Propose
<1>4. ASSUME ProposalMove(d) PROVE TurnMove(d) /\ AnswerMove(d)
  <2>0. status \in [Calls -> Statuses \cup {Absent}]
    BY DEF GatewayInv, RowInv, RepoTypeOK
  <2>1. CASE Validate(d)
    BY <1>1, <2>1 DEF Validate, TurnMove, AnswerMove
  <2>2. CASE MarkValid(d)
    BY <1>1, <2>0, <2>2
    DEF MarkValid, Apply, Transition, Enter, repoVars, TurnMove, AnswerMove
  <2>3. CASE MarkInvalid(d)
    BY <1>1, <2>3 DEF MarkInvalid, TurnMove, AnswerMove
  <2>4. CASE RequireApproval(d)
    BY <1>1, <2>4 DEF RequireApproval, TurnMove, AnswerMove
  <2>5. CASE Dispatch(d)
    BY <1>1, <2>5 DEF Dispatch, Routable, TurnMove, AnswerMove
  <2>6. CASE DispatchQueue(d)
    <3>1. CASE QueueWithParallelLimit(d) /\ PropGoto(d, "register") /\ UNCHANGED answer
      <4>1. status'[d] = "queued"
        BY <2>0, <3>1 DEF QueueWithParallelLimit, Enter
      <4>2. status[d] # Absent
        BY <3>1 DEF QueueWithParallelLimit, MayEnter, LegalTransitions, Absent
      <4> QED
        BY <1>1, <2>6, <3>1, <4>1, <4>2 DEF DispatchQueue, TurnMove, AnswerMove
    <3> QED
      BY <1>1, <2>6, <3>1 DEF DispatchQueue, TurnMove, AnswerMove
  <2>7. CASE DispatchLapse(d)
    BY <1>1, <2>7 DEF DispatchLapse, TurnMove, AnswerMove
  <2>8. CASE DispatchRegister(d)
    BY <1>1, <2>8 DEF DispatchRegister, TurnMove, AnswerMove
  <2>9. CASE Sent(d) \/ SendFailed(d)
    BY <1>1, <2>9 DEF Sent, SendFailed, TurnMove, AnswerMove
  <2>10. CASE Aborted(d)
    BY <1>1, <2>10 DEF Aborted, TurnMove, AnswerMove
  <2>11. CASE TakeResult(d)
    BY <1>1, <2>11 DEF TakeResult, TurnMove, AnswerMove
  <2>12. CASE CancelTurn(d)
    BY <1>1, <2>12 DEF CancelTurn, TurnMove, AnswerMove
  <2>13. CASE \E s \in Sessions : Propose(d, s)
    BY <1>1, <2>13 DEF Propose, TurnMove, AnswerMove
  <2> QED
    BY <1>4, <2>1, <2>2, <2>3, <2>4, <2>5, <2>6, <2>7, <2>8, <2>9, <2>10, <2>11, <2>12,
       <2>13 DEF ProposalMove, ProposalStep
<1>5. ASSUME NEW c \in Calls, TimerStep(c) PROVE UNCHANGED <<prop, answer>>
  BY <1>5 DEF TimerStep, TimerWake, TimerCheck, TimerStart, TimerLapse, TimerExpire,
              TimerFinish
<1>6. ASSUME NEW s \in Sessions, SocketMove(s) PROVE UNCHANGED <<prop, answer>>
  BY <1>6
  DEF SocketMove, Advertise, AddSession, RefreshTables, RefreshMemory, Approve,
      QueueApproved, ArmExecution, HandleResult, StartCall, LapseCall, WriteOutcome,
      FinishOutcome, SocketDisconnected, Connect, Refresh, DropSocket, HandleEvent,
      ReceiveResult, SocketFault
<1>7. ASSUME NEW s \in Sessions, TeardownBegins(s) \/ CapabilityExpires(s)
      PROVE  UNCHANGED <<prop, answer>>
  BY <1>7 DEF TeardownBegins, BeginTeardown, CapabilityExpires, taskVars
<1>8. CASE CommitTeardown \/ FinishTeardown \/ UNCHANGED vars
  BY <1>2, <1>8 DEF CommitTeardown, FinishTeardown, vars, taskVars
<1>9. CASE Restart
  BY <1>1, <1>9 DEF Restart, TurnMove, AnswerMove
<1> QED
  BY <1>2, <1>3, <1>4, <1>5, <1>6, <1>7, <1>8, <1>9, QuietStep DEF TurnMove, AnswerMove

\* Who answers the waiter of d, or takes it away.
FutureMove(d) ==
  \/ future'[d] = future[d]
  \/ /\ future[d] = "none" /\ future'[d] = "open" /\ DispatchRegister(d)
     /\ prop[d] = "register" /\ prop'[d] = "send" /\ target[d] \in live
     /\ pending' = pending \cup {d}
  \/ /\ future[d] = "open"
     /\ \/ \E s \in Sessions : /\ FinishOutcome(s) /\ msg[s].call = d
                               /\ future'[d] = ResultVerdict(s)
        \/ /\ future'[d] = "timeout" /\ TimerFinish(d) /\ d \in pending
        \/ /\ future'[d] = "disconnected" /\ FinishTeardown /\ d \in teardown.calls
        \/ future'[d] = "cancelled" /\ CancelTurn(d)
  \/ Restart

LEMMA WaiterFutures ==
  ASSUME GatewayInv, LifecycleInv, FutureInv, [Next]_vars, faults' = 0, NEW d \in Calls
  PROVE  FutureMove(d)
<1> USE DEF Settle
<1>1. future \in [Calls -> FutureStates] /\ prop \in [Calls -> PropSteps]
  BY DEF GatewayInv, MemoryTypes, TaskTypes
<1>2. ASSUME UNCHANGED future PROVE FutureMove(d)
  BY <1>2 DEF FutureMove
<1>3. ASSUME NEW c \in Calls, ProposalMove(c) PROVE FutureMove(d)
  <2>1. CASE DispatchRegister(c)
    BY <1>1, <2>1 DEF DispatchRegister, PropGoto, FutureInv, BeforeSend, FutureMove
  <2>2. CASE CancelTurn(c)
    BY <1>1, <2>2 DEF CancelTurn, FutureMove
  <2>3. CASE ~DispatchRegister(c) /\ ~CancelTurn(c)
    BY <1>2, <1>3, <2>3
    DEF ProposalMove, ProposalStep, Validate, MarkValid, MarkInvalid, RequireApproval,
        Dispatch, DispatchQueue, DispatchLapse, Sent, SendFailed, Aborted, TakeResult,
        Propose, memVars
  <2> QED
    BY <2>1, <2>2, <2>3
<1>4. ASSUME NEW c \in Calls, TimerStep(c) PROVE FutureMove(d)
  <2>1. CASE TimerFinish(c)
    BY <1>1, <2>1 DEF TimerFinish, FutureMove
  <2>2. CASE ~TimerFinish(c)
    BY <1>2, <1>4, <2>2
    DEF TimerStep, TimerWake, TimerCheck, TimerStart, TimerLapse, TimerExpire, memVars
  <2> QED
    BY <2>1, <2>2
<1>5. ASSUME NEW s \in Sessions, SocketMove(s) PROVE FutureMove(d)
  <2>1. CASE FinishOutcome(s)
    BY <1>1, <2>1 DEF FinishOutcome, FinishCall, FutureMove
  <2>2. CASE ~FinishOutcome(s)
    BY <1>2, <1>5, <2>2
    DEF SocketMove, Advertise, AddSession, RefreshTables, RefreshMemory, Approve,
        QueueApproved, ArmExecution, HandleResult, StartCall, LapseCall,
        WriteOutcome, SocketDisconnected, Connect, Refresh, DropSocket, HandleEvent,
        ReceiveResult, SocketFault, memVars
  <2> QED
    BY <2>1, <2>2
<1>6. ASSUME NEW s \in Sessions, TeardownBegins(s) \/ CapabilityExpires(s)
      PROVE  UNCHANGED future
  BY <1>6 DEF TeardownBegins, BeginTeardown, CapabilityExpires, memVars
<1>7. CASE FinishTeardown
  BY <1>1, <1>7 DEF FinishTeardown, FutureMove
<1>8. CASE CommitTeardown \/ UNCHANGED vars
  BY <1>2, <1>8 DEF CommitTeardown, vars, memVars
<1>9. CASE Restart
  BY <1>9 DEF FutureMove
<1> QED
  BY <1>2, <1>3, <1>4, <1>5, <1>6, <1>7, <1>8, <1>9, QuietStep

\* Who has d popped from _pending or put into it.
PendingMove(d) ==
  \/ d \in pending <=> d \in pending'
  \/ d \in pending' /\ DispatchRegister(d) /\ target[d] \in live
  \/ /\ d \in pending /\ d \notin pending'
     /\ \/ \E s \in Sessions : FinishOutcome(s) /\ msg[s].call = d
        \/ TimerFinish(d)
        \/ \E s \in Sessions : TeardownBegins(s) /\ target[d] = s
        \/ Restart

LEMMA WaiterPending ==
  ASSUME GatewayInv, LifecycleInv, [Next]_vars, faults' = 0, NEW d \in Calls
  PROVE  PendingMove(d)
<1>2. ASSUME UNCHANGED pending PROVE PendingMove(d)
  BY <1>2 DEF PendingMove
<1>3. ASSUME NEW c \in Calls, ProposalMove(c) PROVE PendingMove(d)
  <2>1. CASE DispatchRegister(c)
    BY <2>1 DEF DispatchRegister, PendingMove
  <2>2. CASE ~DispatchRegister(c)
    BY <1>2, <1>3, <2>2
    DEF ProposalMove, ProposalStep, Validate, MarkValid, MarkInvalid, RequireApproval,
        Dispatch, DispatchQueue, DispatchLapse, Sent, SendFailed, Aborted, TakeResult,
        Propose, CancelTurn, memVars
  <2> QED
    BY <2>1, <2>2
<1>4. ASSUME NEW c \in Calls, TimerStep(c) PROVE PendingMove(d)
  <2>1. CASE TimerFinish(c)
    BY <2>1 DEF TimerFinish, PendingMove
  <2>2. CASE ~TimerFinish(c)
    BY <1>2, <1>4, <2>2
    DEF TimerStep, TimerWake, TimerCheck, TimerStart, TimerLapse, TimerExpire, memVars
  <2> QED
    BY <2>1, <2>2
<1>5. ASSUME NEW s \in Sessions, SocketMove(s) PROVE PendingMove(d)
  <2>1. CASE FinishOutcome(s)
    BY <2>1 DEF FinishOutcome, FinishCall, PendingMove
  <2>2. CASE ~FinishOutcome(s)
    BY <1>2, <1>5, <2>2
    DEF SocketMove, Advertise, AddSession, RefreshTables, RefreshMemory, Approve,
        QueueApproved, ArmExecution, HandleResult, StartCall, LapseCall,
        WriteOutcome, SocketDisconnected, Connect, Refresh, DropSocket, HandleEvent,
        ReceiveResult, SocketFault, memVars
  <2> QED
    BY <2>1, <2>2
<1>6. ASSUME NEW s \in Sessions, TeardownBegins(s) PROVE PendingMove(d)
  BY <1>6 DEF TeardownBegins, BeginTeardown, PendingMove
<1>7. ASSUME NEW s \in Sessions, CapabilityExpires(s) PROVE UNCHANGED pending
  BY <1>7 DEF CapabilityExpires, memVars
<1>8. CASE CommitTeardown \/ FinishTeardown \/ UNCHANGED vars
  BY <1>2, <1>8 DEF CommitTeardown, FinishTeardown, vars, memVars
<1>9. CASE Restart
  BY <1>9 DEF Restart, PendingMove
<1> QED
  BY <1>2, <1>3, <1>4, <1>5, <1>6, <1>7, <1>8, <1>9, QuietStep

\* The approval of d gives way to its execution.
AwaitingMove(d) ==
  \/ d \in awaiting' /\ d \in awaiting
  \/ d \notin awaiting' /\ d \notin awaiting
  \/ d \in awaiting' /\ DispatchRegister(d) /\ d \in NeedsApproval
  \/ /\ d \notin awaiting'
     /\ \E s \in Sessions : ArmExecution(s) /\ msg[s].call = d
  \/ Restart

LEMMA WaiterAwaiting ==
  ASSUME GatewayInv, LifecycleInv, [Next]_vars, faults' = 0, NEW d \in Calls
  PROVE  AwaitingMove(d)
<1>2. ASSUME UNCHANGED awaiting PROVE AwaitingMove(d)
  BY <1>2 DEF AwaitingMove
<1>3. ASSUME NEW c \in Calls, ProposalMove(c) PROVE AwaitingMove(d)
  <2>1. CASE DispatchRegister(c)
    BY <2>1 DEF DispatchRegister, AwaitingMove
  <2>2. CASE ~DispatchRegister(c)
    BY <1>2, <1>3, <2>2
    DEF ProposalMove, ProposalStep, Validate, MarkValid, MarkInvalid, RequireApproval,
        Dispatch, DispatchQueue, DispatchLapse, Sent, SendFailed, Aborted, TakeResult,
        Propose, CancelTurn, memVars
  <2> QED
    BY <2>1, <2>2
<1>4. ASSUME NEW c \in Calls, TimerStep(c) PROVE UNCHANGED awaiting
  BY <1>4 DEF TimerStep, TimerWake, TimerCheck, TimerStart, TimerLapse, TimerExpire,
              TimerFinish, memVars
<1>5. ASSUME NEW s \in Sessions, SocketMove(s) PROVE AwaitingMove(d)
  <2>1. CASE ArmExecution(s)
    BY <2>1 DEF ArmExecution, AwaitingMove
  <2>2. CASE ~ArmExecution(s)
    BY <1>2, <1>5, <2>2
    DEF SocketMove, Advertise, AddSession, RefreshTables, RefreshMemory, Approve,
        QueueApproved, FinishOutcome, HandleResult, StartCall, LapseCall,
        WriteOutcome, SocketDisconnected, Connect, Refresh, DropSocket, HandleEvent,
        ReceiveResult, SocketFault, memVars
  <2> QED
    BY <2>1, <2>2
<1>6. ASSUME NEW s \in Sessions, TeardownBegins(s) \/ CapabilityExpires(s)
      PROVE  UNCHANGED awaiting
  BY <1>6 DEF TeardownBegins, BeginTeardown, CapabilityExpires, memVars
<1>8. CASE CommitTeardown \/ FinishTeardown \/ UNCHANGED vars
  BY <1>2, <1>8 DEF CommitTeardown, FinishTeardown, vars, memVars
<1>9. CASE Restart
  BY <1>9 DEF AwaitingMove
<1> QED
  BY <1>2, <1>3, <1>4, <1>5, <1>6, <1>8, <1>9, QuietStep

\* The timer of d, by where it goes.
TimerMove(d) ==
  \/ timer'[d] = timer[d]
  \/ timer'[d] = "armed" /\ Sent(d) /\ d \in pending
  \/ /\ timer'[d] = "armed"
     /\ \E s \in Sessions : ArmExecution(s) /\ msg[s].call = d /\ d \in pending
  \/ timer'[d] = "wait" /\ TimerWake(d)
  \/ timer'[d] \in {"start", "lapse", "expire"} /\ TimerCheck(d) /\ d \in pending
  \/ timer'[d] \in {"expire", "finish"} /\ TimerStart(d)
  \/ timer'[d] = "finish" /\ (TimerLapse(d) \/ TimerExpire(d))
  \/ /\ timer'[d] = "off"
     /\ \/ TimerCheck(d) /\ d \notin pending
        \/ TimerFinish(d)
        \/ \E s \in Sessions : FinishOutcome(s) /\ msg[s].call = d
        \/ FinishTeardown /\ d \in teardown.calls
        \/ Restart

LEMMA WaiterTimers ==
  ASSUME GatewayInv, LifecycleInv, [Next]_vars, faults' = 0, NEW d \in Calls
  PROVE  TimerMove(d)
<1>1. timer \in [Calls -> TimerSteps]
  BY DEF GatewayInv, TaskTypes
<1>2. ASSUME UNCHANGED timer PROVE TimerMove(d)
  BY <1>2 DEF TimerMove
<1>3. ASSUME NEW c \in Calls, ProposalMove(c) PROVE TimerMove(d)
  <2>1. CASE Sent(c)
    BY <1>1, <2>1 DEF Sent, TimerMove
  <2>2. CASE ~Sent(c)
    BY <1>2, <1>3, <2>2
    DEF ProposalMove, ProposalStep, Validate, MarkValid, MarkInvalid, RequireApproval,
        Dispatch, DispatchQueue, DispatchLapse, DispatchRegister, SendFailed, Aborted,
        TakeResult, Propose, CancelTurn
  <2> QED
    BY <2>1, <2>2
<1>4. ASSUME NEW c \in Calls, TimerStep(c) PROVE TimerMove(d)
  <2>1. CASE c # d
    BY <1>1, <1>4, <2>1
    DEF TimerStep, TimerWake, TimerCheck, TimerStart, TimerLapse, TimerExpire,
        TimerFinish, TimerGoto, TimerMove
  <2>2. CASE TimerCheck(d)
    BY <1>1, <2>2 DEF TimerCheck, TimerGoto, StartStep, TimerMove
  <2>3. CASE TimerStart(d)
    BY <1>1, <2>3 DEF TimerStart, TimerGoto, TimerMove
  <2>4. CASE TimerWake(d) \/ TimerLapse(d) \/ TimerExpire(d) \/ TimerFinish(d)
    BY <1>1, <2>4 DEF TimerWake, TimerLapse, TimerExpire, TimerFinish, TimerGoto, TimerMove
  <2> QED
    BY <1>4, <2>1, <2>2, <2>3, <2>4 DEF TimerStep
<1>5. ASSUME NEW s \in Sessions, SocketMove(s) PROVE TimerMove(d)
  <2>1. CASE ArmExecution(s)
    BY <1>1, <2>1 DEF ArmExecution, TimerGoto, TimerMove
  <2>2. CASE FinishOutcome(s)
    BY <1>1, <2>2 DEF FinishOutcome, FinishCall, TimerMove
  <2>3. CASE ~ArmExecution(s) /\ ~FinishOutcome(s)
    BY <1>2, <1>5, <2>3
    DEF SocketMove, Advertise, AddSession, RefreshTables, RefreshMemory, Approve,
        QueueApproved, HandleResult, StartCall, LapseCall, WriteOutcome,
        SocketDisconnected, Connect, Refresh, DropSocket, HandleEvent, ReceiveResult,
        SocketFault
  <2> QED
    BY <2>1, <2>2, <2>3
<1>6. ASSUME NEW s \in Sessions, TeardownBegins(s) \/ CapabilityExpires(s)
      PROVE  UNCHANGED timer
  BY <1>6 DEF TeardownBegins, BeginTeardown, CapabilityExpires, taskVars
<1>7. CASE FinishTeardown
  BY <1>1, <1>7 DEF FinishTeardown, TimerMove
<1>8. CASE CommitTeardown \/ UNCHANGED vars
  BY <1>2, <1>8 DEF CommitTeardown, vars, taskVars
<1>9. CASE Restart
  BY <1>9 DEF Restart, TimerMove
<1> QED
  BY <1>2, <1>3, <1>4, <1>5, <1>6, <1>7, <1>8, <1>9, QuietStep

\* What a handler decides to do with an event.
EventTaken(r) ==
  \E c \in Delivered(r), kind \in EventKinds :
    /\ ~DispatchLocked /\ UNCHANGED repoVars
    /\ sock'[r] = EventStep(r, c, kind)
    /\ msg'[r] = [type |-> "event", call |-> c, kind |-> kind,
                  outcome |-> EventOutcome(c, kind)]

\* The socket r while it handles a message, by where it goes.
ReaderMove(r) ==
  \/ sock'[r] = sock[r] /\ msg'[r] = msg[r]
  \/ sock'[r] \in {"approve", "write", "start", "lapse", "bye"} /\ EventTaken(r)
  \/ /\ sock'[r] = "result" /\ UNCHANGED repoVars
     /\ msg'[r].type = "result" /\ msg'[r].call \in Delivered(r)
     /\ msg'[r].kind \in ResultKinds
  \/ /\ msg'[r] = msg[r]
     /\ \/ sock'[r] \in {"start", "lapse", "write"} /\ sock[r] = "result" /\ ~ResultLocked
        \/ sock'[r] \in {"queue", "lapse"} /\ sock[r] = "approve"
        \/ sock'[r] = "arm" /\ QueueApproved(r) /\ status'[msg[r].call] = "queued"
        \/ sock'[r] = "undo" /\ sock[r] = "queue"
        \/ sock'[r] = "undo" /\ sock[r] = "lapse" /\ msg[r].kind = "approved"
        \/ sock'[r] = "write" /\ sock[r] = "start" /\ msg[r].kind # "started"
        \/ sock'[r] = "finish" /\ WriteOutcome(r) /\ status'[msg[r].call] = msg[r].outcome
        \/ sock'[r] = "leave" /\ FinishOutcome(r) /\ msg[r].type = "result"

LEMMA ReaderMoves ==
  ASSUME GatewayInv, LifecycleInv, [Next]_vars, faults' = 0, NEW r \in Sessions,
         sock'[r] \in Reading
  PROVE  ReaderMove(r)
<1> USE DEF SockGoto, SockIdle, SockError
<1>1. /\ sock \in [Sessions -> SockSteps]
      /\ msg \in [Sessions -> Messages \cup {None}]
  BY DEF GatewayInv, MessageInv
<1>2. ASSUME sock'[r] = sock[r], msg'[r] = msg[r] PROVE ReaderMove(r)
  BY <1>2 DEF ReaderMove
<1>3. ASSUME NEW s \in Sessions, SocketMove(s), ~SocketFault(s), s = r
      PROVE  ReaderMove(r)
  <2>1. CASE HandleEvent(r)
    <3>1. PICK c \in Delivered(r), kind \in EventKinds :
            /\ ~DispatchLocked /\ UNCHANGED repoVars
            /\ SockGoto(r, EventStep(r, c, kind))
            /\ msg' = IF EventStep(r, c, kind) \in {"idle", "finally"} THEN msg
                      ELSE [msg EXCEPT ![r] =
                              [type |-> "event", call |-> c, kind |-> kind,
                               outcome |-> EventOutcome(c, kind)]]
      BY <2>1 DEF HandleEvent
    <3>2. c \in Calls
      BY DEF Delivered
    <3>3. sock'[r] = EventStep(r, c, kind)
      BY <1>1, <3>1
    <3>4. sock'[r] \in {"approve", "write", "start", "lapse", "bye"}
      BY <3>2, <3>3, EventDecision DEF Reading
    <3>5. msg'[r] = [type |-> "event", call |-> c, kind |-> kind,
                     outcome |-> EventOutcome(c, kind)]
      BY <1>1, <3>1, <3>3, <3>4
    <3> QED
      BY <3>1, <3>3, <3>4, <3>5 DEF ReaderMove, EventTaken
  <2>2. CASE ReceiveResult(r)
    <3>1. CASE sock'[r] = "finally"
      BY <3>1 DEF Reading
    <3>2. CASE sock'[r] # "finally"
      <4>1. PICK c \in Delivered(r), kind \in ResultKinds \cap LinkKinds :
              /\ SockGoto(r, "result")
              /\ msg' = [msg EXCEPT ![r] =
                   [type |-> "result", call |-> c, kind |-> kind,
                    outcome |-> IF kind \in {"denied", "client_disconnected"}
                                THEN "failed" ELSE kind]]
        BY <1>1, <2>2, <3>2 DEF ReceiveResult
      <4>2. UNCHANGED repoVars
        BY <2>2 DEF ReceiveResult
      <4> QED
        BY <1>1, <4>1, <4>2 DEF ReaderMove
    <3> QED
      BY <3>1, <3>2
  <2>3. CASE HandleResult(r)
    <3>1. SockGoto(r, ResultStep(msg[r].call, msg[r].kind)) /\ sock[r] = "result" /\ ~ResultLocked
      BY <2>3 DEF HandleResult
    <3>2. sock'[r] \in {"start", "lapse", "write"}
      BY <1>1, <3>1, ResultDecision DEF Reading
    <3>3. ResultStep(msg[r].call, msg[r].kind) = sock'[r]
      BY <1>1, <3>1
    <3>4. msg' = msg
      BY <2>3, <3>2, <3>3 DEF HandleResult
    <3> QED
      BY <3>1, <3>2, <3>4 DEF ReaderMove
  <2>4. CASE Approve(r)
    BY <1>1, <2>4 DEF Approve, Reading, ReaderMove
  <2>5. CASE QueueApproved(r)
    <3>1. status \in [Calls -> Statuses \cup {Absent}]
      BY DEF GatewayInv, RowInv, RepoTypeOK
    <3>2. msg[r].call \in Calls /\ msg' = msg
      BY <1>1, <2>5 DEF QueueApproved, Messages, GatewayInv, MessageInv, MessageOK, Reading
    <3>3. CASE sock'[r] = "arm"
      BY <1>1, <2>5, <3>1, <3>2, <3>3
      DEF QueueApproved, QueueWithParallelLimit, Enter, ReaderMove, repoVars
    <3>4. CASE sock'[r] # "arm"
      BY <1>1, <2>5, <3>2, <3>4 DEF QueueApproved, ReaderMove
    <3> QED
      BY <3>3, <3>4
  <2>6. CASE StartCall(r)
    BY <1>1, <2>6 DEF StartCall, Reading, ReaderMove
  <2>7. CASE LapseCall(r)
    BY <1>1, <2>7 DEF LapseCall, Reading, ReaderMove
  <2>8. CASE WriteOutcome(r)
    <3>1. status \in [Calls -> Statuses \cup {Absent}]
      BY DEF GatewayInv, RowInv, RepoTypeOK
    <3>2. sock'[r] = "finish" /\ msg' = msg
      BY <1>1, <2>8 DEF WriteOutcome, Reading
    <3> DEFINE c == msg[r].call
               outcome == msg[r].outcome
    <3>3. MessageOK("write", msg[r])
      BY <2>8 DEF WriteOutcome, GatewayInv, MessageInv
    <3>4. c \in Calls /\ outcome \in Recorded
      BY <3>3 DEF MessageOK, Messages, Reading
    <3>5. RecordOutcome(c, outcome) \/ (status[c] = outcome /\ UNCHANGED repoVars)
      BY <1>1, <2>8, <3>2 DEF WriteOutcome
    <3>6. status'[c] = outcome
      BY <3>1, <3>4, <3>5
      DEF RecordOutcome, RecordApproval, Verdict, RecordResult, Transition, Enter,
          Recorded, repoVars
    <3> QED
      BY <2>8, <3>2, <3>6 DEF ReaderMove
  <2>9. CASE FinishOutcome(r)
    BY <1>1, <2>9 DEF FinishOutcome, Reading, ReaderMove
  <2>10. CASE SocketDisconnected(r) \/ ArmExecution(r)
    BY <1>1, <2>10 DEF SocketDisconnected, ArmExecution, Reading
  <2>11. CASE \/ Advertise(r) \/ AddSession(r) \/ RefreshTables(r) \/ RefreshMemory(r)
              \/ Connect(r) \/ Refresh(r) \/ DropSocket(r)
    BY <1>1, <2>11
    DEF Advertise, AddSession, RefreshTables, RefreshMemory, Connect, Refresh, DropSocket,
        Reading
  <2> QED
    BY <1>3, <2>1, <2>2, <2>3, <2>4, <2>5, <2>6, <2>7, <2>8, <2>9, <2>10, <2>11
    DEF SocketMove
<1>4. ASSUME NEW s \in Sessions, SocketMove(s), s # r PROVE ReaderMove(r)
  BY <1>2, <1>4, OtherSocketsStay DEF GatewayInv
<1>5. CASE Restart
  BY <1>5 DEF Restart, Reading
<1>6. CASE UNCHANGED <<sock, msg>>
  BY <1>2, <1>6
<1>7. ~TeardownFault /\ \A s \in Sessions : ~SocketFault(s)
  BY DEF TeardownFault, SocketFault, Fault, GatewayInv, TaskTypes
<1> QED
  BY <1>3, <1>4, <1>5, <1>6, <1>7, SocketFrame

\* The registry as seen by the session r, and the teardown.
SessionMove(r) ==
  /\ seen' = seen \/ (\E s \in Sessions : AddSession(s) /\ seen' = seen \cup {s}) \/ Restart
  /\ r \in live' /\ r \notin live => AddSession(r)
  /\ r \in live /\ r \notin live' => TeardownBegins(r) \/ Restart
  /\ cap'[r] /\ ~cap[r] => Advertise(r) \/ RefreshTables(r)
  /\ \/ teardown' = teardown
     \/ /\ \E s \in Sessions : /\ TeardownBegins(s) /\ s \notin live'
                               /\ teardown'.session = s /\ ~teardown'.committed
                               /\ teardown'.calls = {c \in pending : target[c] = s}
        /\ teardown' # None /\ UNCHANGED repoVars
     \/ /\ CommitTeardown /\ teardown' # None /\ UNCHANGED live
        /\ teardown' = [teardown EXCEPT !.committed = TRUE]
        /\ teardown'.session = teardown.session /\ teardown'.calls = teardown.calls
     \/ FinishTeardown /\ teardown' = None /\ UNCHANGED live
     \/ Restart /\ teardown' = None
  /\ sock'[r] = "new" => sock[r] = "new"
  /\ sock'[r] = "advertise" => sock[r] \in {"new", "advertise"}
  /\ sock'[r] = "add" => sock[r] = "add" \/ Advertise(r)
  /\ sock'[r] = "refresh" => sock[r] = "refresh" \/ r \in live
  /\ sock'[r] \in {"apply_on", "apply_off"} =>
       sock[r] \in {"refresh", "apply_on", "apply_off"}

LEMMA SessionMoves ==
  ASSUME GatewayInv, LifecycleInv, [Next]_vars, faults' = 0, NEW r \in Sessions
  PROVE  SessionMove(r)
<1> USE NoneAssumption DEF SockGoto, SockIdle, SockError
<1>1. /\ sock \in [Sessions -> SockSteps]
      /\ cap \in [Sessions -> BOOLEAN]
      /\ teardown \in Teardowns \cup {None}
  BY DEF GatewayInv, MessageInv, RowInv, RepoTypeOK, MemoryTypes
<1>2. ASSUME UNCHANGED <<live, seen, teardown, cap>>, sock'[r] = sock[r]
      PROVE  SessionMove(r)
  BY <1>2 DEF SessionMove
<1>4. ASSUME NEW c \in Calls, ProposalMove(c) PROVE UNCHANGED <<live, seen, teardown, cap, sock>>
  BY <1>4
  DEF ProposalMove, ProposalStep, Validate, MarkValid, MarkInvalid, RequireApproval,
      Dispatch, DispatchQueue, DispatchLapse, DispatchRegister, Sent, SendFailed,
      Aborted, TakeResult, CancelTurn, Propose, memVars, repoVars, Apply, Lapse,
      Transition, QueueWithParallelLimit, CreateToolCall
<1>5. ASSUME NEW c \in Calls, TimerStep(c) PROVE UNCHANGED <<live, seen, teardown, cap, sock>>
  BY <1>5
  DEF TimerStep, TimerWake, TimerCheck, TimerStart, TimerLapse, TimerExpire, TimerFinish,
      memVars, repoVars, Apply, Lapse, Transition
<1>6. ASSUME NEW s \in Sessions, SocketMove(s), ~SocketFault(s)
      PROVE  SessionMove(r)
  <2>1. CASE \/ Approve(s) \/ QueueApproved(s) \/ ArmExecution(s) \/ HandleResult(s)
             \/ StartCall(s) \/ LapseCall(s) \/ WriteOutcome(s) \/ FinishOutcome(s)
             \/ SocketDisconnected(s) \/ DropSocket(s) \/ HandleEvent(s)
             \/ ReceiveResult(s)
    <3>1. UNCHANGED <<live, seen, teardown>>
      BY <2>1
      DEF Approve, QueueApproved, ArmExecution, HandleResult, StartCall, LapseCall,
          WriteOutcome, FinishOutcome, SocketDisconnected, DropSocket, HandleEvent,
          ReceiveResult, memVars
    <3>2. UNCHANGED cap
      BY <2>1
      DEF Approve, QueueApproved, ArmExecution, HandleResult, StartCall, LapseCall,
          WriteOutcome, FinishOutcome, SocketDisconnected, DropSocket, HandleEvent,
          ReceiveResult, repoVars, Apply, Lapse, Transition, QueueWithParallelLimit,
          RecordOutcome, RecordApproval, RecordResult
    <3>3. sock'[r] = sock[r] \/ sock'[r] \notin {"new", "advertise", "add", "refresh", "apply_on", "apply_off"}
      <4>1. CASE s # r
        BY <1>6, <4>1, OtherSocketsStay DEF GatewayInv
      <4>2. CASE s = r /\ HandleEvent(s)
        <5>1. PICK c \in Delivered(s), kind \in EventKinds :
                SockGoto(s, EventStep(s, c, kind))
          BY <4>2 DEF HandleEvent
        <5>2. c \in Calls
          BY DEF Delivered
        <5> QED
          BY <1>1, <4>2, <5>1, <5>2, EventDecision
      <4>3. CASE s = r /\ HandleResult(s)
        <5>1. SockGoto(s, ResultStep(msg[s].call, msg[s].kind))
          BY <4>3 DEF HandleResult
        <5> QED
          BY <1>1, <4>3, <5>1, ResultDecision
      <4>4. CASE s = r /\ ~HandleEvent(s) /\ ~HandleResult(s)
        BY <1>1, <2>1, <4>4
        DEF Approve, QueueApproved, ArmExecution, StartCall, LapseCall, WriteOutcome,
            FinishOutcome, SocketDisconnected, DropSocket, ReceiveResult
      <4> QED
        BY <4>1, <4>2, <4>3, <4>4
    <3> QED
      BY <3>1, <3>2, <3>3 DEF SessionMove
  <2>2. CASE Connect(s) \/ Refresh(s)
    BY <1>1, <2>2 DEF Connect, Refresh, memVars, repoVars, SessionMove
  <2>3. CASE Advertise(s)
    BY <1>1, <2>3 DEF Advertise, ReplaceCapabilities, memVars, SessionMove
  <2>4. CASE AddSession(s)
    BY <1>1, <2>4 DEF AddSession, repoVars, SessionMove
  <2>5. CASE RefreshTables(s)
    <3>1. PICK enabled \in BOOLEAN :
            /\ cap' = [q \in Sessions |-> IF q = s THEN enabled
                                         ELSE cap[q] /\ ClientOf[q] # ClientOf[s]]
            /\ sock' = [sock EXCEPT ![s] = IF enabled THEN "apply_on" ELSE "apply_off"]
      BY <2>5 DEF RefreshTables, ReplaceCapabilities
    <3>2. sock[s] = "refresh" /\ UNCHANGED <<live, seen, teardown>>
      BY <2>5 DEF RefreshTables, memVars
    <3>3. sock'[r] = sock[r] \/ (r = s /\ sock'[r] \in {"apply_on", "apply_off"})
      BY <1>1, <3>1
    <3>4. cap'[r] /\ ~cap[r] => r = s
      BY <1>1, <3>1
    <3> QED
      BY <2>5, <3>2, <3>3, <3>4 DEF SessionMove
  <2>6. CASE RefreshMemory(s)
    BY <1>1, <2>6 DEF RefreshMemory, repoVars, SessionMove
  <2> QED
    BY <1>6, <2>1, <2>2, <2>3, <2>4, <2>5, <2>6 DEF SocketMove
<1>7. ASSUME NEW s \in Sessions, TeardownBegins(s) PROVE SessionMove(r)
  <2>1. PICK by \in Owners : BeginTeardown(by, s)
    BY <1>7 DEF TeardownBegins
  <2>2. teardown' \in Teardowns
    BY <2>1 DEF BeginTeardown, Teardowns, GatewayInv, MemoryTypes
  <2>3. /\ teardown'.session = s /\ ~teardown'.committed
        /\ teardown'.calls = {c \in pending : target[c] = s}
        /\ live' = live \ {s} /\ UNCHANGED <<seen, repoVars, sock>>
    BY <2>1 DEF BeginTeardown, taskVars
  <2>4. s \notin live' /\ (r \in live /\ r \notin live' => r = s) /\ UNCHANGED cap
    BY <2>3 DEF repoVars
  <2> QED
    BY <1>7, <2>2, <2>3, <2>4 DEF SessionMove
<1>8. ASSUME NEW s \in Sessions, CapabilityExpires(s) PROVE SessionMove(r)
  BY <1>1, <1>8 DEF CapabilityExpires, ExpireCapability, memVars, taskVars, SessionMove
<1>9. CASE CommitTeardown
  <2>1. teardown \in Teardowns /\ teardown' = [teardown EXCEPT !.committed = TRUE]
    BY <1>1, <1>9 DEF CommitTeardown
  <2>2. /\ teardown' \in Teardowns /\ teardown'.session = teardown.session
        /\ teardown'.calls = teardown.calls
    BY <2>1 DEF Teardowns
  <2>3. UNCHANGED <<live, seen, sock>> /\ (cap'[r] => cap[r])
    BY <1>1, <1>9 DEF CommitTeardown, DisconnectSession, taskVars
  <2> QED
    BY <1>9, <2>1, <2>2, <2>3 DEF SessionMove
<1>10. CASE FinishTeardown
  BY <1>10 DEF FinishTeardown, repoVars, SessionMove
<1>11. CASE Restart
  BY <1>1, <1>11 DEF Restart, repoVars, SessionMove
<1>12. CASE UNCHANGED vars
  BY <1>2, <1>12 DEF vars, memVars, taskVars, repoVars
<1> QED
  BY <1>4, <1>2, <1>5, <1>6, <1>7, <1>8, <1>9, <1>10, <1>11, <1>12, QuietStep

-----------------------------------------------------------------------------
(* The row, the waiter and the messages of one call know of each other.    *)

BaseInv == GatewayInv /\ FutureInv /\ ApprovalInv /\ LifecycleInv /\ DurableInv

\* Steps of a proposal that has been found valid.
FoundValid ==
  {"ask", "dispatch", "queue", "lapse", "register", "send", "wait", "abort",
   "abort_cancelled"}

\* The row exists before anything else of the call does, and its turn is told once.
RowsExist ==
  \A c \in Calls :
    /\ prop[c] \in {"validate", "mark_valid", "mark_invalid"} => status[c] # Absent
    /\ prop[c] \in FoundValid => status[c] \notin {Absent, "proposed"}
    /\ future[c] # "none" => status[c] # Absent
    /\ answer[c] # "none" => prop[c] = "done"

\* Only a call that was sent has a waiter, an approval to wait for or a timer.
WaitersKnown ==
  \A c \in Calls :
    /\ timer[c] # "off" => future[c] # "none"
    /\ c \in pending => future[c] # "none" /\ target[c] \in live
    /\ c \in awaiting => c \in NeedsApproval

\* A socket handles messages about the calls sent over it.
MessagesRouted ==
  \A s \in Sessions : sock[s] \in Reading =>
    target[msg[s].call] = s /\ future[msg[s].call] # "none"

\* Until the waiter exists only a teardown touches the row of a routed call.
Untouched ==
  \A c \in Calls : prop[c] = "register" =>
    status[c] \in {IF c \in NeedsApproval THEN "awaiting_approval" ELSE "queued",
                   "client_disconnected"}

LEMMA RowsExistStep ==
  ASSUME BaseInv, RowsExist, [Next]_vars, faults' = 0
  PROVE  RowsExist'
<1> USE DEF BaseInv
<1> SUFFICES ASSUME NEW d \in Calls
             PROVE  /\ prop'[d] \in {"validate", "mark_valid", "mark_invalid"} =>
                         status'[d] # Absent
                    /\ prop'[d] \in FoundValid => status'[d] \notin {Absent, "proposed"}
                    /\ future'[d] # "none" => status'[d] # Absent
                    /\ answer'[d] # "none" => prop'[d] = "done"
  BY DEF RowsExist
<1>1. TurnMove(d) /\ AnswerMove(d)
  BY TurnMoves
<1>2. /\ status[d] # Absent => status'[d] # Absent
      /\ status[d] \notin {Absent, "proposed"} => status'[d] \notin {Absent, "proposed"}
  BY RowsGoForward
<1>3. /\ prop[d] \in {"validate", "mark_valid", "mark_invalid"} => status[d] # Absent
      /\ prop[d] \in FoundValid => status[d] \notin {Absent, "proposed"}
      /\ future[d] # "none" => status[d] # Absent
      /\ answer[d] # "none" => prop[d] = "done"
  BY DEF RowsExist
<1>4. ASSUME prop'[d] \in {"validate", "mark_valid", "mark_invalid"}
      PROVE  status'[d] # Absent
  <2>1. ASSUME NEW s, CreateToolCall(d, s) PROVE status'[d] # Absent
    BY <2>1 DEF CreateToolCall, Enter, Absent, GatewayInv, RowInv, RepoTypeOK
  <2> QED
    BY <1>1, <1>2, <1>3, <1>4, <2>1 DEF TurnMove, Validate
<1>5. ASSUME prop'[d] \in FoundValid
      PROVE  status'[d] \notin {Absent, "proposed"}
  BY <1>1, <1>2, <1>3, <1>5
  DEF TurnMove, FoundValid, RequireApproval, DispatchRegister, Sent, Absent
<1>6. future'[d] # "none" => status'[d] # Absent
  <2>1. FutureMove(d)
    BY WaiterFutures
  <2> QED
    BY <1>2, <1>3, <2>1 DEF FutureMove, FoundValid, Restart
<1>7. answer'[d] # "none" => prop'[d] = "done"
  BY <1>1, <1>3 DEF AnswerMove, TurnMove, Validate, MarkValid, RequireApproval,
                    DispatchRegister, Sent
<1> QED
  BY <1>4, <1>5, <1>6, <1>7

\* A waiter is forgotten only with the process.
LEMMA FuturesLast ==
  ASSUME BaseInv, [Next]_vars, faults' = 0, NEW d \in Calls, future[d] # "none", ~Restart
  PROVE  future'[d] # "none"
BY WaiterFutures DEF BaseInv, FutureMove, ResultVerdict

LEMMA MessageCall ==
  ASSUME MessageInv, NEW s \in Sessions, sock[s] \in Reading
  PROVE  msg[s] \in Messages /\ msg[s].call \in Calls
BY DEF MessageInv, MessageOK, Messages

LEMMA MessagesRoutedStep ==
  ASSUME BaseInv, RowsExist, MessagesRouted, [Next]_vars, faults' = 0
  PROVE  MessagesRouted'
<1> SUFFICES ASSUME NEW r \in Sessions, sock'[r] \in Reading
             PROVE  target'[msg'[r].call] = r /\ future'[msg'[r].call] # "none"
  BY DEF MessagesRouted
<1>1. ReaderMove(r)
  BY ReaderMoves DEF BaseInv
<1>2. ~Restart
  BY DEF Restart, Reading
<1>3. ASSUME NEW c \in Calls, target[c] = r, future[c] # "none"
      PROVE  target'[c] = r /\ future'[c] # "none"
  BY <1>2, <1>3, FuturesLast, RowsGoForward DEF RowsExist, BaseInv
<1>4. CASE msg'[r] = msg[r] /\ sock[r] \in Reading
  BY <1>3, <1>4, MessageCall DEF MessagesRouted, BaseInv, GatewayInv
<1>5. CASE EventTaken(r)
  BY <1>3, <1>5 DEF EventTaken, Delivered
<1>6. CASE msg'[r].call \in Delivered(r)
  BY <1>3, <1>6 DEF Delivered
<1> QED
  BY <1>1, <1>4, <1>5, <1>6 DEF ReaderMove, Reading, QueueApproved, WriteOutcome, FinishOutcome

LEMMA WaitersKnownStep ==
  ASSUME BaseInv, RowsExist, MessagesRouted, WaitersKnown, [Next]_vars, faults' = 0
  PROVE  WaitersKnown'
<1> SUFFICES ASSUME NEW d \in Calls
             PROVE  /\ timer'[d] # "off" => future'[d] # "none"
                    /\ d \in pending' => future'[d] # "none" /\ target'[d] \in live'
                    /\ d \in awaiting' => d \in NeedsApproval
  BY DEF WaitersKnown
<1> USE DEF BaseInv
<1>1. /\ timer[d] # "off" => future[d] # "none"
      /\ d \in pending => future[d] # "none" /\ target[d] \in live
      /\ d \in awaiting => d \in NeedsApproval
  BY DEF WaitersKnown
<1>2. CASE Restart
  BY <1>2 DEF Restart
<1>3. CASE ~Restart
  <2>1. future[d] # "none" => future'[d] # "none"
    BY <1>3, FuturesLast
  <2>2. timer'[d] # "off" => future'[d] # "none"
    <3>1. TimerMove(d)
      BY WaiterTimers
    <3>2. timer[d] # "off" \/ d \in pending \/ timer'[d] = timer[d] \/ timer'[d] = "off"
      BY <3>1 DEF TimerMove, TimerWake, TimerStart, TimerLapse, TimerExpire
    <3> QED
      BY <1>1, <2>1, <3>2
  <2>3. ASSUME d \in pending' PROVE future'[d] # "none" /\ target'[d] \in live'
    <3>1. CASE d \in pending
      <4>1. target'[d] = target[d]
        BY <1>1, <3>1, RowsGoForward DEF RowsExist
      <4>2. target[d] \in Sessions
        BY <1>1, <3>1 DEF GatewayInv, MemoryTypes
      <4>3. ASSUME target[d] \notin live' PROVE FALSE
        <5>1. TeardownBegins(target[d])
          BY <1>1, <1>3, <3>1, <4>2, <4>3, SessionMoves DEF SessionMove
        <5> QED
          BY <2>3, <5>1 DEF TeardownBegins, BeginTeardown
      <4> QED
        BY <1>1, <2>1, <3>1, <4>1, <4>3
    <3>2. CASE d \notin pending
      <4>1. DispatchRegister(d) /\ target[d] \in live
        BY <2>3, <3>2, WaiterPending DEF PendingMove
      <4> QED
        BY <2>3, <4>1 DEF DispatchRegister, PropGoto, GatewayInv, MemoryTypes, repoVars
    <3> QED
      BY <3>1, <3>2
  <2>4. d \in awaiting' => d \in NeedsApproval
    BY <1>1, <1>3, WaiterAwaiting DEF AwaitingMove
  <2> QED
    BY <2>2, <2>3, <2>4
<1> QED
  BY <1>2, <1>3

LEMMA UntouchedStep ==
  ASSUME BaseInv, RowsExist, WaitersKnown, MessagesRouted, Untouched, [Next]_vars,
         faults' = 0
  PROVE  Untouched'
<1> SUFFICES ASSUME NEW d \in Calls, prop'[d] = "register"
             PROVE  status'[d] \in {IF d \in NeedsApproval THEN "awaiting_approval"
                                    ELSE "queued", "client_disconnected"}
  BY DEF Untouched
<1> USE DEF BaseInv
<1>1. TurnMove(d) /\ StatusMove(d)
  BY TurnMoves, StatusMoves
<1>2. CASE prop[d] = "register"
  <2>1. future[d] = "none" /\ timer[d] = "off"
    BY <1>2 DEF FutureInv, BeforeSend, WaitersKnown
  <2>2. status[d] \in {IF d \in NeedsApproval THEN "awaiting_approval" ELSE "queued",
                       "client_disconnected"}
    BY <1>2 DEF Untouched
  <2>3. ASSUME NEW s \in Sessions, msg[s].call = d, sock[s] \in Reading PROVE FALSE
    BY <2>1, <2>3 DEF MessagesRouted
  <2>4. status'[d] = status[d] \/ status'[d] = "client_disconnected"
    BY <1>1, <1>2, <2>1, <2>3
    DEF StatusMove, Propose, MarkValid, RequireApproval, Approve, DispatchQueue,
        QueueApproved, TimerStart, StartCall, WriteOutcome, MarkInvalid, TimerExpire,
        Reading
  <2> QED
    BY <2>2, <2>4
<1>3. CASE prop[d] # "register"
  <2>1. CASE UNCHANGED repoVars /\ d \in NeedsApproval /\ status[d] = "awaiting_approval"
    BY <2>1 DEF repoVars
  <2>2. CASE prop[d] = "queue" /\ status'[d] = "queued"
    BY <2>2 DEF ApprovalInv
  <2> QED
    BY <1>1, <1>3, <2>1, <2>2
    DEF TurnMove, Validate, MarkValid, RequireApproval, DispatchRegister, Sent
<1> QED
  BY <1>2, <1>3

-----------------------------------------------------------------------------
(* What a handler has in hand.                                             *)

\* No event records a completion; an approval is handled under the dispatch lock.
MessageKinds ==
  \A s \in Sessions :
    /\ sock[s] \in {"start", "write", "finish"} /\ msg[s].type = "event" =>
         msg[s].outcome # "completed"
    /\ sock[s] \in {"approve", "queue", "arm", "undo"} =>
         msg[s].type = "event" /\ msg[s].kind = "approved"
    /\ sock[s] = "bye" => msg[s].type = "event"
    /\ sock[s] = "lapse" /\ msg[s].kind = "approved" => msg[s].type = "event"
    /\ sock[s] \in {"result", "leave"} => msg[s].type = "result"

LEMMA EventKind ==
  ASSUME NEW s \in Sessions, NEW c \in Calls, NEW kind \in EventKinds
  PROVE  /\ EventStep(s, c, kind) \in {"write", "start"} =>
              EventOutcome(c, kind) # "completed"
         /\ EventStep(s, c, kind) = "approve" => kind = "approved"
<1>1. kind # "approved" => EventStep(s, c, kind) # "approve"
  BY DEF EventStep, DeniedStep, StartStep, FailureStep, EventKinds
<1>2. CASE kind = "completed"
  BY <1>1, <1>2 DEF EventStep
<1>3. CASE kind # "completed"
  BY <1>1, <1>3 DEF EventOutcome
<1> QED
  BY <1>2, <1>3

LEMMA MessageKindsStep ==
  ASSUME BaseInv, MessageKinds, [Next]_vars, faults' = 0
  PROVE  MessageKinds'
<1> USE DEF BaseInv
<1> SUFFICES ASSUME NEW r \in Sessions, sock'[r] \in Reading
             PROVE  /\ sock'[r] \in {"start", "write", "finish"} /\ msg'[r].type = "event" =>
                         msg'[r].outcome # "completed"
                    /\ sock'[r] \in {"approve", "queue", "arm", "undo"} =>
                         msg'[r].type = "event" /\ msg'[r].kind = "approved"
                    /\ sock'[r] = "bye" => msg'[r].type = "event"
                    /\ sock'[r] = "lapse" /\ msg'[r].kind = "approved" =>
                         msg'[r].type = "event"
                    /\ sock'[r] \in {"result", "leave"} => msg'[r].type = "result"
  BY DEF MessageKinds, Reading
<1>1. ReaderMove(r)
  BY ReaderMoves
<1>2. CASE EventTaken(r)
  <2>1. PICK c \in Delivered(r), kind \in EventKinds :
          /\ sock'[r] = EventStep(r, c, kind)
          /\ msg'[r] = [type |-> "event", call |-> c, kind |-> kind,
                        outcome |-> EventOutcome(c, kind)]
    BY <1>2 DEF EventTaken
  <2>2. c \in Calls
    BY DEF Delivered
  <2>3. /\ msg'[r].type = "event" /\ msg'[r].kind = kind
        /\ msg'[r].outcome = EventOutcome(c, kind)
    BY <2>1
  <2>4. sock'[r] \in {"write", "start"} => msg'[r].outcome # "completed"
    BY <2>1, <2>2, <2>3, EventKind
  <2>5. sock'[r] \in {"idle", "finally", "approve", "write", "start", "lapse", "bye"}
    BY <2>1, <2>2, EventDecision
  <2>6. sock'[r] = "approve" => msg'[r].kind = "approved"
    BY <2>1, <2>2, <2>3, EventKind
  <2> QED
    BY <2>3, <2>4, <2>5, <2>6
<1>3. CASE sock'[r] = "result" /\ msg'[r].type = "result"
  BY <1>3
<1>4. CASE msg'[r] = msg[r] /\ ~EventTaken(r) /\ sock'[r] # "result"
  <2>1. sock[r] = "result" => msg[r].type = "result" /\ msg[r].kind \in ResultKinds
    BY DEF MessageKinds, GatewayInv, MessageInv, MessageOK
  <2> QED
    BY <1>1, <1>4, <2>1
    DEF ReaderMove, MessageKinds, QueueApproved, WriteOutcome, FinishOutcome, ResultKinds
<1>5. CASE msg'[r] = msg[r] /\ sock'[r] = sock[r]
  BY <1>5 DEF MessageKinds
<1> QED
  BY <1>1, <1>2, <1>3, <1>4, <1>5 DEF ReaderMove

\* Who holds which lock, timers and sockets.
DispatchTimers == {"wait", "start", "lapse", "expire", "finish"}
ResultTimers == {"start", "lapse", "expire", "finish"}
SocketHoldsDispatch(s) ==
  \/ sock[s] \in {"approve", "queue", "arm", "undo", "bye"}
  \/ sock[s] \in {"start", "lapse", "write", "finish"} /\ Handling(s, "event")
SocketHoldsResult(s) ==
  sock[s] \in {"start", "lapse", "write", "finish"} /\ Handling(s, "result")

\* No timer runs out while a socket handles an event, nor is one at work on the
\* outcome while a socket is at work on a result.
LocksExclude ==
  \A c \in Calls, s \in Sessions :
    /\ ~(timer[c] \in DispatchTimers /\ SocketHoldsDispatch(s))
    /\ ~(timer[c] \in ResultTimers /\ SocketHoldsResult(s))

LEMMA LocksExcludeStep ==
  ASSUME BaseInv, MessageKinds, LocksExclude, [Next]_vars, faults' = 0
  PROVE  LocksExclude'
<1> USE DEF BaseInv
<1>1. ASSUME NEW c \in Calls, NEW r \in Sessions, timer'[c] \in DispatchTimers
      PROVE  ~SocketHoldsDispatch(r)'
  <2> SUFFICES ASSUME SocketHoldsDispatch(r)' PROVE FALSE
    OBVIOUS
  <2>1. sock'[r] \in Reading
    BY DEF SocketHoldsDispatch, Reading
  <2>2. ReaderMove(r)
    BY <2>1, ReaderMoves
  <2>3. TimerMove(c)
    BY WaiterTimers
  <2>4. CASE TimerWake(c)
    BY <2>4 DEF TimerWake, DispatchLocked, SocketHoldsDispatch, Handling
  <2>5. CASE timer[c] \in DispatchTimers
    <3>1. ~SocketHoldsDispatch(r) /\ DispatchLocked
      BY <2>5 DEF LocksExclude, DispatchLocked, DispatchTimers
    <3>2. CASE sock'[r] = sock[r] /\ msg'[r] = msg[r]
      BY <3>1, <3>2 DEF SocketHoldsDispatch, Handling
    <3>3. ~EventTaken(r) /\ sock'[r] # "result"
      BY <3>1 DEF EventTaken, SocketHoldsDispatch
    <3>4. msg'[r] = msg[r]
      BY <2>2, <3>2, <3>3 DEF ReaderMove
    <3>5. ~(sock[r] \in {"approve", "queue", "arm", "undo", "bye"})
      BY <3>1 DEF SocketHoldsDispatch
    <3>6. ASSUME sock[r] \in {"start", "lapse", "write", "finish"} PROVE msg[r].type # "event"
      <4>1. msg[r] # None
        BY <3>6, MessageCall, NoneAssumption DEF GatewayInv, Reading
      <4> QED
        BY <3>1, <3>6, <4>1 DEF SocketHoldsDispatch, Handling
    <3>7. sock'[r] # "undo"
      BY <2>2, <3>2, <3>3, <3>5, <3>6
      DEF ReaderMove, MessageKinds, SocketHoldsDispatch, Handling
    <3>8. sock'[r] \in {"start", "lapse", "write", "finish"} /\ msg[r].type = "event"
      <4>1. sock'[r] \notin {"approve", "queue", "arm", "bye"}
        BY <2>2, <3>1, <3>2, <3>3, <3>5 DEF ReaderMove, QueueApproved
      <4> QED
        BY <3>4, <3>7, <4>1 DEF SocketHoldsDispatch, Handling
    <3>9. sock'[r] # sock[r]
      BY <3>6, <3>8
    <3> QED
      BY <2>2, <3>3, <3>5, <3>6, <3>8, <3>9
      DEF ReaderMove, MessageKinds, WriteOutcome
  <2> QED
    BY <1>1, <2>3, <2>4, <2>5
    DEF TimerMove, DispatchTimers, TimerCheck, TimerStart, TimerLapse, TimerExpire
<1>2. ASSUME NEW c \in Calls, NEW r \in Sessions, timer'[c] \in ResultTimers
      PROVE  ~SocketHoldsResult(r)'
  <2> SUFFICES ASSUME SocketHoldsResult(r)' PROVE FALSE
    OBVIOUS
  <2>1. sock'[r] \in Reading
    BY DEF SocketHoldsResult, Reading
  <2>2. ReaderMove(r)
    BY <2>1, ReaderMoves
  <2>3. TimerMove(c)
    BY WaiterTimers
  <2>4. CASE TimerCheck(c)
    BY <2>4 DEF TimerCheck, ResultLocked, SocketHoldsResult, Handling
  <2>5. CASE timer[c] \in ResultTimers
    <3>1. ~SocketHoldsResult(r) /\ ResultLocked
      BY <2>5 DEF LocksExclude, ResultLocked, ResultTimers
    <3>2. ~EventTaken(r) /\ sock'[r] # "result"
      <4>1. ASSUME EventTaken(r) PROVE msg'[r].type = "event"
        <5>1. PICK e \in Delivered(r), kind \in EventKinds :
                msg'[r] = [type |-> "event", call |-> e, kind |-> kind,
                           outcome |-> EventOutcome(e, kind)]
          BY <4>1 DEF EventTaken
        <5> QED
          BY <5>1
      <4>2. sock'[r] # "result" /\ msg'[r].type # "event"
        BY DEF SocketHoldsResult, Handling
      <4> QED
        BY <4>1, <4>2
    <3>3. msg'[r] = msg[r]
      BY <2>2, <3>2 DEF ReaderMove
    <3> QED
      BY <2>2, <3>1, <3>2, <3>3
      DEF ReaderMove, SocketHoldsResult, Handling, MessageKinds, WriteOutcome
  <2> QED
    BY <1>2, <2>3, <2>4, <2>5
    DEF TimerMove, ResultTimers, TimerWake, TimerStart, TimerLapse, TimerExpire
<1> QED
  BY <1>1, <1>2 DEF LocksExclude

-----------------------------------------------------------------------------
(* The row and the waiter.                                                 *)

\* The outcome a handler announces is on record, an approved call is queued.
Recording ==
  \A s \in Sessions :
    /\ sock[s] = "finish" =>
         status[msg[s].call] = msg[s].outcome /\ msg[s].outcome \in TerminalStatuses
    /\ sock[s] = "arm" => status[msg[s].call] \in Started

\* A waiter whose call completed is about to hear it from the socket that
\* recorded the result, which keeps the result lock until then.
CompletedIsTaken ==
  \A c \in pending : status[c] = "completed" =>
    \E s \in Sessions : /\ sock[s] = "finish" /\ Handling(s, "result")
                        /\ msg[s].call = c

LEMMA RecordingStep ==
  ASSUME BaseInv, Recording, [Next]_vars, faults' = 0
  PROVE  Recording'
<1> USE DEF BaseInv
<1> SUFFICES ASSUME NEW r \in Sessions
             PROVE  /\ sock'[r] = "finish" =>
                         /\ status'[msg'[r].call] = msg'[r].outcome
                         /\ msg'[r].outcome \in TerminalStatuses
                    /\ sock'[r] = "arm" => status'[msg'[r].call] \in Started
  BY DEF Recording
<1>1. ASSUME sock[r] \in Reading PROVE msg[r].call \in Calls
  BY <1>1, MessageCall DEF GatewayInv
<1>2. ASSUME sock'[r] \in {"finish", "arm"} PROVE ReaderMove(r)
  BY <1>2, ReaderMoves DEF Reading
<1>3. ASSUME sock'[r] = "finish"
      PROVE  status'[msg'[r].call] = msg'[r].outcome /\ msg'[r].outcome \in TerminalStatuses
  <2>1. CASE sock[r] = "finish" /\ msg'[r] = msg[r]
    BY <1>1, <2>1, RowsGoForward DEF Recording, Reading
  <2>2. CASE WriteOutcome(r) /\ msg'[r] = msg[r] /\ status'[msg[r].call] = msg[r].outcome
    <3>1. msg[r].outcome \in Recorded
      BY <2>2 DEF WriteOutcome, GatewayInv, MessageInv, MessageOK
    <3> QED
      BY <2>2, <3>1 DEF Recorded, TerminalStatuses
  <2> QED
    BY <1>2, <1>3, <2>1, <2>2 DEF ReaderMove
<1>4. ASSUME sock'[r] = "arm" PROVE status'[msg'[r].call] \in Started
  <2>1. CASE sock[r] = "arm" /\ msg'[r] = msg[r]
    BY <1>1, <2>1, RowsGoForward DEF Recording, Reading
  <2> QED
    BY <1>2, <1>4, <2>1 DEF ReaderMove, Started
<1> QED
  BY <1>3, <1>4

LEMMA CompletedIsTakenStep ==
  ASSUME BaseInv, RowsExist, Untouched, MessageKinds, CompletedIsTaken, [Next]_vars,
         faults' = 0
  PROVE  CompletedIsTaken'
<1> USE DEF BaseInv
<1> SUFFICES ASSUME NEW d \in pending', status'[d] = "completed"
             PROVE  \E s \in Sessions : /\ sock'[s] = "finish" /\ Handling(s, "result")'
                                        /\ msg'[s].call = d
  BY DEF CompletedIsTaken
<1>0. d \in Calls
  BY GatewayInvNext DEF GatewayInv, MemoryTypes
<1>1. StatusMove(d) /\ PendingMove(d)
  BY <1>0, StatusMoves, WaiterPending
<1>2. CASE \E s \in Sessions : /\ WriteOutcome(s) /\ msg[s].call = d
                               /\ msg[s].outcome = "completed"
                               /\ status'[d] # status[d]
  <2>1. PICK s \in Sessions : /\ WriteOutcome(s) /\ msg[s].call = d
                              /\ msg[s].outcome = "completed" /\ status'[d] # status[d]
    BY <1>2
  <2>2. sock[s] = "write" /\ msg[s] \in Messages /\ msg[s].type # "event"
    BY <2>1, MessageCall DEF WriteOutcome, GatewayInv, MessageKinds, Reading
  <2>3. msg[s].type = "result" /\ msg[s] # None
    BY <2>2, NoneAssumption DEF Messages
  <2>4. sock'[s] = "finish" /\ msg' = msg
    BY <2>1 DEF WriteOutcome, SockGoto, repoVars, GatewayInv, MessageInv
  <2> QED
    BY <2>1, <2>3, <2>4 DEF Handling
<1>3. CASE status[d] = "completed"
  <2>1. CASE d \in pending
    <3>1. PICK s \in Sessions : sock[s] = "finish" /\ Handling(s, "result") /\ msg[s].call = d
      BY <1>3, <2>1 DEF CompletedIsTaken
    <3>2. CASE sock'[s] = "finish" /\ msg'[s] = msg[s]
      BY <3>1, <3>2 DEF Handling
    <3>3. CASE FinishOutcome(s)
      BY <3>1, <3>3 DEF FinishOutcome, FinishCall
    <3>4. CASE Restart
      BY <3>4 DEF Restart
    <3>5. ASSUME NEW r \in Sessions, SocketMove(r), ~SocketFault(r)
          PROVE  (sock'[s] = "finish" /\ msg'[s] = msg[s]) \/ FinishOutcome(s)
      <4>1. CASE r # s
        BY <3>1, <3>5, <4>1, OtherSocketsStay DEF GatewayInv
      <4>2. CASE r = s
        BY <3>1, <3>5, <4>2
        DEF SocketMove, Advertise, AddSession, RefreshTables, RefreshMemory, Approve,
            QueueApproved, ArmExecution, HandleResult, StartCall, LapseCall,
            WriteOutcome, SocketDisconnected, Connect, Refresh, DropSocket, HandleEvent,
            ReceiveResult
      <4> QED
        BY <4>1, <4>2
    <3>6. ~TeardownFault /\ \A r \in Sessions : ~SocketFault(r)
      BY DEF TeardownFault, SocketFault, Fault, GatewayInv, TaskTypes
    <3> QED
      BY <3>1, <3>2, <3>3, <3>4, <3>5, <3>6, SocketFrame
  <2>2. CASE d \notin pending
    <3>1. prop[d] = "register"
      BY <1>1, <2>2 DEF PendingMove, DispatchRegister
    <3> QED
      BY <1>0, <1>3, <3>1 DEF Untouched
  <2> QED
    BY <2>1, <2>2
<1> QED
  BY <1>1, <1>2, <1>3 DEF StatusMove, TerminalStatuses


\* An approved call is on its way into the queue, or its session out of it.
ApprovalStep(s) ==
  sock[s] \in {"queue", "arm", "undo"} \/ (sock[s] = "lapse" /\ msg[s].kind = "approved")
ApprovalUnderWay(c) ==
  \E s \in Sessions : ApprovalStep(s) /\ msg[s].call = c

\* A waiter without a prompt has at least been queued; with one the call waits
\* for the user, is over, or its approval is under way.
WaiterStatus ==
  \A c \in pending :
    /\ c \notin awaiting => status[c] \in Started
    /\ c \in awaiting /\ future[c] = "open" =>
         \/ status[c] \in {"awaiting_approval"} \cup TerminalStatuses
         \/ ApprovalUnderWay(c)

LEMMA WaiterStatusStep ==
  ASSUME BaseInv, RowsExist, WaitersKnown, MessagesRouted, Untouched, Recording,
         MessageKinds, WaiterStatus, [Next]_vars, faults' = 0
  PROVE  WaiterStatus'
<1> USE DEF BaseInv
<1> SUFFICES ASSUME NEW d \in pending'
             PROVE  /\ d \notin awaiting' => status'[d] \in Started
                    /\ d \in awaiting' /\ future'[d] = "open" =>
                         \/ status'[d] \in {"awaiting_approval"} \cup TerminalStatuses
                         \/ ApprovalUnderWay(d)'
  BY DEF WaiterStatus
<1>0. d \in Calls /\ ~Restart
  BY GatewayInvNext DEF GatewayInv, MemoryTypes, Restart
<1>1. PendingMove(d) /\ AwaitingMove(d) /\ FutureMove(d) /\ StatusMove(d)
  BY <1>0, WaiterPending, WaiterAwaiting, WaiterFutures, StatusMoves
<1>2. CASE d \notin pending
  <2>1. DispatchRegister(d) /\ prop[d] = "register" /\ UNCHANGED repoVars
    BY <1>1, <1>2 DEF PendingMove, DispatchRegister
  <2>2. status'[d] \in {IF d \in NeedsApproval THEN "awaiting_approval" ELSE "queued",
                        "client_disconnected"}
    BY <1>0, <2>1 DEF Untouched, repoVars
  <2>3. d \in NeedsApproval => d \in awaiting'
    BY <1>2, <2>1 DEF DispatchRegister
  <2>4. d \in awaiting' => d \in NeedsApproval
    BY <1>0, <2>1 DEF DispatchRegister, WaitersKnown
  <2> QED
    BY <2>2, <2>3, <2>4 DEF Started, TerminalStatuses
<1>3. CASE d \in pending
  <2>1. future[d] # "none" /\ target[d] \in live /\ prop[d] \notin BeforeSend
    BY <1>0, <1>3 DEF WaitersKnown, FutureInv
  <2>2. ~DispatchRegister(d)
    BY <2>1 DEF DispatchRegister, BeforeSend
  <2>3. ASSUME d \notin awaiting' PROVE status'[d] \in Started
    <3>1. CASE d \notin awaiting
      BY <1>0, <1>3, <3>1, RowsGoForward DEF WaiterStatus
    <3>2. CASE \E s \in Sessions : ArmExecution(s) /\ msg[s].call = d
      BY <1>0, <3>2, RowsGoForward DEF ArmExecution, Recording
    <3> QED
      BY <1>0, <1>1, <2>3, <3>1, <3>2 DEF AwaitingMove
  <2>4. ASSUME d \in awaiting', future'[d] = "open"
        PROVE  \/ status'[d] \in {"awaiting_approval"} \cup TerminalStatuses
               \/ ApprovalUnderWay(d)'
    <3>1. d \in awaiting /\ future[d] = "open"
      BY <1>0, <1>1, <2>1, <2>2, <2>4 DEF AwaitingMove, FutureMove
    <3>2. CASE status[d] \in TerminalStatuses
      BY <1>0, <3>2, RowsGoForward
    <3>3. CASE status[d] = "awaiting_approval"
      <4>1. status'[d] = status[d] \/ status'[d] \in LegalTransitions[status[d]]
        BY <1>0, <3>3, RowMoves DEF Absent
      <4>2. status'[d] \in {"awaiting_approval", "approved"} \cup TerminalStatuses
        BY <3>3, <4>1 DEF LegalTransitions, Statuses, LiveStatuses, TerminalStatuses
      <4>3. ASSUME status'[d] = "approved" PROVE ApprovalUnderWay(d)'
        <5>1. PICK s \in Sessions : Approve(s) /\ msg[s].call = d
          BY <1>1, <3>3, <4>3 DEF StatusMove, TerminalStatuses
        <5>2. status'[d] # status[d]
          BY <3>3, <4>3
        <5>3. sock'[s] \in {"queue", "lapse"} /\ msg'[s] = msg[s]
          BY <5>1, <5>2 DEF Approve, SockGoto, repoVars, GatewayInv, MessageInv
        <5>4. msg[s].kind = "approved"
          BY <5>1 DEF Approve, MessageKinds
        <5> QED
          BY <5>1, <5>3, <5>4 DEF ApprovalUnderWay, ApprovalStep
      <4> QED
        BY <4>2, <4>3
    <3>4. CASE ApprovalUnderWay(d)
      <4>1. PICK s \in Sessions : ApprovalStep(s) /\ msg[s].call = d
        BY <3>4 DEF ApprovalUnderWay
      <4>2. s \in live
        BY <2>1, <4>1 DEF MessagesRouted, ApprovalStep, Reading
      <4>3. ASSUME sock'[s] = sock[s], msg'[s] = msg[s] PROVE ApprovalUnderWay(d)'
        BY <4>1, <4>3 DEF ApprovalUnderWay, ApprovalStep
      <4>4. ASSUME NEW r \in Sessions, SocketMove(r), ~SocketFault(r)
            PROVE  ApprovalUnderWay(d)'
        <5>1. CASE r # s
          <6>1. sock'[s] = sock[s] /\ msg'[s] = msg[s]
            BY <4>4, <5>1, OtherSocketsStay DEF GatewayInv
          <6> QED
            BY <4>3, <6>1
        <5>2. CASE r = s /\ sock[s] = "queue"
          <6>1. QueueApproved(s)
            BY <4>4, <5>2
            DEF SocketMove, Advertise, AddSession, RefreshTables, RefreshMemory, Approve,
                ArmExecution, HandleResult, StartCall, LapseCall, WriteOutcome,
                FinishOutcome, SocketDisconnected, Connect, Refresh, DropSocket,
                HandleEvent, ReceiveResult
          <6>2. sock'[s] \in {"arm", "undo"} /\ msg' = msg
            BY <6>1 DEF QueueApproved, SockGoto, GatewayInv, MessageInv
          <6> QED
            BY <4>1, <6>2 DEF ApprovalUnderWay, ApprovalStep
        <5>3. CASE r = s /\ sock[s] = "lapse"
          <6>1. LapseCall(s)
            BY <4>4, <5>3
            DEF SocketMove, Advertise, AddSession, RefreshTables, RefreshMemory, Approve,
                ArmExecution, HandleResult, StartCall, QueueApproved, WriteOutcome,
                FinishOutcome, SocketDisconnected, Connect, Refresh, DropSocket,
                HandleEvent, ReceiveResult
          <6>2. msg[s].kind = "approved"
            BY <4>1, <5>3 DEF ApprovalStep
          <6>3. sock'[s] = "undo" /\ msg' = msg
            BY <6>1, <6>2 DEF LapseCall, SockGoto, GatewayInv, MessageInv
          <6> QED
            BY <4>1, <6>3 DEF ApprovalUnderWay, ApprovalStep
        <5>4. CASE r = s /\ sock[s] = "arm"
          <6>1. ArmExecution(s)
            BY <4>4, <5>4
            DEF SocketMove, Advertise, AddSession, RefreshTables, RefreshMemory, Approve,
                LapseCall, HandleResult, StartCall, QueueApproved, WriteOutcome,
                FinishOutcome, SocketDisconnected, Connect, Refresh, DropSocket,
                HandleEvent, ReceiveResult
          <6> QED
            BY <1>3, <2>4, <3>1, <4>1, <6>1 DEF ArmExecution
        <5>5. CASE r = s /\ sock[s] = "undo"
          <6>1. SocketDisconnected(s)
            BY <4>4, <5>5
            DEF SocketMove, Advertise, AddSession, RefreshTables, RefreshMemory, Approve,
                LapseCall, HandleResult, StartCall, QueueApproved, WriteOutcome,
                FinishOutcome, ArmExecution, Connect, Refresh, DropSocket,
                HandleEvent, ReceiveResult
          <6> QED
            BY <4>2, <6>1 DEF SocketDisconnected, Gone
        <5> QED
          BY <4>1, <5>1, <5>2, <5>3, <5>4, <5>5 DEF ApprovalStep
      <4>5. ~TeardownFault /\ \A r \in Sessions : ~SocketFault(r)
        BY DEF TeardownFault, SocketFault, Fault, GatewayInv, TaskTypes
      <4> QED
        <5>1. CASE UNCHANGED <<sock, msg>>
          BY <4>3, <5>1
        <5> QED
          BY <1>0, <4>4, <4>5, <5>1, SocketFrame
    <3> QED
      BY <1>3, <3>1, <3>2, <3>3, <3>4 DEF WaiterStatus
  <2> QED
    BY <2>3, <2>4
<1> QED
  BY <1>2, <1>3


\* What a timer finds on record: it starts only what is queued, runs out on what
\* waits, runs or is over, and ends a wait only when the row is over.
TimerStatus ==
  \A c \in Calls :
    /\ timer[c] \in {"start", "lapse"} => status[c] \in Started
    /\ timer[c] = "expire" /\ c \in pending /\ future[c] = "open" =>
         status[c] \in {"awaiting_approval", "running"} \cup TerminalStatuses
    /\ timer[c] = "finish" /\ c \in pending /\ future[c] = "open" =>
         status[c] \in TerminalStatuses

LEMMA TimerStatusStep ==
  ASSUME BaseInv, RowsExist, WaitersKnown, MessagesRouted, LocksExclude, MessageKinds,
         WaiterStatus, TimerStatus, [Next]_vars, faults' = 0
  PROVE  TimerStatus'
<1> USE DEF BaseInv
<1> SUFFICES ASSUME NEW d \in Calls
             PROVE  /\ timer'[d] \in {"start", "lapse"} => status'[d] \in Started
                    /\ timer'[d] = "expire" /\ d \in pending' /\ future'[d] = "open" =>
                         status'[d] \in {"awaiting_approval", "running"} \cup TerminalStatuses
                    /\ timer'[d] = "finish" /\ d \in pending' /\ future'[d] = "open" =>
                         status'[d] \in TerminalStatuses
  BY DEF TimerStatus
<1>1. TimerMove(d) /\ PendingMove(d) /\ FutureMove(d) /\ StatusMove(d)
  BY WaiterTimers, WaiterPending, WaiterFutures, StatusMoves
<1>2. status[d] \in Started => status'[d] \in Started
  BY RowsGoForward
<1>3. status[d] \in TerminalStatuses => status'[d] = status[d]
  BY RowsGoForward
<1>4. status[d] \in Statuses \cup {Absent}
  BY DEF GatewayInv, RowInv, RepoTypeOK
<1>5. ASSUME timer'[d] \in {"start", "lapse"} PROVE status'[d] \in Started
  <2>1. CASE timer'[d] = timer[d]
    BY <1>2, <1>5, <2>1 DEF TimerStatus
  <2>2. CASE TimerCheck(d)
    <3>1. timer' = [timer EXCEPT ![d] = CASE d \notin pending -> "off"
                    [] /\ d \in pending \ awaiting
                       /\ status[d] = "queued" -> StartStep(d)
                    [] OTHER -> "expire"]
      BY <2>2 DEF TimerCheck, TimerGoto
    <3>2. timer'[d] \in {"off", "expire"} \/ status[d] = "queued"
      BY <3>1 DEF GatewayInv, TaskTypes
    <3> QED
      BY <1>2, <1>5, <3>2 DEF Started
  <2> QED
    BY <1>1, <1>5, <2>1, <2>2 DEF TimerMove
<1>6. ASSUME timer'[d] \in {"expire", "finish"}, d \in pending', future'[d] = "open"
      PROVE  d \in pending /\ future[d] = "open"
  <2>1. timer[d] # "off"
    BY <1>1, <1>6
    DEF TimerMove, TimerCheck, TimerStart, TimerLapse, TimerExpire
  <2>2. future[d] # "none" /\ prop[d] \notin BeforeSend
    BY <2>1 DEF WaitersKnown, FutureInv
  <2>3. ~DispatchRegister(d) /\ ~Restart
    BY <1>6, <2>2 DEF DispatchRegister, BeforeSend, Restart
  <2> QED
    BY <1>1, <1>6, <2>2, <2>3 DEF PendingMove, FutureMove
<1>7. ASSUME timer'[d] = "expire", d \in pending', future'[d] = "open"
      PROVE  status'[d] \in {"awaiting_approval", "running"} \cup TerminalStatuses
  <2>1. CASE timer'[d] = timer[d]
    <3>1. status[d] \in {"awaiting_approval", "running"} \cup TerminalStatuses
      BY <1>6, <1>7, <2>1 DEF TimerStatus
    <3>2. status'[d] # "approved"
      <4>1. ASSUME NEW s \in Sessions PROVE ~Approve(s)
        BY <1>7, <2>1 DEF Approve, LocksExclude, DispatchTimers, SocketHoldsDispatch
      <4> QED
        BY <1>1, <3>1, <4>1 DEF StatusMove, TerminalStatuses
    <3>3. status'[d] = status[d] \/ status'[d] \in LegalTransitions[status[d]]
      BY <3>1, RowMoves DEF Absent, TerminalStatuses
    <3> QED
      BY <3>1, <3>2, <3>3 DEF LegalTransitions, Statuses, LiveStatuses, TerminalStatuses
  <2>2. CASE TimerCheck(d)
    <3>1. timer' = [timer EXCEPT ![d] = CASE d \notin pending -> "off"
                    [] /\ d \in pending \ awaiting
                       /\ status[d] = "queued" -> StartStep(d)
                    [] OTHER -> "expire"]
      BY <2>2 DEF TimerCheck, TimerGoto
    <3>2. d \in pending /\ future[d] = "open"
      BY <1>6, <1>7
    <3>3. ~(d \notin awaiting /\ status[d] = "queued")
      BY <1>7, <3>1, <3>2 DEF GatewayInv, TaskTypes, StartStep
    <3>4. UNCHANGED repoVars /\ timer[d] = "wait"
      BY <2>2 DEF TimerCheck
    <3>5. ~ApprovalUnderWay(d)
      <4>1. ASSUME NEW s \in Sessions, ApprovalStep(s) PROVE FALSE
        <5>1. ~SocketHoldsDispatch(s)
          BY <3>4 DEF LocksExclude, DispatchTimers
        <5>2. sock[s] = "lapse" /\ msg[s].type = "event"
          BY <4>1, <5>1 DEF ApprovalStep, SocketHoldsDispatch, MessageKinds
        <5>3. msg[s] # None
          BY <5>2, MessageCall, NoneAssumption DEF GatewayInv, Reading
        <5> QED
          BY <5>1, <5>2, <5>3 DEF SocketHoldsDispatch, Handling
      <4> QED
        BY <4>1 DEF ApprovalUnderWay
    <3>6. status[d] \in Started \ {"queued"} \/
          status[d] \in {"awaiting_approval"} \cup TerminalStatuses
      BY <3>2, <3>3, <3>5 DEF WaiterStatus, Started, TerminalStatuses
    <3> QED
      BY <3>4, <3>6 DEF Started, repoVars
  <2>3. CASE TimerStart(d)
    <3>1. status[d] \in Started
      BY <2>3 DEF TimerStart, TimerStatus
    <3>2. Apply(d, "running")
      BY <1>7, <2>3 DEF TimerStart, TimerGoto, GatewayInv, TaskTypes
    <3>3. status'[d] = "running"
      BY <1>4, <3>2
      DEF Apply, Transition, Enter, repoVars, GatewayInv, RowInv, RepoTypeOK
    <3> QED
      BY <3>3
  <2> QED
    BY <1>1, <1>7, <2>1, <2>2, <2>3 DEF TimerMove
<1>8. ASSUME timer'[d] = "finish", d \in pending', future'[d] = "open"
      PROVE  status'[d] \in TerminalStatuses
  <2>0. status \in [Calls -> Statuses \cup {Absent}]
    BY DEF GatewayInv, RowInv, RepoTypeOK
  <2>1. CASE timer'[d] = timer[d]
    BY <1>3, <1>6, <1>8, <2>1 DEF TimerStatus
  <2>2. CASE TimerStart(d)
    <3>1. status[d] \in Started
      BY <2>2 DEF TimerStart, TimerStatus
    <3>2. Refused(d, "running") /\ UNCHANGED repoVars
      BY <1>8, <2>2 DEF TimerStart, TimerGoto, GatewayInv, TaskTypes
    <3>3. status[d] \notin {"running", "queued"}
      BY <3>2 DEF Refused, MayEnter, LegalTransitions, Statuses, LiveStatuses
    <3> QED
      BY <3>1, <3>2, <3>3 DEF Started, repoVars
  <2>3. CASE TimerLapse(d)
    <3>1. status[d] \in Started /\ Lapse(d)
      BY <2>3 DEF TimerLapse, TimerStatus
    <3> QED
      BY <2>0, <3>1
      DEF Lapse, Transition, Enter, Started, LiveStatuses, TerminalStatuses, repoVars
  <2>4. CASE TimerExpire(d)
    <3>1. status[d] \in {"awaiting_approval", "running"} \cup TerminalStatuses
      BY <1>6, <1>8, <2>4 DEF TimerExpire, TimerStatus
    <3>2. status[d] \in {"awaiting_approval", "running"} => MayEnter(d, "timed_out")
      BY DEF MayEnter, LegalTransitions, Statuses, LiveStatuses
    <3>3. Apply(d, "timed_out") \/ (Refused(d, "timed_out") /\ UNCHANGED repoVars)
      BY <2>4 DEF TimerExpire
    <3>4. CASE status[d] \in TerminalStatuses
      BY <1>3, <3>4
    <3> QED
      BY <2>0, <3>1, <3>2, <3>3, <3>4
      DEF Apply, Refused, Transition, Enter, TerminalStatuses, repoVars
  <2> QED
    BY <1>1, <1>8, <2>1, <2>2, <2>3, <2>4 DEF TimerMove
<1> QED
  BY <1>5, <1>7, <1>8


-----------------------------------------------------------------------------
(* The waiter and those who will answer it.                                *)

\* A teardown has in hand waiters of its session; once its transaction is in,
\* their rows are over.
TornDown ==
  teardown # None =>
    \A c \in teardown.calls :
      /\ target[c] = teardown.session /\ future[c] # "none"
      /\ teardown.committed => status[c] \in TerminalStatuses

\* An open waiter is known to _pending or to the teardown under way, and one
\* that waits in _pending has its timer.
Guarded ==
  \A c \in Calls :
    /\ future[c] = "open" => c \in pending \/ (teardown # None /\ c \in teardown.calls)
    /\ prop[c] = "wait" /\ future[c] = "open" /\ c \in pending => timer[c] # "off"

LEMMA TornDownStep ==
  ASSUME BaseInv, RowsExist, WaitersKnown, TornDown, [Next]_vars, faults' = 0
  PROVE  TornDown'
<1> USE DEF BaseInv
<1> SUFFICES ASSUME teardown' # None, NEW d \in teardown'.calls
             PROVE  /\ target'[d] = teardown'.session /\ future'[d] # "none"
                    /\ teardown'.committed => status'[d] \in TerminalStatuses
  BY DEF TornDown
<1>1. teardown' \in Teardowns
  BY GatewayInvNext DEF GatewayInv, MemoryTypes
<1>2. d \in Calls /\ teardown'.session \in Sessions
  BY <1>1 DEF Teardowns
<1>3. SessionMove(teardown'.session)
  BY <1>2, SessionMoves
<1>4. ~Restart /\ ~FinishTeardown
  BY DEF Restart, FinishTeardown
<1>5. ASSUME future[d] # "none" PROVE future'[d] # "none" /\ target'[d] = target[d]
  BY <1>2, <1>4, <1>5, FuturesLast, RowsGoForward DEF RowsExist
<1>6. status[d] \in TerminalStatuses => status'[d] \in TerminalStatuses
  BY <1>2, RowsGoForward
<1>7. CASE teardown' = teardown
  BY <1>5, <1>6, <1>7 DEF TornDown
<1>8. CASE \E s \in Sessions : /\ TeardownBegins(s) /\ s \notin live'
                               /\ teardown'.session = s /\ ~teardown'.committed
                               /\ teardown'.calls = {c \in pending : target[c] = s}
  <2>1. d \in pending /\ target[d] = teardown'.session /\ ~teardown'.committed
    BY <1>8
  <2> QED
    BY <1>2, <1>5, <2>1 DEF WaitersKnown
<1>9. CASE CommitTeardown /\ teardown'.session = teardown.session
           /\ teardown'.calls = teardown.calls
  <2>1. target[d] = teardown.session /\ future[d] # "none"
    BY <1>9 DEF CommitTeardown, TornDown
  <2>2. status[d] # Absent /\ status[d] \in Statuses \cup {Absent}
    BY <1>2, <2>1 DEF RowsExist, GatewayInv, RowInv, RepoTypeOK
  <2>3. status'[d] = IF d \in LiveCallsOf(teardown.session)
                     THEN "client_disconnected" ELSE status[d]
    BY <1>2, <1>9 DEF CommitTeardown, DisconnectSession
  <2>4. status'[d] \in TerminalStatuses
    BY <1>2, <2>1, <2>2, <2>3 DEF LiveCallsOf, Statuses, TerminalStatuses
  <2> QED
    BY <1>5, <1>9, <2>1, <2>4
<1> QED
  BY <1>3, <1>4, <1>7, <1>8, <1>9 DEF SessionMove

LEMMA GuardedStep ==
  ASSUME BaseInv, RowsExist, WaitersKnown, Guarded, [Next]_vars, faults' = 0
  PROVE  Guarded'
<1> USE DEF BaseInv
<1> SUFFICES ASSUME NEW d \in Calls, future'[d] = "open"
             PROVE  /\ d \in pending' \/ (teardown' # None /\ d \in teardown'.calls)
                    /\ prop'[d] = "wait" /\ d \in pending' => timer'[d] # "off"
  BY DEF Guarded
<1>1. FutureMove(d) /\ PendingMove(d) /\ TimerMove(d) /\ TurnMove(d)
  BY WaiterFutures, WaiterPending, WaiterTimers, TurnMoves
<1>2. ~Restart
  BY DEF Restart
<1>3. CASE future[d] # "open"
  <2>1. d \in pending' /\ prop'[d] = "send"
    BY <1>1, <1>2, <1>3 DEF FutureMove
  <2> QED
    BY <2>1
<1>4. CASE future[d] = "open"
  <2>1. ~DispatchRegister(d)
    BY <1>4 DEF DispatchRegister, FutureInv, BeforeSend
  <2>2. ASSUME d \in pending, d \notin pending'
        PROVE  teardown' # None /\ d \in teardown'.calls
    <3>1. ASSUME NEW s \in Sessions PROVE ~(FinishOutcome(s) /\ msg[s].call = d)
      <4>1. ASSUME FinishOutcome(s), msg[s].call = d PROVE FALSE
        <5>1. future'[d] = ResultVerdict(s)
          BY <1>4, <2>2, <4>1
          DEF FinishOutcome, FinishCall, Settle, GatewayInv, MemoryTypes
        <5> QED
          BY <5>1 DEF ResultVerdict
      <4> QED
        BY <4>1
    <3>2. ~TimerFinish(d)
      BY <1>4, <2>2 DEF TimerFinish, Settle, GatewayInv, MemoryTypes
    <3>3. PICK s \in Sessions : TeardownBegins(s) /\ target[d] = s
      BY <1>1, <1>2, <2>2, <3>1, <3>2 DEF PendingMove
    <3>4. teardown' # None
      <4>1. PICK by \in Owners : BeginTeardown(by, s)
        BY <3>3 DEF TeardownBegins
      <4>2. teardown' \in Teardowns
        BY <4>1 DEF BeginTeardown, Teardowns, GatewayInv, MemoryTypes
      <4> QED
        BY <4>2, NoneAssumption
    <3> QED
      BY <2>2, <3>3, <3>4 DEF TeardownBegins, BeginTeardown
  <2>3. ASSUME d \notin pending PROVE teardown' # None /\ d \in teardown'.calls
    <3>1. teardown # None /\ d \in teardown.calls
      BY <1>4, <2>3 DEF Guarded
    <3>2. teardown.session \in Sessions
      BY <3>1 DEF GatewayInv, MemoryTypes, Teardowns
    <3>3. ~FinishTeardown
      BY <1>4, <3>1 DEF FinishTeardown, Settle
    <3> QED
      BY <1>2, <3>1, <3>2, <3>3, SessionMoves DEF SessionMove, TeardownBegins
  <2>4. ASSUME prop'[d] = "wait", d \in pending' PROVE timer'[d] # "off"
    <3>1. d \in pending
      BY <1>1, <2>1, <2>4 DEF PendingMove
    <3>2. CASE Sent(d)
      BY <1>4, <3>1, <3>2 DEF Sent, GatewayInv, TaskTypes
    <3>3. CASE prop[d] = "wait"
      <4>1. timer[d] # "off"
        BY <1>4, <3>1, <3>3 DEF Guarded
      <4>2. ~TimerFinish(d)
        BY <2>4 DEF TimerFinish
      <4>3. \A s \in Sessions : ~(FinishOutcome(s) /\ msg[s].call = d)
        BY <2>4 DEF FinishOutcome, FinishCall
      <4>4. ~(FinishTeardown /\ d \in teardown.calls)
        BY <1>4 DEF FinishTeardown, Settle
      <4> QED
        BY <1>1, <1>2, <3>1, <4>1, <4>2, <4>3, <4>4 DEF TimerMove
    <3> QED
      BY <1>1, <2>4, <3>2, <3>3
      DEF TurnMove, Validate, MarkValid, RequireApproval, DispatchRegister
  <2> QED
    BY <2>2, <2>3, <2>4
<1> QED
  BY <1>3, <1>4

LEMMA ToldIsTerminalStep ==
  ASSUME BaseInv, Recording, TimerStatus, TornDown, ToldIsTerminal, [Next]_vars, faults' = 0
  PROVE  ToldIsTerminal'
<1> USE DEF BaseInv
<1> SUFFICES ASSUME NEW d \in Calls, future'[d] \notin {"none", "open", "cancelled"}
             PROVE  status'[d] \in TerminalStatuses
  BY DEF ToldIsTerminal
<1>1. FutureMove(d) /\ ~Restart
  BY WaiterFutures DEF Restart
<1>2. status[d] \in TerminalStatuses => status'[d] \in TerminalStatuses
  BY RowsGoForward
<1>3. CASE future'[d] = future[d]
  BY <1>2, <1>3 DEF ToldIsTerminal
<1>4. CASE \E s \in Sessions : FinishOutcome(s) /\ msg[s].call = d
  <2>1. PICK s \in Sessions : FinishOutcome(s) /\ msg[s].call = d
    BY <1>4
  <2>2. status[d] \in TerminalStatuses
    BY <2>1 DEF FinishOutcome, Recording
  <2> QED
    BY <1>2, <2>2
<1>5. CASE TimerFinish(d) /\ d \in pending /\ future[d] = "open"
  BY <1>2, <1>5 DEF TimerFinish, TimerStatus
<1>6. CASE FinishTeardown /\ d \in teardown.calls
  BY <1>2, <1>6 DEF FinishTeardown, TornDown
<1> QED
  BY <1>1, <1>3, <1>4, <1>5, <1>6 DEF FutureMove

LEMMA NoLateSuccessStep ==
  ASSUME BaseInv, Recording, MessageKinds, LocksExclude, CompletedIsTaken, ToldIsTerminal,
         NoLateSuccess, [Next]_vars, faults' = 0
  PROVE  NoLateSuccess'
<1> USE DEF BaseInv
<1> SUFFICES ASSUME NEW d \in Calls, future'[d] \in {"timeout", "remote"}
             PROVE  status'[d] # "completed"
  BY DEF NoLateSuccess
<1>1. FutureMove(d) /\ ~Restart
  BY WaiterFutures DEF Restart
<1>2. CASE future'[d] = future[d]
  <2>1. status[d] \in TerminalStatuses /\ status[d] # "completed"
    BY <1>2 DEF ToldIsTerminal, NoLateSuccess
  <2> QED
    BY <2>1, RowsGoForward
<1>3. CASE \E s \in Sessions : /\ FinishOutcome(s) /\ msg[s].call = d
                               /\ future'[d] = ResultVerdict(s)
  <2>1. PICK s \in Sessions : /\ FinishOutcome(s) /\ msg[s].call = d
                              /\ future'[d] = ResultVerdict(s)
    BY <1>3
  <2>2. sock[s] = "finish" /\ UNCHANGED repoVars
    BY <2>1 DEF FinishOutcome
  <2>3. msg[s].type = "event"
    BY <2>1 DEF ResultVerdict
  <2>4. status[d] # "completed"
    BY <2>1, <2>2, <2>3 DEF Recording, MessageKinds
  <2> QED
    BY <2>2, <2>4 DEF repoVars
<1>4. CASE TimerFinish(d) /\ d \in pending
  <2>1. timer[d] = "finish" /\ UNCHANGED repoVars
    BY <1>4 DEF TimerFinish
  <2>2. ASSUME NEW s \in Sessions, sock[s] = "finish", Handling(s, "result") PROVE FALSE
    BY <2>1, <2>2 DEF LocksExclude, ResultTimers, SocketHoldsResult
  <2>3. status[d] # "completed"
    BY <1>4, <2>2 DEF CompletedIsTaken
  <2> QED
    BY <2>1, <2>3 DEF repoVars
<1> QED
  BY <1>1, <1>2, <1>3, <1>4 DEF FutureMove


-----------------------------------------------------------------------------
(* The waiters, all together.                                              *)

WaiterInv ==
  /\ RowsExist /\ WaitersKnown /\ MessagesRouted /\ Untouched
  /\ MessageKinds /\ LocksExclude /\ Recording /\ CompletedIsTaken
  /\ WaiterStatus /\ TimerStatus /\ TornDown /\ Guarded
  /\ ToldIsTerminal /\ NoLateSuccess

LEMMA WaiterInvStep ==
  ASSUME BaseInv, WaiterInv, [Next]_vars, faults' = 0
  PROVE  WaiterInv'
<1> USE DEF WaiterInv
<1>1. RowsExist' /\ WaitersKnown' /\ MessagesRouted' /\ Untouched'
  BY RowsExistStep, WaitersKnownStep, MessagesRoutedStep, UntouchedStep
<1>2. MessageKinds' /\ LocksExclude' /\ Recording' /\ CompletedIsTaken'
  BY MessageKindsStep, LocksExcludeStep, RecordingStep, CompletedIsTakenStep
<1>3. WaiterStatus' /\ TimerStatus' /\ TornDown' /\ Guarded'
  BY WaiterStatusStep, TimerStatusStep, TornDownStep, GuardedStep
<1>4. ToldIsTerminal' /\ NoLateSuccess'
  BY ToldIsTerminalStep, NoLateSuccessStep
<1> QED
  BY <1>1, <1>2, <1>3, <1>4

\* Only a fault counts as one.
LEMMA NoFaultStep ==
  ASSUME [Next]_vars, ~Fault
  PROVE  faults' = faults
<1>2. ~TeardownFault /\ (\A s \in Sessions : ~SocketFault(s))
  BY DEF TeardownFault, SocketFault
<1>3. \A c \in Calls : ~ProposalFault(c) /\ ~InterruptAbort(c) /\ ~TimerFault(c)
  BY DEF ProposalFault, InterruptAbort, TimerFault
<1>4. ASSUME NEW c \in Calls, ProposalStep(c) \/ TimerStep(c) PROVE UNCHANGED faults
  BY <1>4
  DEF ProposalStep, TimerStep, Validate, MarkValid, MarkInvalid, RequireApproval,
      Dispatch, DispatchQueue, DispatchLapse, DispatchRegister, Sent, SendFailed,
      Aborted, TakeResult, TimerWake, TimerCheck, TimerStart, TimerLapse, TimerExpire,
      TimerFinish, budgetVars
<1>5. ASSUME NEW by, NEW s, BeginTeardown(by, s) PROVE UNCHANGED faults
  BY <1>5 DEF BeginTeardown, budgetVars
<1>6. ASSUME NEW s \in Sessions, SocketStep(s) PROVE UNCHANGED faults
  BY <1>5, <1>6
  DEF SocketStep, Advertise, AddSession, RefreshTables, RefreshMemory, Approve,
      QueueApproved, ArmExecution, HandleResult, StartCall, LapseCall, WriteOutcome,
      FinishOutcome, SocketDisconnected, ReplacePredecessor, budgetVars
<1>7. CASE Environment
  BY <1>2, <1>3, <1>5, <1>7
  DEF Environment, Propose, CancelTurn, Connect, Refresh, DropSocket, HandleEvent,
      ReceiveResult, Disconnect, CapabilityExpires, Restart, budgetVars
<1> QED
  BY <1>4, <1>5, <1>6, <1>7
  DEF Next, Disconnect, TeardownStep, CommitTeardown, FinishTeardown, AtRest, vars,
      budgetVars

\* A fault is never taken back.
LEMMA FaultsStay ==
  ASSUME GatewayInv, [Next]_vars, faults' = 0
  PROVE  faults = 0
<1>1. faults \in Nat
  BY DEF GatewayInv, TaskTypes
<1>2. ~Fault
  BY <1>1 DEF Fault
<1> QED
  BY <1>2, NoFaultStep

LEMMA BaseInvInit == Init => BaseInv
<1>1. Init => FutureInv /\ DurableInv
  BY DEF Init, FutureInv, DurableInv, CommittedInv, SuccessIsDurable
<1>2. Init => ApprovalInv /\ LifecycleInv
  BY DEF Init, ApprovalInv, LifecycleInv, Registering
<1> QED
  BY <1>1, <1>2, GatewayInvInit DEF BaseInv

LEMMA BaseInvStep ==
  ASSUME BaseInv, [Next]_vars
  PROVE  BaseInv'
BY GatewayInvNext, FutureInvStep, ApprovalInvStep, LifecycleInvStep, CommittedStep,
   SuccessStep DEF BaseInv, DurableInv

LEMMA WaiterInvInit == Init => WaiterInv
<1> SUFFICES ASSUME Init PROVE WaiterInv
  OBVIOUS
<1>1. /\ prop = [c \in Calls |-> "idle"] /\ future = [c \in Calls |-> "none"]
      /\ answer = [c \in Calls |-> "none"] /\ timer = [c \in Calls |-> "off"]
      /\ sock = [s \in Sessions |-> "new"]
      /\ pending = {} /\ awaiting = {} /\ teardown = None
  BY DEF Init
<1>2. RowsExist /\ WaitersKnown /\ MessagesRouted /\ Untouched
  BY <1>1 DEF RowsExist, WaitersKnown, MessagesRouted, Untouched, FoundValid, Reading
<1>3. MessageKinds /\ LocksExclude /\ Recording /\ CompletedIsTaken
  BY <1>1
  DEF MessageKinds, LocksExclude, Recording, CompletedIsTaken, SocketHoldsDispatch,
      SocketHoldsResult
<1>4. WaiterStatus /\ TimerStatus /\ TornDown /\ Guarded
  BY <1>1 DEF WaiterStatus, TimerStatus, TornDown, Guarded
<1>5. ToldIsTerminal /\ NoLateSuccess
  BY <1>1 DEF ToldIsTerminal, NoLateSuccess
<1> QED
  BY <1>2, <1>3, <1>4, <1>5 DEF WaiterInv

LEMMA WaiterInvAlways == Spec => []BaseInv /\ [](faults = 0 => WaiterInv)
<1> DEFINE Inv == BaseInv /\ (faults = 0 => WaiterInv)
<1>1. Init => Inv
  BY BaseInvInit, WaiterInvInit
<1>2. Inv /\ [Next]_vars => Inv'
  <2> SUFFICES ASSUME Inv, [Next]_vars PROVE Inv'
    OBVIOUS
  <2>1. BaseInv'
    BY BaseInvStep
  <2>2. ASSUME faults' = 0 PROVE WaiterInv'
    <3>1. faults = 0
      BY <2>2, FaultsStay DEF BaseInv
    <3> QED
      BY <2>2, <3>1, WaiterInvStep
  <2> QED
    BY <2>1, <2>2
<1>3. Inv => BaseInv /\ (faults = 0 => WaiterInv)
  OBVIOUS
<1> HIDE DEF Inv
<1> QED
  BY <1>1, <1>2, <1>3, PTL DEF Spec

\* Nothing is told before the tables say so: result, event, timeout and teardown
\* all resolve a waiter behind the transaction that closed its row.
THEOREM GatewayToldIsTerminal == Spec => [](faults = 0 => ToldIsTerminal)
<1>1. WaiterInv => ToldIsTerminal
  BY DEF WaiterInv
<1> QED
  BY <1>1, WaiterInvAlways, PTL

\* Timer and result handler decide under the result lock: a turn that was told of
\* a timeout or a remote failure never has its call completed afterwards.
THEOREM GatewayNoLateSuccess == Spec => [](faults = 0 => NoLateSuccess)
<1>1. WaiterInv => NoLateSuccess
  BY DEF WaiterInv
<1> QED
  BY <1>1, WaiterInvAlways, PTL

\* At every moment an open waiter has a timer that will run out or a teardown
\* that holds it: nobody can take both away without answering.
THEOREM GatewayWaiterIsGuarded == Spec => [](faults = 0 => WaiterIsGuarded)
<1>1. WaiterInv => WaiterIsGuarded
  BY DEF WaiterInv, Guarded, WaiterIsGuarded
<1> QED
  BY <1>1, WaiterInvAlways, PTL


-----------------------------------------------------------------------------
(* A session that is gone, and its rows.                                   *)

\* A row is created by the proposal that leaves its first step.
IdleHasNoRow == \A c \in Calls : prop[c] = "idle" => status[c] = Absent

LEMMA IdleHasNoRowStep ==
  ASSUME BaseInv, IdleHasNoRow, RowsExist, MessagesRouted, WaitersKnown, [Next]_vars,
         faults' = 0
  PROVE  IdleHasNoRow'
<1> USE DEF BaseInv
<1> SUFFICES ASSUME NEW d \in Calls, prop'[d] = "idle" PROVE status'[d] = Absent
  BY DEF IdleHasNoRow
<1>1. prop[d] = "idle" /\ status[d] = Absent
  BY TurnMoves
  DEF TurnMove, Validate, MarkValid, RequireApproval, DispatchRegister, Sent, IdleHasNoRow
<1>2. status'[d] \in {Absent, "proposed"}
  BY <1>1, RowMoves DEF LegalTransitions, Statuses, LiveStatuses, TerminalStatuses, Absent
<1>3. \A s \in Sessions : ~Propose(d, s)
  BY <1>1
  DEF Propose, PropGoto, Answer, GatewayInv, TaskTypes
<1> QED
  BY <1>1, <1>2, <1>3, StatusMoves
  DEF StatusMove, Absent, MarkValid, RequireApproval, TerminalStatuses

\* The rows of s have been closed, or are about to be read as they are.
Closed(s) == s \notin live /\ (teardown # None /\ teardown.session = s => teardown.committed)

\* A call of this process: a restart leaves the rows of the old one behind.
Current(c) == status[c] # Absent /\ (restarts = 0 \/ prop[c] # "done")

\* Who is registered, and what a closed session leaves behind.
SessionsKnown ==
  /\ live \subseteq seen
  /\ \A s \in Sessions :
       /\ sock[s] \in {"new", "advertise", "add"} => s \notin seen
       /\ sock[s] \in {"refresh", "apply_on", "apply_off"} => s \in live
       /\ s \in seen /\ Closed(s) => ~cap[s]
RowsClosed ==
  \A c \in Calls : Current(c) =>
    /\ target[c] \in seen
    /\ Closed(target[c]) => status[c] \in TerminalStatuses \cup {"proposed"}
    /\ Closed(target[c]) /\ prop[c] = "mark_valid" => status[c] \in TerminalStatuses

LEMMA SessionsKnownStep ==
  ASSUME BaseInv, SessionsKnown, [Next]_vars, faults' = 0
  PROVE  SessionsKnown'
<1> USE DEF BaseInv
<1>1. CASE Restart
  BY <1>1 DEF Restart, SessionsKnown
<1>2. CASE ~Restart
  <2>0. sock \in [Sessions -> SockSteps] /\ live \subseteq Sessions
    BY DEF GatewayInv, MessageInv, MemoryTypes
  <2>1. ASSUME NEW r \in Sessions PROVE r \in seen => r \in seen'
    BY <1>2, <2>1, SessionMoves DEF SessionMove
  <2>2. ASSUME NEW r \in Sessions, r \in seen', r \notin seen
        PROVE  AddSession(r)
    BY <1>2, <2>2, SessionMoves DEF SessionMove
  <2>3. live' \subseteq seen'
    <3>1. live' \subseteq Sessions
      BY GatewayInvNext DEF GatewayInv, MemoryTypes
    <3>2. ASSUME NEW r \in Sessions, r \in live' PROVE r \in seen'
      <4>1. CASE r \in live
        BY <2>1, <4>1 DEF SessionsKnown
      <4>2. CASE r \notin live
        <5>1. AddSession(r)
          BY <3>2, <4>2, SessionMoves DEF SessionMove
        <5> QED
          BY <5>1 DEF AddSession
      <4> QED
        BY <4>1, <4>2
    <3> QED
      BY <3>1, <3>2
  <2>4. ASSUME NEW r \in Sessions, sock'[r] \in {"new", "advertise", "add"}
        PROVE  r \notin seen'
    <3>1. sock[r] \in {"new", "advertise", "add"}
      BY <2>4, SessionMoves DEF SessionMove, Advertise
    <3>2. ~AddSession(r)
      BY <2>0, <2>4 DEF AddSession, SockIdle, SockGoto
    <3> QED
      BY <2>2, <3>1, <3>2 DEF SessionsKnown
  <2>5. ASSUME NEW r \in Sessions, sock'[r] \in {"refresh", "apply_on", "apply_off"}
        PROVE  r \in live'
    <3>1. r \in live
      BY <2>5, SessionMoves DEF SessionMove, SessionsKnown
    <3>2. ~TeardownBegins(r)
      BY <2>5 DEF TeardownBegins, BeginTeardown, taskVars
    <3> QED
      BY <1>2, <3>1, <3>2, SessionMoves DEF SessionMove
  <2>6. ASSUME NEW r \in Sessions, r \in seen', Closed(r)', cap'[r] PROVE FALSE
    <3>1. r \notin live'
      BY <2>6 DEF Closed
    <3>2. r \in seen
      BY <2>2, <2>6, <3>1 DEF AddSession
    <3>3. ~Advertise(r)
      BY <3>2 DEF Advertise, SessionsKnown
    <3>4. ~RefreshTables(r)
      BY <3>1 DEF RefreshTables, SessionsKnown, memVars
    <3>5. cap[r]
      BY <2>6, <3>3, <3>4, SessionMoves DEF SessionMove
    <3>6. r \in live \/ (teardown # None /\ teardown.session = r /\ ~teardown.committed)
      BY <3>2, <3>5 DEF SessionsKnown, Closed
    <3>7. CASE r \in live
      <4>1. TeardownBegins(r)
        BY <1>2, <3>1, <3>7, SessionMoves DEF SessionMove
      <4>2. PICK by \in Owners : BeginTeardown(by, r)
        BY <4>1 DEF TeardownBegins
      <4>3. teardown' \in Teardowns
        BY <4>2 DEF BeginTeardown, Teardowns, GatewayInv, MemoryTypes
      <4>4. teardown'.session = r /\ ~teardown'.committed
        BY <4>2 DEF BeginTeardown
      <4> QED
        BY <2>6, <4>3, <4>4, NoneAssumption DEF Closed
    <3>8. CASE teardown # None /\ teardown.session = r /\ ~teardown.committed
      <4>1. ~TeardownBegins(r) /\ ~FinishTeardown
        BY <3>8 DEF TeardownBegins, FinishTeardown
      <4>2. teardown' # teardown
        BY <2>6, <3>8 DEF Closed
      <4>3. CommitTeardown
        BY <1>2, <3>8, <4>1, <4>2, SessionMoves DEF SessionMove, TeardownBegins
      <4> QED
        BY <2>6, <3>8, <4>3
        DEF CommitTeardown, DisconnectSession, GatewayInv, RowInv, RepoTypeOK
    <3> QED
      BY <3>6, <3>7, <3>8
  <2> QED
    BY <2>3, <2>4, <2>5, <2>6 DEF SessionsKnown
<1> QED
  BY <1>1, <1>2

\* The transaction of the teardown closes the session, and all its rows with it.
LEMMA ClosingCloses ==
  ASSUME BaseInv, [Next]_vars, faults' = 0, ~Restart, NEW d \in Calls,
         status[d] # Absent, target[d] \in Sessions, ~Closed(target[d]),
         Closed(target[d])'
  PROVE  status'[d] \in TerminalStatuses
<1> USE DEF BaseInv
<1> DEFINE r == target[d]
<1>0. target'[d] = r
  BY RowsGoForward
<1>1. r \notin live' /\ (teardown' # None /\ teardown'.session = r => teardown'.committed)
  BY <1>0 DEF Closed
<1>2. CASE r \in live
  <2>1. TeardownBegins(r)
    BY <1>1, <1>2, SessionMoves DEF SessionMove
  <2>2. PICK by \in Owners : BeginTeardown(by, r)
    BY <2>1 DEF TeardownBegins
  <2>3. teardown' \in Teardowns
    BY <2>2 DEF BeginTeardown, Teardowns, GatewayInv, MemoryTypes
  <2>4. teardown'.session = r /\ ~teardown'.committed
    BY <2>2 DEF BeginTeardown
  <2> QED
    BY <1>1, <2>3, <2>4, NoneAssumption
<1>3. CASE teardown # None /\ teardown.session = r /\ ~teardown.committed
  <2>1. ~FinishTeardown /\ \A s \in Sessions : ~TeardownBegins(s)
    BY <1>3 DEF TeardownBegins, FinishTeardown
  <2>2. teardown' # teardown
    BY <1>1, <1>3
  <2>3. CommitTeardown
    BY <2>1, <2>2, SessionMoves DEF SessionMove
  <2>4. status'[d] = IF d \in LiveCallsOf(r) THEN "client_disconnected" ELSE status[d]
    BY <1>3, <2>3 DEF CommitTeardown, DisconnectSession
  <2>5. status[d] \in Statuses
    BY DEF GatewayInv, RowInv, RepoTypeOK
  <2> QED
    BY <2>4, <2>5 DEF LiveCallsOf, Statuses, TerminalStatuses
<1> QED
  BY <1>2, <1>3 DEF Closed

LEMMA RowsClosedStep ==
  ASSUME BaseInv, IdleHasNoRow, RowsExist, SessionsKnown, RowsClosed, [Next]_vars,
         faults' = 0
  PROVE  RowsClosed'
<1> USE DEF BaseInv
<1> SUFFICES ASSUME NEW d \in Calls, Current(d)'
             PROVE  /\ target'[d] \in seen'
                    /\ Closed(target[d])' =>
                         status'[d] \in TerminalStatuses \cup {"proposed"}
                    /\ Closed(target[d])' /\ prop'[d] = "mark_valid" =>
                         status'[d] \in TerminalStatuses
  BY DEF RowsClosed
<1>0. restarts \in Nat /\ prop \in [Calls -> PropSteps] /\ seen \subseteq Sessions
  BY DEF GatewayInv, TaskTypes, MemoryTypes
<1>1. ~Restart
  <2>1. ASSUME Restart PROVE FALSE
    <3>1. restarts' # 0 /\ UNCHANGED repoVars
      BY <1>0, <2>1 DEF Restart
    <3>2. prop'[d] # "done" /\ status'[d] # Absent
      BY <3>1 DEF Current
    <3>3. prop[d] = "idle"
      BY <2>1, <3>2 DEF Restart
    <3> QED
      BY <3>1, <3>2, <3>3 DEF IdleHasNoRow, repoVars
  <2> QED
    BY <2>1
<1>2. TurnMove(d) /\ StatusMove(d)
  BY TurnMoves, StatusMoves
<1>3. CASE status[d] = Absent
  <2>1. status'[d] = "proposed"
    BY <1>3, RowMoves
    DEF Current, LegalTransitions, Statuses, LiveStatuses, TerminalStatuses, Absent
  <2>2. PICK s \in Sessions : Propose(d, s)
    BY <1>2, <1>3, <2>1 DEF StatusMove, Absent, TerminalStatuses
  <2>3. s \in seen /\ UNCHANGED seen
    BY <2>2 DEF Propose, memVars
  <2>4. CreateToolCall(d, s) /\ prop' = [prop EXCEPT ![d] = "validate"]
    BY <1>3, <2>1, <2>2 DEF Propose, repoVars, PropGoto, Absent
  <2>5. target'[d] = s
    BY <2>4 DEF CreateToolCall, GatewayInv, RowInv, RepoTypeOK
  <2>6. prop'[d] = "validate"
    BY <1>0, <2>4
  <2> QED
    BY <2>1, <2>3, <2>5, <2>6
<1>4. CASE status[d] # Absent
  <2>1. restarts' = restarts \/ restarts = 0
    <3>1. CASE \E c \in Calls : ProposalMove(c)
      BY <3>1
      DEF ProposalMove, ProposalStep, Validate, MarkValid, MarkInvalid, RequireApproval,
          Dispatch, DispatchQueue, DispatchLapse, DispatchRegister, Sent, SendFailed,
          Aborted, TakeResult, CancelTurn, Propose, budgetVars
    <3>2. CASE \E c \in Calls : TimerStep(c)
      BY <3>2
      DEF TimerStep, TimerWake, TimerCheck, TimerStart, TimerLapse, TimerExpire,
          TimerFinish, budgetVars
    <3>3. CASE \E s \in Sessions : SocketMove(s)
      BY <3>3
      DEF SocketMove, Advertise, AddSession, RefreshTables, RefreshMemory, Approve,
          QueueApproved, ArmExecution, HandleResult, StartCall, LapseCall, WriteOutcome,
          FinishOutcome, SocketDisconnected, Connect, Refresh, DropSocket, HandleEvent,
          ReceiveResult, SocketFault, budgetVars
    <3>4. CASE \E s \in Sessions : TeardownBegins(s) \/ CapabilityExpires(s)
      BY <3>4 DEF TeardownBegins, BeginTeardown, CapabilityExpires, budgetVars
    <3>5. CASE CommitTeardown \/ FinishTeardown \/ UNCHANGED vars
      BY <3>5 DEF CommitTeardown, FinishTeardown, vars, budgetVars
    <3> QED
      BY <1>1, <3>1, <3>2, <3>3, <3>4, <3>5, QuietStep
  <2>2. Current(d)
    <3>1. CASE prop[d] = "done" /\ restarts # 0
      <4>1. prop'[d] = "done"
        BY <1>2, <3>1
        DEF TurnMove, Validate, MarkValid, RequireApproval, DispatchRegister, Sent
      <4> QED
        BY <2>1, <3>1, <4>1 DEF Current
    <3> QED
      BY <1>4, <3>1 DEF Current
  <2>3. /\ target[d] \in seen
        /\ Closed(target[d]) => status[d] \in TerminalStatuses \cup {"proposed"}
        /\ Closed(target[d]) /\ prop[d] = "mark_valid" => status[d] \in TerminalStatuses
    BY <2>2 DEF RowsClosed
  <2>4. target'[d] = target[d] /\ target[d] \in Sessions
    BY <1>0, <1>4, <2>3, RowsGoForward
  <2>5. target'[d] \in seen'
    BY <1>1, <2>3, <2>4, SessionMoves DEF SessionMove
  <2>6. status[d] \in TerminalStatuses => status'[d] \in TerminalStatuses
    BY RowsGoForward
  <2>7. ASSUME Closed(target[d])'
        PROVE  status'[d] \in TerminalStatuses \cup {"proposed"}
    <3>1. CASE ~Closed(target[d])
      BY <1>1, <1>4, <2>4, <2>7, <3>1, ClosingCloses
    <3>2. CASE Closed(target[d]) /\ status[d] = "proposed"
      <4>1. ~MarkValid(d)
        BY <2>3, <3>2 DEF MarkValid, TerminalStatuses
      <4>2. status'[d] \in {"proposed", "validated"} \cup TerminalStatuses
        BY <3>2, RowMoves
        DEF LegalTransitions, Statuses, LiveStatuses, TerminalStatuses, Absent
      <4> QED
        BY <1>2, <3>2, <4>1, <4>2 DEF StatusMove
    <3> QED
      BY <2>3, <2>6, <3>1, <3>2
  <2>8. ASSUME Closed(target[d])', prop'[d] = "mark_valid"
        PROVE  status'[d] \in TerminalStatuses
    <3>1. CASE ~Closed(target[d])
      BY <1>1, <1>4, <2>4, <2>8, <3>1, ClosingCloses
    <3>2. CASE Closed(target[d]) /\ prop[d] = "mark_valid"
      BY <2>3, <2>6, <3>2
    <3>3. CASE Closed(target[d]) /\ cap[target[d]]
      BY <2>3, <2>4, <3>3 DEF SessionsKnown
    <3> QED
      BY <1>2, <2>8, <3>1, <3>2, <3>3 DEF TurnMove
  <2> QED
    BY <2>5, <2>7, <2>8
<1> QED
  BY <1>3, <1>4

RegistryInv == IdleHasNoRow /\ SessionsKnown /\ RowsClosed

LEMMA RegistryInvAlways == Spec => [](faults = 0 => RegistryInv)
<1> DEFINE Inv == BaseInv /\ (faults = 0 => WaiterInv /\ RegistryInv)
<1>1. Init => Inv
  <2> SUFFICES ASSUME Init PROVE Inv
    OBVIOUS
  <2>1. \A c \in Calls : status[c] = Absent
    BY DEF Init, RepoInit
  <2>2. live = {} /\ seen = {}
    BY DEF Init
  <2>3. \A s \in Sessions : sock[s] = "new"
    BY DEF Init
  <2>4. IdleHasNoRow /\ RowsClosed
    BY <2>1 DEF IdleHasNoRow, RowsClosed, Current
  <2>5. SessionsKnown
    BY <2>2, <2>3 DEF SessionsKnown
  <2> QED
    BY <2>4, <2>5, BaseInvInit, WaiterInvInit DEF RegistryInv
<1>2. Inv /\ [Next]_vars => Inv'
  <2> SUFFICES ASSUME Inv, [Next]_vars PROVE Inv'
    OBVIOUS
  <2>1. BaseInv'
    BY BaseInvStep
  <2>2. ASSUME faults' = 0 PROVE WaiterInv' /\ RegistryInv'
    <3>1. faults = 0
      BY <2>2, FaultsStay DEF BaseInv
    <3>2. WaiterInv /\ RegistryInv
      BY <3>1
    <3>3. WaiterInv'
      BY <2>2, <3>2, WaiterInvStep
    <3>4. IdleHasNoRow' /\ SessionsKnown' /\ RowsClosed'
      BY <2>2, <3>2, IdleHasNoRowStep, SessionsKnownStep, RowsClosedStep
      DEF WaiterInv, RegistryInv
    <3> QED
      BY <3>3, <3>4 DEF RegistryInv
  <2> QED
    BY <2>1, <2>2
<1>3. Inv => (faults = 0 => RegistryInv)
  OBVIOUS
<1> HIDE DEF Inv
<1> QED
  BY <1>1, <1>2, <1>3, PTL DEF Spec

\* Whatever handler was between two of its steps when the session went, its call
\* is not left approved, queued or running: the teardown closes every row, and no
\* later step opens one.
THEOREM GatewayGoneSessionLeavesNothing ==
  Spec => [](faults = 0 /\ restarts = 0 => GoneSessionLeavesNothing)
<1>1. RegistryInv => (restarts = 0 => GoneSessionLeavesNothing)
  BY DEF RegistryInv, RowsClosed, Current, Closed, Gone, GoneSessionLeavesNothing
<1> QED
  BY <1>1, RegistryInvAlways, PTL


-----------------------------------------------------------------------------
(* The promise to the chat turn.                                           *)

LEMMA ToldMoves ==
  ASSUME BaseInv, WaiterInv, RegistryInv, [Next]_vars, faults' = 0, NEW d \in Calls
  PROVE  \/ Told(d)' = Told(d)
         \/ /\ Told(d) = "nothing"
            /\ Told(d)' = "success" => status[d] = "completed"
            /\ Told(d)' = "ended" => status[d] \in TerminalStatuses
<1> USE DEF BaseInv, WaiterInv, RegistryInv
<1>1. AnswerMove(d)
  BY TurnMoves
<1>2. CASE answer'[d] = answer[d]
  BY <1>2 DEF Told
<1>3. CASE prop[d] # "done"
  <2>1. Told(d) = "nothing"
    BY <1>3 DEF RowsExist, Told
  <2>2. CASE answer'[d] \in {"rejected", "raised", "cancelled", "lost"}
    BY <2>1, <2>2 DEF Told
  <2>3. CASE answer'[d] = "failure" /\ prop[d] = "abort" /\ Gone(target[d])
    <3>1. status[d] \notin {Absent, "proposed"}
      BY <2>3 DEF RowsExist, FoundValid
    <3>2. Current(d) /\ Closed(target[d])
      BY <1>3, <2>3, <3>1 DEF Current, Closed, Gone
    <3>3. status[d] \in TerminalStatuses
      BY <3>1, <3>2 DEF RowsClosed
    <3>4. Told(d)' = "ended"
      BY <2>3 DEF Told
    <3> QED
      BY <2>1, <3>3, <3>4
  <2>4. CASE /\ future[d] \notin {"none", "open", "cancelled"}
             /\ answer'[d] = IF future[d] \in {"success", "result"}
                             THEN future[d] ELSE "failure"
    <3>1. status[d] \in TerminalStatuses
      BY <2>4 DEF ToldIsTerminal
    <3>2. Told(d)' = "success" => future[d] = "success"
      BY <2>4 DEF Told
    <3>3. future[d] = "success" => status[d] = "completed"
      BY DEF DurableInv, SuccessIsDurable
    <3> QED
      BY <2>1, <3>1, <3>2, <3>3
  <2> QED
    BY <1>1, <1>2, <2>2, <2>3, <2>4 DEF AnswerMove
<1> QED
  BY <1>1, <1>2, <1>3 DEF AnswerMove

\* As long as no transaction fails, the whole machinery, with its sockets, timers,
\* teardowns and restarts, is a ToolCallPromise to the chat turn.
THEOREM GatewayKeepsPromise ==
  ASSUME MaxFaults = 0
  PROVE  Spec => KeepsPromise
<1> DEFINE T == [c \in Calls |-> Told(c)]
<1>1. /\ Promise!Statuses = Statuses /\ Promise!Absent = Absent
      /\ Promise!LegalTransitions = LegalTransitions
      /\ Promise!TerminalStatuses = TerminalStatuses
  BY DEF Promise!Statuses, Promise!Absent, Promise!LegalTransitions,
         Promise!TerminalStatuses, Promise!LiveStatuses, Statuses, Absent,
         LegalTransitions, TerminalStatuses, LiveStatuses
<1>2. Init => Promise!Init
  <2> SUFFICES ASSUME Init PROVE Promise!Init
    OBVIOUS
  <2>1. \A c \in Calls : Told(c) = "nothing"
    BY DEF Init, Told
  <2>2. status = [c \in Calls |-> Absent]
    BY DEF Init, RepoInit
  <2> QED
    BY <1>1, <2>1, <2>2 DEF Promise!Init
<1>3. GatewayInv /\ [Next]_vars /\ faults = 0 => (faults = 0)'
  <2> SUFFICES ASSUME GatewayInv, [Next]_vars, faults = 0 PROVE faults' = 0
    OBVIOUS
  <2>1. ~Fault
    BY DEF Fault
  <2> QED
    BY <2>1, NoFaultStep
<1>4. BaseInv /\ WaiterInv /\ RegistryInv /\ BaseInv' /\ (faults = 0)' /\ [Next]_vars
        => [Promise!Next]_(Promise!promiseVars)
  <2> SUFFICES ASSUME BaseInv, WaiterInv, RegistryInv, BaseInv', faults' = 0, [Next]_vars
               PROVE  [Promise!Next]_(Promise!promiseVars)
    OBVIOUS
  <2>1. status' \in [Calls -> Statuses \cup {Absent}]
    BY DEF BaseInv, GatewayInv, RowInv, RepoTypeOK
  <2>2. \A c \in Calls : Told(c)' \in Promise!Told
    BY DEF Told, Promise!Told
  <2>3. \A c \in Calls : Promise!RowStep(c)
    BY <1>1, RowMoves DEF Promise!RowStep, BaseInv
  <2>4. \A c \in Calls : Promise!TellStep(c)
    <3>1. \A c \in Calls : T[c] = Told(c) /\ T[c]' = Told(c)'
      OBVIOUS
    <3> HIDE DEF T
    <3> QED
      BY <1>1, <3>1, ToldMoves DEF Promise!TellStep
  <2> QED
    BY <1>1, <2>1, <2>2, <2>3, <2>4 DEF Promise!Next
<1>5. Spec => [](faults = 0)
  <2>1. Init => faults = 0
    BY DEF Init
  <2> QED
    BY <1>3, <2>1, GatewayInvAlways, PTL DEF Spec
<1>6. Init /\ [][Next]_vars => Promise!Init /\ [][Promise!Next]_(Promise!promiseVars)
  BY <1>2, <1>4, <1>5, WaiterInvAlways, RegistryInvAlways, PTL DEF Spec
<1> QED
  BY <1>6, PTL DEF Spec, KeepsPromise, Promise!Spec

=============================================================================
