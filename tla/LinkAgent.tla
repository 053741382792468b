----------------------------- MODULE LinkAgent -----------------------------
(***************************************************************************)
(* The Agent of Link: AgentController answers the tool requests of Core,   *)
(* asks the user, and runs AgentRuntime in a worker thread, which checks   *)
(* the local approval, performs the tool once and appends to the audit     *)
(* file (src/apps/client/nivelle_link/agent_controller.py and agent/).     *)
(*                                                                         *)
(* A session is one controller with a runtime of its own; all of them      *)
(* share the files of the data directory.  Closing a session stops its     *)
(* tasks but not the thread of a call that already runs: Python cannot     *)
(* cancel it.  A crash stops both and keeps the files.                     *)
(***************************************************************************)
EXTENDS LinkExecution

CONSTANTS
  MaxTasks,      \* AgentController(max_parallel_tasks)
  MaxTerminals,  \* 256 in _remember_terminal
  Overlap        \* a session may start while a thread of an older one runs

ASSUME AgentAssumption ==
  /\ {MaxTasks, MaxTerminals} \subseteq Nat \ {0}
  /\ Overlap \in BOOLEAN

Refusals == {"validation_failed", "denied", "timed_out", "cancelled"}

VARIABLES
  session,    \* the number of the session in use, 0 when there is none
  sessions,   \* sessions started so far
  accepted,   \* how often the call was taken as a new request
  task,       \* where the task of handle_server_event or decide stands
  cancelled,  \* _cancellations[call].is_set()
  approval,   \* approval_id the task executes with
  known,      \* _fingerprints
  terminals,  \* _terminal_messages, oldest first
  answers     \* the terminal statuses Link has sent to Core for a call

sessionVars == <<session, sessions>>
answerVars == <<known, terminals, answers>>
controlVars == <<sessionVars, accepted, task, cancelled, approval, answerVars>>
agentVars == <<controlVars, requestVars, threadVars, fileVars, spent>>

LinkAgentTypeOK ==
  /\ session \in 0 .. MaxSessions
  /\ sessions \in 0 .. MaxSessions
  /\ \A c \in Calls : request[c] \in Offers[c] \cup {NoRequest}
  /\ sessionOf \in [Calls -> 0 .. MaxSessions]
  /\ accepted \in [Calls -> 0 .. MaxAccepted]
  /\ task \in [Calls -> {"none", "awaiting", "granting", "queued", "started",
                         "running", "ended"}]
  /\ cancelled \in [Calls -> BOOLEAN]
  /\ approval \in [Calls -> (Calls \X (1 .. MaxAccepted)) \cup {NoGrant}]
  /\ known \in SUBSET Calls
  /\ terminals \in Seq(Calls) /\ Len(terminals) <= MaxTerminals
  /\ answers \in [Calls -> SUBSET (Results \cup Refusals)]
  /\ policy \in [version : Nat, enabled : BOOLEAN]
  /\ \A g \in grants :
       /\ g.mode \in {"once", "session", "always"}
       /\ g.uses \in {0, 1}
  /\ thread \in [Calls -> {"none", "authorize", "handle", "act", "commit",
                           "audit", "returned"}]
  /\ result \in [Calls -> Results \cup {"none"}]
  /\ effects \in [Calls -> 0 .. MaxAccepted]
  /\ Len(records) <= MaxEntries
  /\ \A i \in DOMAIN records : records[i].state \in {"pending", "completed"}

LinkAgentInit ==
  /\ session = 0 /\ sessions = 0
  /\ request = [c \in Calls |-> NoRequest]
  /\ sessionOf = [c \in Calls |-> 0]
  /\ accepted = [c \in Calls |-> 0]
  /\ task = [c \in Calls |-> "none"]
  /\ cancelled = [c \in Calls |-> FALSE]
  /\ approval = [c \in Calls |-> NoGrant]
  /\ known = {}
  /\ terminals = << >>
  /\ answers = [c \in Calls |-> {}]
  /\ policy = [version |-> 1, enabled |-> TRUE]
  /\ grants = {}
  /\ thread = [c \in Calls |-> "none"]
  /\ result = [c \in Calls |-> "none"]
  /\ records = << >>
  /\ loaded = [c \in Calls |-> << >>]
  /\ reminders = {}
  /\ aged = {}
  /\ effects = [c \in Calls |-> 0]
  /\ forgotten = {}
  /\ spent = 0

-----------------------------------------------------------------------------
(* Sessions: LinkApplication starts and ends controllers.                  *)

Open(c) == session > 0 /\ sessionOf[c] = session

\* A controller is made or dropped: what it remembers is its own.
NewMemory == known' = {} /\ terminals' = << >>

StartAgentSession ==
  /\ session = 0 /\ sessions < MaxSessions
  /\ Overlap \/ \A c \in Calls : ~Executes(c)
  /\ sessions' = sessions + 1
  /\ session' = sessions + 1
  /\ NewMemory
  /\ UNCHANGED <<accepted, task, cancelled, approval, answers,
                 requestVars, threadVars, fileVars, spent>>

\* The socket is lost or replaced, or Link disconnects: close() cancels every
\* call and sets the shutdown flag of the runtime.  The tasks of a closed
\* controller send nothing and start nothing; only the grant that decide() is
\* storing in a thread is still stored.
EndAgentSession ==
  /\ session > 0
  /\ session' = 0
  /\ NewMemory
  /\ task' = [c \in Calls |->
       IF Open(c) /\ task[c] # "granting" THEN "ended" ELSE task[c]]
  /\ cancelled' = [c \in Calls |-> cancelled[c] \/ Open(c)]
  /\ UNCHANGED <<sessions, accepted, approval, answers,
                 requestVars, threadVars, fileVars, spent>>

\* The process dies: its threads with it, its files stay.
LinkCrashes ==
  /\ Disturbance
  /\ session' = 0
  /\ NewMemory
  /\ task' = [c \in Calls |-> IF task[c] = "none" THEN "none" ELSE "ended"]
  /\ thread' = [c \in Calls |-> "none"]
  /\ loaded' = [c \in Calls |-> << >>]
  /\ UNCHANGED <<sessions, accepted, cancelled, approval, answers,
                 requestVars, result, effects, fileVars>>

-----------------------------------------------------------------------------
(* What the controller tells Core and remembers of it.                     *)

\* _remember_terminal: an earlier message of the call gives its place up, and
\* the oldest one is forgotten, its fingerprint with it unless the call is at
\* work again.
Others(c) ==
  LET places == {i \in DOMAIN terminals : terminals[i] = c}
  IN  IF places = {} THEN terminals ELSE RemoveAt(terminals, CHOOSE i \in places : TRUE)

Remember(c) ==
  LET all  == Append(Others(c), c)
      over == Len(all) > MaxTerminals
  IN  /\ terminals' = IF over THEN Tail(all) ELSE all
      /\ known' = IF over /\ task[Head(all)] \in {"none", "granting", "ended"}
                  THEN known \ {Head(all)} ELSE known \cup {c}

Answer(c, status) ==
  /\ answers' = [answers EXCEPT ![c] = @ \cup {status}]
  /\ task' = [task EXCEPT ![c] = "ended"]
  /\ Remember(c)

\* Variant: a grant is reused whatever the tool.
ReusableForWrites(c, r) ==
  {g \in grants :
     /\ Current(g) /\ request[g.id[1]] = r
     /\ g.mode = "session" => g.session = session}

\* _matching_reusable_approval: neither a one-time grant nor a write is ever
\* reused.
Reusable(c, r) ==
  {g \in grants :
     /\ r.tool \notin LocalWrite
     /\ Current(g) /\ request[g.id[1]] = r
     /\ g.mode # "once"
     /\ g.mode = "session" => g.session = session}

\* handle_server_event up to its first wait: refuse what the policy disables,
\* execute what needs no approval or has one, refuse what names a target the
\* user has not registered or removed, and ask for the rest.  A call
\* whose fingerprint is known is answered from memory or not at all.
HandleServerEvent(c, r) ==
  /\ session > 0
  /\ \/ request[c] = NoRequest
     \/ request[c] = r /\ sessionOf[c] = session
  /\ c \notin known
  /\ \/ accepted[c] = 0 /\ UNCHANGED spent
     \/ 0 < accepted[c] /\ accepted[c] < MaxAccepted /\ Disturbance
  /\ accepted' = [accepted EXCEPT ![c] = @ + 1]
  /\ request' = [request EXCEPT ![c] = r]
  /\ sessionOf' = [sessionOf EXCEPT ![c] = session]
  /\ cancelled' = [cancelled EXCEPT ![c] = FALSE]
  /\ thread' = [thread EXCEPT ![c] = "none"]
  /\ \/ /\ ~policy.enabled \/ (r.tool \in Targeted /\ Reusable(c, r) = {})
        /\ Answer(c, "validation_failed")
        /\ UNCHANGED approval
     \/ /\ policy.enabled
        /\ known' = known \cup {c}
        /\ UNCHANGED <<answers, terminals>>
        /\ \/ /\ r.tool \notin NeedsApproval
              /\ approval' = [approval EXCEPT ![c] = NoGrant]
              /\ task' = [task EXCEPT ![c] = "queued"]
           \/ /\ \E g \in Reusable(c, r) : approval' = [approval EXCEPT ![c] = g.id]
              /\ task' = [task EXCEPT ![c] = "queued"]
           \/ /\ r.tool \in NeedsApproval /\ Reusable(c, r) = {}
              /\ task' = [task EXCEPT ![c] = "awaiting"]
              /\ UNCHANGED approval
  /\ UNCHANGED <<sessionVars, result, loaded, effects, fileVars>>

\* decide(): the user denies, or the timer of the card expires it.
RefuseCall(c) ==
  /\ Open(c) /\ task[c] = "awaiting"
  /\ \E status \in {"denied", "timed_out"} : Answer(c, status)
  /\ UNCHANGED <<sessionVars, accepted, cancelled, approval,
                 requestVars, threadVars, fileVars, spent>>

\* decide(): the user allows, and a thread stores the grant.
Allow(c) ==
  /\ Open(c) /\ task[c] = "awaiting"
  /\ task' = [task EXCEPT ![c] = "granting"]
  /\ UNCHANGED <<sessionVars, accepted, cancelled, approval, answerVars,
                 requestVars, threadVars, fileVars, spent>>

\* The grant is stored.  An open controller sends approved and queues the
\* call; a closed one leaves the grant behind.
RecordLocalUiApproval(c) ==
  /\ task[c] = "granting"
  /\ \E mode \in Modes(c) : Grant(<<c, accepted[c]>>, mode)
  /\ approval' = [approval EXCEPT ![c] = <<c, accepted[c]>>]
  /\ task' = [task EXCEPT ![c] = IF Open(c) THEN "queued" ELSE "ended"]
  /\ UNCHANGED <<sessionVars, accepted, cancelled, answerVars, requestVars,
                 threadVars, policy, records, reminders, aged, forgotten, spent>>

\* The store could not be written: the decision becomes a denial.
DenyInvalidDecision(c) ==
  /\ Open(c) /\ task[c] = "granting"
  /\ Disturbance
  /\ Answer(c, "denied")
  /\ UNCHANGED <<sessionVars, accepted, cancelled, approval,
                 requestVars, threadVars, fileVars>>

Occupied == {c \in Calls : Open(c) /\ task[c] \in {"started", "running"}}

\* _execute, from here on in a slot of the semaphore: a call cancelled in the
\* queue is answered cancelled, any other is reported running.
TakeSlot(c) ==
  /\ Open(c) /\ task[c] = "queued"
  /\ Cardinality(Occupied) < MaxTasks
  /\ \/ cancelled[c] /\ Answer(c, "cancelled")
     \/ /\ ~cancelled[c]
        /\ task' = [task EXCEPT ![c] = "started"]
        /\ UNCHANGED answerVars
  /\ UNCHANGED <<sessionVars, accepted, cancelled, approval,
                 requestVars, threadVars, fileVars, spent>>

\* The send of STARTED returned: the cancellation is looked at once more,
\* then the runtime starts in a thread.
Launch(c) ==
  /\ Open(c) /\ task[c] = "started"
  /\ \/ /\ cancelled[c]
        /\ Answer(c, "cancelled")
        /\ UNCHANGED <<thread, result>>
     \/ /\ ~cancelled[c]
        /\ task' = [task EXCEPT ![c] = "running"]
        /\ thread' = [thread EXCEPT ![c] = "authorize"]
        /\ result' = [result EXCEPT ![c] = "none"]
        /\ UNCHANGED answerVars
  /\ UNCHANGED <<sessionVars, accepted, cancelled, approval,
                 requestVars, loaded, effects, fileVars, spent>>

\* cancel(): only a queued or running call of a tool that supports it.
Cancel(c) ==
  /\ Open(c) /\ task[c] \in {"queued", "started", "running"}
  /\ ToolOf(c) \in Cancellable /\ ~cancelled[c]
  /\ cancelled' = [cancelled EXCEPT ![c] = TRUE]
  /\ UNCHANGED <<sessionVars, accepted, task, approval, answerVars,
                 requestVars, threadVars, fileVars, spent>>

\* The status of the ToolResult: what was reported running is not denied any
\* more.
WireStatus(c) == IF result[c] = "denied" THEN "failed" ELSE result[c]

\* Variant: a call cancelled meanwhile is not reported.
ReportUnlessCancelled(c) ==
  /\ Open(c) /\ task[c] = "running" /\ thread[c] = "returned"
  /\ \/ result[c] # "raised" /\ ~cancelled[c] /\ Answer(c, WireStatus(c))
     \/ /\ result[c] = "raised" \/ cancelled[c]
        /\ task' = [task EXCEPT ![c] = "ended"]
        /\ UNCHANGED answerVars
  /\ cancelled' = [cancelled EXCEPT ![c] = TRUE]
  /\ UNCHANGED <<sessionVars, accepted, approval,
                 requestVars, threadVars, fileVars, spent>>

\* The thread returned to the task; if it raised, nobody answers the call.
Report(c) ==
  /\ Open(c) /\ task[c] = "running" /\ thread[c] = "returned"
  /\ \/ result[c] # "raised" /\ Answer(c, WireStatus(c))
     \/ /\ result[c] = "raised"
        /\ task' = [task EXCEPT ![c] = "ended"]
        /\ UNCHANGED answerVars
  /\ cancelled' = [cancelled EXCEPT ![c] = TRUE]
  /\ UNCHANGED <<sessionVars, accepted, approval,
                 requestVars, threadVars, fileVars, spent>>

-----------------------------------------------------------------------------
(* The process.                                                            *)

RunThread(c) ==
  /\ Execute(c, approval[c], ~Open(c), cancelled[c])
  /\ UNCHANGED controlVars

\* What the event loop and the thread pool owe a call.  The card of a prompt
\* expires by its timer, so a prompt is decided.
CallStep(c) ==
  \/ RefuseCall(c) \/ RecordLocalUiApproval(c)
  \/ TakeSlot(c) \/ Launch(c) \/ Report(c)
  \/ RunThread(c)

LinkAgentNext ==
  \/ StartAgentSession \/ EndAgentSession \/ LinkCrashes
  \/ Environment /\ UNCHANGED controlVars
  \/ \E c \in Calls :
       \/ (\E r \in Offers[c] : HandleServerEvent(c, r))
       \/ Allow(c) \/ DenyInvalidDecision(c) \/ Cancel(c)
       \/ CallStep(c)

LinkAgentSpec == LinkAgentInit /\ [][LinkAgentNext]_agentVars

\* The semaphore of asyncio serves its waiters in turn, hence strong fairness
\* for a call that waits for a slot, and the lock of execute_once is waited
\* for by at most MaxTasks threads.
LinkAgentFairness ==
  \A c \in Calls :
    /\ WF_agentVars(CallStep(c))
    /\ SF_agentVars(TakeSlot(c))

-----------------------------------------------------------------------------
(* Properties.                                                             *)

\* How often the action a call stands for was done, by whichever call.
Done(c) ==
  LET same == {d \in Calls : request[d] # NoRequest /\ Action(d) = Action(c)}
  IN  FoldFunctionOnSet(LAMBDA x, y : x + y, 0, effects, same)

\* docs/PHASE3_RESULT.md:379-385 and agent/idempotency.py:30-35: a note, a
\* reminder or a launch happens once, however often it is delivered, retried
\* under a new id, or interrupted by a crash, as long as its record is kept.
NoRepeatedEffect ==
  \A c \in Calls :
    ToolOf(c) \in SideEffect /\ Action(c) \notin forgotten => Done(c) <= 1

\* agent/runtime.py:273-300: Core is told completed only of an action that
\* was done, by this call or by the one whose result is replayed.
CompletedIsReal ==
  \A c \in Calls :
    ToolOf(c) \in SideEffect /\ "completed" \in answers[c] => Done(c) >= 1

\* agent_controller.py:298-352: a call that Core was told is denied, expired,
\* cancelled or invalid had no side effect and will have none.
RefusedMeansUntouched ==
  \A c \in Calls :
    accepted[c] <= 1 /\ answers[c] \cap Refusals # {} => effects[c] = 0

\* agent/approvals.py:121-128 and agent_controller.py:368-371: every write was
\* allowed by the user for this very call.
WritesAreConsented ==
  \A c \in Calls :
    ToolOf(c) \in LocalWrite /\ effects[c] > 0 => \E g \in grants : g.id[1] = c

\* The calls whose task has not ended, and the ones the user has allowed.
OpenCalls ==
  {c \in Calls : task[c] \in {"awaiting", "granting", "queued", "started", "running"}}
AllowedCalls == {g.id[1] : g \in grants}

Promised == INSTANCE AgentPromise WITH
  Wants <- (UNION {Offers[c] : c \in Calls}) \cup [tool : Tools, business : Calls],
  SideEffects <- SideEffect, Writes <- LocalWrite, Statuses <- Results \cup Refusals,
  asked <- [c \in Calls |-> Action(c)], taken <- accepted, open <- OpenCalls,
  allowed <- AllowedCalls, told <- answers, done <- effects, lost <- forgotten

\* docs/PHASE3_RESULT.md:379-385: with its prompts, threads, files, sessions and
\* crashes, the Agent is an AgentPromise to Core and to the user.
AgentKeepsPromise == Promised!Spec

\* agent_controller.py:91-352: a request that was taken is answered, unless the
\* session ends or the audit file cannot be written.
CallIsAnswered ==
  \A c \in Calls :
    (Open(c) /\ task[c] # "none")
      ~> (answers[c] # {} \/ ~Open(c) \/ result[c] = "raised")
=============================================================================
