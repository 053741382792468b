# Nivelle in TLA+

TLA+ specifications, TLC instances and TLAPS proofs for Nivelle, an assistant made of
*Core* (a FastAPI server that owns conversations, the language model and all durable state)
and *Link* (a desktop client that owns the user's machine). This file says what the system
is made of, which part of it is modelled and how, what the model checker and the proof
system establish, and what is left.

Paths are relative to `src/`. `PROJECT.json` maps every definition to its lines and lists
runs, mutants, hazards and theorems.

## 1. The system

| Component | State it keeps | Operations | Talks to | Hard because |
|---|---|---|---|---|
| Tool repository (`nivelle_core/tool_repository.py`) | `tool_calls`, `tool_idempotency`, `tool_call_events`, `client_capabilities` | create, transition, queue with limit, approve/deny, record result, advertise, disconnect | orchestrator | three tables must agree; limits are counted over all sessions of a client |
| Tool orchestrator (`tool_orchestrator.py`) | none | one method per lifecycle step | repository | reads the live capability in one transaction and writes in another |
| Agent gateway (`agent_gateway.py`) | sessions, waiters (`_pending`), remembered outcomes, four asyncio locks, one timeout task per waiter | register, refresh, dispatch, events, results, expiry, disconnect | orchestrator, chat turns, Agent sockets | results, timeouts, reconnects, cancellations and revocations race; teardown takes neither the dispatch nor the result lock |
| Tool execution of a turn (`tool_execution.py`) | local | propose, validate, ask, execute for each proposal | gateway | some errors end the call, others the whole turn |
| Agent socket and start-up (`app.py`) | one receive loop per Link | receive, close, recover | gateway | an error in a handler ends the session |
| Chat turn (`app.py`, `repositories.py`) | in-flight ids, busy conversations, message rows | claim, allocate, stream, complete, cancel, recover | model runtime, tool execution | completion against cancellation, duplicates, restart |
| Model runtime (`model_runtime.py`, `llm.py`) | request records, active tasks | stream, fall back, cancel | providers | fallback is allowed only before the first delta |
| Memory (`memory_*.py`) | memories, revisions | create, correct, supersede, disable, forget, retrieve | chat turn | reads of a retrieval fall between writes |
| Persona (`persona.py`) | two YAML documents with backups | save, repair, build a prompt | chat turn, admin API | two files, replaced one after the other |
| Settings (`config.py`) | YAML files, `settings_revisions` | save, roll back | admin API | file and table are written one after the other |
| Database schema (`database.py`) | markers, tables | migrate, back up, rebuild | start-up | some scripts commit before their marker |
| Pairing, admin (`auth.py`, `admin_control.py`) | code, tokens, devices, sockets per client | pair, verify, promote, revoke | gateway, chat sockets | revocation against sockets that are opening; the last administrator |
| Audio jobs (`audio_analysis.py`) | jobs, index by hash, worker slot | start, run, cancel, prune, shut down | REST | a join with a job that is being cancelled |
| Link connection (`nivelle_link/network.py`, `app.py`) | profile, generation, attempt, retry task, chat socket | connect, probe, retry, disconnect, shut down | Core | answers of an older generation; six tasks share one manager |
| Link agent controller (`agent_controller.py`) | pending prompts, fingerprints, terminal messages, semaphore | request, decide, cancel, execute | Core, local runtime, UI | prompt and Core timer run on two clocks; threads outlive their session |
| Link local execution (`agent/*.py`) | grants, idempotency records, reminders, policy, audit (JSON files) | authorize, execute once, revoke | tools | a crash between record and side effect |
| Chat window of Link (`app.py`, `windows.py`) | bubbles, streaming state, conversation id, load task | send, show, load, switch server | Core | history, replays, completion and switches meet in one window |
| Microphone (`realtime_audio.py`) | bounded queue, ring buffer, worker thread | start, deliver, stop | audio device | overruns, wrap-around in the middle of a chunk |
| Launcher, installer (`nivelle.py`, `nivelle_runtime.py`) | child processes, `models.yaml`, downloads | start, wait, clean up, download, extract | OS | two launchers share ports and files; downloads resume |
| Local migration (`nivelle_protocol/local_migration.py`) | data roots | copy, promote, mark | every program | two starters, crashes, a legacy program that still writes |
| Rest of the UI, schemas, updater | | | | GUI code, schemas, PowerShell file transactions |

A tool call crosses the first five rows. The chat turn proposes it (a row), Core validates it
against the advertisement of the Link session it is pinned to, asks for approval if the tool
needs one, queues it if the Link has a free slot and sends it. Link's controller checks it, asks
the user if the tool needs that, and runs it in a thread under its own records. Link reports
approval, start and outcome. The waiter of the turn is resolved by a result, a failure event, its
timer or the teardown of the session, whichever comes first; the row must tell the same story.

What makes each component correct, in one line each: repository, *outcomes are final, limits
hold, the three tables agree*; gateway, *the turn is told the truth, once, and always*; chat
turn, *one durable outcome per message and one event that agrees with it*; model runtime, *no
answer spliced from two providers*; Link execution, *no side effect twice, none without a
grant*; connection, *nobody waits for ever and a manual disconnect is respected*; chat window,
*each message once, and as stored*; audio jobs, *one job per content, every job ends, files are
removed*; settings, persona, schema, migration, *a crash or a full disk loses nothing*.

## 2. The modules

| Module | Models | Role |
|---|---|---|
| `ToolProtocol` | status graph of `nivelle_protocol/tools.py` | shared vocabulary |
| `ToolRepository` | `tool_repository.py` | the durable tables; `RepoSpec` lets any caller do anything at any time |
| `AgentGateway` | `agent_gateway.py`, `tool_orchestrator.py`, `tool_execution.py`, the Agent part of `app.py` | the concurrent program over those tables |
| `ToolCallPromise` | no code | abstract specification: what a chat turn may rely on |
| `AgentPromise` | no code | abstract specification: what Core and the user may rely on of Link's Agent |
| `ChatTurn` | the chat socket of `app.py`, `repositories.py`, `model_runtime.py` | turns, rows, providers |
| `AudioJobs` | upload handler, `audio_analysis.py` | jobs, worker threads, files |
| `Settings`, `Persona`, `Memory`, `Schema` | `config.py`, `persona.py`, `memory_*.py`, `database.py` | durable data of Core |
| `Access` | `auth.py`, `admin_control.py`, sockets of `app.py` | pairing, roles, revocation |
| `LinkExecution`, `LinkAgent` | `nivelle_link/agent/`, `agent_controller.py` | the Agent of Link: threads over files, and the tasks that start them |
| `LinkConnection` | `network.py`, connection tasks of `nivelle_link/app.py` | connect, retry, monitor, shut down |
| `LinkChat` | `send()` and history of `nivelle_link/app.py`, `MainChatWindow` of `windows.py` | the chat window against Core |
| `RealtimeAudio` | `realtime_audio.py` | microphone pipeline |
| `LocalMigration`, `RuntimeInstall`, `Launcher` | `local_migration.py`, `nivelle_runtime.py`, `nivelle.py` | start-up of a machine |
| `MCToolRepository`, `MCAgentGateway`, `MCLinkAgent` | | constants of TLC instances |
| `MCComponents`, `MCWorkers` | | one instance of many components, see section 3 |
| `AgentGatewayProofs`, `GatewayWaiterProofs` | | theorems about the tables and the gateway |
| `DataInduction` | | lemmas: induction over numbers, loops, sums, finite sets |
| `CoreProofs` | | theorems about `ChatTurn`, `AudioJobs`, `Settings`, `Persona`, `Memory`, `Access`, `Schema` |
| `LinkProofs` | | theorems about `LinkConnection`, `RealtimeAudio`, `LocalMigration`, `RuntimeInstall`, `Launcher` |
| `LinkChatProofs` | | theorems about `LinkChat` |
| `LinkAgentProofs` | | theorems about `LinkAgent` |
| `ComponentsProofs` | | theorems about `MCComponents` |

`AgentGateway` EXTENDS `ToolRepository` and calls its transactions; `LinkAgent` EXTENDS
`LinkExecution` and starts its threads. The two ends of a tool call are not composed into one
state space: `AgentGateway` lets a Link send any event for a delivered request at any time, and
`LinkAgent` lets Core send any request, repeat it and cancel it at any time, so each end is
checked against more than the other can do.

**`ToolRepository`.** Each public method is one `BEGIN IMMEDIATE` transaction, so it is one
action. A method that raises rolls back and is not an action. The variables are the columns that
matter: `status`, `target` (the session a call is pinned to), `ledger`
(`tool_idempotency.outcome_status`), `entered` (the set of `to_status` values in the audit
trail; order and duplicates are not kept) and `cap` (the session has an enabled row that has
not expired; one tool stands for all of them).

**`AgentGateway`.** One action is the code of one task between two awaits that can suspend.
Every database write is a step of its own. Reads that precede a decision are one step with
that decision. The tasks are

* `prop[c]`: `execute_tool_proposals` and `dispatch` for call `c`. Calls of one turn run one
  after the other (`TurnContinues`).
* `sock[s]`, `msg[s]`: the receive loop of an Agent socket and the message it is handling.
* `timer[c]`: the `_expire_call` task of a waiter.
* `teardown`: `_disconnect_without_lifecycle`, which has an owner (a proposal, a socket, a
  revocation) and runs in three steps: forget the session and its waiters, close its rows,
  resolve the waiters.

The locks are not variables: a lock is held exactly by the task whose program counter is in
its `async with` block (`DispatchLocked`, `ResultLocked`, `LifecycleLocked`). `_state_lock`
and `send_lock` never span a step another task could see. `live`, `offered`, `seen`,
`pending`, `awaiting`, `future` and `terminal` are the fields of the Python object.
`answer[c]` is what the turn is given.

The environment (users, Link, the network, the clock) chooses freely: when turns propose and
are cancelled, when sockets come and go, which event or result a Link sends for any request
whose delivery has begun, when deadlines and advertisements expire, when a device is revoked.

**Abstractions to know of.**

* A timer whose own transaction is refused holds its locks for one step more than the code
  does before it ends the wait, so the model allows a few more interleavings.
* Progress events change no status and are dropped; so are their sequence numbers.
* `tool.validation_failed` is handled like `tool.failed` and shares its kind.
* Every socket has a session id of its own; the refusal of a reused id is not modelled.
* `create_tool_call` can return an earlier row for a repeated id; its only caller uses fresh
  UUIDs, so that branch is left out. `prune_terminal_before` and `send_payload` have no caller.
* A cancelled task stops at an await; a transaction it was waiting for counts as done or not
  done, both of which the model has.

**`ChatTurn`.** A turn is a `generate()` task: claim of request, message and retry ids, claim of
the conversation, allocation of the two rows, stream, tools, storing of the end, event. A
cancellation (`chat.cancel` or the end of the socket) is requested and later delivered, and the
statement it interrupts has been done or not. `MaxUpsets` counts cancellations, closed sockets,
failing writes and restarts. Providers are numbered; `texts[t]` is the set of providers whose
text the answer holds.

**`LinkExecution`, `LinkAgent`.** A call is performed by a thread (`thread` of
`LinkExecution`): policy, grant, pending record, effect, completed record, audit. Each JSON file
is one variable and each replacement one step. `execute_once` is several steps, because its lock
belongs to one runtime and Link makes a runtime per session. The controller's task for the call
waits for the user, for the semaphore and for the thread. A closed session stops its tasks and
not its threads (`Overlap` lets the next session start before they end). Five tools stand for
the kinds of effect: none, cancellable, launch, guarded write, reminder with its own file.

**`LinkConnection`.** `manager` is `ConnectionManager` with its one attempt and its one retry
loop; `front`, `monitor`, `send`, `closing`, `phase` are the tasks of the application. A
generation is only ever compared with the current one, so attempts and loops carry a `stale` bit
instead of a number. **`LinkChat`** takes the connection as: a probe that reached a Core, the
server that authenticated, one socket that is up, closing or down. Its view functions are those
of `MainChatWindow`, case by case; two of their branches (a completion the window refuses, a load
that is answered during a turn) are defensive and never reached in the program, which the
coverage of the run shows.

**`Settings`, `Persona`, `Schema`, `LocalMigration`, `RuntimeInstall`, `Launcher`.** Each file,
marker or process is a variable, each atomic replacement, rename, commit or spawn a step, and
failures and crashes fall between them. **`Memory`** has one action per transaction and two per
retrieval; the scores are any ranking that puts attached memories first. **`Access`** has the
steps of a socket's handshake and of a revocation. **`AudioJobs`** has one action per stretch of
`_run` and per thread. **`RealtimeAudio`** numbers samples, so that order and identity are
visible.

## 3. What the runs check

| Run | Instance | Question |
|---|---|---|
| `repository` | 3 calls of a turn that may have 2, 3 sessions of 2 Links, 1 slot each; symmetric calls | do the tables keep their promises whatever the callers do? |
| `gateway_reconnect` | 1 call with approval, 2 sessions of 1 Link, 1 cancellation, advertisements change and expire | does every interleaving of proposal, socket, timer, takeover and revocation tell the turn the truth? |
| `gateway_two_calls` | 2 turns, 1 session, 1 slot, one call needs approval, advertisements change | the same under contention for locks and for the slot |
| `gateway_one_turn` | 3 proposals of one turn, limit 2, memory of 1 outcome | do late and repeated results of forgotten calls do harm? |
| `gateway_faults` | 1 call, 2 sessions, 1 failing transaction, 1 restart, 1 cancellation | what survives failures? |
| `gateway_live` | 1 call, 1 session, changing advertisements, fair | does everyone who waits get an answer, and do the calls of a closed connection end? |
| `gateway_live_two_calls` | 2 calls, 1 session, 1 slot, changing advertisements, fair | no starvation or deadlock over the three locks |
| `gateway_restart_orphans` | fair, 1 restart | violated: see 5 |
| `gateway_torn_teardown` | fair, 1 fault | violated: see 5 |
| `components` | fourteen components, each in turn, see below | is each of them right under its own interleavings and failures? |
| `workers` | Link's Agent with 2 calls (a note; a search, a note or a reminder), 2 sessions, a request that may be taken twice; 2 uploads of one content, 1 worker slot; fair | is every call answered, does every job end without its files, and does the Agent keep its promise step by step? |
| `link_two_runtimes` | 3 calls, 2 sessions that may overlap | violated: see 5 |

**One run for many components.** `MCComponents` EXTENDS fourteen components that share no
variable and adds `focus`, the component whose steps a behaviour consists of; the others rest in
one of their initial states. The state space is the disjoint union of theirs, not the product:
TLC explores each as it would alone. What rests is not part of any claim. `MCWorkers` does the
same for liveness, with smaller bounds, since the tableau of TLC multiplies the states.

| Component | Instance in `components` |
|---|---|
| `ChatTurn` | 3 requests on 2 sockets: a message, the same one again on the other socket, its retry; 2 providers; 2 upsets |
| `AudioJobs` | 3 uploads, two with one content, one that is decoded first; 1 retained job; 2 stops |
| `Settings` | 2 sections, 3 saves or rollbacks, an override from the environment; 1 failing write or crash |
| `Persona` | 2 documents, 2 saves, 2 failures or crashes; histories of up to 6 messages around a budget |
| `Access` | 3 devices, 3 codes, 2 sockets of one device |
| `Memory` | 2 memories, 3 contents (one fact in two spellings, and its contradiction), 2 writes around a retrieval |
| `Schema` | all 9 versions, any prefix of old markers, 3 starts |
| `LinkAgent` | 2 calls with every pair of tools that can meet, 2 sessions, 1 disturbance; queue, records and memory of 1 |
| `LinkConnection` | unbounded, 1 profile |
| `LocalMigration` | 2 starters, 3 openings, 3 files, 1 write of the legacy program |
| `RuntimeInstall` | 2 chunks, 3 attempts, 3 starts, 1 altered file |
| `Launcher` | 2 launchers in any mode |
| `RealtimeAudio` | ring of 3, queue of 2, chunks of 1, 2 and 4, hop 2, 8 samples, 2 captures |
| `LinkChat` | 2 servers, 2 turns, 2 deltas, 1 repeated event or lost socket |

The properties, with the hazard behind each:

* `SuccessIsDurable`, `ToldIsTerminal`, `NoLateSuccess`: a turn is told success only for a
  completed row, is told anything only for a terminal row, and a row whose turn was told
  "timed out" or "failed" never turns out completed. The last two hold without faults only: a
  timer whose transaction *fails* reports a timeout for a row that is still running, which is
  what its handler is written to do, so `gateway_faults` does not list them.
* `ResolvedOnce`: a waiter never changes its verdict.
* `NoExecutionWithoutApproval`: on every path.
* `WaiterIsGuarded`: an open waiter has a timer, or a teardown that is about to resolve it.
* `GoneSessionLeavesNothing`: after a teardown no call of the session is left in a state a
  later step could execute, whatever handlers it fell between. Faults excepted: a torn teardown
  leaves rows behind.
* `OneSessionPerClient`: during takeovers too.
* `ParallelLimit`, `TurnLimit`, `LedgerAgrees`, `AuditTrailIsComplete`, `OutcomeIsFinal`:
  the promises of the tables.
* `RepositorySteps`: every step of every task is a repository transaction or leaves the tables
  alone, so what holds of `RepoSpec` holds of the gateway.
* `KeepsPromise`: refinement of `ToolCallPromise`; rows walk the protocol's graph and turns are
  told about each call once and never ahead of its row.
* `WaiterIsAnswered`, `DisconnectedCallsEnd`: liveness.
* `TurnsAreSettled`: the client is told "completed" only of a completed row, "cancelled" or
  "failed" only of one that is not, and a turn that is over leaves no row generating unless a
  failure or cancellation tore its last transaction. `ConversationHasOneTurn`: no two turns on
  one conversation, message, request or retry, whatever the sockets. `RetryMeansInterrupted`: a
  message that was retried was interrupted and stays so. `NoSplicedAnswer`: an answer is the
  text of one provider.
* `OneJobPerContent`: one live job per content, and it can be found. `FilesAreRemoved`
  (liveness): uploads do not outlive their job unless Core crashes.
* `SavesLoseNothing`: revisions chain, also after a failed insert; what a persona save was told
  to keep is in the document or in a backup; prompts fit and leave out nothing that would fit.
* `AnAdminRemains`, `RevocationEndsSockets`: concurrent demotions never remove the last
  administrator; after a revocation the client has no socket but one still in its handshake.
* `OneFactIsTold`: neither the store in force nor a prompt states a fact twice or a fact and its
  contradiction, although memories change between the reads of a retrieval.
* `OutcomesAreTrue`: Link's Agent. An effect happens once per business action for as long as its
  record is kept, across retries under new ids, crashes, revocations and evictions; "completed"
  means it happened; a refused call had and will have no effect; a write needs the user's consent
  to this very call.
* `AgentKeepsPromise`: refinement of `AgentPromise`, which says the same of the steps and adds their
  order: a call is told something only while it waits, each time it was taken at most once; an
  action is performed only by a call that was taken more often than it acted, with consent in
  hand, and not after Core heard a refusal; the user allows only what waits. Prompts, slots,
  threads, sessions, grants and records are hidden behind it; a session that ends or a crash
  is a step that drops calls. `CallIsAnswered` (liveness).
* `RetryFollowsIntent`: in `RECONNECT_WAIT` somebody is retrying, although a retry is often handed
  to a loop of an older generation; after a manual disconnect no task brings a connection back.
* `NothingIsStranded`: a request is told when its socket goes, whoever closes it; the shutdown of
  Link, of the launcher and of a capture leave no task, process or thread.
* `ViewIsFaithful`: the window shows each message once, a final reply as stored and a running one
  as a prefix of it, and keeps the running turn, unless the server is switched under it.
* `UpgradeIsWhole`: the database migration, the data migration and the installer, broken off
  anywhere and started again, lose nothing and put only complete things in place.
* `RingKeepsLatest`: the analysis sees the latest samples in order.

**Bounds.** Two sessions are what a takeover needs; the second call is what contention needs;
the third what a limit of two needs. `MaxCancels`, `MaxFaults` and `MaxRestarts` count
environment events that would otherwise recur for ever; one of each already falls into every
state of every handler. `LinkKinds` is everything Link can send, except in the two-call
liveness and teardown instances, which use an ordinary execution. `CapabilityChurn` switches
refreshes and expiry, which multiply the states, on in the instances that are about them.
The theorems of section 4 have none of these bounds.

In the component instances, two of an actor is what a race needs, a capacity of one is what an
eviction or an overrun needs, and one or two disturbances fall into every state of every task.
A larger `LinkAgent` (3 calls, overlapping sessions) is what `link_two_runtimes` explores.

**Deadlock** is checked except where a fault can strand the system for good
(`gateway_faults`, `gateway_torn_teardown`) and in `components`, `workers` and
`link_two_runtimes`, whose behaviours end when the bounded requests, uploads and starts are used
up; `AtRest` is the only state in which the gateway may stop.

**Fairness.** The event loop runs every runnable task and deadlines pass: weak fairness for
each task. `asyncio.Lock` serves its waiters in arrival order, so a task that waits for
`_lifecycle_lock` gets it however often others take it in between: strong fairness for
`Disconnect` of proposals and sockets. Users, Link and the network owe nothing: a Link that
never sends another byte is in every fair behaviour, and `WaiterIsAnswered` then rests on the
timers alone. `DisconnectedCallsEnd` is conditional on the socket being closed, for the same
reason.

In `workers` every task and thread goes on (`CallStep`, `JobStep`: weak fairness), and a
semaphore or the worker slot, which asyncio grants in arrival order, is taken eventually although
others take it in between (`TakeSlot`, `TakeWorker`: strong fairness). Nothing is assumed of Core
or the user: a prompt ends by its own timer.

**Mutants.** Each property of each passing run has a variant of a mapped definition that
breaks it (the definitions marked "Variant"): a dropped `if not future.done()`, a limit
compared with `>`, a result that skips the result lock, a teardown that closes executing
calls only, and so on.

## 4. What is proved

All theorems hold for every finite set of calls, requests, uploads or memories, any number of
sessions, clients, turns, starters and launchers, any limits and capacities, and any number of
cancellations, faults, restarts and retries. They rest on the `ASSUME`s of the modules only,
which say of the constants what the code has by construction: calls, requests and uploads are
finite, sessions have one client, limits are positive, there are one or two providers, a special
value is not a member of what it stands outside of (`NoneAssumption`, `NoJob`, `NoMemory`),
histories are sequences of messages with a role and a size. TLC evaluates each of them.
Hypotheses beyond these are part of a theorem's statement and are named below.

Every invariant and action property of section 3 is a theorem, and so are the refinements
`KeepsPromise` and `AgentKeepsPromise`.

*Repository* (first part of `AgentGatewayProofs`). `RowInv` (types, ledger, audit trail, and
`RunsWereQueued`: a running call has a queued event) is inductive: `LedgerAgrees` needs nothing
else, but "completed was queued and running" needs to know it one state earlier. From it follow
`RepoTypes`, `RepoLedger`, `RepoAuditTrail` and, as an action property, `RepoOutcomesFinal`.
The limits need counting: `LimitInv` holds because each transaction either adds one call to a
count it has just found below the limit, or only removes calls
(`FS_CardinalityType`, `FS_Subset`, `FS_AddElement`).

*Gateway* (second part of `AgentGatewayProofs`).

1. `GatewayInv` = row invariants, types of the memory, of the tasks, and `MessageInv`: the
   message a socket is handling fits the step it is at and concerns a call of that socket's
   session. Without it one cannot know that the socket writes a legal outcome. `GatewayTypes`.
2. Each action is a repository transaction or changes no table: `GatewayRepositorySteps`. With
   the initial states this gives `GatewayImplementsRepository` (`Spec => RepoSpec`), and
   through it the theorems about the tables carry over, `GatewayParallelLimit` among them.
3. `GatewaySuccessIsDurable`: a success is written by a socket at `finish` with a `completed`
   result; `CommittedInv` says that the row of such a message is already completed, which holds
   because `WriteOutcome` is the only way into `finish` and outcomes are final. The first
   version of this argument without `OutcomeIsFinal` fails at the teardown that falls between
   the write and the finish.
4. `GatewayResolvedOnce`: a registered call is registered once, since a call that is about to
   be dispatched has never had a waiter (`FutureInv`).
5. `GatewayNoExecutionWithoutApproval`: `ApprovalInv` relates the three places a call can be on
   its way to execution: the proposal loop (never queues a call that needs approval), the
   socket (is at `queue` only after the approval was recorded) and the row.
6. `GatewayOneSessionPerClient`: `LifecycleInv` states that at most one socket is inside
   `register` or a refresh, that a teardown excludes the others, and that at `add` no other
   session of the client is live.

*Waiters and sessions* (`GatewayWaiterProofs`). These hold while no transaction has failed, and
are stated as `faults = 0 => ...`, since a timer whose own transaction fails reports a timeout
for a row that still runs (the hypothesis is about the state, not about the instance).

1. `GatewayToldIsTerminal`, `GatewayNoLateSuccess`, `GatewayWaiterIsGuarded` follow from
   `WaiterInv`. Its heart is what each of the four actors has in hand between two of its steps:
   `Recording` (a socket at `finish` announces what is on record), `TimerStatus` (a timer at
   `lapse` found the row queued or later, one at `finish` found it over), `TornDown` (a teardown
   whose transaction is in has closed the rows of the waiters it holds), `WaiterStatus` (what a
   waiter in `_pending` knows of its row). `CompletedIsTaken` is what excludes the late success:
   while a completed row has a waiter, a socket at `finish` holds the result lock, and
   `LocksExclude` keeps the timer out of its own result section meanwhile. `Guarded` says who
   will resolve each open waiter.
2. `GatewayGoneSessionLeavesNothing`, also under `restarts = 0` (a restart forgets sessions
   without closing rows, which is the finding `gateway_restart_orphans`): `RegistryInv` carries
   `RowsClosed`, that a session which is seen and no longer live, or whose teardown has
   committed, has only rows that are over or were just proposed, and `mark_valid` cannot follow.
3. `GatewayKeepsPromise`: with `MaxFaults = 0` the gateway implements `ToolCallPromise`; the
   initial states map to initial states and each step to a step of the promise or a stutter,
   from `GatewayRepositorySteps`, `RowsExist` (a turn is told once, at the end) and
   `ToldIsTerminal`.

*Components of Core* (`CoreProofs`).

* `ChatTurn`: `ChatInv` has `ClaimInv` (what a turn claims is exactly the ids of its stage, and
  claims of two turns are disjoint), `StageInv` (what the stage of a turn says of its row, of
  the events sent and of the provider of its text) and `RetryInv` (the verdict of `Look` still
  holds when the rows are inserted, because the ids it was about are claimed in between). From it
  `ChatConversationHasOneTurn`, `ChatEventsAgreeWithRows`, `ChatSettledUnlessTorn`,
  `ChatRetryMeansInterrupted`, `ChatNoSplicedAnswer`.
* `AccessRevocationEndsSockets` needs to know what a revocation holds between popping the sockets
  and closing them (`PoppedInv`, `DisconnectInv`). `AccessAnAdminRemains` is an action property
  and follows from the transactions alone.
* `SchemaNothingIsLost`: the markers are always a prefix `1 .. k` and the content is at most one
  version ahead (`NumberedInv`), for every version a start may find.
* `SettingsRevisionsChain`: `ChainInv` adds to the property that the last revision agrees with
  the file, or with what the save at work read; `LockInv` that a lock has one holder and a
  queue without repetition.
* `AudioOneJobPerContent`: a job at work is in the index under its hash (`JobInv`).
* `MemoryOneInForce`, `MemoryPromptIsConsistent`: the loop that chooses memories (`Chosen`) keeps
  out what repeats or contradicts an earlier choice, by induction over the ranking.
* `PersonaFailedSaveLosesNothing`, and `PersonaPromptFits` for every history and budget, not the
  six-message ones of TLC: sums over a suffix of the history, by induction over its length.

*Desktop* (`LinkProofs`).

* `MigrationWhole`: a staging tree that is marked holds everything, for any number of starters;
  `InstallSound`; `LauncherCleansUp`.
* `CaptureRing`: for every ring size and every chunk size, also those larger than the ring, the
  buffer read from its write index is the suffix of what was pushed (`RingHolds`); the queue and
  the chunk in hand are later than it and in order (`QueueInv`). `CaptureEnds`.
* `ConnectionRetries`, `ConnectionManual`, `ConnectionTellsSend`, `ConnectionShutsDown`: `Fine`
  is stated of a manager record and the tasks, so that each operation of `ConnectionManager` has
  one lemma, which every task that performs the operation cites. Its parts are `Covered` (a
  manager that waits to reconnect has a loop) and `Off` (after a manual disconnect whatever is
  under way is stale).

*Link's chat window* (`LinkChatProofs`). The properties only speak of bubbles and rows; that they
are kept depends on what is still on the way. `ViewInv` =

* `ViewShape` (types) and `RowsFollow`: a turn has a row only once its request has reached Core,
  a load and a turn exclude each other, and the inbox is empty unless the socket is read.
* `ViewIsSound`: no two bubbles are of one message (`OneBubbleEach`), a bubble is of a turn that was
  sent, and a turn in `finished` is over at Core and its bubble reads as stored.
* `FoundIsStored`: what a load has found stays true of the rows until it is shown, since the text
  of a turn that is over no longer changes and a reply that is generated is loaded empty; equal ids
  are equal messages.
* `TurnInView`: the bubble of the turn under way is either waiting (`Waits`) or streaming
  (`StreamsTo`) and holds `Counted(last)`, the deltas up to the last one shown; after a change of the
  server the window may be empty instead.
* `EventsFollow`: the events in the inbox continue the text. In front of the failure of the socket
  each delta is the next one or has its predecessor in front of it (`DeltasInOrder`, so a repeated
  event cannot skip one), while the socket has not failed no delta is missing (`AllCome`), and
  `completed` carries the length of the row.

Without `EventsFollow` the prefix in `ShownAsStored` is not inductive: a delta that arrives out
of order would be appended, as the window only drops older ones. The operations of the window
(`Added`, `Renamed`, `Begun`, `Appended`, ...) have one lemma each; the two loops (`load_messages`,
`ConversationRepository.messages`) are recursive functions, and their lemmas (`LoadedIs`,
`MessagesOfIs`) are inductions by `DataInduction`. From the invariant `LinkChatTypes`,
`ViewShownOnce`, `ViewShownAsStored`, `ViewKeepsTurn` follow, for any number of turns, deltas and faults.

*Link's Agent* (`LinkAgentProofs`). `AgentInv` = `Shape` (types, and which fields of a call's task
and thread go together), `Order` (a refused call has no thread with an effect and never will),
`Consent` (a grant in the hand of a thread was given to this call), `RealReports` and `RealNotes`
(nothing is reported or recorded that was not done). It gives `AgentWritesAreConsented`,
`AgentRefusedMeansUntouched`, `AgentCompletedIsReal`, overlapping sessions included.
`AgentNoRepeatedEffect` has the hypothesis `~Overlap` and needs it: `link_two_runtimes` shows the
violation otherwise. Its strengthening `AgentOnce`: one runtime executes and one thread writes
(`OneRuntime`); the writer holds every record of the file (`Held`); what was done is on record or
forgotten (`OnRecord`, `Rows`); an action that is not forgotten was done by one call, once
(`Single`), and a thread about to do it has nothing done before (`Fresh`).

The lemmas are organised by who moves: a step is one of the controller for a call (`ControlActs`),
one of the call's thread (`ThreadActs`), the end of a session or of Link, or it touches no call
(`AgentSteps`). A step of one call leaves the others as they are (`OthersStay`), and `ThreadMoves`
says once what a thread can do to its own. `AgentDeliversPromise` maps each of these to a step of
`AgentPromise`: an answer is a `Tell` (`TellStep`, from `Order` and `RealReports`), a change of
`effects` a `Perform` (from `Fresh` and `Rows` that it is new, `EffectIsNew`, and from `Consent`),
a stored grant is the only source of consent (`AllowedFrom`), and whatever else a thread or the
user does is a `Drop` or a `Forget`. It has the hypothesis `~Overlap`, since the promise contains
that nothing happens twice.

*Composition* (`ComponentsProofs`). `AllSpec` moves one component at a time, so it implements the
specification of each: every step of `AllNext` is a step of the component or leaves its variables
alone. The theorems above therefore carry over to all the properties the run `components` checks,
as `AllTurnsAreSettled` to `AllViewIsFaithful`, `AllTypes` and `AllComponentsKeepTheirs`;
`AllOutcomesAreTrue`, and what `AllComponentsKeepTheirs` says of the Agent, inherit `~Overlap`.

*Induction over data* (`DataInduction`). A theorem that takes an operator as a parameter cannot be
instantiated by the installed provers, so induction is stated of a *set* of numbers, from the
well-foundedness of the natural numbers (`LeastNumber`, `Induction`, `SubsetInduction`). A loop is
a function from step numbers to functions on states (`Loops`), its values a function `f` with
`Follows(f, n, x0, step)`; `FoldExists`, `SumExists` and `FoldIsSum` connect this with the folds
of the community modules. The loops of `Memory`, `Persona` and `LinkChat` are recursive functions.

*Only model-checked:* liveness under fairness (`WaiterIsAnswered`, `DisconnectedCallsEnd`,
`CallIsAnswered`, `FilesAreRemoved`), which this prover cannot do.

## 5. Findings

* `gateway_restart_orphans`: `docs/TOOLS_ARCHITECTURE.md:130-131` requires that the unfinished
  calls of a lost connection end as `client_disconnected`. When Core restarts nobody does this:
  start-up recovers conversations only. Queued and running orphans count against the parallel
  limit of their client from then on.
* `gateway_torn_teardown`: a comment in `dispatch` says that the disconnect path resolves every
  waiter. It pops the waiters, then runs a transaction, then resolves them; an exception or a
  cancellation of the task in between leaves them unresolved for ever.
* `link_two_runtimes`: `docs/PHASE3_RESULT.md:379-380` says that notes, reminders and launches
  happen once per key. The guard is a file that every `AgentRuntime` rewrites whole under a lock
  of its own; the thread of a closed session and the runtime of the next one overwrite each
  other's records, and a note is written twice.

**Observations** met while modelling. No document contradicts them; the models contain them, and
the properties are stated so that they hold with them.

* Tool calls: a call refused for the parallel limit stays `validated` until its session ends; an
  `approved` event for a turn that was cancelled tears the whole Agent session down.
* Chat turn: a cancellation during the commit of `allocate_turn` leaves a row `generating` until
  the next restart; so does a second cancellation while the first one stores `interrupted`. A
  `chat.cancel` before the first step of the task ends the turn without an event.
* Audio: when `_decode_with_ffmpeg` fails with an `OSError` its temporary file stays; an upload
  with the content of a job that is being cancelled is told "cancelled".
* Settings: `validate()` fills a legacy `advertised_host` from the current value before the save
  has its lock; the restore after a failed insert writes the endpoint the environment gave.
* Access: two codes redeemed before the first insert make two initial administrators.
* Link connection: when the chat socket is lost while the retry loop is inside `_connected`, the
  loop can end `FAILED` with auto-reconnect on and nobody retrying; a manual disconnect at that
  point can end `FAILED` or `AUTHENTICATING` rather than `MANUAL_OFFLINE`; the settings dialog and
  the loop can be in `_connected` together; `connect()` joins an attempt of an older generation.
  `RetryFollowsIntent` claims only what the state shown to the user promises.
* Chat window: a message sent between the probe of another server and `_activate_server_key`
  carries the conversation id of the old server and is refused, and the switch clears its bubbles;
  events read while the old socket closes can set the conversation id after a switch.
* Migration and launcher: a second launcher that reads `models.yaml` between its creation and its
  write gets the defaults; `configure_real_model` can overwrite a concurrent save of Core.
* Microphone: a chunk that does not hold whole frames would misalign the decoder.
* Link execution: an audit write that fails after the effect turns `completed` into `failed`.

## 6. Not modelled, and why

* Other management windows of Link (memory, persona, admin console, audio panel) and widgets:
  thin calls of modelled endpoints around Qt code. The memory window has no generation, so an
  older answer can replace a newer one there; nothing depends on it.
* Signal processing (`audio_analysis.py`, `realtime_audio.py` filters), retrieval scores, llama.cpp
  streaming in `llm.py`: arithmetic and I/O on one task.
* `path_security.py`, schemas of `nivelle_protocol`, address detection: functions of strings.
* PowerShell updater and build scripts: transactions of files in another language, without
  concurrency of their own.
* The rate limit of pairing attempts (counts per minute), `prune_terminal_before`, `send_payload`
  (no callers).

## 7. Plan

Every safety property the runs check is a theorem; liveness stays with TLC. What remains worth
proving: that the waiters keep their promise from a state in which a transaction has failed but no
waiter was affected (the theorems of `GatewayWaiterProofs` stop at the first fault), and that
`ToolCallPromise` and `AgentPromise` fit together over the messages between Core and Link, for which
a module that joins the two sides would have to be written first.
