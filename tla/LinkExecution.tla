--------------------------- MODULE LinkExecution ---------------------------
(***************************************************************************)
(* AgentRuntime.execute in its worker thread, and the files it shares with *)
(* every other runtime of the data directory: the approval grants, the     *)
(* idempotency records, the reminders and the policy                       *)
(* (src/apps/client/nivelle_link/agent/).                                  *)
(*                                                                         *)
(* Each file is replaced atomically, so a transaction is one action, except*)
(* execute_once: it saves a pending record, performs the side effect and   *)
(* saves the list it loaded at the start, with the record completed.  Its  *)
(* lock belongs to one runtime, and every session has a runtime of its own.*)
(***************************************************************************)
EXTENDS Naturals, Sequences, FiniteSets, SequencesExt

CONSTANTS
  Calls,        \* tool_call_id of every request, its idempotency key with it
  Offers,       \* the requests Core may send as each call: the tool, and its
                \* business, the conversation and the exact arguments
  NoRequest,    \* of a call that was not sent yet
  NoGrant,      \* approval_id=None
  MaxSessions,  \* bound: Agent sessions, hence runtimes, of the instance
  MaxAccepted,  \* bound: how often one request is taken as new
  MaxEntries,   \* IdempotencyCache(max_entries)
  MaxSpent      \* bound: policy edits, revoked and expired approvals, failed
                \* writes, outdated records, repeated requests and crashes,
                \* together

Tools ==
  {"system_status", "search_files", "open_application",
   "create_note", "set_reminder"}

ASSUME ExecutionAssumption ==
  /\ IsFiniteSet(Calls)
  /\ \A c \in Calls : Offers[c] \subseteq [tool : Tools, business : STRING]
  /\ \A c \in Calls : NoRequest \notin Offers[c]
  /\ NoGrant \notin Calls \X Nat
  /\ {MaxSessions, MaxAccepted, MaxEntries} \subseteq Nat \ {0}
  /\ MaxSpent \in Nat

LocalWrite == {"create_note", "set_reminder"}
Cancellable == {"search_files"}                 \* and read_text_file
Persistent == {"open_application"}              \* and open_folder
Targeted == {"search_files", "open_application"} \* what the policy lists
NeedsApproval == Tools \ {"system_status"}
Guarded == {"open_application", "create_note"}  \* execute_once; and open_folder
SideEffect == Guarded \cup {"set_reminder"}

Results ==
  {"completed", "failed", "denied", "cancelled", "timed_out",
   "client_disconnected", "raised"}

VARIABLES
  request,    \* the request a call came with
  sessionOf,  \* target_session_id of each request, 0 before it is sent
  thread,     \* where the worker thread of the call stands
  result,     \* what the thread returns
  loaded,     \* the records execute_once holds while it acts
  effects,    \* how often the side effect of a call happened
  policy,     \* agent-policy.json: its version, and whether the Agent is on
  grants,     \* agent-approvals.json
  records,    \* agent-idempotency.json, ordered by updated_at
  reminders,  \* agent-reminders.db: its rows and aliases
  aged,       \* calls whose record is older than the retention
  forgotten,  \* actions whose record was pruned or is too old
  spent       \* disturbances so far

requestVars == <<request, sessionOf>>
threadVars == <<thread, result, loaded, effects>>
fileVars == <<policy, grants, records, reminders, aged, forgotten>>

Executes(c) == thread[c] \notin {"none", "returned"}

Disturbance == spent < MaxSpent /\ spent' = spent + 1

ToolOf(c) == IF request[c] = NoRequest THEN "none" ELSE request[c].tool

Returns(c, value) ==
  /\ result' = [result EXCEPT ![c] = value]
  /\ thread' = [thread EXCEPT ![c] = "audit"]

-----------------------------------------------------------------------------
(* ApprovalManager and PolicyStore.                                        *)

SameScope(g, c) == request[g.id[1]] = request[c]

\* list_active without the uses: a policy edit changes the version, which
\* invalidates every earlier grant.
Current(g) == ~g.revoked /\ ~g.expired /\ g.version = policy.version

\* grant(): a write accepts one-time approval only.
Modes(c) ==
  {"once"} \cup (IF ToolOf(c) \in LocalWrite THEN {} ELSE {"session"})
           \cup (IF ToolOf(c) \in Persistent THEN {"always"} ELSE {})

Grant(id, mode) ==
  grants' = grants \cup
    {[id |-> id, mode |-> mode, uses |-> 1, version |-> policy.version,
      session |-> sessionOf[id[1]], revoked |-> FALSE, expired |-> FALSE]}

\* authorize(): a one-time grant may be taken again by the call that took it.
Accepts(g, c) ==
  /\ Current(g)
  /\ SameScope(g, c)
  /\ g.mode = "session" => g.session = sessionOf[c]
  /\ g.mode = "once" => g.uses = 1 \/ g.id[1] = c

Taken(g) == IF g.mode = "once" THEN [g EXCEPT !.uses = 0] ELSE g

Revoke ==
  /\ Disturbance
  /\ \E g \in grants :
       /\ ~g.revoked
       /\ grants' = (grants \ {g}) \cup {[g EXCEPT !.revoked = TRUE]}
  /\ UNCHANGED <<requestVars, threadVars, policy, records, reminders, aged, forgotten>>

\* The lifetime of a session approval ends.
ApprovalExpires ==
  /\ Disturbance
  /\ \E g \in grants :
       /\ g.mode = "session" /\ ~g.expired
       /\ grants' = (grants \ {g}) \cup {[g EXCEPT !.expired = TRUE]}
  /\ UNCHANGED <<requestVars, threadVars, policy, records, reminders, aged, forgotten>>

\* Any edit of the management window; this one turns the Agent on or off.
UpdatePolicy ==
  /\ Disturbance
  /\ \E on \in BOOLEAN :
       policy' = [version |-> policy.version + 1, enabled |-> on]
  /\ UNCHANGED <<requestVars, threadVars, grants, records, reminders, aged, forgotten>>

-----------------------------------------------------------------------------
(* The idempotency records.                                                *)

\* What a call does, if done twice, twice: a note or a reminder is known by
\* its business, a launch by its idempotency key.
Action(c) ==
  IF ToolOf(c) \in LocalWrite THEN request[c]
  ELSE [tool |-> ToolOf(c), business |-> c]

\* _prune: what is not too old, and of that the newest MaxEntries.
Young(s) ==
  LET upTo[n \in 0 .. Len(s)] ==
        IF n = 0 THEN << >>
        ELSE IF s[n].at \in aged THEN upTo[n - 1] ELSE Append(upTo[n - 1], s[n])
  IN  upTo[Len(s)]

PrunedRecords(s) ==
  LET young == Young(s)
  IN  SubSeq(young, IF Len(young) > MaxEntries THEN Len(young) - MaxEntries + 1
                    ELSE 1, Len(young))

Actions(s) == {Action(s[i].key) : i \in DOMAIN s}

\* _save of a list, pruned.
Save(s) ==
  /\ records' = PrunedRecords(s)
  /\ forgotten' = forgotten \cup (Actions(s) \ Actions(PrunedRecords(s)))

ForKey(s, c) == {i \in DOMAIN s : s[i].key = c}
ForBusiness(s, c) ==
  IF ToolOf(c) = "create_note" THEN {i \in DOMAIN s : Action(s[i].key) = Action(c)}
  ELSE {}

\* Variant: a record is found by its key only.
MatchOfKey(s, c) == ForKey(s, c)

\* The record the call is judged by: its own, else the latest equivalent one.
Match(s, c) ==
  IF ForKey(s, c) # {} THEN ForKey(s, c)
  ELSE {i \in ForBusiness(s, c) : \A j \in ForBusiness(s, c) : j <= i}

Record(c, state, at) == [key |-> c, state |-> state, at |-> at]

LockFree(c) ==
  \A d \in Calls \ {c} :
    sessionOf[d] = sessionOf[c] => thread[d] \notin {"act", "commit"}

\* execute_once up to the operation, under the lock of this runtime.  An
\* alias keeps the time of its original, so it sorts right behind it.
ClaimRecord(c) ==
  /\ thread[c] = "handle" /\ ToolOf(c) \in Guarded
  /\ LockFree(c)
  /\ LET s == PrunedRecords(records) IN
     \/ /\ \E i \in Match(s, c) : s[i].state = "pending"
        /\ Returns(c, "failed")
        /\ UNCHANGED <<records, loaded, forgotten>>
     \/ /\ \E i \in ForKey(s, c) : s[i].state = "completed"
        /\ Returns(c, "completed")
        /\ UNCHANGED <<records, loaded, forgotten>>
     \/ /\ ForKey(s, c) = {}
        /\ \E i \in Match(s, c) :
             /\ s[i].state = "completed"
             /\ Save(InsertAt(s, i + 1, Record(c, "completed", s[i].at)))
        /\ Returns(c, "completed")
        /\ UNCHANGED loaded
     \/ /\ Match(s, c) = {}
        /\ Save(Append(s, Record(c, "pending", c)))
        /\ loaded' = [loaded EXCEPT ![c] = Append(s, Record(c, "pending", c))]
        /\ thread' = [thread EXCEPT ![c] = "act"]
        /\ UNCHANGED result
  /\ UNCHANGED <<requestVars, effects, policy, grants, reminders, aged, spent>>

\* The target is gone, or the pending record could not be saved: nothing is
\* attempted.
ClaimFails(c) ==
  /\ thread[c] = "handle" /\ ToolOf(c) \in Guarded
  /\ LockFree(c)
  /\ Disturbance
  /\ Returns(c, "failed")
  /\ UNCHANGED <<requestVars, loaded, effects, fileVars>>

\* operation(): write_note, or the launch of an application.  It may raise
\* before or after it had its effect; the record then stays pending.
Act(c) ==
  /\ thread[c] = "act"
  /\ \E happens, raises \in BOOLEAN :
       /\ happens \/ raises
       /\ effects' = [effects EXCEPT ![c] = @ + (IF happens THEN 1 ELSE 0)]
       /\ IF raises THEN Returns(c, "failed") /\ loaded' = [loaded EXCEPT ![c] = << >>]
          ELSE thread' = [thread EXCEPT ![c] = "commit"] /\ UNCHANGED <<result, loaded>>
  /\ UNCHANGED <<requestVars, fileVars, spent>>

Completed(s, c) ==
  [i \in DOMAIN s |->
     IF s[i].key = c THEN [s[i] EXCEPT !.state = "completed"] ELSE s[i]]

\* The completed record replaces the file with the list loaded by ClaimRecord.
CommitRecord(c) ==
  /\ thread[c] = "commit"
  /\ \/ /\ Save(Completed(loaded[c], c))
        /\ Returns(c, "completed")
        /\ UNCHANGED spent
     \/ /\ Disturbance
        /\ Returns(c, "failed")
        /\ UNCHANGED <<records, forgotten>>
  /\ loaded' = [loaded EXCEPT ![c] = << >>]
  /\ UNCHANGED <<requestVars, effects, policy, grants, reminders, aged>>

\* Seven days pass for the record of a call.
RecordAges ==
  /\ Disturbance
  /\ \E c \in Calls :
       /\ effects[c] > 0 /\ ~Executes(c) /\ c \notin aged
       /\ aged' = aged \cup {c}
       /\ forgotten' = forgotten \cup {Action(c)}
  /\ UNCHANGED <<requestVars, threadVars, policy, grants, records, reminders>>
-----------------------------------------------------------------------------
(* AgentRuntime.execute, one action per step that another actor can see.   *)

\* The shutdown flag, the policy as it is now, and the approval the task
\* names; stopped says that the session of the runtime was closed.
Authorize(c, grant, stopped) ==
  /\ thread[c] = "authorize"
  /\ \/ /\ stopped
        /\ Returns(c, "client_disconnected") /\ UNCHANGED grants
     \/ /\ ~stopped /\ ~policy.enabled
        /\ Returns(c, "failed") /\ UNCHANGED grants
     \/ /\ ~stopped /\ policy.enabled
        /\ ToolOf(c) \notin NeedsApproval
        /\ thread' = [thread EXCEPT ![c] = "handle"]
        /\ UNCHANGED <<result, grants>>
     \/ /\ ~stopped /\ policy.enabled
        /\ ToolOf(c) \in NeedsApproval
        /\ \E g \in grants :
             /\ g.id = grant /\ Accepts(g, c)
             /\ grants' = (grants \ {g}) \cup {Taken(g)}
        /\ thread' = [thread EXCEPT ![c] = "handle"]
        /\ UNCHANGED result
     \/ /\ ~stopped /\ policy.enabled
        /\ ToolOf(c) \in NeedsApproval
        /\ ~\E g \in grants : g.id = grant /\ Accepts(g, c)
        /\ Returns(c, "denied") /\ UNCHANGED grants
  /\ UNCHANGED <<requestVars, loaded, effects, policy, records, reminders, aged,
                 forgotten, spent>>

\* get_system_status and get_active_window only read.
SystemStatus(c) ==
  /\ thread[c] = "handle" /\ ToolOf(c) = "system_status"
  /\ \E value \in {"completed", "failed"} : Returns(c, value)
  /\ UNCHANGED <<requestVars, loaded, effects, fileVars, spent>>

\* search_files polls the cancellation of the call and the shutdown flag
\* between two entries; read_text_file does between two chunks.
SearchFiles(c, stop) ==
  /\ thread[c] = "handle" /\ ToolOf(c) = "search_files"
  /\ \E value \in IF stop THEN {"cancelled"} ELSE {"completed", "timed_out", "failed"} :
       Returns(c, value)
  /\ UNCHANGED <<requestVars, loaded, effects, fileVars, spent>>

\* ReminderStore.create in one transaction: the row of this key, else a
\* recent row of the same business, which the key joins as an alias, else a
\* new row; a time that has passed is refused.
Reminder(c, at) == [key |-> c, at |-> at]
RowsFor(c) == {r \in reminders : r.key = c}
RecentRows(c) ==
  {r \in reminders : r.key = r.at /\ Action(r.key) = Action(c) /\ r.at \notin aged}

SetReminder(c) ==
  /\ thread[c] = "handle" /\ ToolOf(c) = "set_reminder"
  /\ \/ /\ RowsFor(c) # {}
        /\ Returns(c, "completed") /\ UNCHANGED <<reminders, effects>>
     \/ /\ RowsFor(c) = {}
        /\ \E r \in RecentRows(c) : reminders' = reminders \cup {Reminder(c, r.key)}
        /\ Returns(c, "completed") /\ UNCHANGED effects
     \/ /\ RowsFor(c) = {} /\ RecentRows(c) = {}
        /\ reminders' = reminders \cup {Reminder(c, c)}
        /\ effects' = [effects EXCEPT ![c] = @ + 1]
        /\ Returns(c, "completed")
     \/ /\ RowsFor(c) = {} /\ RecentRows(c) = {}
        /\ Returns(c, "failed") /\ UNCHANGED <<reminders, effects>>
  /\ UNCHANGED <<requestVars, loaded, policy, grants, records, aged, forgotten, spent>>

\* The audit entry is the last thing execute() writes.  If that fails, a
\* success becomes a failure that is audited in turn, and a failure is raised.
Audit(c) ==
  /\ thread[c] = "audit"
  /\ \/ /\ thread' = [thread EXCEPT ![c] = "returned"]
        /\ UNCHANGED <<result, spent>>
     \/ /\ result[c] = "completed"
        /\ Disturbance
        /\ result' = [result EXCEPT ![c] = "failed"]
        /\ UNCHANGED thread
     \/ /\ result[c] # "completed"
        /\ Disturbance
        /\ result' = [result EXCEPT ![c] = "raised"]
        /\ thread' = [thread EXCEPT ![c] = "returned"]
  /\ UNCHANGED <<requestVars, loaded, effects, fileVars>>

Execute(c, grant, stopped, cancelled) ==
  \/ Authorize(c, grant, stopped)
  \/ SystemStatus(c)
  \/ SearchFiles(c, stopped \/ cancelled)
  \/ SetReminder(c)
  \/ ClaimRecord(c) \/ ClaimFails(c) \/ Act(c) \/ CommitRecord(c)
  \/ Audit(c)

\* What the user and the clock do to the files.
Environment == Revoke \/ ApprovalExpires \/ UpdatePolicy \/ RecordAges
=============================================================================
