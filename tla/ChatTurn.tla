------------------------------ MODULE ChatTurn ------------------------------
(***************************************************************************)
(* Chat turns of Core: the chat socket (nivelle_core/app.py), the message  *)
(* rows (repositories.py) and the model router (model_runtime.py).         *)
(*                                                                         *)
(* One action is the code of a generate() task between two awaits that can *)
(* suspend; a repository call is one transaction.  A cancellation is first *)
(* requested and then delivered as the next step of the task: the statement*)
(* the task was waiting for has then been done or not.                     *)
(***************************************************************************)
EXTENDS Naturals, FiniteSets

CONSTANTS
  Requests,     \* chat.request messages that may arrive
  Asked,        \* what each asks: request id, message id, the message it
                \* retries or NoMessage, conversation, and socket
  NoMessage,
  Providers,    \* 1 .. 2: the primary and, if there is one, the fallback
  MaxUpsets     \* bound: cancellations, closed sockets, failing writes and
                \* restarts, together

ASSUME ChatAssumption ==
  /\ IsFiniteSet(Requests)
  /\ \A t \in Requests : Asked[t].message # NoMessage
  /\ \E n \in 1 .. 2 : Providers = 1 .. n
  /\ MaxUpsets \in Nat

VARIABLES
  turn,       \* where generate() of a request stands
  cancelling, \* tasks with a cancellation that is not delivered yet
  sockets,    \* open chat sockets
  verdict,    \* what the look-ups before the claim found
  inflight,   \* inflight_request_ids, _message_ids, _retry_targets and
              \* active_conversation_generations
  claims,     \* what each task has to take out of inflight again
  rows,       \* requests whose user and assistant rows are stored
  reply,      \* state of the assistant row
  provider,   \* the provider at work for a request
  texts,      \* the providers whose text is in the answer
  told,       \* events sent for a request
  torn,       \* turns cut off inside one of their own transactions
  upsets      \* upsets so far

taskVars == <<turn, cancelling>>
claimVars == <<verdict, inflight, claims>>
rowVars == <<rows, reply>>
routerVars == <<provider, texts>>
chatVars == <<taskVars, sockets, claimVars, rowVars, routerVars, told, torn, upsets>>

Sockets == {Asked[t].socket : t \in Requests}

Stages ==
  {"none", "created", "looked", "claimed", "accepted", "streaming",
   "committing", "delivering", "interrupting", "failing", "ended"}

ChatTypeOK ==
  /\ turn \in [Requests -> Stages]
  /\ cancelling \subseteq Requests /\ torn \subseteq Requests
  /\ sockets \subseteq Sockets
  /\ verdict \in [Requests -> {"none", "new", "refused"}]
  /\ \A t \in Requests : claims[t] \subseteq inflight
  /\ rows \subseteq Requests
  /\ reply \in [Requests -> {"absent", "generating", "completed", "interrupted"}]
  /\ provider \in [Requests -> Providers \cup {0}]
  /\ texts \in [Requests -> SUBSET Providers]
  /\ told \in [Requests -> SUBSET {"refused", "accepted", "delta", "completed",
                                   "cancelled", "failed"}]
  /\ upsets \in 0 .. MaxUpsets

ChatInit ==
  /\ turn = [t \in Requests |-> "none"]
  /\ cancelling = {}
  /\ sockets = Sockets
  /\ verdict = [t \in Requests |-> "none"]
  /\ inflight = {}
  /\ claims = [t \in Requests |-> {}]
  /\ rows = {}
  /\ reply = [t \in Requests |-> "absent"]
  /\ provider = [t \in Requests |-> 0]
  /\ texts = [t \in Requests |-> {}]
  /\ told = [t \in Requests |-> {}]
  /\ torn = {}
  /\ upsets = 0

Upset == upsets < MaxUpsets /\ upsets' = upsets + 1

Goto(t, stage) == turn' = [turn EXCEPT ![t] = stage]

\* A task that is to be cancelled does nothing else first.
At(t, stage) == turn[t] = stage /\ t \notin cancelling

\* websocket.send_json: what is sent to a closed socket is lost.
Tell(t, event) ==
  told' = IF Asked[t].socket \in sockets
          THEN [told EXCEPT ![t] = @ \cup {event}] ELSE told

Keys(t) ==
  {<<"request", Asked[t].request>>, <<"message", Asked[t].message>>,
   <<"conversation", Asked[t].conversation>>}
  \cup (IF Asked[t].retryOf = NoMessage THEN {} ELSE {<<"retry", Asked[t].retryOf>>})

\* The finally clause of generate(): each claim this task made, and no other.
Release(t) ==
  /\ inflight' = inflight \ claims[t]
  /\ claims' = [claims EXCEPT ![t] = {}]

End(t) == Goto(t, "ended") /\ Release(t)

-----------------------------------------------------------------------------
(* The receive loop of the socket.                                         *)

SeenOn(t) ==
  \E u \in Requests \ {t} :
    /\ turn[u] # "none"
    /\ Asked[u].socket = Asked[t].socket /\ Asked[u].request = Asked[t].request

\* A request id is used once per socket; a new one becomes a task.
ReceiveRequest(t) ==
  /\ turn[t] = "none" /\ Asked[t].socket \in sockets
  /\ \/ SeenOn(t) /\ Goto(t, "ended") /\ Tell(t, "refused")
     \/ ~SeenOn(t) /\ Goto(t, "created") /\ UNCHANGED told
  /\ UNCHANGED <<cancelling, sockets, claimVars, rowVars, routerVars, torn, upsets>>

Live(t) == turn[t] \notin {"none", "ended"}

ChatCancel(t) ==
  /\ Upset
  /\ Live(t) /\ t \notin cancelling /\ Asked[t].socket \in sockets
  /\ cancelling' = cancelling \cup {t}
  /\ UNCHANGED <<turn, sockets, claimVars, rowVars, routerVars, told, torn>>

\* WebSocketDisconnect: every task of the socket is cancelled.
CloseSocket(s) ==
  /\ Upset
  /\ s \in sockets
  /\ sockets' = sockets \ {s}
  /\ cancelling' = cancelling \cup {t \in Requests : Live(t) /\ Asked[t].socket = s}
  /\ UNCHANGED <<turn, claimVars, rowVars, routerVars, told, torn>>

-----------------------------------------------------------------------------
(* Claims.                                                                 *)

SameRequest(t, u) == Asked[t].request = Asked[u].request
SameMessage(t, u) == Asked[t].message = Asked[u].message
SameRetry(t, u) ==
  Asked[t].retryOf # NoMessage /\ Asked[t].retryOf = Asked[u].retryOf

\* The unique indexes of messages (schema versions 5, 6 and 7).
Stored(t) ==
  \E u \in rows : SameRequest(t, u) \/ SameMessage(t, u) \/ SameRetry(t, u)

\* Variant: the state of the message that is retried is not looked at.
MayRetryAny(t) ==
  Asked[t].retryOf # NoMessage =>
    \E u \in rows :
      /\ Asked[u].message = Asked[t].retryOf
      /\ Asked[u].conversation = Asked[t].conversation

\* retry_target: the message is known, in this conversation, and interrupted.
MayRetry(t) ==
  Asked[t].retryOf # NoMessage =>
    \E u \in rows :
      /\ Asked[u].message = Asked[t].retryOf
      /\ Asked[u].conversation = Asked[t].conversation
      /\ reply[u] = "interrupted"

\* The database is read under message_idempotency_lock, which the allocation
\* of another task does not take.
LookUp(t) ==
  /\ At(t, "created")
  /\ \A u \in Requests : turn[u] # "looked"
  /\ verdict' = [verdict EXCEPT ![t] =
       IF ~Stored(t) /\ MayRetry(t) THEN "new" ELSE "refused"]
  /\ Goto(t, "looked")
  /\ UNCHANGED <<cancelling, sockets, inflight, claims, rowVars, routerVars, told, torn, upsets>>

Refuse(t) == End(t) /\ Tell(t, "refused")

\* Variant: the conversation is claimed and not looked at.
ClaimAnyConversation(t) ==
  LET free == (Keys(t) \ {<<"conversation", Asked[t].conversation>>}) \cap inflight = {}
  IN
  /\ At(t, "looked")
  /\ \/ (verdict[t] = "refused" \/ ~free) /\ Refuse(t)
     \/ /\ verdict[t] = "new" /\ free
        /\ inflight' = inflight \cup Keys(t)
        /\ claims' = [claims EXCEPT ![t] = Keys(t)]
        /\ Goto(t, "claimed")
        /\ UNCHANGED told
  /\ UNCHANGED <<cancelling, sockets, verdict, rowVars, routerVars, torn, upsets>>

\* The in-memory claims, made without an await in between.
Claim(t) ==
  /\ At(t, "looked")
  /\ \/ /\ verdict[t] = "refused" \/ Keys(t) \cap inflight # {}
        /\ Refuse(t)
     \/ /\ verdict[t] = "new" /\ Keys(t) \cap inflight = {}
        /\ inflight' = inflight \cup Keys(t)
        /\ claims' = [claims EXCEPT ![t] = Keys(t)]
        /\ Goto(t, "claimed")
        /\ UNCHANGED told
  /\ UNCHANGED <<cancelling, sockets, verdict, rowVars, routerVars, torn, upsets>>

-----------------------------------------------------------------------------
(* The rows.                                                               *)

\* allocate_turn: both rows or none.
InsertRows(t) ==
  /\ ~Stored(t)
  /\ rows' = rows \cup {t}
  /\ reply' = [reply EXCEPT ![t] = "generating"]

\* update_message with expected_state="generating".
Settle(t, state) ==
  reply' = IF reply[t] = "generating" THEN [reply EXCEPT ![t] = state] ELSE reply

\* History, memories and prompt are put together, which may refuse the turn,
\* and the rows are inserted, unless a unique index refuses them.
AllocateTurn(t) ==
  /\ At(t, "claimed")
  /\ \/ InsertRows(t) /\ Goto(t, "accepted") /\ Tell(t, "accepted")
        /\ UNCHANGED <<inflight, claims>>
     \/ Refuse(t) /\ UNCHANGED rowVars       \* also PROMPT_TOO_LARGE
     \/ End(t) /\ Tell(t, "failed") /\ UNCHANGED rowVars
  /\ UNCHANGED <<cancelling, sockets, verdict, routerVars, torn, upsets>>

\* The tools of the turn run (see AgentGateway) and the router is started,
\* unless the results do not fit into the prompt or the socket has failed.
RunTools(t) ==
  /\ At(t, "accepted")
  /\ \/ Goto(t, "streaming") /\ provider' = [provider EXCEPT ![t] = 1]
     \/ Goto(t, "failing") /\ UNCHANGED provider
  /\ UNCHANGED <<cancelling, sockets, claimVars, rowVars, texts, told, torn, upsets>>

-----------------------------------------------------------------------------
(* ModelRouter.stream.                                                     *)

Delta(t) ==
  /\ At(t, "streaming")
  /\ texts' = [texts EXCEPT ![t] = @ \cup {provider[t]}]
  /\ Tell(t, "delta")
  /\ UNCHANGED <<taskVars, sockets, claimVars, rowVars, provider, torn, upsets>>

\* Variant: the fallback is tried although text was sent.
CanFallbackAlways(t) == provider[t] + 1 \in Providers

\* The provider is unavailable, fails, or ends without a final event.
CanFallback(t) == provider[t] \notin texts[t] /\ provider[t] + 1 \in Providers

ProviderFails(t, retryable) ==
  /\ At(t, "streaming")
  /\ \/ /\ retryable /\ CanFallback(t)
        /\ provider' = [provider EXCEPT ![t] = @ + 1]
        /\ UNCHANGED turn
     \/ /\ ~(retryable /\ CanFallback(t))
        /\ Goto(t, "failing")
        /\ UNCHANGED provider
  /\ UNCHANGED <<cancelling, sockets, claimVars, rowVars, texts, told, torn, upsets>>

Final(t) ==
  /\ At(t, "streaming")
  /\ Goto(t, "committing")
  /\ UNCHANGED <<cancelling, sockets, claimVars, rowVars, routerVars, told, torn, upsets>>

-----------------------------------------------------------------------------
(* The end of a turn.                                                      *)

Commit(t) ==
  /\ At(t, "committing")
  /\ \/ Settle(t, "completed") /\ Goto(t, "delivering") /\ UNCHANGED upsets
     \/ Upset /\ Goto(t, "failing") /\ UNCHANGED reply
  /\ UNCHANGED <<cancelling, sockets, claimVars, rows, routerVars, told, torn>>

\* emit_durable_completion.
Deliver(t) ==
  /\ At(t, "delivering")
  /\ End(t) /\ Tell(t, "completed")
  /\ UNCHANGED <<cancelling, sockets, verdict, rowVars, routerVars, torn, upsets>>

\* Variant: the event does not look at what the row says.
StoreInterruptedAndTell(t, stage, event) ==
  /\ At(t, stage)
  /\ Settle(t, "interrupted")
  /\ Tell(t, event)
  /\ End(t)
  /\ UNCHANGED <<cancelling, sockets, verdict, rows, routerVars, torn, upsets>>

\* The handlers of CancelledError and of any other exception: the row is
\* interrupted unless it is completed, and the event says what the row says.
StoreInterrupted(t, stage, event) ==
  /\ At(t, stage)
  /\ Settle(t, "interrupted")
  /\ Tell(t, IF reply'[t] = "completed" THEN "completed" ELSE event)
  /\ End(t)
  /\ UNCHANGED <<cancelling, sockets, verdict, rows, routerVars, torn, upsets>>

\* The write of the handler fails: nothing is told.
StoreFails(t) ==
  /\ turn[t] \in {"interrupting", "failing"} /\ t \notin cancelling
  /\ Upset
  /\ torn' = torn \cup {t}
  /\ End(t)
  /\ UNCHANGED <<cancelling, sockets, verdict, rowVars, routerVars, told>>

\* CancelledError is delivered.  A task that never ran ends without a word,
\* one without rows is told, one that streams stores its interruption.
Cancelled(t) ==
  /\ t \in cancelling
  /\ cancelling' = cancelling \ {t}
  /\ \/ /\ turn[t] = "created"
        /\ End(t) /\ UNCHANGED <<rowVars, told, torn>>
     \/ /\ turn[t] \in {"created", "looked", "claimed"}
        /\ End(t) /\ Tell(t, "cancelled") /\ UNCHANGED <<rowVars, torn>>
     \/ /\ turn[t] = "claimed"              \* inside allocate_turn's commit
        /\ InsertRows(t) /\ torn' = torn \cup {t}
        /\ End(t) /\ Tell(t, "cancelled")
     \/ /\ turn[t] \in {"accepted", "streaming", "committing"}
        /\ Goto(t, "interrupting")
        /\ UNCHANGED <<inflight, claims, rowVars, told, torn>>
     \/ /\ turn[t] = "committing"           \* the commit was done
        /\ Settle(t, "completed")
        /\ Goto(t, "interrupting")
        /\ UNCHANGED <<inflight, claims, rows, told, torn>>
     \/ /\ turn[t] = "delivering"
        /\ End(t) /\ (Tell(t, "completed") \/ UNCHANGED told)
        /\ UNCHANGED <<rowVars, torn>>
     \/ /\ turn[t] \in {"interrupting", "failing"}
        /\ Settle(t, "interrupted") \/ UNCHANGED reply
        /\ torn' = torn \cup {t}
        /\ End(t)
        /\ UNCHANGED <<rows, told>>
  /\ UNCHANGED <<sockets, verdict, routerVars, upsets>>

\* recover_interrupted_generations, before a restarted Core serves anybody.
Recover == reply' = [t \in Requests |->
  IF reply[t] = "generating" THEN "interrupted" ELSE reply[t]]

Restart ==
  /\ Upset
  /\ turn' = [t \in Requests |-> IF turn[t] = "none" THEN "none" ELSE "ended"]
  /\ cancelling' = {}
  /\ sockets' = Sockets
  /\ inflight' = {}
  /\ claims' = [t \in Requests |-> {}]
  /\ torn' = {}
  /\ Recover
  /\ UNCHANGED <<verdict, rows, routerVars, told>>

-----------------------------------------------------------------------------
Generate(t) ==
  \/ LookUp(t) \/ Claim(t) \/ AllocateTurn(t) \/ RunTools(t)
  \/ \E retryable \in BOOLEAN : ProviderFails(t, retryable)
  \/ Final(t) \/ Commit(t) \/ Deliver(t)
  \/ StoreInterrupted(t, "interrupting", "cancelled")
  \/ StoreInterrupted(t, "failing", "failed")
  \/ Cancelled(t)

ChatNext ==
  \/ \E t \in Requests :
       \/ ReceiveRequest(t) \/ ChatCancel(t) \/ Generate(t) \/ Delta(t) \/ StoreFails(t)
  \/ \E s \in Sockets : CloseSocket(s)
  \/ Restart

ChatSpec == ChatInit /\ [][ChatNext]_chatVars

-----------------------------------------------------------------------------
(* Properties.                                                             *)

\* app.py:1675-1760: the client is told completed only of a completed row,
\* and cancelled or failed only of one that is not and will not be.
EventsAgreeWithRows ==
  \A t \in Requests :
    /\ "completed" \in told[t] => reply[t] = "completed"
    /\ told[t] \cap {"cancelled", "failed", "refused"} # {} => reply[t] # "completed"

Working(t) == turn[t] \notin {"none", "created", "looked", "ended"}

\* app.py:1295-1312: two turns never work on one conversation, one message,
\* one request or one retry at a time.
ConversationHasOneTurn ==
  \A t, u \in Requests : t # u /\ Working(t) /\ Working(u) => Keys(t) \cap Keys(u) = {}

\* docs/DATABASE_MIGRATIONS.md:63-66: a message that was retried was
\* interrupted and stays so.
RetryMeansInterrupted ==
  \A t, u \in rows : Asked[t].retryOf = Asked[u].message => reply[u] = "interrupted"

\* docs/architecture/model-runtime.md:36: an answer is the text of one model.
NoSplicedAnswer == \A t \in Requests : Cardinality(texts[t]) <= 1

\* docs/PROTOCOL_EVENTS.md:115-118: a turn that ended leaves no message
\* generating, unless it was cut off inside its own transaction.
SettledUnlessTorn ==
  \A t \in Requests : turn[t] = "ended" /\ reply[t] = "generating" => t \in torn
=============================================================================
