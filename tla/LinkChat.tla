------------------------------ MODULE LinkChat ------------------------------
(***************************************************************************)
(* The conversation in the main window of Nivelle Link: send(), the loads  *)
(* of history and the change of the server (nivelle_link/app.py), and the  *)
(* bubbles of MainChatWindow (windows.py), against what Core has stored.   *)
(*                                                                         *)
(* Turns are numbered as they are sent; a turn is also the id of its       *)
(* request, of its two messages and of the conversation it may start.  A   *)
(* text is the sequence of its deltas, 1, 2, ..., and Core stores what has *)
(* been generated when the turn ends.                                      *)
(* The connection is what LinkConnection models in full.                   *)
(***************************************************************************)
EXTENDS Naturals, Sequences, SequencesExt, FiniteSetsExt

CONSTANTS
  Cores,       \* servers
  Nothing,
  MaxTurns, MaxDeltas, MaxFaults   \* bounds

ASSUME LinkChatAssumption ==
  /\ Nothing \notin Cores \cup Nat
  /\ MaxTurns \in Nat /\ MaxDeltas \in Nat /\ MaxFaults \in Nat

Turns == 1 .. MaxTurns

VARIABLES
  row,          \* the turns at Core, and how much of the reply is generated
  active,       \* connections.active
  server,       \* _active_server_key
  conversation, \* _active_conversation_id
  wire,         \* the chat socket
  sent,         \* turns so far
  sending,      \* the send task
  inbox,        \* events for it
  view,         \* the main window
  load,         \* _conversation_load_task
  faults        \* events repeated, sockets and connections lost so far

chatViewVars ==
  <<row, active, server, conversation, wire, sent, sending, inbox, view,
    load, faults>>
connectedVars == <<active, server, wire>>
sendVars == <<sent, sending>>

NoRow == [core |-> Nothing, conversation |-> 0, text |-> 0, state |-> "none"]
NoSend == [turn |-> 0, at |-> "none", core |-> Nothing, within |-> 0,
           known |-> FALSE, moved |-> FALSE]
NoLoad == [at |-> "none", conversation |-> 0, core |-> Nothing, found |-> << >>]
NoStream == [bubble |-> Nothing, turn |-> 0, bound |-> FALSE, last |-> 0]
EmptyView == [bubbles |-> << >>, stream |-> NoStream, finished |-> {}]

\* The id of a bubble, of its user's or its assistant's message, before and
\* after Core has named it.
Id(kind, t) == [kind |-> kind, turn |-> t]
BubbleIds == [kind : {"client", "user", "pending", "assistant"}, turn : Turns]

Note == 0
Words == 0 .. MaxDeltas
StoredText(t) == [n \in 1 .. row[t].text |-> n]

LinkChatTypeOK ==
  /\ \A t \in Turns :
       /\ row[t].core \in Cores \cup {Nothing} /\ row[t].conversation \in 0 .. MaxTurns
       /\ row[t].text \in 0 .. MaxDeltas
       /\ row[t].state \in {"none", "generating", "completed", "interrupted"}
  /\ active \in Cores \cup {Nothing} /\ server \in Cores \cup {Nothing}
  /\ conversation \in 0 .. MaxTurns /\ sent \in 0 .. MaxTurns
  /\ wire.at \in {"up", "closing", "down"} /\ wire.core \in Cores \cup {Nothing}
  /\ sending.turn \in 0 .. MaxTurns
  /\ sending.at \in {"none", "opening", "reading", "refreshing"}
  /\ load.at \in {"none", "asked", "answered"}
  /\ view.finished \subseteq Turns
  /\ \A i \in DOMAIN view.bubbles :
       /\ view.bubbles[i].id \in BubbleIds
       /\ Range(view.bubbles[i].text) \subseteq Words
  /\ faults \in 0 .. MaxFaults

LinkChatInit ==
  /\ row = [t \in Turns |-> NoRow]
  /\ active = Nothing /\ server = Nothing /\ conversation = 0
  /\ wire = [at |-> "down", core |-> Nothing]
  /\ sent = 0 /\ sending = NoSend /\ inbox = << >>
  /\ view = EmptyView
  /\ load = NoLoad
  /\ faults = 0

-----------------------------------------------------------------------------
(* MainChatWindow, as functions of the view.                               *)

Shows(v, id) == \E i \in DOMAIN v.bubbles : v.bubbles[i].id = id

\* _add_message
Added(v, id, text) ==
  IF Shows(v, id) THEN v
  ELSE [v EXCEPT !.bubbles = Append(@, [id |-> id, text |-> text])]

\* _bind_message_id: an id that another bubble has stays with that one.
Renamed(v, old, new) ==
  IF Shows(v, new) THEN v
  ELSE [v EXCEPT !.bubbles =
          [i \in DOMAIN @ |-> IF @[i].id = old THEN [@[i] EXCEPT !.id = new] ELSE @[i]]]

WithText(v, id, text) ==
  [v EXCEPT !.bubbles =
     [i \in DOMAIN @ |-> IF @[i].id = id THEN [@[i] EXCEPT !.text = text] ELSE @[i]]]
TextOf(v, id) == v.bubbles[CHOOSE i \in DOMAIN v.bubbles : v.bubbles[i].id = id].text

Streams(v) == v.stream # NoStream
OfOther(v, t) == Streams(v) /\ v.stream.turn # t

\* finish_assistant_message
Finished(v, t) == IF OfOther(v, t) THEN v ELSE [v EXCEPT !.stream = NoStream]

\* The streaming bubble gets the id of its message, unless another has it.
MayBind(v) == v.stream.bubble = Id("assistant", v.stream.turn)
                \/ ~Shows(v, Id("assistant", v.stream.turn))
Bound(v) ==
  LET id == Id("assistant", v.stream.turn)
  IN  [Renamed(v, v.stream.bubble, id) EXCEPT !.stream.bubble = id, !.stream.bound = TRUE]

\* begin_assistant_message; known says whether the message has its id.
MayBegin(v, t, known) ==
  /\ known => t \notin v.finished
  /\ Streams(v) /\ v.stream.turn = t /\ known => MayBind(v)
Begun(v, t, known) ==
  LET id == Id(IF known THEN "assistant" ELSE "pending", t)
  IN  IF ~MayBegin(v, t, known) THEN v
      ELSE IF Streams(v) /\ v.stream.turn = t THEN IF known THEN Bound(v) ELSE v
      ELSE [Added(v, id, << >>) EXCEPT
              !.stream = [bubble |-> id, turn |-> t, bound |-> known, last |-> 0]]

\* append_user_message
UserAppended(v, t) == Added([v EXCEPT !.stream = NoStream], Id("client", t), << >>)

\* bind_turn_message_ids
Named(v, t) ==
  LET named == IF Shows(v, Id("client", t)) THEN Renamed(v, Id("client", t), Id("user", t)) ELSE v
  IN  IF OfOther(v, t) THEN v
      ELSE IF ~Streams(v) THEN Begun(named, t, TRUE)
      ELSE IF MayBind(named) THEN Bound(named) ELSE named

\* Variant: a delta that arrives again is shown again.
IsNewAlways(v, n) == TRUE

\* A numbered delta is shown if it is newer than the last one; a note has no
\* number.
IsNew(v, n) == n > v.stream.last

\* append_delta
Appended(v, t, known, n) ==
  LET b == Begun(v, t, known)
  IN  IF OfOther(v, t) \/ ~MayBegin(v, t, known) \/ (n # Note /\ ~IsNew(v, n)) THEN v
      ELSE [WithText(b, b.stream.bubble, Append(TextOf(b, b.stream.bubble), n)) EXCEPT
              !.stream.last = IF n = Note THEN @ ELSE n]

\* complete_assistant_message
MayComplete(v, t) == t \notin v.finished /\ ~OfOther(v, t) /\ MayBegin(v, t, TRUE)
MessageCompleted(v, t, text) ==
  LET b == Begun(v, t, TRUE)
  IN  Finished([WithText(b, b.stream.bubble, text) EXCEPT !.finished = @ \cup {t}], t)

\* load_messages
MessagesLoaded(found) ==
  LET Show(v, m) ==
        [Added(v, m.id, m.text) EXCEPT
           !.finished = IF m.id.kind = "assistant" /\ m.state # "generating"
                        THEN @ \cup {m.id.turn} ELSE @]
      upTo[n \in 0 .. Len(found)] ==
        IF n = 0 THEN EmptyView ELSE Show(upTo[n - 1], found[n])
  IN  upTo[Len(found)]

-----------------------------------------------------------------------------
(* Core, as far as Link can see it.                                        *)

Event(type, n) == [type |-> type, n |-> n]

\* Events reach the request as long as its socket is read, also while it is
\* being closed.
Told(t, event) ==
  inbox' = IF sending.turn = t /\ sending.at = "reading" /\ wire.core = sending.core
           THEN Append(inbox, event) ELSE inbox

CoreStep(t, changed, event) ==
  /\ row[t].state = "generating"
  /\ row' = [row EXCEPT ![t] = changed]
  /\ Told(t, event)
  /\ UNCHANGED <<connectedVars, conversation, sendVars, view, load, faults>>

CoreStreams(t) ==
  /\ row[t].text < MaxDeltas
  /\ CoreStep(t, [row[t] EXCEPT !.text = @ + 1], Event("delta", row[t].text + 1))
CoreCompletes(t) ==
  CoreStep(t, [row[t] EXCEPT !.state = "completed"], Event("completed", row[t].text))
CoreInterrupts(t) ==
  CoreStep(t, [row[t] EXCEPT !.state = "interrupted"], Event("error", 0))

\* An event is delivered again; test_client_chat.py:302 has the window bear it.
EventRepeated ==
  /\ faults < MaxFaults /\ sending.at = "reading" /\ wire.at = "up"
  /\ row[sending.turn].state = "generating"
  /\ \E event \in {Event("accepted", 0)} \cup {Event("delta", n) : n \in 1 .. row[sending.turn].text} :
       inbox' = Append(inbox, event)
  /\ faults' = faults + 1
  /\ UNCHANGED <<row, connectedVars, conversation, sendVars, view, load>>

-----------------------------------------------------------------------------
(* send().                                                                 *)

\* _schedule_send, and send() up to the first await of client.chat.
ScheduleSend ==
  LET t == sent + 1
  IN
  /\ sending.at = "none" /\ load.at = "none" /\ active # Nothing
  /\ sent < MaxTurns
  /\ sent' = t
  /\ sending' = [turn |-> t, at |-> "opening", core |-> active, within |-> conversation,
                 known |-> FALSE, moved |-> FALSE]
  /\ view' = Begun(UserAppended(view, t), t, FALSE)
  /\ UNCHANGED <<row, connectedVars, conversation, inbox, load, faults>>

\* The request goes out on the open socket or on a new one, which replaces
\* that of another server and waits for the lock while a socket is closed.
\* Core refuses a conversation it does not have; otherwise it stores the turn
\* and accepts it.
SendRequest ==
  LET t == sending.turn
      known == sending.within = 0 \/ row[sending.within].core = sending.core
  IN
  /\ sending.at = "opening" /\ wire.at # "closing"
  /\ wire' = [at |-> "up", core |-> sending.core]
  /\ sending' = [sending EXCEPT !.at = "reading"]
  /\ IF known
     THEN /\ row' = [row EXCEPT ![t] = [core |-> sending.core, text |-> 0, state |-> "generating",
                       conversation |-> IF sending.within = 0 THEN t ELSE sending.within]]
          /\ inbox' = <<Event("accepted", 0), Event("context", 0)>>
     ELSE inbox' = <<Event("refused", 0)>> /\ UNCHANGED row
  /\ UNCHANGED <<active, server, conversation, sent, view, load, faults>>

\* _mark_connection_lost
LoseConnection ==
  /\ active' = Nothing
  /\ wire' = IF wire.at = "up" THEN [wire EXCEPT !.at = "closing"] ELSE wire

NextIs(type) == sending.at = "reading" /\ inbox # << >> /\ Head(inbox).type = type

\* The socket cannot be opened, or the inbox holds its failure: a note, and
\* the end of the task.
SendFails ==
  LET t == sending.turn
  IN
  /\ \/ sending.at = "opening" /\ wire.at # "closing" /\ wire.core # sending.core
     \/ NextIs("gone")
  /\ LoseConnection
  /\ view' = Finished(Appended(view, t, sending.known, Note), t)
  /\ sending' = NoSend /\ inbox' = << >>
  /\ UNCHANGED <<row, server, conversation, sent, load, faults>>

\* chat.accepted, and assistant.context without the conversation.
HandleNames ==
  /\ NextIs("accepted") \/ NextIs("context")
  /\ conversation' = IF NextIs("accepted") THEN row[sending.turn].conversation ELSE conversation
  /\ view' = Named(view, sending.turn)
  /\ sending' = [sending EXCEPT !.known = TRUE]
  /\ inbox' = Tail(inbox)
  /\ UNCHANGED <<row, connectedVars, sent, load, faults>>

HandleDelta ==
  /\ NextIs("delta")
  /\ view' = Appended(view, sending.turn, TRUE, Head(inbox).n)
  /\ sending' = [sending EXCEPT !.known = TRUE]
  /\ inbox' = Tail(inbox)
  /\ UNCHANGED <<row, connectedVars, conversation, sent, load, faults>>

\* After the terminal event client.chat returns; a visible history window is
\* refreshed before the task ends.
EndSend ==
  /\ inbox' = << >>
  /\ sending' \in {NoSend, [sending EXCEPT !.at = "refreshing"]}

\* A completion the window does not take is treated as a lost connection.
HandleCompleted ==
  LET t == sending.turn
  IN
  /\ NextIs("completed")
  /\ conversation' = row[t].conversation
  /\ IF MayComplete(view, t)
     THEN /\ view' = MessageCompleted(view, t, [n \in 1 .. Head(inbox).n |-> n])
          /\ EndSend /\ UNCHANGED <<active, wire>>
     ELSE /\ view' = Finished(Appended(view, t, TRUE, Note), t)
          /\ LoseConnection /\ sending' = NoSend /\ inbox' = << >>
  /\ UNCHANGED <<row, server, sent, load, faults>>

\* error and chat.cancelled; CONVERSATION_NOT_FOUND also starts a new one.
HandleError ==
  /\ NextIs("error") \/ NextIs("refused")
  /\ conversation' = IF NextIs("refused") THEN 0 ELSE conversation
  /\ view' = Finished(Appended(view, sending.turn, sending.known, Note), sending.turn)
  /\ EndSend
  /\ UNCHANGED <<row, connectedVars, sent, load, faults>>

\* The refreshes at the end of send() show the list of conversations and,
\* beside it, this conversation; the main window stays as it is.
RefreshHistory ==
  /\ sending.at = "refreshing"
  /\ sending' = NoSend
  /\ UNCHANGED <<row, connectedVars, conversation, sent, inbox, view, load, faults>>

-----------------------------------------------------------------------------
(* History.                                                                *)

\* _new_conversation, and the action of the main window, which is disabled
\* while a turn is generated.
NewConversation ==
  /\ sending.at = "none"
  /\ conversation' = 0
  /\ view' = EmptyView
  /\ load' = NoLoad
  /\ UNCHANGED <<row, connectedVars, sendVars, inbox, faults>>

\* _schedule_conversation_load: a load under way is cancelled.
ScheduleLoad ==
  /\ sending.at = "none" /\ active # Nothing
  /\ \E c \in {row[t].conversation : t \in Turns} \ {0} :
       load' = [at |-> "asked", conversation |-> c, core |-> active, found |-> << >>]
  /\ UNCHANGED <<row, connectedVars, conversation, sendVars, inbox, view, faults>>

\* The two messages of each turn of a conversation; the reply is empty as long
\* as it is generated.
MessagesOf(c) ==
  LET Both(t) == <<[id |-> Id("user", t), text |-> << >>, state |-> "completed"],
                   [id |-> Id("assistant", t), state |-> row[t].state,
                    text |-> IF row[t].state = "generating" THEN << >> ELSE StoredText(t)]>>
      upTo[n \in 0 .. MaxTurns] ==
        IF n = 0 THEN << >>
        ELSE upTo[n - 1] \o IF row[n].conversation = c THEN Both(n) ELSE << >>
  IN  upTo[MaxTurns]

\* The messages, before the tool calls are asked for; another Core has none.
LoadAnswered ==
  /\ load.at = "asked"
  /\ \/ load' = NoLoad
     \/ /\ row[load.conversation].core = load.core
        /\ load' = [load EXCEPT !.at = "answered", !.found = MessagesOf(load.conversation)]
  /\ UNCHANGED <<row, connectedVars, conversation, sendVars, inbox, view, faults>>

\* A load of another server or of an older generation is cancelled; one that
\* is answered while a turn is generated shows nothing.
LoadShown ==
  /\ load.at = "answered"
  /\ IF sending.at = "none"
     THEN conversation' = load.conversation /\ view' = MessagesLoaded(load.found)
     ELSE UNCHANGED <<conversation, view>>
  /\ load' = NoLoad
  /\ UNCHANGED <<row, connectedVars, sendVars, inbox, faults>>

-----------------------------------------------------------------------------
(* The connection.                                                         *)

\* A connection attempt reaches a Core.
Probed ==
  /\ active = Nothing
  /\ active' \in Cores
  /\ UNCHANGED <<row, server, wire, conversation, sendVars, inbox, view, load, faults>>

\* _activate_server_key, once that Core has authenticated.
ActivateServer ==
  /\ active # Nothing /\ server # active
  /\ server' = active
  /\ conversation' = 0 /\ view' = EmptyView
  /\ load' = NoLoad
  /\ sending' = [sending EXCEPT !.moved = sending.at # "none"]
  /\ UNCHANGED <<row, active, wire, sent, inbox, faults>>

\* _connected opens the chat socket, in place of one that a send has opened to
\* the server before.
OpenSocket ==
  /\ active # Nothing /\ server = active
  /\ wire.at # "closing" /\ wire.core # active
  /\ wire' = [at |-> "up", core |-> active]
  /\ inbox' = IF wire.at = "up" /\ sending.at = "reading"
              THEN Append(inbox, Event("gone", 0)) ELSE inbox
  /\ UNCHANGED <<row, active, server, conversation, sendVars, view, load, faults>>

\* The connection is given up: the user, two failed probes, a lost token.
ConnectionLost ==
  /\ active # Nothing /\ faults < MaxFaults
  /\ LoseConnection
  /\ faults' = faults + 1
  /\ UNCHANGED <<row, server, conversation, sendVars, inbox, view, load>>

\* The socket is gone, and whoever waits for an answer is told: it was closed,
\* or the reader found its end.
SocketGone ==
  /\ \/ wire.at = "closing" /\ UNCHANGED <<active, faults>>
     \/ wire.at = "up" /\ faults < MaxFaults /\ faults' = faults + 1 /\ active' = Nothing
  /\ wire' = [at |-> "down", core |-> Nothing]
  /\ inbox' = IF sending.at = "reading" THEN Append(inbox, Event("gone", 0)) ELSE inbox
  /\ UNCHANGED <<row, server, conversation, sendVars, view, load>>

LinkChatNext ==
  \/ ScheduleSend \/ SendRequest \/ SendFails
  \/ HandleNames \/ HandleDelta \/ HandleCompleted \/ HandleError \/ RefreshHistory
  \/ NewConversation \/ ScheduleLoad \/ LoadAnswered \/ LoadShown
  \/ Probed \/ ActivateServer \/ OpenSocket \/ ConnectionLost \/ SocketGone
  \/ EventRepeated
  \/ \E t \in Turns : CoreStreams(t) \/ CoreCompletes(t) \/ CoreInterrupts(t)

LinkChatSpec == LinkChatInit /\ [][LinkChatNext]_chatViewVars

-----------------------------------------------------------------------------
(* Properties.                                                             *)

BubblesOf(t, kinds) ==
  {i \in DOMAIN view.bubbles : view.bubbles[i].id.turn = t /\ view.bubbles[i].id.kind \in kinds}

\* docs/ARCHITECTURE.md:44-46: history, replays and completion never show a
\* message of the user or of the assistant twice.
ShownOnce ==
  \A t \in Turns :
    /\ Cardinality(BubblesOf(t, {"client", "user"})) <= 1
    /\ Cardinality(BubblesOf(t, {"pending", "assistant"})) <= 1

\* windows.py:937-971, app.py:1854-1920: a reply the window takes for final
\* reads as Core has stored it, and what has streamed of it so far is its
\* beginning, unless the window was cleared for another server meanwhile.
ShownAsStored ==
  \A t \in Turns : \A i \in BubblesOf(t, {"assistant"}) :
    LET text == view.bubbles[i].text
    IN  IF t \in view.finished THEN text = StoredText(t)
        ELSE view.stream.turn = t /\ ~sending.moved => IsPrefix(text, StoredText(t))

\* app.py:202-212, 691-705, 1883: while a turn is generated nothing but a
\* change of the server takes its two bubbles out of the window.
TurnStaysInView ==
  sending.at \in {"opening", "reading"} /\ ~sending.moved =>
    /\ BubblesOf(sending.turn, {"client", "user"}) # {}
    /\ BubblesOf(sending.turn, {"pending", "assistant"}) # {}
=============================================================================
