--------------------------- MODULE LinkConnection ---------------------------
(***************************************************************************)
(* The connection of Nivelle Link: ConnectionManager and the chat socket   *)
(* of NetworkClient (nivelle_link/network.py), and the tasks of            *)
(* NivelleLinkApplication (nivelle_link/app.py) that share them.           *)
(*                                                                         *)
(* One action is the code of a task between two awaits, with the done      *)
(* callbacks of a task that ends there.  Generations are only compared     *)
(* with the current one, so an attempt and a retry loop are marked stale   *)
(* instead of numbered.  A dialog is modal and blocks its task; no other   *)
(* task runs meanwhile.  A cancelled task ends at once.                    *)
(***************************************************************************)
EXTENDS Naturals, Sequences

CONSTANTS
  Profiles,      \* connection profiles
  Saved,         \* the enabled ones at the start, by priority
  Entered,       \* lists the connection dialog may leave
  NoProfile,
  Pending        \* an attempt has no result yet

ASSUME ConnectionAssumption ==
  /\ NoProfile \notin Profiles /\ Pending \notin Profiles \cup {NoProfile}
  /\ Saved \in Seq(Profiles) /\ Entered \subseteq Seq(Profiles)

Fronts == {"startup", "settings"}    \* _startup_task and _connection_task

VARIABLES
  manager,  \* ConnectionManager, and what it runs: one attempt and one loop
  front,    \* the tasks in _connect_or_configure
  monitor,  \* _monitor_connection
  badAnswers, \* _authentication_failures and _status_failures
  token,    \* the client has a token
  chat,     \* the chat socket is open
  closing,  \* what _close_network_connections has yet to close
  send,     \* the send task
  phase,    \* of the shutdown
  manual    \* the user disconnected and has not asked for a connection since

netVars == <<token, chat, closing, send>>
connectionVars ==
  <<manager, front, monitor, badAnswers, netVars, phase, manual>>

Idle == [at |-> "none", got |-> Pending]
NoLoop == [at |-> "none", got |-> Pending, held |-> FALSE, stale |-> FALSE]
NoAttempt == [at |-> "none", left |-> << >>, mismatch |-> FALSE,
              retryable |-> FALSE, stale |-> FALSE]
NoMonitor == [at |-> "none", watched |-> NoProfile]

Connecting == {"status", "pairing", "chat", "agent", "refreshing"}

States == {"disconnected", "connecting", "authenticating", "connected",
           "reconnect_wait", "failed", "manual_offline"}

ConnectionTypeOK ==
  /\ manager.state \in States
  /\ manager.active \in Profiles \cup {NoProfile}
  /\ manager.auto \in BOOLEAN /\ manager.failures \in 0 .. 2
  /\ manager.attempt.at \in {"none", "new", "probing"}
  /\ manager.loop.at \in {"none", "new", "sleeping", "probing"} \cup Connecting
  /\ \A w \in Fronts :
       front[w].at \in {"none", "waiting", "saved", "probing", "dialog"} \cup Connecting
  /\ monitor.at \in {"none", "sleeping", "checking", "status"}
  /\ badAnswers \in [authentication : 0 .. 2, status : 0 .. 2]
  /\ token \in BOOLEAN /\ chat \in BOOLEAN
  /\ closing \subseteq {"chat", "agent"}
  /\ send \in {"none", "opening", "waiting", "failed"}
  /\ phase \in {"running", "ending", "stopped", "over"}
  /\ manual \in BOOLEAN

\* start() has shown the window and begun to connect, or to ask.
ConnectionInit ==
  /\ manager = [state |-> "disconnected", active |-> NoProfile, auto |-> TRUE,
                profiles |-> Saved, failures |-> 0, loop |-> NoLoop,
                attempt |-> IF Saved = << >> THEN NoAttempt ELSE [NoAttempt EXCEPT !.at = "new"]]
  /\ front = [w \in Fronts |->
       IF w = "settings" THEN Idle
       ELSE [Idle EXCEPT !.at = IF Saved = << >> THEN "dialog" ELSE "saved"]]
  /\ monitor = NoMonitor
  /\ badAnswers = [authentication |-> 0, status |-> 0]
  /\ token = FALSE /\ chat = FALSE /\ closing = {}
  /\ send = "none" /\ phase = "running" /\ manual = FALSE

-----------------------------------------------------------------------------
(* The manager, as functions of its state.                                 *)

\* A new generation.
Outdated(m) ==
  [m EXCEPT !.attempt.stale = m.attempt.at # "none", !.loop.stale = m.loop.at # "none"]

SetProfiles(m, list) ==
  [Outdated(m) EXCEPT !.profiles = list, !.active = NoProfile,
     !.state = "disconnected", !.failures = 0, !.auto = TRUE]

Lost(m) ==
  [Outdated(m) EXCEPT !.active = NoProfile, !.failures = 0, !.state = "reconnect_wait"]

ManuallyOff(m) ==
  [Outdated(m) EXCEPT !.active = NoProfile, !.failures = 0,
     !.auto = FALSE, !.state = "manual_offline"]

\* connect(): an undone attempt is shared, whatever its generation.  In
\* MANUAL_OFFLINE it refuses, but then all its callers are stale.
Attempted(m) ==
  IF m.attempt.at # "none" THEN m
  ELSE [m EXCEPT !.attempt = [NoAttempt EXCEPT !.at = "new"]]

\* _schedule_auto_reconnect and schedule_reconnect: an undone loop is taken
\* for the retry, whatever its generation.
MayReconnect(m) ==
  /\ phase = "running"
  /\ m.active = NoProfile /\ m.auto
  /\ m.state # "manual_offline"
  /\ m.profiles # << >>

Retried(m) ==
  IF ~MayReconnect(m) THEN m
  ELSE IF m.loop.at # "none" THEN [m EXCEPT !.loop.held = TRUE]
  ELSE [m EXCEPT !.loop = [NoLoop EXCEPT !.at = "new", !.held = TRUE]]

\* Variant: the end of a loop is not looked at.
LoopEndedQuietly(m) == [m EXCEPT !.loop = NoLoop]

\* _auto_reconnect_finished.
LoopEnded(m) ==
  LET done == [m EXCEPT !.loop = NoLoop]
  IN  IF m.state = "reconnect_wait" THEN Retried(done) ELSE done

LoopFailed(m) == [m EXCEPT !.loop = NoLoop, !.state = "failed"]

\* _cancel_auto_reconnect by another task.
LoopCancelled(m) == IF m.loop.held THEN [m EXCEPT !.loop = NoLoop] ELSE m

\* _mark_authentication_required.
NeedsPairing(m) ==
  [Lost(LoopCancelled(m)) EXCEPT !.auto = FALSE, !.state = "failed"]

-----------------------------------------------------------------------------
(* _connect_once.                                                          *)

AttemptBegins ==
  /\ manager.attempt.at = "new" /\ ~manager.attempt.stale
  /\ manager' = [manager EXCEPT !.state = "connecting", !.active = NoProfile,
       !.attempt.at = "probing", !.attempt.left = manager.profiles]
  /\ UNCHANGED <<front, monitor, badAnswers, netVars, phase, manual>>

\* The end of an attempt wakes those who wait for it.
Answered(w, result) == IF w.at \in {"saved", "probing"} THEN [w EXCEPT !.got = result] ELSE w

EndAttempt(m, result) ==
  /\ manager' = [m EXCEPT !.attempt = NoAttempt, !.loop = Answered(@, result)]
  /\ front' = [w \in Fronts |-> Answered(front[w], result)]

\* An attempt of an older generation changes nothing.
AttemptIsStale ==
  /\ manager.attempt.at # "none" /\ manager.attempt.stale
  /\ EndAttempt(manager, NoProfile)
  /\ UNCHANGED <<monitor, badAnswers, netVars, phase, manual>>

ProbeAnswers(outcome) ==
  LET attempt == manager.attempt
      wrong == [attempt EXCEPT !.left = Tail(@),
                  !.mismatch = @ \/ outcome = "mismatch",
                  !.retryable = @ \/ outcome = "down"]
  IN
  /\ attempt.at = "probing" /\ ~attempt.stale /\ attempt.left # << >>
  /\ \/ /\ outcome = "ok"
        /\ EndAttempt([manager EXCEPT !.active = Head(attempt.left),
                         !.state = "authenticating", !.failures = 0],
                      Head(attempt.left))
     \/ /\ outcome # "ok" /\ Len(attempt.left) > 1
        /\ manager' = [manager EXCEPT !.attempt = wrong]
        /\ UNCHANGED front
     \/ /\ outcome # "ok" /\ Len(attempt.left) = 1
        /\ EndAttempt([manager EXCEPT !.state = "failed",
                         !.auto = @ /\ (wrong.mismatch => wrong.retryable)],
                      NoProfile)
  /\ UNCHANGED <<monitor, badAnswers, netVars, phase, manual>>

-----------------------------------------------------------------------------
(* The tasks that connect: a front or the loop.                            *)

\* _schedule_chat_close: not while a close is under way.
ScheduleClose == closing' = IF closing = {} THEN {"chat", "agent"} ELSE closing

\* Where task w goes on, in the manager state m.
Stays(w, m, stage) ==
  IF w = "loop"
  THEN manager' = [m EXCEPT !.loop.at = stage, !.loop.got = Pending] /\ UNCHANGED front
  ELSE manager' = m /\ front' = [front EXCEPT ![w] = [Idle EXCEPT !.at = stage]]

FrontReturns(w, m) ==
  IF w = "loop" THEN manager' = LoopEnded(m) /\ UNCHANGED front
  ELSE manager' = m /\ front' = [front EXCEPT ![w] = Idle]

\* An exception leaves the task: only that of the settings has a callback
\* that retries.
Raises(w, m) ==
  IF w = "loop" THEN manager' = LoopFailed(m) /\ UNCHANGED front
  ELSE /\ manager' = IF w = "settings" THEN Retried(m) ELSE m
       /\ front' = [front EXCEPT ![w] = Idle]

\* _mark_connection_lost, as the last thing a task does.
ReturnsLost(w) ==
  /\ FrontReturns(w, Retried(Lost(manager)))
  /\ monitor' = NoMonitor /\ ScheduleClose
  /\ UNCHANGED token

ReturnsUnpaired(w) ==
  /\ FrontReturns(w, NeedsPairing(IF w = "loop" THEN [manager EXCEPT !.loop.held = FALSE] ELSE manager))
  /\ monitor' = NoMonitor /\ ScheduleClose
  /\ token' = FALSE

\* base_url() of the next request raises without an active profile.
NextRequest(w, m, stage) ==
  IF m.active = NoProfile THEN Raises(w, m) ELSE Stays(w, m, stage)

IsAt(w, stage) == IF w = "loop" THEN manager.loop.at = stage ELSE front[w].at = stage
Got(w) == IF w = "loop" THEN manager.loop.got ELSE front[w].got

\* _connected up to its first request; a loop that connects gives up its
\* place in _auto_reconnect_task.
BeginConnected(w) ==
  /\ IsAt(w, "probing") \/ IsAt(w, "saved")
  /\ Got(w) \in Profiles
  /\ token' \in BOOLEAN
  /\ LET m == [IF w = "loop" THEN [manager EXCEPT !.loop.held = FALSE] ELSE LoopCancelled(manager)
               EXCEPT !.state = "authenticating"]
     IN  NextRequest(w, m, IF token' THEN "status" ELSE "pairing")
  /\ UNCHANGED <<monitor, badAnswers, chat, closing, send, phase, manual>>

Pair(w) ==
  /\ IsAt(w, "pairing")
  /\ \/ /\ NextRequest(w, manager, "status") /\ token' = (manager.active # NoProfile)
        /\ UNCHANGED <<monitor, closing>>
     \/ ReturnsUnpaired(w)
  /\ UNCHANGED <<badAnswers, chat, send, phase, manual>>

GoodStatus(w) ==
  /\ IsAt(w, "status")
  /\ badAnswers' = [badAnswers EXCEPT !.authentication = 0]
  /\ NextRequest(w, manager, "chat")
  /\ UNCHANGED <<monitor, netVars, phase, manual>>

\* _handle_authentication_failure counts up to 2, after which it only refuses.
RefusedStatuses(answer) ==
  IF answer = "unauthorized" /\ badAnswers.authentication < 2
  THEN badAnswers.authentication + 1 ELSE badAnswers.authentication

\* The identity differs, or the token was refused twice.
BadStatus(w, answer) ==
  /\ IsAt(w, "status")
  /\ LET bad == RefusedStatuses(answer)
     IN  /\ badAnswers' = [badAnswers EXCEPT !.authentication = bad]
         /\ \/ /\ answer = "mismatch" \/ (answer = "unauthorized" /\ bad >= 2)
               /\ ReturnsUnpaired(w)
            \/ /\ answer = "down" \/ (answer = "unauthorized" /\ bad < 2)
               /\ ReturnsLost(w)
            \/ /\ answer = "malformed"
               /\ FrontReturns(w, [manager EXCEPT !.state = "failed"])
               /\ UNCHANGED <<monitor, token, closing>>
  /\ UNCHANGED <<chat, send, phase, manual>>

\* ensure_chat_connection: the open socket is used again or replaced, which
\* fails the request that waits on it.
Replaced == IF send = "waiting" THEN "failed" ELSE send

\* mark_connected, which raises when the connection was lost meanwhile; open
\* windows are refreshed before the task returns.
MarkConnected(w) ==
  IF manager.active = NoProfile
  THEN Raises(w, manager) /\ UNCHANGED <<monitor, badAnswers>>
  ELSE /\ badAnswers' = [badAnswers EXCEPT !.status = 0]
       /\ monitor' = IF phase = "running" /\ monitor = NoMonitor
                     THEN [NoMonitor EXCEPT !.at = "sleeping"] ELSE monitor
       /\ LET m == [manager EXCEPT !.state = "connected", !.failures = 0, !.auto = TRUE]
          IN  FrontReturns(w, m) \/ Stays(w, m, "refreshing")

OpenChat(w) ==
  /\ IsAt(w, "chat")
  /\ \/ /\ chat' = TRUE /\ send' \in {send, Replaced}
        /\ \/ MarkConnected(w)
           \/ Stays(w, manager, "agent") /\ UNCHANGED <<monitor, badAnswers>>
        /\ UNCHANGED <<token, closing>>
     \/ /\ ReturnsLost(w)
        /\ chat' = FALSE /\ send' = Replaced
        /\ UNCHANGED badAnswers
  /\ UNCHANGED <<phase, manual>>

\* _start_agent_session, whose failure is not one of the connection.
StartAgent(w) ==
  /\ IsAt(w, "agent")
  /\ MarkConnected(w)
  /\ UNCHANGED <<netVars, phase, manual>>

Refresh(w) ==
  /\ IsAt(w, "refreshing")
  /\ FrontReturns(w, manager)
  /\ UNCHANGED <<monitor, badAnswers, netVars, phase, manual>>

Connected(w) ==
  \/ BeginConnected(w) \/ Pair(w) \/ GoodStatus(w)
  \/ \E answer \in {"mismatch", "unauthorized", "down", "malformed"} : BadStatus(w, answer)
  \/ OpenChat(w) \/ StartAgent(w) \/ Refresh(w)

-----------------------------------------------------------------------------
(* _reconnect_loop.                                                        *)

\* The head of the loop, first or after an attempt without a result.
LoopTurns ==
  /\ \/ manager.loop.at = "new"
     \/ manager.loop.at = "probing" /\ manager.loop.got = NoProfile
  /\ IF ~manager.loop.stale /\ manager.active = NoProfile /\ manager.auto
     THEN Stays("loop", [manager EXCEPT !.state = "reconnect_wait"], "sleeping")
     ELSE FrontReturns("loop", manager)
  /\ UNCHANGED <<monitor, badAnswers, netVars, phase, manual>>

LoopWakes ==
  /\ manager.loop.at = "sleeping"
  /\ IF manager.loop.stale THEN FrontReturns("loop", manager)
     ELSE Stays("loop", Attempted(manager), "probing")
  /\ UNCHANGED <<monitor, badAnswers, netVars, phase, manual>>

-----------------------------------------------------------------------------
(* _connect_or_configure.                                                  *)

LockIsFree == \A w \in Fronts : front[w].at \in {"none", "waiting"}

\* The settings wait for the lock while the start still connects.
EnterFront(w) ==
  /\ front[w].at = "waiting" /\ LockIsFree
  /\ Stays(w, manager, "dialog")
  /\ UNCHANGED <<monitor, badAnswers, netVars, phase, manual>>

\* Without a connection the saved profiles are retried in the background,
\* unless that is switched off; what was entered is asked for again.
FrontFails(w) ==
  /\ front[w].at \in {"saved", "probing"} /\ front[w].got = NoProfile
  /\ IF front[w].at = "saved" /\ manager.auto
     THEN FrontReturns(w, Retried([manager EXCEPT !.state = "reconnect_wait"]))
     ELSE Stays(w, manager, "dialog")
  /\ UNCHANGED <<monitor, badAnswers, netVars, phase, manual>>

DialogRejected(w) ==
  /\ front[w].at = "dialog"
  /\ FrontReturns(w, Retried(manager))
  /\ monitor' = IF manager.active # NoProfile /\ monitor = NoMonitor
                THEN [NoMonitor EXCEPT !.at = "sleeping"] ELSE monitor
  /\ UNCHANGED <<badAnswers, netVars, phase, manual>>

DialogAccepted(w, list) ==
  /\ front[w].at = "dialog"
  /\ Stays(w, Attempted(SetProfiles(manager, list)), "probing")
  /\ manual' = FALSE
  /\ UNCHANGED <<monitor, badAnswers, netVars, phase>>

-----------------------------------------------------------------------------
(* The user and the send task.                                             *)

\* Sending without a connection asks for one as well.
ConnectionSettings ==
  /\ phase = "running" /\ send = "none" /\ front["settings"].at = "none"
  /\ badAnswers' = [badAnswers EXCEPT !.authentication = 0]
  /\ manager' = [LoopCancelled(manager) EXCEPT !.auto = TRUE,
       !.state = IF @ = "manual_offline" THEN "disconnected" ELSE @,
       !.loop.held = FALSE]
  /\ front' = [front EXCEPT !["settings"] = [Idle EXCEPT !.at = "waiting"]]
  /\ monitor' = NoMonitor
  /\ manual' = FALSE
  /\ UNCHANGED <<netVars, phase>>

DisconnectManually ==
  /\ phase = "running" /\ send = "none"
  /\ manager' = [ManuallyOff(LoopCancelled(manager)) EXCEPT !.loop.held = FALSE]
  /\ monitor' = NoMonitor /\ token' = FALSE /\ ScheduleClose
  /\ manual' = TRUE
  /\ UNCHANGED <<front, badAnswers, chat, send, phase>>

\* send() and chat() up to the handshake, if there is to be one.
BeginSend ==
  /\ phase = "running" /\ send = "none"
  /\ manager.active # NoProfile /\ token
  /\ send' = "opening"
  /\ UNCHANGED <<manager, front, monitor, badAnswers, token, chat, closing, phase, manual>>

\* _mark_connection_lost, of a task that has no place in this module.
MarksLost ==
  /\ manager' = Retried(Lost(manager))
  /\ monitor' = NoMonitor /\ ScheduleClose
  /\ UNCHANGED front

SendOpens ==
  /\ send = "opening"
  /\ \/ /\ chat' = TRUE /\ send' = "waiting"
        /\ UNCHANGED <<manager, front, monitor, closing>>
     \/ chat' = FALSE /\ send' = "none" /\ MarksLost
  /\ UNCHANGED <<badAnswers, token, phase, manual>>

\* A terminal event arrives; or the failure in the queue is read.
SendEnds ==
  /\ \/ send = "waiting" /\ chat /\ UNCHANGED <<manager, front, monitor, closing>>
     \/ send = "failed" /\ MarksLost
  /\ send' = "none"
  /\ UNCHANGED <<badAnswers, token, chat, phase, manual>>

-----------------------------------------------------------------------------
(* The chat socket.                                                        *)

\* _read_chat_events and _chat_connection_lost.
ChatDrops ==
  /\ chat /\ phase # "over"
  /\ chat' = FALSE /\ send' = Replaced
  /\ \/ /\ manager.state \in {"manual_offline", "disconnected", "failed"}
        /\ UNCHANGED <<manager, front, monitor, closing>>
     \/ /\ manager.state \notin {"manual_offline", "disconnected", "failed"}
        /\ MarksLost
  /\ UNCHANGED <<badAnswers, token, phase, manual>>

\* Variant: the request that waits on the socket is not told.
CloseChatQuietly ==
  /\ "chat" \in closing
  /\ closing' = closing \ {"chat"}
  /\ chat' = FALSE
  /\ UNCHANGED <<manager, front, monitor, badAnswers, token, send, phase, manual>>

CloseChat ==
  /\ "chat" \in closing
  /\ closing' = closing \ {"chat"}
  /\ chat' = FALSE /\ send' = Replaced
  /\ UNCHANGED <<manager, front, monitor, badAnswers, token, phase, manual>>

CloseAgent ==
  /\ "agent" \in closing
  /\ closing' = closing \ {"agent"}
  /\ UNCHANGED <<manager, front, monitor, badAnswers, token, chat, send, phase, manual>>

-----------------------------------------------------------------------------
(* _monitor_connection.                                                    *)

Monitors(m) ==
  /\ manager' = m
  /\ monitor' = IF m.active = NoProfile THEN NoMonitor ELSE [NoMonitor EXCEPT !.at = "sleeping"]

MonitorEnds(m) == manager' = m /\ monitor' = NoMonitor

\* check_active, if there still is an active profile.
MonitorWakes ==
  /\ monitor.at = "sleeping"
  /\ IF manager.active = NoProfile
     THEN MonitorEnds(Retried(manager))
     ELSE monitor' = [at |-> "checking", watched |-> manager.active] /\ UNCHANGED manager
  /\ UNCHANGED <<front, badAnswers, netVars, phase, manual>>

\* Another server answers: the profile is given up, whichever is active now.
IdentityChanged == [manager EXCEPT !.active = NoProfile, !.state = "reconnect_wait"]

Failures == IF manager.failures < 2 THEN manager.failures + 1 ELSE 2

\* Two failures in a row, of the profile that was probed.
HealthFailed ==
  IF manager.active = monitor.watched /\ Failures >= 2
  THEN [manager EXCEPT !.failures = Failures, !.active = NoProfile, !.state = "reconnect_wait"]
  ELSE [manager EXCEPT !.failures = Failures]

\* The status is asked for at every third check; that raises without an
\* active profile.
HealthIsGood ==
  LET m == [manager EXCEPT !.failures = 0]
  IN  \/ Monitors(m)
      \/ /\ token /\ m.active # NoProfile
         /\ manager' = m /\ monitor' = [monitor EXCEPT !.at = "status"]
      \/ token /\ m.active = NoProfile /\ MonitorEnds(Retried(Lost(m)))

MonitorChecked ==
  /\ monitor.at = "checking"
  /\ \/ HealthIsGood
     \/ MonitorEnds(Retried(IdentityChanged))
     \/ IF HealthFailed.active = NoProfile
        THEN MonitorEnds(Retried(HealthFailed))
        ELSE Monitors(HealthFailed)
  /\ UNCHANGED <<front, badAnswers, netVars, phase, manual>>

StatusIsGood ==
  /\ badAnswers' = [authentication |-> 0, status |-> 0]
  /\ Monitors(manager)
  /\ UNCHANGED <<token, closing>>

StatusIsDown ==
  /\ IF badAnswers.status + 1 >= 2
     THEN badAnswers' = badAnswers /\ manager' = Retried(Lost(manager))
          /\ monitor' = NoMonitor /\ ScheduleClose
     ELSE badAnswers' = [badAnswers EXCEPT !.status = @ + 1]
          /\ Monitors(manager) /\ UNCHANGED closing
  /\ UNCHANGED token

StatusIsRefused ==
  /\ badAnswers' = [badAnswers EXCEPT !.authentication = RefusedStatuses("unauthorized")]
  /\ IF RefusedStatuses("unauthorized") < 2
     THEN manager' = Retried(Lost(manager)) /\ UNCHANGED token
     ELSE manager' = NeedsPairing(manager) /\ token' = FALSE
  /\ monitor' = NoMonitor /\ ScheduleClose

StatusIsOfAnother ==
  /\ manager' = NeedsPairing(manager) /\ token' = FALSE
  /\ monitor' = NoMonitor /\ ScheduleClose
  /\ UNCHANGED badAnswers

MonitorAnswered ==
  /\ monitor.at = "status"
  /\ \/ StatusIsGood \/ StatusIsDown \/ StatusIsRefused \/ StatusIsOfAnother
     \/ /\ MonitorEnds([manager EXCEPT !.state = "failed"])   \* malformed
        /\ UNCHANGED <<badAnswers, token, closing>>
  /\ UNCHANGED <<front, chat, send, phase, manual>>

-----------------------------------------------------------------------------
(* The end of the application.                                             *)

\* _cancel_background_tasks and shutdown(): the tasks the application knows.
Quit ==
  /\ phase = "running"
  /\ phase' = "ending"
  /\ manager' = LoopCancelled(manager)
  /\ front' = [w \in Fronts |-> Idle]
  /\ monitor' = NoMonitor
  /\ send' = "none"
  /\ ScheduleClose
  /\ UNCHANGED <<badAnswers, token, chat, manual>>

\* ConnectionManager.shutdown reaps the tasks it knows.
StopManager ==
  /\ phase = "ending"
  /\ phase' = "stopped"
  /\ manager' = [Outdated(manager) EXCEPT !.attempt = NoAttempt, !.loop = NoLoop,
       !.active = NoProfile, !.auto = FALSE, !.state = "disconnected"]
  /\ UNCHANGED <<front, monitor, badAnswers, netVars, manual>>

\* NetworkClient.shutdown.
StopClient ==
  /\ phase = "stopped"
  /\ phase' = "over"
  /\ chat' = FALSE /\ send' = Replaced
  /\ UNCHANGED <<manager, front, monitor, badAnswers, token, closing, manual>>

-----------------------------------------------------------------------------
ConnectionNext ==
  \/ AttemptBegins \/ AttemptIsStale
  \/ \E outcome \in {"ok", "mismatch", "down"} : ProbeAnswers(outcome)
  \/ \E w \in Fronts \cup {"loop"} : Connected(w)
  \/ LoopTurns \/ LoopWakes
  \/ \E w \in Fronts :
       \/ EnterFront(w) \/ FrontFails(w) \/ DialogRejected(w)
       \/ \E list \in Entered : DialogAccepted(w, list)
  \/ ConnectionSettings \/ DisconnectManually
  \/ BeginSend \/ SendOpens \/ SendEnds
  \/ ChatDrops \/ CloseChat \/ CloseAgent
  \/ MonitorWakes \/ MonitorChecked \/ MonitorAnswered
  \/ Quit \/ StopManager \/ StopClient

ConnectionSpec == ConnectionInit /\ [][ConnectionNext]_connectionVars

-----------------------------------------------------------------------------
(* Properties.                                                             *)

SomebodyConnects ==
  \/ manager.loop.at # "none" \/ monitor.at # "none"
  \/ \E w \in Fronts : front[w].at # "none"

\* docs/RECONNECT_STATE_MACHINE.md:13: in RECONNECT_WAIT somebody waits for the
\* next attempt, although a retry is often handed to a loop of an older
\* generation that ends without one.
WaitingMeansRetrying ==
  phase = "running" /\ manager.state = "reconnect_wait" /\ manager.auto
    /\ manager.active = NoProfile /\ manager.profiles # << >> => SomebodyConnects

\* docs/RECONNECT_STATE_MACHINE.md:15: after a manual disconnect no task that
\* was under way brings a connection back.
ManualStaysOffline ==
  manual =>
    /\ manager.active = NoProfile /\ ~manager.auto
    /\ manager.attempt.at # "none" => manager.attempt.stale

\* network.py:706-760: a request that waits for its answer is told when the
\* socket it was sent on is gone, whoever closed or replaced it.
SendIsNotStranded == send = "waiting" => chat

\* docs/RECONNECT_STATE_MACHINE.md:28-30: when the application is over, no task
\* is left that could connect and no socket is open.
ShutdownLeavesNothing ==
  phase = "over" => ~SomebodyConnects /\ ~chat /\ manager.attempt.at = "none" /\ send = "none"
=============================================================================
