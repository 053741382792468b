---------------------------- MODULE MCComponents ----------------------------
(***************************************************************************)
(* One instance of the components of Core, of Link and of the desktop that *)
(* share no state.  A behaviour is one of the component in focus; the      *)
(* others rest in one of their initial states, so that TLC checks each of  *)
(* them on its own and all of them in one run.                             *)
(***************************************************************************)
EXTENDS ChatTurn, AudioJobs, Settings, Persona, Access, Memory, Schema,
        MCLinkAgent, LinkConnection, LocalMigration, RuntimeInstall, Launcher,
        RealtimeAudio, LinkChat

CONSTANTS t1, t2, t3, u1, u2, u3, l1, l2, d1, p1, p2, la, lb

\* A message, the same one sent again on another socket, and its retry.
Question(id, text, retried, where, from) ==
  [request |-> id, message |-> text, retryOf |-> retried,
   conversation |-> where, socket |-> from]
TheRequests ==
  t1 :> Question("r1", "m1", NoMessage, "k1", "s1")
  @@ t2 :> Question("r2", "m1", NoMessage, "k1", "s2")
  @@ t3 :> Question("r3", "m3", "m1", "k1", "s2")

TheUploads == u1 :> "song" @@ u2 :> "song" @@ u3 :> "talk"

BothOfOne == l1 :> d1 @@ l2 :> d1

\* A fact in two spellings, and one that contradicts one of them.
Spelling == "ram 16" :> "ram 16" @@ "RAM 16" :> "ram 16" @@ "ram 32" :> "ram 32"
Subject == "ram 16" :> NoSubject @@ "RAM 16" :> "ram" @@ "ram 32" :> "ram"

\* One to three turns of short and long messages, whole or cut in the middle.
Message(by, n) == [role |-> by, size |-> n]
Exchange(n) == <<Message("user", 1), Message("assistant", n)>>
TheHistories ==
  {<< >>} \cup {Exchange(m) : m \in 1 .. 3} \cup {Exchange(m) \o Exchange(n) : m, n \in 1 .. 3}
  \cup {<<Message("user", 1)>> \o Exchange(1), Exchange(1) \o Exchange(2) \o Exchange(1),
        Exchange(1) \o <<Message("user", 1), Message("user", 1)>> \o Exchange(1)}

SavedList == <<p1>>
EnteredLists == {<<p1>>}

VARIABLE focus

Components == {"chat", "jobs", "settings", "persona", "access", "memory", "schema",
               "agent", "connection", "migration", "install", "launcher", "capture", "view"}

coreVars == <<chatVars, audioVars, settingsVars, personaVars, accessVars, memoryVars, schemaVars>>
desktopVars ==
  <<agentVars, connectionVars, migrationVars, installVars, launcherVars, realtimeVars,
    chatViewVars>>

AllInit ==
  /\ focus \in Components
  /\ ChatInit /\ AudioInit /\ AccessInit
  /\ LinkAgentInit /\ ConnectionInit /\ RealtimeInit /\ LinkChatInit
  /\ SettingsInit
  /\ focus # "settings" => \A section \in Sections : file[section] = CHOOSE v \in Value : TRUE
  /\ PersonaInit
  /\ focus # "persona" => \A d \in DocumentNames : document[d] = Missing
  /\ MemoryInit
  /\ focus # "memory" => memory = << >>
  /\ SchemaInit
  /\ focus # "schema" => old = {}
  /\ MigrationInit
  /\ focus # "migration" => legacy = NoFiles /\ root = NoTree
  /\ InstallInit
  /\ focus # "install" => kind = "model" /\ folder = NoFolder
  /\ LauncherInit
  /\ focus # "launcher" =>
       models = "missing" /\ keeps = {} /\ mode = [l \in Launchers |-> "client"]

CoreNext ==
  \/ focus = "chat" /\ ChatNext
     /\ UNCHANGED <<audioVars, settingsVars, personaVars, accessVars, memoryVars, schemaVars>>
  \/ focus = "jobs" /\ AudioNext
     /\ UNCHANGED <<chatVars, settingsVars, personaVars, accessVars, memoryVars, schemaVars>>
  \/ focus = "settings" /\ SettingsNext
     /\ UNCHANGED <<chatVars, audioVars, personaVars, accessVars, memoryVars, schemaVars>>
  \/ focus = "persona" /\ PersonaNext
     /\ UNCHANGED <<chatVars, audioVars, settingsVars, accessVars, memoryVars, schemaVars>>
  \/ focus = "access" /\ AccessNext
     /\ UNCHANGED <<chatVars, audioVars, settingsVars, personaVars, memoryVars, schemaVars>>
  \/ focus = "memory" /\ MemoryNext
     /\ UNCHANGED <<chatVars, audioVars, settingsVars, personaVars, accessVars, schemaVars>>
  \/ focus = "schema" /\ SchemaNext
     /\ UNCHANGED <<chatVars, audioVars, settingsVars, personaVars, accessVars, memoryVars>>

DesktopNext ==
  \/ focus = "agent" /\ LinkAgentNext
     /\ UNCHANGED <<connectionVars, migrationVars, installVars,
                    launcherVars, realtimeVars, chatViewVars>>
  \/ focus = "connection" /\ ConnectionNext
     /\ UNCHANGED <<agentVars, migrationVars, installVars,
                    launcherVars, realtimeVars, chatViewVars>>
  \/ focus = "migration" /\ MigrationNext
     /\ UNCHANGED <<agentVars, connectionVars, installVars,
                    launcherVars, realtimeVars, chatViewVars>>
  \/ focus = "install" /\ InstallNext
     /\ UNCHANGED <<agentVars, connectionVars, migrationVars,
                    launcherVars, realtimeVars, chatViewVars>>
  \/ focus = "launcher" /\ LauncherNext
     /\ UNCHANGED <<agentVars, connectionVars, migrationVars,
                    installVars, realtimeVars, chatViewVars>>
  \/ focus = "capture" /\ RealtimeNext
     /\ UNCHANGED <<agentVars, connectionVars, migrationVars,
                    installVars, launcherVars, chatViewVars>>
  \/ focus = "view" /\ LinkChatNext
     /\ UNCHANGED <<agentVars, connectionVars, migrationVars,
                    installVars, launcherVars, realtimeVars>>

AllNext ==
  /\ UNCHANGED focus
  /\ \/ CoreNext /\ UNCHANGED desktopVars
     \/ DesktopNext /\ UNCHANGED coreVars

AllSpec == AllInit /\ [][AllNext]_<<focus, coreVars, desktopVars>>

-----------------------------------------------------------------------------
(* Properties; the ones of a component that belong together are one here.  *)

\* The variables of the component in focus have their types.
AllTypesOK ==
  CASE focus = "chat" -> ChatTypeOK
    [] focus = "jobs" -> AudioTypeOK
    [] focus = "settings" -> SettingsTypeOK
    [] focus = "persona" -> PersonaTypeOK
    [] focus = "access" -> AccessTypeOK
    [] focus = "memory" -> MemoryTypeOK
    [] focus = "schema" -> SchemaTypeOK
    [] focus = "agent" -> LinkAgentTypeOK
    [] focus = "connection" -> ConnectionTypeOK
    [] focus = "migration" -> MigrationTypeOK
    [] focus = "install" -> InstallTypeOK
    [] focus = "launcher" -> LauncherTypeOK
    [] focus = "capture" -> RealtimeTypeOK
    [] focus = "view" -> LinkChatTypeOK

\* app.py:1651-1796: the last event of a turn says what its rows say, and a
\* row is not left generating by a turn that is over, failures while it
\* stored its end excepted.
TurnsAreSettled == EventsAgreeWithRows /\ SettledUnlessTorn

\* config.py:95-120 and persona.py:494-538: a save that failed or was cut off
\* loses neither the document nor the chain of revisions, and what is stored
\* of the persona still makes a prompt within its budget.
SavesLoseNothing == RevisionsChain /\ FailedSaveLosesNothing /\ PromptFits

\* memory_retriever.py:383-553: of facts that repeat or contradict each other
\* one is in force, and only it is shown to the model.
OneFactIsTold == OneInForce /\ PromptIsConsistent

\* agent/runtime.py:273-300, agent/idempotency.py:30-35: what Link tells Core
\* of a call is what happened, and nothing happens twice.
OutcomesAreTrue ==
  NoRepeatedEffect /\ CompletedIsReal /\ RefusedMeansUntouched /\ WritesAreConsented

\* docs/RECONNECT_STATE_MACHINE.md: Link is retrying when it shows that it
\* waits, and never once the user has disconnected.
RetryFollowsIntent == WaitingMeansRetrying /\ ManualStaysOffline

\* Whatever ends - a socket, Link, the launcher, a capture - leaves no send
\* waiting, no task, no process and no thread behind.
NothingIsStranded ==
  SendIsNotStranded /\ ShutdownLeavesNothing /\ LauncherLeavesNothing /\ CaptureStops

\* docs/ARCHITECTURE.md:44-46: the main window of Link shows each message
\* once and as Core has stored it, and keeps the turn that is generated.
ViewIsFaithful == ShownOnce /\ ShownAsStored /\ TurnStaysInView

\* database.py:168-335, local_migration.py:289-382, nivelle_runtime.py:157-478:
\* what an update or an installation leaves, wherever it was broken off and
\* however often it was started, loses nothing, and what it puts in place at
\* a stroke is complete.
UpgradeIsWhole == NothingIsLost /\ MigrationIsWhole /\ InstallIsSound
=============================================================================
