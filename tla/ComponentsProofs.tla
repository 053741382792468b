-------------------------- MODULE ComponentsProofs --------------------------
(***************************************************************************)
(* Proofs about the components taken together (module MCComponents): a     *)
(* behaviour of the composition is one of each component, so that what is  *)
(* proved of a component holds in the composition.                         *)
(***************************************************************************)
EXTENDS MCComponents, CoreProofs, LinkProofs, LinkChatProofs, LinkAgentProofs, TLAPS

allVars == <<focus, coreVars, desktopVars>>

-----------------------------------------------------------------------------
(* A step of the composition is one of the component in focus; the others  *)
(* do not move.                                                            *)

LEMMA CoreRests ==
  ASSUME UNCHANGED coreVars
  PROVE  /\ UNCHANGED chatVars
         /\ UNCHANGED audioVars
         /\ UNCHANGED settingsVars
         /\ UNCHANGED personaVars
         /\ UNCHANGED accessVars
         /\ UNCHANGED memoryVars
         /\ UNCHANGED schemaVars
BY Zenon DEF coreVars

LEMMA DesktopRests ==
  ASSUME UNCHANGED desktopVars
  PROVE  /\ UNCHANGED agentVars
         /\ UNCHANGED connectionVars
         /\ UNCHANGED migrationVars
         /\ UNCHANGED installVars
         /\ UNCHANGED launcherVars
         /\ UNCHANGED realtimeVars
         /\ UNCHANGED chatViewVars
BY Zenon DEF desktopVars

LEMMA CoreSteps ==
  ASSUME CoreNext
  PROVE  /\ [ChatNext]_chatVars
         /\ [AudioNext]_audioVars
         /\ [SettingsNext]_settingsVars
         /\ [PersonaNext]_personaVars
         /\ [AccessNext]_accessVars
         /\ [MemoryNext]_memoryVars
         /\ [SchemaNext]_schemaVars
<1>1. ChatNext \/ UNCHANGED chatVars
  BY Zenon DEF CoreNext
<1>2. AudioNext \/ UNCHANGED audioVars
  BY Zenon DEF CoreNext
<1>3. SettingsNext \/ UNCHANGED settingsVars
  BY Zenon DEF CoreNext
<1>4. PersonaNext \/ UNCHANGED personaVars
  BY Zenon DEF CoreNext
<1>5. AccessNext \/ UNCHANGED accessVars
  BY Zenon DEF CoreNext
<1>6. MemoryNext \/ UNCHANGED memoryVars
  BY Zenon DEF CoreNext
<1>7. SchemaNext \/ UNCHANGED schemaVars
  BY Zenon DEF CoreNext
<1> QED
  BY <1>1, <1>2, <1>3, <1>4, <1>5, <1>6, <1>7, Zenon

LEMMA DesktopSteps ==
  ASSUME DesktopNext
  PROVE  /\ [LinkAgentNext]_agentVars
         /\ [ConnectionNext]_connectionVars
         /\ [MigrationNext]_migrationVars
         /\ [InstallNext]_installVars
         /\ [LauncherNext]_launcherVars
         /\ [RealtimeNext]_realtimeVars
         /\ [LinkChatNext]_chatViewVars
<1>1. LinkAgentNext \/ UNCHANGED agentVars
  BY Zenon DEF DesktopNext
<1>2. ConnectionNext \/ UNCHANGED connectionVars
  BY Zenon DEF DesktopNext
<1>3. MigrationNext \/ UNCHANGED migrationVars
  BY Zenon DEF DesktopNext
<1>4. InstallNext \/ UNCHANGED installVars
  BY Zenon DEF DesktopNext
<1>5. LauncherNext \/ UNCHANGED launcherVars
  BY Zenon DEF DesktopNext
<1>6. RealtimeNext \/ UNCHANGED realtimeVars
  BY Zenon DEF DesktopNext
<1>7. LinkChatNext \/ UNCHANGED chatViewVars
  BY Zenon DEF DesktopNext
<1> QED
  BY <1>1, <1>2, <1>3, <1>4, <1>5, <1>6, <1>7, Zenon

LEMMA AllSteps ==
  ASSUME [AllNext]_allVars
  PROVE  /\ [ChatNext]_chatVars
         /\ [AudioNext]_audioVars
         /\ [SettingsNext]_settingsVars
         /\ [PersonaNext]_personaVars
         /\ [AccessNext]_accessVars
         /\ [MemoryNext]_memoryVars
         /\ [SchemaNext]_schemaVars
         /\ [LinkAgentNext]_agentVars
         /\ [ConnectionNext]_connectionVars
         /\ [MigrationNext]_migrationVars
         /\ [InstallNext]_installVars
         /\ [LauncherNext]_launcherVars
         /\ [RealtimeNext]_realtimeVars
         /\ [LinkChatNext]_chatViewVars
<1>1. CASE CoreNext /\ UNCHANGED desktopVars
  BY <1>1, CoreSteps, DesktopRests, Zenon
<1>2. CASE DesktopNext /\ UNCHANGED coreVars
  BY <1>2, DesktopSteps, CoreRests, Zenon
<1>3. CASE UNCHANGED allVars
  <2>1. UNCHANGED coreVars /\ UNCHANGED desktopVars
    BY <1>3, Zenon DEF allVars
  <2> QED
    BY <2>1, CoreRests, DesktopRests, Zenon
<1> QED
  BY <1>1, <1>2, <1>3, Zenon DEF AllNext

-----------------------------------------------------------------------------
(* The composition implements each component; of the audio jobs without    *)
(* their fairness.                                                         *)

LEMMA AllIsChat == AllSpec => ChatInit /\ [][ChatNext]_chatVars
<1>1. AllInit => ChatInit
  BY Zenon DEF AllInit
<1>2. [AllNext]_allVars => [ChatNext]_chatVars
  BY AllSteps
<1> QED
  BY <1>1, <1>2, PTL DEF AllSpec, allVars

LEMMA AllIsAudio == AllSpec => AudioInit /\ [][AudioNext]_audioVars
<1>1. AllInit => AudioInit
  BY Zenon DEF AllInit
<1>2. [AllNext]_allVars => [AudioNext]_audioVars
  BY AllSteps
<1> QED
  BY <1>1, <1>2, PTL DEF AllSpec, allVars

LEMMA AllIsSettings == AllSpec => SettingsInit /\ [][SettingsNext]_settingsVars
<1>1. AllInit => SettingsInit
  BY Zenon DEF AllInit
<1>2. [AllNext]_allVars => [SettingsNext]_settingsVars
  BY AllSteps
<1> QED
  BY <1>1, <1>2, PTL DEF AllSpec, allVars

LEMMA AllIsPersona == AllSpec => PersonaInit /\ [][PersonaNext]_personaVars
<1>1. AllInit => PersonaInit
  BY Zenon DEF AllInit
<1>2. [AllNext]_allVars => [PersonaNext]_personaVars
  BY AllSteps
<1> QED
  BY <1>1, <1>2, PTL DEF AllSpec, allVars

LEMMA AllIsAccess == AllSpec => AccessInit /\ [][AccessNext]_accessVars
<1>1. AllInit => AccessInit
  BY Zenon DEF AllInit
<1>2. [AllNext]_allVars => [AccessNext]_accessVars
  BY AllSteps
<1> QED
  BY <1>1, <1>2, PTL DEF AllSpec, allVars

LEMMA AllIsMemory == AllSpec => MemoryInit /\ [][MemoryNext]_memoryVars
<1>1. AllInit => MemoryInit
  BY Zenon DEF AllInit
<1>2. [AllNext]_allVars => [MemoryNext]_memoryVars
  BY AllSteps
<1> QED
  BY <1>1, <1>2, PTL DEF AllSpec, allVars

LEMMA AllIsSchema == AllSpec => SchemaInit /\ [][SchemaNext]_schemaVars
<1>1. AllInit => SchemaInit
  BY Zenon DEF AllInit
<1>2. [AllNext]_allVars => [SchemaNext]_schemaVars
  BY AllSteps
<1> QED
  BY <1>1, <1>2, PTL DEF AllSpec, allVars

LEMMA AllIsLinkAgent == AllSpec => LinkAgentInit /\ [][LinkAgentNext]_agentVars
<1>1. AllInit => LinkAgentInit
  BY Zenon DEF AllInit
<1>2. [AllNext]_allVars => [LinkAgentNext]_agentVars
  BY AllSteps
<1> QED
  BY <1>1, <1>2, PTL DEF AllSpec, allVars

LEMMA AllIsConnection == AllSpec => ConnectionInit /\ [][ConnectionNext]_connectionVars
<1>1. AllInit => ConnectionInit
  BY Zenon DEF AllInit
<1>2. [AllNext]_allVars => [ConnectionNext]_connectionVars
  BY AllSteps
<1> QED
  BY <1>1, <1>2, PTL DEF AllSpec, allVars

LEMMA AllIsMigration == AllSpec => MigrationInit /\ [][MigrationNext]_migrationVars
<1>1. AllInit => MigrationInit
  BY Zenon DEF AllInit
<1>2. [AllNext]_allVars => [MigrationNext]_migrationVars
  BY AllSteps
<1> QED
  BY <1>1, <1>2, PTL DEF AllSpec, allVars

LEMMA AllIsInstall == AllSpec => InstallInit /\ [][InstallNext]_installVars
<1>1. AllInit => InstallInit
  BY Zenon DEF AllInit
<1>2. [AllNext]_allVars => [InstallNext]_installVars
  BY AllSteps
<1> QED
  BY <1>1, <1>2, PTL DEF AllSpec, allVars

LEMMA AllIsLauncher == AllSpec => LauncherInit /\ [][LauncherNext]_launcherVars
<1>1. AllInit => LauncherInit
  BY Zenon DEF AllInit
<1>2. [AllNext]_allVars => [LauncherNext]_launcherVars
  BY AllSteps
<1> QED
  BY <1>1, <1>2, PTL DEF AllSpec, allVars

LEMMA AllIsRealtime == AllSpec => RealtimeInit /\ [][RealtimeNext]_realtimeVars
<1>1. AllInit => RealtimeInit
  BY Zenon DEF AllInit
<1>2. [AllNext]_allVars => [RealtimeNext]_realtimeVars
  BY AllSteps
<1> QED
  BY <1>1, <1>2, PTL DEF AllSpec, allVars

LEMMA AllIsLinkChat == AllSpec => LinkChatInit /\ [][LinkChatNext]_chatViewVars
<1>1. AllInit => LinkChatInit
  BY Zenon DEF AllInit
<1>2. [AllNext]_allVars => [LinkChatNext]_chatViewVars
  BY AllSteps
<1> QED
  BY <1>1, <1>2, PTL DEF AllSpec, allVars

-----------------------------------------------------------------------------
(* What is proved of the components, in the composition.                   *)

\* app.py:1651-1796: in the composition too the last event of a turn says what
\* its rows say, and no row is left generating by a turn that is over.
THEOREM AllTurnsAreSettled == AllSpec => []TurnsAreSettled
<1>1. AllSpec => ChatSpec
  BY AllIsChat, PTL DEF ChatSpec
<1> QED
  BY <1>1, ChatEventsAgreeWithRows, ChatSettledUnlessTorn, PTL DEF TurnsAreSettled

\* config.py:95-120, persona.py:394-431 and 494-538: in the composition too a
\* save that failed loses neither document nor chain of revisions, and a prompt fits.
THEOREM AllSavesLoseNothing == AllSpec => []SavesLoseNothing
<1>1. AllSpec => SettingsSpec
  BY AllIsSettings, PTL DEF SettingsSpec
<1>2. AllSpec => PersonaSpec
  BY AllIsPersona, PTL DEF PersonaSpec
<1> QED
  BY <1>1, <1>2, SettingsRevisionsChain, PersonaFailedSaveLosesNothing, PersonaPromptFits, PTL
     DEF SavesLoseNothing

\* memory_retriever.py:383-553: in the composition too one of the facts that
\* repeat or contradict each other is in force, and only that one is shown.
THEOREM AllOneFactIsTold == AllSpec => []OneFactIsTold
<1>1. AllSpec => MemorySpec
  BY AllIsMemory, PTL DEF MemorySpec
<1> QED
  BY <1>1, MemoryOneInForce, MemoryPromptIsConsistent, PTL DEF OneFactIsTold

\* agent/runtime.py:273-300, agent/idempotency.py:30-35: when a session waits
\* for the runtime of the one before it (Overlap is FALSE), what Link tells
\* Core of a call is what happened, and no effect happens twice.
THEOREM AllOutcomesAreTrue ==
  ASSUME ~Overlap
  PROVE  AllSpec => []OutcomesAreTrue
<1>1. AllSpec => LinkAgentSpec
  BY AllIsLinkAgent, PTL DEF LinkAgentSpec
<1>2. LinkAgentSpec => []NoRepeatedEffect
  BY AgentNoRepeatedEffect
<1> QED
  BY <1>1, <1>2, AgentCompletedIsReal, AgentRefusedMeansUntouched, AgentWritesAreConsented,
     PTL DEF OutcomesAreTrue

\* docs/RECONNECT_STATE_MACHINE.md: in the composition too Link is retrying
\* when it shows that it waits, and stays offline when the user has left.
THEOREM AllRetryFollowsIntent == AllSpec => []RetryFollowsIntent
<1>1. AllSpec => ConnectionSpec
  BY AllIsConnection, PTL DEF ConnectionSpec
<1> QED
  BY <1>1, ConnectionRetries, ConnectionManual, PTL DEF RetryFollowsIntent

\* In the composition too whatever ends - a socket, Link, the launcher, a
\* capture - leaves no send waiting, no task, no process and no thread behind.
THEOREM AllNothingIsStranded == AllSpec => []NothingIsStranded
<1>1. AllSpec => ConnectionSpec
  BY AllIsConnection, PTL DEF ConnectionSpec
<1>2. AllSpec => LauncherSpec
  BY AllIsLauncher, PTL DEF LauncherSpec
<1>3. AllSpec => RealtimeSpec
  BY AllIsRealtime, PTL DEF RealtimeSpec
<1> QED
  BY <1>1, <1>2, <1>3, ConnectionTellsSend, ConnectionShutsDown, LauncherCleansUp, CaptureEnds, PTL
     DEF NothingIsStranded

\* database.py:168-335, local_migration.py:289-382, nivelle_runtime.py:157-478:
\* in the composition too an update or an installation loses nothing, wherever
\* it was broken off, and what it puts in place at a stroke is complete.
THEOREM AllUpgradeIsWhole == AllSpec => []UpgradeIsWhole
<1>1. AllSpec => SchemaSpec
  BY AllIsSchema, PTL DEF SchemaSpec
<1>2. AllSpec => MigrationSpec
  BY AllIsMigration, PTL DEF MigrationSpec
<1>3. AllSpec => InstallSpec
  BY AllIsInstall, PTL DEF InstallSpec
<1> QED
  BY <1>1, <1>2, <1>3, SchemaNothingIsLost, MigrationWhole, InstallSound, PTL DEF UpgradeIsWhole

\* docs/ARCHITECTURE.md:44-46: in the composition too the main window shows
\* each message once and as Core has stored it, and keeps the turn.
THEOREM AllViewIsFaithful == AllSpec => []ViewIsFaithful
<1>1. AllSpec => LinkChatSpec
  BY AllIsLinkChat, PTL DEF LinkChatSpec
<1> QED
  BY <1>1, ViewShownOnce, ViewShownAsStored, ViewKeepsTurn, PTL DEF ViewIsFaithful

LEMMA FocusIsKept == AllSpec => [](focus \in Components)
<1>1. AllInit => focus \in Components
  BY Zenon DEF AllInit
<1>2. [AllNext]_allVars => UNCHANGED focus
  BY Zenon DEF AllNext, allVars
<1>3. focus \in Components /\ [AllNext]_allVars => (focus \in Components)'
  BY <1>2, Zenon
<1> QED
  BY <1>1, <1>3, PTL DEF AllSpec, allVars

CoreTypes ==
  /\ ChatTypeOK /\ AudioTypeOK /\ SettingsTypeOK /\ PersonaTypeOK
  /\ AccessTypeOK /\ MemoryTypeOK /\ SchemaTypeOK
DesktopTypes ==
  /\ LinkAgentTypeOK /\ ConnectionTypeOK /\ MigrationTypeOK /\ InstallTypeOK
  /\ LauncherTypeOK /\ RealtimeTypeOK /\ LinkChatTypeOK

LEMMA TypesOfFocus ==
  ASSUME focus \in Components, CoreTypes, DesktopTypes
  PROVE  AllTypesOK
BY Zenon DEF AllTypesOK, Components, CoreTypes, DesktopTypes

LEMMA AllAudioInvariant == AllSpec => []AudioInv
BY AllIsAudio, InitAudioInv, NextAudioInv, PTL

LEMMA AllCoreTypes == AllSpec => []CoreTypes
<1>1. AllSpec => ChatSpec
  BY AllIsChat, PTL DEF ChatSpec
<1>2. AllSpec => SettingsSpec
  BY AllIsSettings, PTL DEF SettingsSpec
<1>3. AllSpec => PersonaSpec
  BY AllIsPersona, PTL DEF PersonaSpec
<1>4. AllSpec => AccessSpec
  BY AllIsAccess, PTL DEF AccessSpec
<1>5. AllSpec => MemorySpec
  BY AllIsMemory, PTL DEF MemorySpec
<1>6. AllSpec => SchemaSpec
  BY AllIsSchema, PTL DEF SchemaSpec
<1>7. AudioInv => AudioTypeOK
  BY DEF AudioInv, AudioFields, JobInv, AudioTypeOK, Busy, InThread
<1> QED
  BY <1>1, <1>2, <1>3, <1>4, <1>5, <1>6, <1>7, AllAudioInvariant, ChatTypes, SettingsTypesHold,
     PersonaTypes, AccessTypes, MemoryTypes, SchemaTypes, PTL DEF CoreTypes

LEMMA AllDesktopTypes == AllSpec => []DesktopTypes
<1>1. AllSpec => LinkAgentSpec
  BY AllIsLinkAgent, PTL DEF LinkAgentSpec
<1>2. AllSpec => ConnectionSpec
  BY AllIsConnection, PTL DEF ConnectionSpec
<1>3. AllSpec => MigrationSpec
  BY AllIsMigration, PTL DEF MigrationSpec
<1>4. AllSpec => InstallSpec
  BY AllIsInstall, PTL DEF InstallSpec
<1>5. AllSpec => LauncherSpec
  BY AllIsLauncher, PTL DEF LauncherSpec
<1>6. AllSpec => RealtimeSpec
  BY AllIsRealtime, PTL DEF RealtimeSpec
<1>7. AllSpec => LinkChatSpec
  BY AllIsLinkChat, PTL DEF LinkChatSpec
<1> QED
  BY <1>1, <1>2, <1>3, <1>4, <1>5, <1>6, <1>7, AgentTypes, ConnectionTypes, MigrationTypes,
     InstallTypes, LauncherTypes, CaptureTypes, LinkChatTypes, PTL DEF DesktopTypes

\* In the composition the variables of every component have their types, those
\* of the component in focus in particular.
THEOREM AllTypes == AllSpec => []AllTypesOK
<1>1. focus \in Components /\ CoreTypes /\ DesktopTypes => AllTypesOK
  BY TypesOfFocus, Zenon
<1> QED
  BY <1>1, FocusIsKept, AllCoreTypes, AllDesktopTypes, PTL

\* The other properties of the components run hold in the composition as they
\* do of their components: one turn at a time and no spliced answer, one job
\* for a content, no socket after a revocation and always an administrator, and
\* the latest samples in the ring.  So does the promise of the Agent.
THEOREM AllComponentsKeepTheirs ==
  AllSpec =>
    /\ [](ConversationHasOneTurn /\ RetryMeansInterrupted /\ NoSplicedAnswer)
    /\ [](OneJobPerContent /\ RevocationEndsSockets)
    /\ []RingKeepsLatest
    /\ AnAdminRemains
    /\ ~Overlap => AgentKeepsPromise
<1>1. AllSpec => ChatSpec
  BY AllIsChat, PTL DEF ChatSpec
<1>2. AllSpec => AccessSpec
  BY AllIsAccess, PTL DEF AccessSpec
<1>3. AllSpec => LinkAgentSpec
  BY AllIsLinkAgent, PTL DEF LinkAgentSpec
<1>4. AllSpec => RealtimeSpec
  BY AllIsRealtime, PTL DEF RealtimeSpec
<1>5. AudioInv => OneJobPerContent
  BY DEF AudioInv, JobInv, OneJobPerContent
<1>6. ~Overlap => (LinkAgentSpec => AgentKeepsPromise)
  BY AgentDeliversPromise
<1> QED
  BY <1>1, <1>2, <1>3, <1>4, <1>5, <1>6, AllAudioInvariant, ChatConversationHasOneTurn,
     ChatRetryMeansInterrupted, ChatNoSplicedAnswer, AccessRevocationEndsSockets,
     AccessAnAdminRemains, CaptureRing, PTL
=============================================================================
