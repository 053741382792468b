----------------------------- MODULE CoreProofs -----------------------------
(* Proofs about the components of Core beside the gateway: clients and     *)
(* administrators, the schema, the settings, the audio jobs, the memory,   *)
(* the chat turns and the persona.                                        *)
EXTENDS ChatTurn, Access, Schema, Settings, AudioJobs, Memory, Persona,
        DataInduction, FiniteSetTheorems, TLAPS

-----------------------------------------------------------------------------
(* Access.                                                                 *)

\* A socket taken out of client_websockets was open and is not put back.
PoppedInv ==
  \A d \in Devices :
    /\ popped[d] \cap registered = {}
    /\ \A l \in popped[d] : link[l] \in {"open", "closed"}

\* How far disconnect_client of a revoked client has come, and what it has
\* seen of each of its sockets.
DisconnectInv ==
  /\ \A d \in Devices : disconnect[d] # "none" => d \in revoked
  /\ \A l \in Links :
       LET far == disconnect[DeviceOf[l]]
       IN  /\ link[l] = "open" /\ far \in {"none", "pending"} => l \in registered
           /\ link[l] = "open" /\ far = "closing" => l \in popped[DeviceOf[l]] \cup late
           /\ link[l] = "verified" /\ far \in {"closing", "done"} => l \in late
           /\ link[l] = "open" /\ far = "done" => l \in late

AccessInv == AccessTypeOK /\ PoppedInv /\ DisconnectInv

LEMMA InitAccessInv == AccessInit => AccessInv
BY AccessAssumption DEF AccessInit, AccessInv, AccessTypeOK, PoppedInv, DisconnectInv

\* The rows of the clients, the sockets and the code keep their types.
LEMMA NextAccessTypes ==
  ASSUME AccessTypeOK, PoppedInv, [AccessNext]_accessVars
  PROVE  AccessTypeOK'
<1> USE DEF AccessTypeOK, PoppedInv, pairingVars, clientVars, linkVars, disconnectVars
<1>1. CASE GenerateCode
  BY <1>1, AccessAssumption DEF GenerateCode
<1>2. CASE CodeExpires
  BY <1>2, AccessAssumption DEF CodeExpires
<1>3. ASSUME NEW d \in Devices, Redeem(d)
      PROVE  AccessTypeOK'
  BY <1>3, AccessAssumption DEF Redeem
<1>4. ASSUME NEW d \in Devices, ReadRequired(d)
      PROVE  AccessTypeOK'
  BY <1>4, AccessAssumption DEF ReadRequired
<1>5. ASSUME NEW d \in Devices, InsertClient(d)
      PROVE  AccessTypeOK'
  BY <1>5, AccessAssumption DEF InsertClient
<1>6. ASSUME NEW d \in Devices, GrantAdmin(d)
      PROVE  AccessTypeOK'
  BY <1>6, AccessAssumption DEF GrantAdmin, Active
<1>7. ASSUME NEW d \in Devices, WithdrawAdmin(d)
      PROVE  AccessTypeOK'
  BY <1>7, AccessAssumption DEF WithdrawAdmin
<1>8. ASSUME NEW d \in Devices, RevokeClient(d)
      PROVE  AccessTypeOK'
  BY <1>8, AccessAssumption DEF RevokeClient, Active
<1>9. ASSUME NEW d \in Devices, PopSockets(d)
      PROVE  AccessTypeOK'
  BY <1>9, AccessAssumption DEF PopSockets
<1>10. ASSUME NEW d \in Devices, CloseSockets(d)
      PROVE  AccessTypeOK'
  BY <1>10, AccessAssumption DEF CloseSockets
<1>11. ASSUME NEW l \in Links, Verify(l)
      PROVE  AccessTypeOK'
  BY <1>11, AccessAssumption DEF Verify, Active
<1>12. ASSUME NEW l \in Links, RegisterSocket(l)
      PROVE  AccessTypeOK'
  BY <1>12, AccessAssumption DEF RegisterSocket
<1>13. ASSUME NEW l \in Links, UnregisterSocket(l)
      PROVE  AccessTypeOK'
  BY <1>13, AccessAssumption DEF UnregisterSocket
<1>14. CASE UNCHANGED accessVars
  BY <1>14, AccessAssumption DEF accessVars
<1> QED
  BY <1>1, <1>2, <1>3, <1>4, <1>5, <1>6, <1>7, <1>8, <1>9, <1>10, <1>11, <1>12, <1>13, <1>14 DEF AccessNext

LEMMA NextPoppedInv ==
  ASSUME AccessTypeOK, PoppedInv, [AccessNext]_accessVars
  PROVE  PoppedInv'
<1> USE DEF AccessTypeOK, PoppedInv, pairingVars, clientVars, linkVars, disconnectVars
<1>1. CASE GenerateCode
  BY <1>1, AccessAssumption DEF GenerateCode
<1>2. CASE CodeExpires
  BY <1>2, AccessAssumption DEF CodeExpires
<1>3. ASSUME NEW d \in Devices, Redeem(d)
      PROVE  PoppedInv'
  BY <1>3, AccessAssumption DEF Redeem
<1>4. ASSUME NEW d \in Devices, ReadRequired(d)
      PROVE  PoppedInv'
  BY <1>4, AccessAssumption DEF ReadRequired
<1>5. ASSUME NEW d \in Devices, InsertClient(d)
      PROVE  PoppedInv'
  BY <1>5, AccessAssumption DEF InsertClient
<1>6. ASSUME NEW d \in Devices, GrantAdmin(d)
      PROVE  PoppedInv'
  BY <1>6, AccessAssumption DEF GrantAdmin, Active
<1>7. ASSUME NEW d \in Devices, WithdrawAdmin(d)
      PROVE  PoppedInv'
  BY <1>7, AccessAssumption DEF WithdrawAdmin
<1>8. ASSUME NEW d \in Devices, RevokeClient(d)
      PROVE  PoppedInv'
  BY <1>8, AccessAssumption DEF RevokeClient, Active
<1>9. ASSUME NEW d \in Devices, PopSockets(d)
      PROVE  PoppedInv'
  BY <1>9, AccessAssumption DEF PopSockets
<1>10. ASSUME NEW d \in Devices, CloseSockets(d)
      PROVE  PoppedInv'
  BY <1>10, AccessAssumption DEF CloseSockets
<1>11. ASSUME NEW l \in Links, Verify(l)
      PROVE  PoppedInv'
  BY <1>11, AccessAssumption DEF Verify, Active
<1>12. ASSUME NEW l \in Links, RegisterSocket(l)
      PROVE  PoppedInv'
  BY <1>12, AccessAssumption DEF RegisterSocket
<1>13. ASSUME NEW l \in Links, UnregisterSocket(l)
      PROVE  PoppedInv'
  BY <1>13, AccessAssumption DEF UnregisterSocket
<1>14. CASE UNCHANGED accessVars
  BY <1>14, AccessAssumption DEF accessVars
<1> QED
  BY <1>1, <1>2, <1>3, <1>4, <1>5, <1>6, <1>7, <1>8, <1>9, <1>10, <1>11, <1>12, <1>13, <1>14 DEF AccessNext

\* Whatever connects, leaves or is registered while a client is revoked.
LEMMA NextDisconnectInv ==
  ASSUME AccessTypeOK, PoppedInv, DisconnectInv, [AccessNext]_accessVars
  PROVE  DisconnectInv'
<1> USE DEF AccessTypeOK, PoppedInv, DisconnectInv, pairingVars, clientVars, linkVars, disconnectVars
<1>1. CASE GenerateCode
  BY <1>1, AccessAssumption DEF GenerateCode
<1>2. CASE CodeExpires
  BY <1>2, AccessAssumption DEF CodeExpires
<1>3. ASSUME NEW d \in Devices, Redeem(d)
      PROVE  DisconnectInv'
  BY <1>3, AccessAssumption DEF Redeem
<1>4. ASSUME NEW d \in Devices, ReadRequired(d)
      PROVE  DisconnectInv'
  BY <1>4, AccessAssumption DEF ReadRequired
<1>5. ASSUME NEW d \in Devices, InsertClient(d)
      PROVE  DisconnectInv'
  BY <1>5, AccessAssumption DEF InsertClient
<1>6. ASSUME NEW d \in Devices, GrantAdmin(d)
      PROVE  DisconnectInv'
  BY <1>6, AccessAssumption DEF GrantAdmin, Active
<1>7. ASSUME NEW d \in Devices, WithdrawAdmin(d)
      PROVE  DisconnectInv'
  BY <1>7, AccessAssumption DEF WithdrawAdmin
<1>8. ASSUME NEW d \in Devices, RevokeClient(d)
      PROVE  DisconnectInv'
  BY <1>8, AccessAssumption DEF RevokeClient, Active
<1>9. ASSUME NEW d \in Devices, PopSockets(d)
      PROVE  DisconnectInv'
  BY <1>9, AccessAssumption DEF PopSockets
<1>10. ASSUME NEW d \in Devices, CloseSockets(d)
      PROVE  DisconnectInv'
  BY <1>10, AccessAssumption DEF CloseSockets
<1>11. ASSUME NEW l \in Links, Verify(l)
      PROVE  DisconnectInv'
  BY <1>11, AccessAssumption DEF Verify, Active
<1>12. ASSUME NEW l \in Links, RegisterSocket(l)
      PROVE  DisconnectInv'
  BY <1>12, AccessAssumption DEF RegisterSocket
<1>13. ASSUME NEW l \in Links, UnregisterSocket(l)
      PROVE  DisconnectInv'
  BY <1>13, AccessAssumption DEF UnregisterSocket
<1>14. CASE UNCHANGED accessVars
  BY <1>14, AccessAssumption DEF accessVars
<1> QED
  BY <1>1, <1>2, <1>3, <1>4, <1>5, <1>6, <1>7, <1>8, <1>9, <1>10, <1>11, <1>12, <1>13, <1>14 DEF AccessNext

LEMMA AccessInvariant == AccessSpec => []AccessInv
<1>1. AccessInv /\ [AccessNext]_accessVars => AccessInv'
  BY NextAccessTypes, NextPoppedInv, NextDisconnectInv DEF AccessInv
<1> QED
  BY <1>1, InitAccessInv, PTL DEF AccessSpec

\* The variables of the paired clients have their types.
THEOREM AccessTypes == AccessSpec => []AccessTypeOK
<1>1. AccessInv => AccessTypeOK
  BY DEF AccessInv
<1> QED
  BY <1>1, AccessInvariant, PTL

\* admin_control.py:132-163, app.py:193-205: once a revocation is over, no
\* socket of the client is left that was open or registered before it.
THEOREM AccessRevocationEndsSockets == AccessSpec => []RevocationEndsSockets
<1>1. AccessInv => RevocationEndsSockets
  BY DEF AccessInv, DisconnectInv, RevocationEndsSockets
<1> QED
  BY <1>1, AccessInvariant, PTL

\* admin_control.py:103-160: no withdrawal and no revocation, whichever comes
\* first, takes the last administrator away.
THEOREM AccessAnAdminRemains == AccessSpec => AnAdminRemains
<1>1. ASSUME [AccessNext]_accessVars, ActiveAdmins # {}
      PROVE  ActiveAdmins' # {}
  <2>1. CASE GenerateCode
    BY <1>1, <2>1 DEF GenerateCode, ActiveAdmins, AnotherAdmin, pairingVars, clientVars, linkVars, disconnectVars
  <2>2. CASE CodeExpires
    BY <1>1, <2>2 DEF CodeExpires, ActiveAdmins, AnotherAdmin, pairingVars, clientVars, linkVars, disconnectVars
  <2>3. ASSUME NEW d \in Devices, Redeem(d)
        PROVE  ActiveAdmins' # {}
    BY <1>1, <2>3 DEF Redeem, ActiveAdmins, AnotherAdmin, pairingVars, clientVars, linkVars, disconnectVars
  <2>4. ASSUME NEW d \in Devices, ReadRequired(d)
        PROVE  ActiveAdmins' # {}
    BY <1>1, <2>4 DEF ReadRequired, ActiveAdmins, AnotherAdmin, pairingVars, clientVars, linkVars, disconnectVars
  <2>5. ASSUME NEW d \in Devices, InsertClient(d)
        PROVE  ActiveAdmins' # {}
    BY <1>1, <2>5 DEF InsertClient, ActiveAdmins, AnotherAdmin, pairingVars, clientVars, linkVars, disconnectVars
  <2>6. ASSUME NEW d \in Devices, GrantAdmin(d)
        PROVE  ActiveAdmins' # {}
    BY <1>1, <2>6 DEF GrantAdmin, Active, ActiveAdmins, AnotherAdmin, pairingVars, clientVars, linkVars, disconnectVars
  <2>7. ASSUME NEW d \in Devices, WithdrawAdmin(d)
        PROVE  ActiveAdmins' # {}
    BY <1>1, <2>7 DEF WithdrawAdmin, ActiveAdmins, AnotherAdmin, pairingVars, clientVars, linkVars, disconnectVars
  <2>8. ASSUME NEW d \in Devices, RevokeClient(d)
        PROVE  ActiveAdmins' # {}
    BY <1>1, <2>8 DEF RevokeClient, Active, ActiveAdmins, AnotherAdmin, pairingVars, clientVars, linkVars, disconnectVars
  <2>9. ASSUME NEW d \in Devices, PopSockets(d)
        PROVE  ActiveAdmins' # {}
    BY <1>1, <2>9 DEF PopSockets, ActiveAdmins, AnotherAdmin, pairingVars, clientVars, linkVars, disconnectVars
  <2>10. ASSUME NEW d \in Devices, CloseSockets(d)
        PROVE  ActiveAdmins' # {}
    BY <1>1, <2>10 DEF CloseSockets, ActiveAdmins, AnotherAdmin, pairingVars, clientVars, linkVars, disconnectVars
  <2>11. ASSUME NEW l \in Links, Verify(l)
        PROVE  ActiveAdmins' # {}
    BY <1>1, <2>11 DEF Verify, Active, ActiveAdmins, AnotherAdmin, pairingVars, clientVars, linkVars, disconnectVars
  <2>12. ASSUME NEW l \in Links, RegisterSocket(l)
        PROVE  ActiveAdmins' # {}
    BY <1>1, <2>12 DEF RegisterSocket, ActiveAdmins, AnotherAdmin, pairingVars, clientVars, linkVars, disconnectVars
  <2>13. ASSUME NEW l \in Links, UnregisterSocket(l)
        PROVE  ActiveAdmins' # {}
    BY <1>1, <2>13 DEF UnregisterSocket, ActiveAdmins, AnotherAdmin, pairingVars, clientVars, linkVars, disconnectVars
  <2>14. CASE UNCHANGED accessVars
    BY <1>1, <2>14 DEF accessVars, ActiveAdmins, AnotherAdmin, pairingVars, clientVars, linkVars, disconnectVars
  <2> QED
    BY <1>1, <2>1, <2>2, <2>3, <2>4, <2>5, <2>6, <2>7, <2>8, <2>9, <2>10, <2>11, <2>12, <2>13, <2>14 DEF AccessNext
<1>2. [AccessNext]_accessVars => [ActiveAdmins # {} => ActiveAdmins' # {}]_accessVars
  BY <1>1
<1> QED
  BY <1>2, PTL DEF AccessSpec, AnAdminRemains

-----------------------------------------------------------------------------
(* Schema.                                                                 *)

LEMMA VersionsAreNumbered == Latest \in Nat \ {0} /\ Versions = 1 .. Latest
<1>1. PICK n \in Versions : Versions = 1 .. n
  BY SchemaAssumption
<1>2. n \in Nat \ {0}
  BY <1>1
<1>3. \E v \in Versions : \A w \in Versions : w <= v
  BY <1>1, <1>2
<1>4. Latest \in Versions /\ \A w \in Versions : w <= Latest
  BY <1>3 DEF Latest
<1> QED
  BY <1>1, <1>2, <1>4

\* What the markers say of the next version, and of the last one that is set.
LEMMA MarkersAreNumbered ==
  ASSUME NEW k \in 0 .. Latest, markers = 1 .. k
  PROVE  /\ MaxMarker = k
         /\ k < Latest => NextVersion = k + 1
         /\ markers = Versions <=> k = Latest
<1> USE VersionsAreNumbered
<1>1. ASSUME k = 0
      PROVE  MaxMarker = k
  <2>1. markers = {}
    BY <1>1
  <2> QED
    BY <1>1, <2>1 DEF MaxMarker
<1>2. ASSUME k > 0
      PROVE  MaxMarker = k
  <2>1. k \in markers /\ \A w \in markers : w <= k
    BY <1>2
  <2>2. \E v \in markers : \A w \in markers : w <= v
    BY <2>1
  <2>3. MaxMarker \in markers /\ \A w \in markers : w <= MaxMarker
    BY <1>2, <2>2 DEF MaxMarker
  <2> QED
    BY <2>1, <2>3
<1>3. ASSUME k < Latest
      PROVE  NextVersion = k + 1
  <2>1. k + 1 \in Versions \ markers /\ \A w \in Versions \ markers : k + 1 <= w
    BY <1>3
  <2>2. \E v \in Versions \ markers : \A w \in Versions \ markers : v <= w
    BY <2>1
  <2>3. NextVersion \in Versions \ markers /\ \A w \in Versions \ markers : NextVersion <= w
    BY <2>2 DEF NextVersion
  <2> QED
    BY <2>1, <2>3
<1>4. markers = Versions <=> k = Latest
  OBVIOUS
<1> QED
  BY <1>1, <1>2, <1>3, <1>4

\* The markers are the versions up to one of them; the file has those, and
\* perhaps the statements of the next one.
NumberedInv ==
  \E k \in 0 .. Latest :
    markers = 1 .. k /\ content \in {1 .. k, 1 .. k + 1} /\ content \subseteq Versions

\* A file that was there has its copy before it is changed.
CopyInv ==
  /\ old # {} /\ stage # "down" => existed
  /\ old # {} /\ content # old => old \in backups
  /\ old # {} /\ stage = "migrating" => old \in backups \/ markers = Versions
  /\ stage \in {"migrated", "ready"} => markers = Versions

SchemaInv == SchemaTypeOK /\ NumberedInv /\ CopyInv

LEMMA InitSchemaInv == SchemaInit => SchemaInv
<1> SUFFICES ASSUME SchemaInit PROVE SchemaInv
  OBVIOUS
<1> USE VersionsAreNumbered
<1>1. PICK n \in Versions \cup {0} : old = 1 .. n
  BY DEF SchemaInit
<1>2. old \subseteq Versions
  BY <1>1
<1> QED
  <2>1. n \in 0 .. Latest /\ markers = 1 .. n /\ content = 1 .. n
    BY <1>1 DEF SchemaInit
  <2>2. NumberedInv
    BY <1>2, <2>1 DEF SchemaInit, NumberedInv
  <2>3. SchemaTypeOK
    <3>1. existed \in BOOLEAN /\ indexed \in BOOLEAN
      BY Zenon DEF SchemaInit
    <3> QED
      BY <1>2, <3>1, SchemaAssumption DEF SchemaInit, SchemaTypeOK
  <2> QED
    BY <2>2, <2>3 DEF SchemaInit, SchemaInv, CopyInv

LEMMA NextSchemaInv ==
  ASSUME SchemaInv, [SchemaNext]_schemaVars
  PROVE  SchemaInv'
<1> USE VersionsAreNumbered DEF SchemaInv, CopyInv
<1>1. PICK k \in 0 .. Latest :
        markers = 1 .. k /\ content \in {1 .. k, 1 .. k + 1} /\ content \subseteq Versions
  BY DEF NumberedInv
<1>2. /\ MaxMarker = k
      /\ k < Latest => NextVersion = k + 1
      /\ markers = Versions <=> k = Latest
  BY <1>1, MarkersAreNumbered
<1> DEFINE Same == UNCHANGED <<markers, content>>
<1>a. Same => NumberedInv'
  BY DEF NumberedInv
<1>3. CASE OpenDatabase
  <2>1. SchemaTypeOK'
    <3>1. existed' \in BOOLEAN /\ indexed' \in BOOLEAN
      BY <1>3, Zenon DEF OpenDatabase, Exists
    <3> QED
      BY <1>3, <3>1, SchemaAssumption DEF OpenDatabase, SchemaTypeOK
  <2>2. old # {} => existed'
    BY <1>3 DEF OpenDatabase, Exists
  <2>3. CopyInv'
    BY <1>3, <2>2 DEF OpenDatabase
  <2> QED
    BY <1>a, <1>3, <2>1, <2>3 DEF OpenDatabase
<1>4. CASE BackUp
  <2>1. SchemaTypeOK'
    <3>1. backups' \subseteq SUBSET Versions
      <4>1. backups' = backups \cup {content} \/ backups' = backups
        BY <1>4, Zenon DEF BackUp
      <4>2. content \in SUBSET Versions /\ backups \subseteq SUBSET Versions
        BY DEF SchemaTypeOK
      <4> QED
        BY <4>1, <4>2, Zenon
    <3>2. stage' \in {"migrating", "failed"}
      BY <1>4, Zenon DEF BackUp
    <3>3. UNCHANGED <<existed, markers, content, old, indexed, starts>>
      BY <1>4 DEF BackUp
    <3> QED
      BY <3>1, <3>2, <3>3 DEF SchemaTypeOK
  <2>2. CASE existed /\ MaxMarker < Latest
    <3>1. CASE stage' = "failed"
      BY <1>a, <1>4, <2>1, <2>2, <3>1 DEF BackUp
    <3>2. CASE backups' = backups \cup {content} /\ stage' = "migrating"
      <4>1. old # {} => old \in backups'
        BY <3>2
      <4> QED
        BY <1>a, <1>4, <2>1, <2>2, <3>2, <4>1 DEF BackUp
    <3> QED
      BY <1>4, <2>2, <3>1, <3>2 DEF BackUp
  <2>3. CASE ~existed \/ ~(MaxMarker < Latest)
    <3>1. old = {} \/ markers = Versions
      BY <1>1, <1>2, <1>4, <2>3 DEF BackUp
    <3>2. stage' = "migrating" /\ UNCHANGED backups
      BY <1>4, <2>3 DEF BackUp
    <3> QED
      BY <1>a, <1>4, <2>1, <3>1, <3>2 DEF BackUp
  <2> QED
    BY <2>2, <2>3
<1>5. CASE MigrateAtOnce
  <2>1. CASE stage' = "failed" /\ UNCHANGED <<content, markers>>
    BY <1>5, <2>1 DEF MigrateAtOnce, SchemaTypeOK, NumberedInv
  <2>2. CASE content' = content \cup {k + 1} /\ markers' = markers \cup {k + 1} /\ UNCHANGED stage
    <3>1. k + 1 \in 0 .. Latest /\ markers' = 1 .. k + 1
      BY <1>1, <1>2, <1>5, <2>2 DEF MigrateAtOnce
    <3>2. content' = 1 .. k + 1 /\ content' \subseteq Versions
      BY <1>1, <2>2, <3>1
    <3> QED
      BY <1>5, <2>2, <3>1, <3>2 DEF MigrateAtOnce, SchemaTypeOK, NumberedInv
  <2> QED
    BY <1>1, <1>2, <1>5, <2>1, <2>2 DEF MigrateAtOnce
<1>6. CASE RunScript
  <2>1. k < Latest /\ NextVersion = k + 1
    BY <1>1, <1>2, <1>6 DEF RunScript
  <2>2. content' = 1 .. k + 1 /\ content' \subseteq Versions
    BY <1>1, <1>6, <2>1 DEF RunScript
  <2> QED
    BY <1>1, <1>2, <1>6, <2>2 DEF RunScript, SchemaTypeOK, NumberedInv
<1>7. CASE MarkScript
  <2>1. CASE stage' = "failed" /\ UNCHANGED markers
    BY <1>7, <2>1 DEF MarkScript, SchemaTypeOK, NumberedInv
  <2>2. CASE markers' = markers \cup {k + 1} /\ UNCHANGED stage
    <3>1. k + 1 \in 0 .. Latest /\ markers' = 1 .. k + 1
      BY <1>1, <1>2, <1>7, <2>2 DEF MarkScript
    <3>2. content = 1 .. k + 1
      BY <1>1, <1>2, <1>7, <3>1 DEF MarkScript
    <3> QED
      BY <1>1, <1>7, <2>2, <3>1, <3>2 DEF MarkScript, SchemaTypeOK, NumberedInv
  <2> QED
    BY <1>1, <1>2, <1>7, <2>1, <2>2 DEF MarkScript
<1>8. CASE Migrated
  BY <1>8 DEF Migrated, SchemaTypeOK, NumberedInv
<1>9. CASE RebuildIndexes
  BY <1>9 DEF RebuildIndexes, SchemaTypeOK, NumberedInv
<1>10. CASE SchemaCrash
  BY <1>10 DEF SchemaCrash, SchemaTypeOK, NumberedInv
<1>11. CASE UNCHANGED schemaVars
  BY <1>11 DEF schemaVars, SchemaTypeOK, NumberedInv
<1> QED
  BY <1>3, <1>4, <1>5, <1>6, <1>7, <1>8, <1>9, <1>10, <1>11 DEF SchemaNext

LEMMA SchemaInvariant == SchemaSpec => []SchemaInv
<1> QED
  BY InitSchemaInv, NextSchemaInv, PTL DEF SchemaSpec

\* The variables of the schema have their types.
THEOREM SchemaTypes == SchemaSpec => []SchemaTypeOK
<1>1. SchemaInv => SchemaTypeOK
  BY DEF SchemaInv
<1> QED
  BY <1>1, SchemaInvariant, PTL

\* database.py:168-200, 254-335: an old file is copied before it is changed, a
\* marked version is there with all before it, and Core serves only with all,
\* after any number of starts, crashes and failures.
THEOREM SchemaNothingIsLost == SchemaSpec => []NothingIsLost
<1>1. ASSUME SchemaInv
      PROVE  NothingIsLost
  <2>1. PICK k \in 0 .. Latest :
          markers = 1 .. k /\ content \in {1 .. k, 1 .. k + 1} /\ content \subseteq Versions
    BY <1>1 DEF SchemaInv, NumberedInv
  <2>2. \A v \in markers : 1 .. v \subseteq content /\ 1 .. v \subseteq markers
    BY <2>1, VersionsAreNumbered
  <2>3. stage = "ready" => content = Versions
    BY <1>1, <2>1, VersionsAreNumbered DEF SchemaInv, CopyInv
  <2> QED
    BY <1>1, <2>2, <2>3 DEF SchemaInv, CopyInv, NothingIsLost
<1> QED
  BY <1>1, SchemaInvariant, PTL

-----------------------------------------------------------------------------
(* Settings.                                                               *)

SaveStates ==
  {NotSent, Over}
  \cup [stage : {"waiting"}, section : Sections, value : Value]
  \cup [stage : {"writing"}, section : Sections, value : Value, previous : Value]

Revision == [section : Sections, previous : Value, new : Value, pendingRestart : BOOLEAN]

SettingsTypes ==
  /\ file \in [Sections -> Value]
  /\ revisions \in Seq(Revision)
  /\ save \in [Saves -> SaveStates]
  /\ holder \in [Sections -> Saves \cup {Nobody}]
  /\ queue \in [Sections -> Seq(Saves)]
  /\ unrecorded \subseteq Sections
  /\ mishaps \in 0 .. MaxMishaps

\* A save is writing exactly while it holds the lock of its section, and it
\* waits in the queue of its section once.
LockInv ==
  /\ \A section \in Sections : holder[section] # Nobody =>
       /\ save[holder[section]].stage = "writing" /\ save[holder[section]].section = section
       /\ save[holder[section]].value = file[section]
  /\ \A s \in Saves : save[s].stage = "writing" => holder[save[s].section] = s
  /\ \A section \in Sections : \A i \in 1 .. Len(queue[section]) :
       /\ save[queue[section][i]].stage = "waiting"
       /\ save[queue[section][i]].section = section
       /\ \A j \in 1 .. Len(queue[section]) :
            queue[section][i] = queue[section][j] => i = j

IsLast(i, section) == i \in OfSection(section) /\ \A k \in OfSection(section) : k <= i

\* What the section said before the save at work, or says if there is none.
Settled(section) ==
  IF holder[section] = Nobody THEN Load(section) ELSE save[holder[section]].previous

ChainInv ==
  \A section \in Sections \ unrecorded :
    /\ \A i, j \in OfSection(section) :
         i < j /\ (\A k \in OfSection(section) : k <= i \/ k >= j) =>
           revisions[j].previous = Loaded(section, revisions[i].new)
    /\ \A i \in DOMAIN revisions :
         IsLast(i, section) => Settled(section) = Loaded(section, revisions[i].new)

SettingsInv == SettingsTypes /\ LockInv /\ ChainInv

LEMMA SaveShapes ==
  ASSUME NEW record \in SaveStates
  PROVE  /\ record.stage \in {"none", "done", "waiting", "writing"}
         /\ record = NotSent => record.stage = "none"
         /\ record.stage = "waiting" => record.section \in Sections /\ record.value \in Value
         /\ record.stage = "writing" =>
              record.section \in Sections /\ {record.value, record.previous} \subseteq Value
BY DEF SaveStates, NotSent, Over

\* What a section is read as is a value of its own, and reading it once more
\* changes nothing.
LEMMA LoadedValue ==
  ASSUME NEW section \in Sections, NEW value \in Value
  PROVE  /\ Loaded(section, value) \in Value
         /\ Loaded(section, Loaded(section, value)) = Loaded(section, value)
BY SettingsAssumption DEF Loaded, Value

LEMMA ValidatedValue ==
  ASSUME SettingsTypes, NEW section \in Sections, NEW body \in Bodies
  PROVE  Validated(section, body) \in Value
<1>1. Load(section) \in Value
  BY LoadedValue DEF SettingsTypes, Load
<1> QED
  BY <1>1 DEF Validated, Bodies, Value

\* A revision of the list is one.
LEMMA RevisionShapes ==
  ASSUME SettingsTypes, NEW i \in DOMAIN revisions
  PROVE  /\ revisions[i].section \in Sections
         /\ revisions[i].previous \in Value /\ revisions[i].new \in Value
<1>1. revisions[i] \in Revision
  BY DEF SettingsTypes
<1> QED
  BY <1>1 DEF Revision

LEMMA InitSettingsInv == SettingsInit => SettingsInv
<1> SUFFICES ASSUME SettingsInit PROVE SettingsInv
  OBVIOUS
<1>1. SettingsTypes
  BY SettingsAssumption DEF SettingsInit, SettingsTypes, SaveStates
<1>2. LockInv
  BY SettingsAssumption DEF SettingsInit, LockInv, NotSent
<1>3. ChainInv
  BY DEF SettingsInit, ChainInv, OfSection
<1> QED
  BY <1>1, <1>2, <1>3 DEF SettingsInv

-----------------------------------------------------------------------------
(* The parts of a save.                                                    *)

\* The chain looks at the revisions and at what is settled.
LEMMA ChainIsKept ==
  ASSUME ChainInv, UNCHANGED <<revisions, unrecorded>>,
         \A r \in Sections : Settled(r)' = Settled(r)
  PROVE  ChainInv'
BY DEF ChainInv, IsLast, OfSection

\* The lock is free and is taken by a save that holds none.
LEMMA WriteFileKeeps ==
  ASSUME SettingsInv, NEW s \in Saves, NEW section \in Sections, NEW value \in Value,
         holder[section] = Nobody, save[s].stage \in {"none", "waiting"},
         WriteFile(s, section, value), UNCHANGED <<revisions, unrecorded>>
  PROVE  /\ ChainInv'
         /\ \A r \in Sections : holder'[r] # Nobody =>
              /\ save'[holder'[r]].stage = "writing" /\ save'[holder'[r]].section = r
              /\ save'[holder'[r]].value = file'[r]
         /\ \A t \in Saves : save'[t].stage = "writing" => holder'[save'[t].section] = t
         /\ save'[s] \in SaveStates
<1> USE SettingsAssumption DEF SettingsInv, SettingsTypes, WriteFile
<1>1. Load(section) \in Value
  BY LoadedValue DEF Load
<1>2. save'[s] = [stage |-> "writing", section |-> section, value |-> value,
                  previous |-> Load(section)]
  OBVIOUS
<1>3. save'[s] \in SaveStates
  BY <1>1, <1>2 DEF SaveStates
<1>4. \A t \in Saves : t # s => save'[t] = save[t]
  OBVIOUS
<1>5. \A r \in Sections : holder[r] # s
  BY DEF LockInv
<1>6. \A r \in Sections \ {section} : holder'[r] = holder[r] /\ file'[r] = file[r]
  OBVIOUS
<1>7. \A r \in Sections : Settled(r)' = Settled(r)
  <2> TAKE r \in Sections
  <2>1. CASE r = section
    BY <1>2, <2>1 DEF Settled
  <2>2. CASE r # section
    <3>1. holder'[r] = holder[r] /\ file'[r] = file[r] /\ Load(r)' = Load(r)
      BY <1>6, <2>2 DEF Load
    <3>2. holder[r] # Nobody => save'[holder[r]] = save[holder[r]]
      BY <1>4, <1>5
    <3> QED
      BY <3>1, <3>2 DEF Settled
  <2> QED
    BY <2>1, <2>2
<1>8. ChainInv'
  BY <1>7, ChainIsKept
<1>9. \A r \in Sections : holder'[r] # Nobody =>
        /\ save'[holder'[r]].stage = "writing" /\ save'[holder'[r]].section = r
        /\ save'[holder'[r]].value = file'[r]
  BY <1>2, <1>4, <1>5, <1>6 DEF LockInv
<1>10. \A t \in Saves : save'[t].stage = "writing" => holder'[save'[t].section] = t
  <2> SUFFICES ASSUME NEW t \in Saves, save'[t].stage = "writing"
               PROVE  holder'[save'[t].section] = t
    OBVIOUS
  <2>1. CASE t = s
    BY <1>2, <2>1
  <2>2. CASE t # s
    <3>1. holder[save[t].section] = t /\ save[t].section \in Sections
      BY <1>4, <2>2, SaveShapes DEF LockInv
    <3>2. save[t].section # section
      BY <2>2, <3>1
    <3> QED
      BY <1>4, <1>6, <2>2, <3>1, <3>2
  <2> QED
    BY <2>1, <2>2
<1> QED
  BY <1>3, <1>8, <1>9, <1>10

\* The write fails and the save is over: nothing else changes.
LEMMA WriteFailsKeeps ==
  ASSUME SettingsInv, NEW s \in Saves, save[s].stage \in {"none", "waiting"},
         WriteFails(s), UNCHANGED <<revisions, unrecorded>>
  PROVE  /\ ChainInv'
         /\ \A r \in Sections : holder'[r] # Nobody =>
              /\ save'[holder'[r]].stage = "writing" /\ save'[holder'[r]].section = r
              /\ save'[holder'[r]].value = file'[r]
         /\ \A t \in Saves : save'[t].stage = "writing" => holder'[save'[t].section] = t
         /\ save'[s] \in SaveStates
<1> USE SettingsAssumption DEF SettingsInv, SettingsTypes, WriteFails
<1>1. save'[s] = Over /\ Over.stage = "done" /\ save'[s] \in SaveStates
  BY DEF Over, SaveStates
<1>2. \A t \in Saves : t # s => save'[t] = save[t]
  OBVIOUS
<1>3. \A r \in Sections : holder[r] # s
  BY DEF LockInv
<1>4. \A r \in Sections : Settled(r)' = Settled(r)
  BY <1>2, <1>3 DEF Settled, Load
<1>5. ChainInv'
  BY <1>4, ChainIsKept
<1> QED
  BY <1>1, <1>2, <1>3, <1>5 DEF LockInv

\* The queue after s has left it, or never was in it.
QueueWithout(s) ==
  /\ queue' \in [Sections -> Seq(Saves)]
  /\ \A r \in Sections : \A i \in 1 .. Len(queue'[r]) :
       /\ queue'[r][i] # s
       /\ save[queue'[r][i]].stage = "waiting" /\ save[queue'[r][i]].section = r
       /\ \A j \in 1 .. Len(queue'[r]) : queue'[r][i] = queue'[r][j] => i = j

\* A save asks for the lock, or comes to the head of the queue, and writes or
\* fails; no other save in the queue is touched.
LEMMA AttemptKeeps ==
  ASSUME SettingsInv, NEW s \in Saves, NEW section \in Sections, NEW value \in Value,
         holder[section] = Nobody, save[s].stage \in {"none", "waiting"},
         WriteFile(s, section, value) \/ WriteFails(s),
         UNCHANGED <<revisions, unrecorded>>, QueueWithout(s)
  PROVE  SettingsInv'
<1> USE DEF QueueWithout
<1>1. /\ ChainInv'
      /\ \A r \in Sections : holder'[r] # Nobody =>
           /\ save'[holder'[r]].stage = "writing" /\ save'[holder'[r]].section = r
           /\ save'[holder'[r]].value = file'[r]
      /\ \A t \in Saves : save'[t].stage = "writing" => holder'[save'[t].section] = t
      /\ save'[s] \in SaveStates
  BY WriteFileKeeps, WriteFailsKeeps
<1>2. \A t \in Saves : t # s => save'[t] = save[t]
  BY DEF WriteFile, WriteFails, SettingsInv, SettingsTypes
<1>3. \A r \in Sections : \A i \in 1 .. Len(queue'[r]) : queue'[r][i] \in Saves
  OBVIOUS
<1>4. LockInv'
  <2>1. ASSUME NEW r \in Sections, NEW i \in 1 .. Len(queue'[r])
        PROVE  /\ save'[queue'[r][i]].stage = "waiting"
               /\ save'[queue'[r][i]].section = r
               /\ \A j \in 1 .. Len(queue'[r]) : queue'[r][i] = queue'[r][j] => i = j
    <3>1. queue'[r][i] \in Saves /\ queue'[r][i] # s
      BY <1>3
    <3>2. save'[queue'[r][i]] = save[queue'[r][i]]
      BY <1>2, <3>1
    <3> QED
      BY <3>2
  <2> QED
    BY <1>1, <2>1, Zenon DEF LockInv
<1>5. SettingsTypes'
  <2>1. save' \in [Saves -> SaveStates]
    <3>1. DOMAIN save' = Saves /\ save' = [t \in DOMAIN save' |-> save'[t]]
      BY DEF WriteFile, WriteFails, SettingsInv, SettingsTypes
    <3>2. ASSUME NEW t \in Saves PROVE save'[t] \in SaveStates
      <4>1. save[t] \in SaveStates
        BY DEF SettingsInv, SettingsTypes
      <4> QED
        BY <1>1, <1>2, <4>1, Zenon
    <3> QED
      BY <3>1, <3>2, Zenon
  <2>2. file' \in [Sections -> Value] /\ holder' \in [Sections -> Saves \cup {Nobody}]
    <3>1. CASE WriteFile(s, section, value)
      BY <3>1 DEF WriteFile, SettingsInv, SettingsTypes
    <3>2. CASE WriteFails(s)
      BY <3>2 DEF WriteFails, SettingsInv, SettingsTypes
    <3> QED
      BY <3>1, <3>2
  <2>3. mishaps' \in 0 .. MaxMishaps
    BY SettingsAssumption DEF WriteFile, WriteFails, Mishap, SettingsInv, SettingsTypes
  <2> QED
    BY <2>1, <2>2, <2>3 DEF SettingsInv, SettingsTypes
<1> QED
  BY <1>1, <1>4, <1>5 DEF SettingsInv

\* A new save of a section.
LEMMA AcquireKeeps ==
  ASSUME SettingsInv, NEW s \in Saves, NEW section \in Sections, NEW value \in Value,
         save[s] = NotSent, Acquire(s, section, value),
         UNCHANGED <<revisions, unrecorded>>
  PROVE  SettingsInv'
<1> USE DEF SettingsInv, SettingsTypes
<1>1. save[s].stage = "none"
  BY DEF NotSent
<1>2. \A r \in Sections : \A i \in 1 .. Len(queue[r]) : queue[r][i] # s
  BY <1>1 DEF LockInv
<1>3. CASE /\ holder[section] = Nobody
           /\ WriteFile(s, section, value) \/ WriteFails(s)
           /\ UNCHANGED queue
  <2>1. QueueWithout(s)
    BY <1>2, <1>3 DEF QueueWithout, LockInv
  <2> QED
    BY <1>1, <1>3, <2>1, AttemptKeeps
<1>4. CASE /\ save' = [save EXCEPT ![s] =
                [stage |-> "waiting", section |-> section, value |-> value]]
           /\ queue' = [queue EXCEPT ![section] = Append(@, s)]
           /\ UNCHANGED <<file, holder, mishaps>>
  <2>1. save'[s] = [stage |-> "waiting", section |-> section, value |-> value]
    BY <1>4
  <2>2. \A t \in Saves : t # s => save'[t] = save[t]
    BY <1>4
  <2>3. save'[s] \in SaveStates
    BY <2>1 DEF SaveStates
  <2>4. \A r \in Sections : holder[r] # s
    <3>1. s # Nobody /\ save[s].stage # "writing"
      BY <1>1, SettingsAssumption
    <3> QED
      BY <3>1 DEF LockInv
  <2>5. \A r \in Sections : Settled(r)' = Settled(r)
    BY <1>4, <2>2, <2>4 DEF Settled, Load
  <2>6. ChainInv'
    BY <2>5, ChainIsKept
  <2>7. queue' \in [Sections -> Seq(Saves)]
    BY <1>4
  <2>8. SettingsTypes'
    BY <1>4, <2>2, <2>3, <2>7
  <2>9. \A r \in Sections : \A i \in 1 .. Len(queue'[r]) :
          /\ save'[queue'[r][i]].stage = "waiting" /\ save'[queue'[r][i]].section = r
          /\ \A j \in 1 .. Len(queue'[r]) : queue'[r][i] = queue'[r][j] => i = j
    <3> SUFFICES ASSUME NEW r \in Sections, NEW i \in 1 .. Len(queue'[r])
                 PROVE  /\ save'[queue'[r][i]].stage = "waiting"
                        /\ save'[queue'[r][i]].section = r
                        /\ \A j \in 1 .. Len(queue'[r]) : queue'[r][i] = queue'[r][j] => i = j
      OBVIOUS
    <3>1. CASE r # section
      <4>1. queue'[r] = queue[r]
        BY <1>4, <3>1
      <4> QED
        BY <1>2, <2>2, <4>1 DEF LockInv
    <3>2. CASE r = section
      <4>1. PICK n \in Nat : n = Len(queue[r])
        OBVIOUS
      <4>2. /\ Len(queue'[r]) = n + 1 /\ queue'[r][n + 1] = s
            /\ \A k \in 1 .. n : queue'[r][k] = queue[r][k]
        BY <1>4, <3>2, <4>1
      <4>3. \A k \in 1 .. n :
              /\ queue[r][k] # s /\ queue[r][k] \in Saves
              /\ save[queue[r][k]].stage = "waiting" /\ save[queue[r][k]].section = r
              /\ \A j \in 1 .. n : queue[r][k] = queue[r][j] => k = j
        BY <1>2, <4>1 DEF LockInv
      <4>4. i = n + 1 \/ i \in 1 .. n
        BY <4>2
      <4>5. save'[s].stage = "waiting" /\ save'[s].section = r
        BY <2>1, <3>2
      <4> HIDE DEF SettingsInv, SettingsTypes
      <4>6. CASE i = n + 1
        BY <4>2, <4>3, <4>5, <4>6
      <4>7. CASE i \in 1 .. n
        BY <2>2, <4>2, <4>3, <4>7
      <4> QED
        BY <4>4, <4>6, <4>7
    <3> QED
      BY <3>1, <3>2
  <2>10. LockInv'
    <3>1. ASSUME NEW r \in Sections, holder'[r] # Nobody
          PROVE  /\ save'[holder'[r]].stage = "writing" /\ save'[holder'[r]].section = r
                 /\ save'[holder'[r]].value = file'[r]
      <4>1. holder'[r] = holder[r] /\ file'[r] = file[r] /\ holder[r] \in Saves
        BY <1>4, <3>1
      <4>2. save'[holder[r]] = save[holder[r]]
        BY <2>2, <2>4, <4>1
      <4> QED
        BY <3>1, <4>1, <4>2 DEF LockInv
    <3>2. ASSUME NEW t \in Saves, save'[t].stage = "writing"
          PROVE  holder'[save'[t].section] = t
      <4>1. t # s /\ save'[t] = save[t] /\ holder' = holder
        BY <1>4, <2>1, <2>2, <3>2
      <4> QED
        BY <3>2, <4>1 DEF LockInv
    <3> HIDE DEF SettingsInv, SettingsTypes
    <3> QED
      BY <2>9, <3>1, <3>2 DEF LockInv
  <2> QED
    BY <2>6, <2>8, <2>10
<1> QED
  BY <1>3, <1>4 DEF Acquire

\* The lock is free and the first in the queue is woken.
LEMMA WakeKeeps ==
  ASSUME SettingsInv, NEW section \in Sections, Wake(section)
  PROVE  SettingsInv'
<1> USE DEF SettingsInv, SettingsTypes
<1> DEFINE s == Head(queue[section])
<1>1. s \in Saves /\ s = queue[section][1] /\ Len(queue[section]) >= 1
  BY DEF Wake
<1>2. save[s].stage = "waiting" /\ save[s].value \in Value
  BY <1>1, SaveShapes DEF LockInv
<1>3. queue' \in [Sections -> Seq(Saves)]
  BY DEF Wake
<1>4. \A r \in Sections : \A i \in 1 .. Len(queue'[r]) :
        /\ queue'[r][i] # s
        /\ save[queue'[r][i]].stage = "waiting" /\ save[queue'[r][i]].section = r
        /\ \A j \in 1 .. Len(queue'[r]) : queue'[r][i] = queue'[r][j] => i = j
  <2> SUFFICES ASSUME NEW r \in Sections, NEW i \in 1 .. Len(queue'[r])
               PROVE  /\ queue'[r][i] # s
                      /\ save[queue'[r][i]].stage = "waiting"
                      /\ save[queue'[r][i]].section = r
                      /\ \A j \in 1 .. Len(queue'[r]) : queue'[r][i] = queue'[r][j] => i = j
    OBVIOUS
  <2>1. CASE r # section
    <3>1. queue'[r] = queue[r]
      BY <2>1 DEF Wake
    <3>2. save[s].section = section
      BY <1>1 DEF LockInv
    <3> QED
      BY <2>1, <3>1, <3>2 DEF LockInv
  <2>2. CASE r = section
    <3>1. /\ Len(queue'[r]) = Len(queue[r]) - 1
          /\ \A k \in 1 .. Len(queue'[r]) : queue'[r][k] = queue[r][k + 1]
      BY <1>1, <2>2 DEF Wake
    <3>2. \A j, k \in 1 .. Len(queue[r]) : queue[r][j] = queue[r][k] => j = k
      BY DEF LockInv
    <3>3. \A k \in 1 .. Len(queue[r]) :
            save[queue[r][k]].stage = "waiting" /\ save[queue[r][k]].section = r
      BY DEF LockInv
    <3>4. queue[r] \in Seq(Saves) /\ s = queue[r][1] /\ 1 \in 1 .. Len(queue[r])
      BY <1>1, <2>2
    <3>5. Len(queue[r]) \in Nat
      BY <3>4
    <3>6. \A k \in 1 .. Len(queue'[r]) : k + 1 \in 1 .. Len(queue[r]) /\ k + 1 # 1
      BY <3>1, <3>5
    <3>7. queue'[r][i] = queue[r][i + 1] /\ i + 1 \in 1 .. Len(queue[r]) /\ i + 1 # 1
      BY <3>1, <3>6
    <3>8. queue'[r][i] # s
      BY <3>2, <3>4, <3>7
    <3>9. ASSUME NEW j \in 1 .. Len(queue'[r]), queue'[r][i] = queue'[r][j]
          PROVE  i = j
      <4>1. j + 1 \in 1 .. Len(queue[r]) /\ queue'[r][j] = queue[r][j + 1]
        BY <3>1, <3>6
      <4>2. i + 1 = j + 1
        BY <3>2, <3>7, <3>9, <4>1
      <4> QED
        BY <3>5, <4>2, <3>1
    <3> QED
      BY <3>3, <3>7, <3>8, <3>9
  <2> QED
    BY <2>1, <2>2
<1> HIDE DEF s
<1>5. WriteFile(s, section, save[s].value) \/ WriteFails(s)
  BY DEF Wake, s
<1>6. QueueWithout(s)
  BY <1>3, <1>4 DEF QueueWithout
<1>7. holder[section] = Nobody /\ UNCHANGED <<revisions, unrecorded>>
  BY DEF Wake
<1> QED
  BY <1>1, <1>2, <1>5, <1>6, <1>7, AttemptKeeps

-----------------------------------------------------------------------------
(* The end of a save.                                                      *)

\* The lock is given back; the file says what the last revision says, or the
\* section is one whose file was replaced for good without a revision.
LEMMA LeaveKeeps ==
  ASSUME SettingsInv, NEW s \in Saves, Writing(s), Leave(s),
         NEW section \in Sections, section = save[s].section,
         UNCHANGED queue, \A r \in Sections : r # section => file'[r] = file[r]
  PROVE  /\ LockInv'
         /\ save' \in [Saves -> SaveStates]
         /\ holder' \in [Sections -> Saves \cup {Nobody}]
         /\ \A r \in Sections : r # section => Settled(r)' = Settled(r)
         /\ holder[section] = s /\ Settled(section) = save[s].previous
         /\ file[section] = save[s].value
         /\ holder'[section] = Nobody /\ Settled(section)' = Load(section)'
<1> USE SettingsAssumption DEF SettingsInv, SettingsTypes, Writing, Leave
<1>1. holder[section] = s /\ s # Nobody /\ file[section] = save[s].value
  BY DEF LockInv
<1>2. holder' = [holder EXCEPT ![section] = Nobody]
  OBVIOUS
<1>3. save'[s] = Over /\ Over.stage = "done" /\ \A t \in Saves : t # s => save'[t] = save[t]
  BY DEF Over
<1>4. save' \in [Saves -> SaveStates]
  BY DEF SaveStates
<1>5. \A r \in Sections : r # section => holder'[r] = holder[r] /\ holder[r] # s
  BY <1>2 DEF LockInv
<1>6. \A r \in Sections : r # section => Settled(r)' = Settled(r)
  BY <1>3, <1>5 DEF Settled, Load
<1>7. \A r \in Sections : holder'[r] # Nobody =>
        /\ save'[holder'[r]].stage = "writing" /\ save'[holder'[r]].section = r
        /\ save'[holder'[r]].value = file'[r]
  <2> SUFFICES ASSUME NEW r \in Sections, holder'[r] # Nobody
               PROVE  /\ save'[holder'[r]].stage = "writing"
                      /\ save'[holder'[r]].section = r
                      /\ save'[holder'[r]].value = file'[r]
    OBVIOUS
  <2>1. r # section /\ file'[r] = file[r]
    BY <1>2
  <2>2. holder'[r] = holder[r] /\ holder[r] # s /\ holder[r] \in Saves
    BY <1>5, <2>1
  <2>3. save'[holder[r]] = save[holder[r]]
    BY <1>3, <2>2
  <2>4. /\ save[holder[r]].stage = "writing" /\ save[holder[r]].section = r
        /\ save[holder[r]].value = file[r]
    BY <2>2 DEF LockInv
  <2> QED
    BY <2>1, <2>2, <2>3, <2>4
<1>8. \A t \in Saves : save'[t].stage = "writing" => holder'[save'[t].section] = t
  <2> SUFFICES ASSUME NEW t \in Saves, save'[t].stage = "writing"
               PROVE  holder'[save'[t].section] = t
    OBVIOUS
  <2>1. t # s /\ save'[t] = save[t]
    BY <1>3
  <2>2. save[t].section \in Sections /\ holder[save[t].section] = t
    BY <2>1, SaveShapes DEF LockInv
  <2>3. save[t].section # section
    BY <1>1, <2>1, <2>2
  <2> QED
    BY <1>5, <2>1, <2>2, <2>3
<1>9. \A r \in Sections : \A i \in 1 .. Len(queue[r]) : queue[r][i] # s /\ queue[r][i] \in Saves
  BY DEF LockInv
<1>10. \A r \in Sections : \A i \in 1 .. Len(queue'[r]) :
        /\ save'[queue'[r][i]].stage = "waiting" /\ save'[queue'[r][i]].section = r
        /\ \A j \in 1 .. Len(queue'[r]) : queue'[r][i] = queue'[r][j] => i = j
  <2>1. \A r \in Sections : \A i \in 1 .. Len(queue[r]) :
          /\ save[queue[r][i]].stage = "waiting" /\ save[queue[r][i]].section = r
          /\ \A j \in 1 .. Len(queue[r]) : queue[r][i] = queue[r][j] => i = j
    BY DEF LockInv
  <2>2. \A r \in Sections : \A i \in 1 .. Len(queue[r]) : save'[queue[r][i]] = save[queue[r][i]]
    BY <1>3, <1>9
  <2>3. queue' = queue
    OBVIOUS
  <2> QED
    BY <2>1, <2>2, <2>3
<1>11. LockInv'
  BY <1>7, <1>8, <1>10 DEF LockInv
<1>12. Settled(section) = save[s].previous
  BY <1>1 DEF Settled
<1>13. holder'[section] = Nobody
  BY <1>1, <1>2
<1>14. Settled(section)' = Load(section)'
  BY <1>13 DEF Settled
<1> QED
  BY <1>1, <1>2, <1>4, <1>6, <1>11, <1>12, <1>13, <1>14

\* The revision follows the last one of its section, whose value was settled
\* when the lock was taken.
LEMMA InsertRevisionKeeps ==
  ASSUME SettingsInv, NEW s \in Saves, InsertRevision(s)
  PROVE  SettingsInv'
<1> DEFINE section == save[s].section
           revision == [section |-> section, previous |-> save[s].previous,
                        new |-> save[s].value,
                        pendingRestart |-> save[s].previous.field # save[s].value.field]
<1>1. section \in Sections /\ {save[s].previous, save[s].value} \subseteq Value
  BY SaveShapes DEF InsertRevision, Writing, SettingsInv, SettingsTypes
<1>2. revision \in Revision
  BY <1>1 DEF Revision
<1>3. /\ revisions' = Append(revisions, revision)
      /\ Writing(s) /\ Leave(s) /\ UNCHANGED <<file, queue, unrecorded, mishaps>>
  BY DEF InsertRevision
<1>4. PICK q \in Sections : q = section
  BY <1>1
<1>5. PICK rev \in Revision :
        /\ rev = revision /\ rev.section = q
        /\ rev.previous = save[s].previous /\ rev.new = save[s].value
  BY <1>2, <1>4
<1>6. /\ LockInv'
      /\ save' \in [Saves -> SaveStates]
      /\ holder' \in [Sections -> Saves \cup {Nobody}]
      /\ \A r \in Sections : r # q => Settled(r)' = Settled(r)
      /\ Settled(q) = save[s].previous
      /\ Settled(q)' = Load(q)' /\ file[q] = save[s].value
  BY <1>3, <1>4, LeaveKeeps
<1>7. PICK n \in Nat : n = Len(revisions)
  BY DEF SettingsInv, SettingsTypes
<1>8. /\ DOMAIN revisions = 1 .. n /\ DOMAIN revisions' = 1 .. n + 1
      /\ revisions'[n + 1] = rev /\ \A i \in 1 .. n : revisions'[i] = revisions[i]
      /\ revisions' \in Seq(Revision)
  BY <1>3, <1>5, <1>7 DEF SettingsInv, SettingsTypes
<1> HIDE DEF section, revision
<1>9. SettingsTypes'
  BY <1>3, <1>6, <1>8 DEF SettingsInv, SettingsTypes
<1>10. \A r \in Sections :
         OfSection(r)' = IF r = q THEN OfSection(r) \cup {n + 1} ELSE OfSection(r)
  BY <1>5, <1>8 DEF OfSection
<1>11. ChainInv'
  <2> SUFFICES ASSUME NEW r \in Sections \ unrecorded
               PROVE  /\ \A i, j \in OfSection(r)' :
                           i < j /\ (\A k \in OfSection(r)' : k <= i \/ k >= j) =>
                             revisions'[j].previous = Loaded(r, revisions'[i].new)
                      /\ \A i \in DOMAIN revisions' :
                           IsLast(i, r)' => Settled(r)' = Loaded(r, revisions'[i].new)
    BY <1>3 DEF ChainInv
  <2>1. /\ OfSection(r) \subseteq 1 .. n
        /\ \A i, j \in OfSection(r) :
             i < j /\ (\A k \in OfSection(r) : k <= i \/ k >= j) =>
               revisions[j].previous = Loaded(r, revisions[i].new)
        /\ \A i \in 1 .. n : IsLast(i, r) => Settled(r) = Loaded(r, revisions[i].new)
    BY <1>8 DEF SettingsInv, ChainInv, OfSection
  <2>2. CASE r # q
    BY <1>6, <1>8, <1>10, <2>1, <2>2 DEF IsLast
  <2>3. CASE r = q
    <3>1. ASSUME NEW i \in OfSection(r)', NEW j \in OfSection(r)',
                 i < j, \A k \in OfSection(r)' : k <= i \/ k >= j
          PROVE  revisions'[j].previous = Loaded(r, revisions'[i].new)
      <4>1. i \in OfSection(r) /\ i \in 1 .. n
        BY <1>10, <2>1, <2>3, <3>1
      <4>2. CASE j = n + 1
        <5>1. IsLast(i, r)
          BY <1>10, <2>1, <2>3, <3>1, <4>1, <4>2 DEF IsLast
        <5> QED
          BY <1>5, <1>6, <1>8, <2>1, <2>3, <4>1, <4>2, <5>1
      <4>3. CASE j # n + 1
        <5>1. j \in OfSection(r) /\ j \in 1 .. n
          BY <1>10, <2>1, <2>3, <4>3
        <5>2. \A k \in OfSection(r) : k <= i \/ k >= j
          BY <1>10, <2>3, <3>1
        <5> QED
          BY <1>8, <2>1, <3>1, <4>1, <5>1, <5>2
      <4> QED
        BY <4>2, <4>3
    <3>2. ASSUME NEW i \in DOMAIN revisions', IsLast(i, r)'
          PROVE  Settled(r)' = Loaded(r, revisions'[i].new)
      <4>1. i = n + 1
        <5>1. i \in OfSection(r)' /\ \A k \in OfSection(r)' : k <= i
          BY <3>2 DEF IsLast
        <5>2. n + 1 \in OfSection(r)'
          BY <1>10, <2>3
        <5> QED
          BY <1>10, <2>1, <2>3, <5>1, <5>2
      <4> QED
        BY <1>3, <1>5, <1>6, <1>8, <2>3, <4>1 DEF Load
    <3> QED
      BY <3>1, <3>2
  <2> QED
    BY <2>2, <2>3
<1> QED
  BY <1>6, <1>9, <1>11 DEF SettingsInv

\* What was read is written back, or the section is given up.
LEMMA InsertFailsKeeps ==
  ASSUME SettingsInv, NEW s \in Saves, InsertFails(s)
  PROVE  SettingsInv'
<1> DEFINE section == save[s].section
<1>1. section \in Sections /\ save[s].previous \in Value
  BY SaveShapes DEF InsertFails, Writing, SettingsInv, SettingsTypes
<1>2. PICK q \in Sections : q = section
  BY <1>1
<1>3. /\ Writing(s) /\ Mishap /\ Leave(s) /\ UNCHANGED <<revisions, queue>>
      /\ \/ file' = [file EXCEPT ![q] = save[s].previous] /\ UNCHANGED unrecorded
         \/ unrecorded' = unrecorded \cup {q} /\ UNCHANGED file
  BY <1>2 DEF InsertFails
<1>4. file' \in [Sections -> Value] /\ \A r \in Sections : r # q => file'[r] = file[r]
  BY <1>1, <1>3 DEF SettingsInv, SettingsTypes
<1>5. /\ LockInv'
      /\ save' \in [Saves -> SaveStates]
      /\ holder' \in [Sections -> Saves \cup {Nobody}]
      /\ \A r \in Sections : r # q => Settled(r)' = Settled(r)
      /\ Settled(q) = save[s].previous
      /\ Settled(q)' = Load(q)'
  BY <1>2, <1>3, <1>4, LeaveKeeps
<1> HIDE DEF section
<1>6. SettingsTypes'
  <2>1. mishaps' \in 0 .. MaxMishaps
    BY <1>3, SettingsAssumption DEF Mishap, SettingsInv, SettingsTypes
  <2> QED
    BY <1>3, <1>4, <1>5, <2>1 DEF SettingsInv, SettingsTypes
<1>7. ChainInv'
  <2>1. CASE unrecorded' = unrecorded \cup {q} /\ UNCHANGED file
    BY <1>3, <1>5, <2>1 DEF SettingsInv, ChainInv, IsLast, OfSection
  <2>2. CASE file' = [file EXCEPT ![q] = save[s].previous] /\ UNCHANGED unrecorded
    <3>1. Load(q)' = Loaded(q, save[s].previous)
      BY <2>2 DEF Load, SettingsInv, SettingsTypes
    <3>2. \A i \in DOMAIN revisions : revisions[i].new \in Value
      BY RevisionShapes DEF SettingsInv
    <3>3. ASSUME NEW i \in DOMAIN revisions, IsLast(i, q), q \notin unrecorded
          PROVE  Settled(q)' = Loaded(q, revisions[i].new)
      <4>1. save[s].previous = Loaded(q, revisions[i].new)
        BY <1>5, <3>3 DEF SettingsInv, ChainInv
      <4> QED
        BY <1>5, <3>1, <3>2, <4>1, LoadedValue
    <3>4. \A r \in Sections : OfSection(r)' = OfSection(r)
      BY <1>3 DEF OfSection
    <3> QED
      BY <1>3, <1>5, <2>2, <3>3, <3>4 DEF SettingsInv, ChainInv, IsLast
  <2> QED
    BY <1>3, <2>1, <2>2
<1> QED
  BY <1>5, <1>6, <1>7 DEF SettingsInv

\* The sections of the saves that were writing are given up, the others had
\* nobody at work.
LEMMA CrashKeeps ==
  ASSUME SettingsInv, SettingsCrash
  PROVE  SettingsInv'
<1> USE SettingsAssumption DEF SettingsInv
<1>1. \A s \in Saves : save'[s] \in {NotSent, Over} /\ save'[s].stage \in {"none", "done"}
  BY DEF SettingsCrash, NotSent, Over
<1>2. {save[s].section : s \in {t \in Saves : Writing(t)}} \subseteq Sections
  BY SaveShapes DEF Writing, SettingsTypes
<1>3. \A r \in Sections \ unrecorded' : holder[r] = Nobody
  BY DEF SettingsCrash, Writing, LockInv, SettingsTypes
<1>4. SettingsTypes'
  <2>1. save' \in [Saves -> SaveStates]
    BY <1>1 DEF SettingsCrash, SaveStates
  <2>2. queue' \in [Sections -> Seq(Saves)]
    BY DEF SettingsCrash
  <2>3. unrecorded' \subseteq Sections /\ UNCHANGED <<file, revisions>>
    BY <1>2 DEF SettingsCrash, SettingsTypes
  <2>4. holder' \in [Sections -> Saves \cup {Nobody}] /\ mishaps' \in 0 .. MaxMishaps
    BY DEF SettingsCrash, Mishap, SettingsTypes
  <2> QED
    BY <2>1, <2>2, <2>3, <2>4 DEF SettingsTypes
<1>5. LockInv'
  BY <1>1 DEF SettingsCrash, LockInv
<1>6. \A r \in Sections \ unrecorded' : Settled(r)' = Settled(r)
  BY <1>3 DEF SettingsCrash, Settled, Load
<1>7. ChainInv'
  <2>1. unrecorded \subseteq unrecorded' /\ revisions' = revisions
    BY DEF SettingsCrash
  <2>2. \A r \in Sections : OfSection(r)' = OfSection(r)
    BY <2>1 DEF OfSection
  <2>3. ASSUME NEW r \in Sections \ unrecorded'
        PROVE  /\ \A i, j \in OfSection(r)' :
                    i < j /\ (\A k \in OfSection(r)' : k <= i \/ k >= j) =>
                       revisions'[j].previous = Loaded(r, revisions'[i].new)
               /\ \A i \in DOMAIN revisions' :
                    IsLast(i, r)' => Settled(r)' = Loaded(r, revisions'[i].new)
    <3>1. r \in Sections \ unrecorded /\ Settled(r)' = Settled(r) /\ OfSection(r)' = OfSection(r)
      BY <1>6, <2>1, <2>2
    <3>2. \A i : IsLast(i, r)' <=> IsLast(i, r)
      BY <3>1 DEF IsLast
    <3> QED
      BY <2>1, <3>1, <3>2 DEF ChainInv
  <2> QED
    BY <2>3 DEF ChainInv
<1> QED
  BY <1>4, <1>5, <1>7

LEMMA NextSettingsInv ==
  ASSUME SettingsInv, [SettingsNext]_settingsVars
  PROVE  SettingsInv'
<1>1. ASSUME NEW s \in Saves, NEW section \in Sections, NEW body \in Bodies,
             PutSettings(s, section, body)
      PROVE  SettingsInv'
  BY <1>1, ValidatedValue, AcquireKeeps DEF PutSettings, SettingsInv
<1>2. ASSUME NEW s \in Saves, NEW i \in DOMAIN revisions, Rollback(s, i)
      PROVE  SettingsInv'
  <2>1. revisions[i].section \in Sections /\ revisions[i].previous \in Value
    BY RevisionShapes DEF SettingsInv
  <2> QED
    BY <1>2, <2>1, AcquireKeeps DEF Rollback
<1>3. CASE UNCHANGED settingsVars
  <2>1. SettingsTypes' /\ LockInv'
    BY <1>3 DEF settingsVars, SettingsInv, SettingsTypes, LockInv
  <2>2. \A r \in Sections : Settled(r)' = Settled(r)
    BY <1>3 DEF settingsVars, Settled, Load
  <2> QED
    BY <1>3, <2>1, <2>2, ChainIsKept DEF settingsVars, SettingsInv
<1> QED
  BY <1>1, <1>2, <1>3, InsertRevisionKeeps, InsertFailsKeeps, WakeKeeps, CrashKeeps
     DEF SettingsNext

LEMMA SettingsInvariant == SettingsSpec => []SettingsInv
<1> QED
  BY InitSettingsInv, NextSettingsInv, PTL DEF SettingsSpec

\* The variables of the settings have their types.
THEOREM SettingsTypesHold == SettingsSpec => []SettingsTypeOK
<1>1. SettingsInv => SettingsTypeOK
  <2> SUFFICES ASSUME SettingsInv PROVE SettingsTypeOK
    OBVIOUS
  <2>1. \A i \in DOMAIN revisions :
          /\ revisions[i].section \in Sections
          /\ {revisions[i].previous, revisions[i].new} \subseteq Value
    BY RevisionShapes DEF SettingsInv
  <2>2. \A s \in Saves : save[s].stage \in {"none", "waiting", "writing", "done"}
    BY SaveShapes DEF SettingsInv, SettingsTypes
  <2> QED
    BY <2>1, <2>2 DEF SettingsInv, SettingsTypes, LockInv, SettingsTypeOK
<1> QED
  BY <1>1, SettingsInvariant, PTL

\* config.py:93-117: every revision starts from what the one before it left and
\* the file is what the last one says, whichever saves, rollbacks, failures and
\* crashes meet, in each section whose file is not ahead of its revisions.
THEOREM SettingsRevisionsChain == SettingsSpec => []RevisionsChain
<1>1. ASSUME SettingsInv, NEW section \in Sections \ unrecorded,
             holder[section] = Nobody, NEW i \in OfSection(section),
             \A k \in OfSection(section) : k <= i
      PROVE  Load(section) = Loaded(section, revisions[i].new)
  <2>1. IsLast(i, section) /\ i \in DOMAIN revisions
    BY <1>1 DEF IsLast, OfSection
  <2>2. Settled(section) = Load(section)
    BY <1>1 DEF Settled
  <2> QED
    BY <1>1, <2>1, <2>2 DEF SettingsInv, ChainInv
<1>2. SettingsInv => RevisionsChain
  BY <1>1 DEF SettingsInv, ChainInv, RevisionsChain
<1> QED
  BY <1>2, SettingsInvariant, PTL

-----------------------------------------------------------------------------
(* AudioJobs.                                                              *)

AudioFields ==
  /\ work \in [Uploads -> {"none", "uploading", "waiting", "decoding",
                           "measuring", "storing", "done"}]
  /\ jobStatus \in [Uploads -> LiveStatus \cup EndStatus \cup {"none"}]
  /\ created \in [Uploads -> Nat]
  /\ jobOf \in [Hashes -> Uploads \cup {NoJob}]
  /\ cached \subseteq Hashes /\ files \subseteq Uploads /\ orphans \subseteq Uploads
  /\ jobs \subseteq Uploads /\ flagged \subseteq Uploads
  /\ decoded \subseteq Uploads
  /\ stops \in 0 .. MaxStops

\* A job at work lives and is the one the index names, and an upload with work
\* to do has its file.
JobInv ==
  /\ \A u \in Uploads : Busy(u) =>
       /\ jobStatus[u] \in LiveStatus /\ u \in jobs /\ jobOf[ContentOf[u]] = u
  /\ \A u \in Uploads : work[u] = "uploading" \/ Busy(u) => u \in files
  /\ \A u \in decoded : work[u] = "measuring" \/ u \in orphans
  /\ \A u \in Uploads : work[u] \in {"none", "uploading"} => jobStatus[u] = "none"
  /\ \A u \in Uploads : work[u] = "none" => u \notin files
  /\ \A u \in jobs \cup flagged : jobStatus[u] # "none"
  /\ \A u \in Uploads : created[u] = 0 <=> jobStatus[u] = "none"
  /\ \A k \in Hashes : jobOf[k] # NoJob => ContentOf[jobOf[k]] = k

AudioInv == AudioFields /\ JobInv

LEMMA InitAudioInv == AudioInit => AudioInv
BY AudioAssumption DEF AudioInit, AudioInv, AudioFields, JobInv, Busy, InThread, Hashes

\* Only jobs that have ended are pruned.
LEMMA PrunedEnded == Pruned \subseteq {u \in jobs : Ended(u)}
<1>1. \A u \in Pruned : u \in jobs /\ Ended(u)
  BY DEF Pruned
<1> QED
  BY <1>1

\* The creation time of a new job is later than all.
LEMMA CreatedIsFinite == Cardinality(Created) + 1 \in Nat \ {0}
<1>1. IsFiniteSet(Created)
  BY AudioAssumption, FS_Subset DEF Created
<1>2. Cardinality(Created) \in Nat
  BY <1>1, FS_CardinalityType
<1> QED
  BY <1>2

LEMMA StartJobKeeps ==
  ASSUME AudioInv, NEW u \in Uploads, StartJob(u)
  PROVE  AudioInv'
<1> USE AudioAssumption DEF AudioInv, AudioFields, Busy, InThread, LiveStatus, EndStatus
<1> DEFINE k == ContentOf[u]
<1>1. k \in Hashes /\ u # NoJob
  BY DEF Hashes
<1>2. /\ Pruned \subseteq jobs
      /\ \A v \in Pruned : jobStatus[v] \in EndStatus
  BY PrunedEnded DEF Ended
<1>3. /\ PrunedIndex \in [Hashes -> Uploads \cup {NoJob}]
      /\ \A h \in Hashes : PrunedIndex[h] # NoJob =>
           PrunedIndex[h] = jobOf[h] /\ ContentOf[PrunedIndex[h]] = h
      /\ \A v \in Uploads : Busy(v) => PrunedIndex[ContentOf[v]] = v
  BY <1>2 DEF PrunedIndex, JobInv, Hashes
<1>4. \A v \in Uploads : Busy(v) => jobStatus[v] \in LiveStatus /\ v \in jobs \ Pruned
  BY <1>2 DEF JobInv
<1>5. /\ work[u] = "uploading" /\ jobStatus[u] = "none"
      /\ UNCHANGED <<flagged, cached, decoded, orphans, stops>>
  BY DEF StartJob, JobInv, processVars
<1>6. CASE /\ Joins(u)
           /\ jobs' = jobs \ Pruned /\ jobOf' = PrunedIndex
           /\ files' = files \ {u}
           /\ Move(u, "done") /\ UNCHANGED <<jobStatus, created>>
  <2>1. work' = [work EXCEPT ![u] = "done"]
    BY <1>6 DEF Move
  <2>2. \A v \in Uploads : Busy(v)' => Busy(v) /\ v # u
    BY <2>1
  <2>3. AudioFields'
    BY <1>2, <1>3, <1>5, <1>6, <2>1
  <2>4. JobInv'
    BY <1>2, <1>3, <1>4, <1>5, <1>6, <2>1, <2>2 DEF JobInv
  <2> QED
    BY <2>3, <2>4
<1>7. CASE /\ ~Joins(u)
           /\ jobs' = (jobs \ Pruned) \cup {u}
           /\ created' = [created EXCEPT ![u] = Cardinality(Created) + 1]
           /\ jobOf' = [PrunedIndex EXCEPT ![ContentOf[u]] = u]
           /\ IF ContentOf[u] \in cached
              THEN Move(u, "done") /\ SetStatus(u, "completed") /\ files' = files \ {u}
              ELSE Move(u, "waiting") /\ SetStatus(u, "queued") /\ UNCHANGED files
  <2>1. PICK c \in Nat \ {0} : created' = [created EXCEPT ![u] = c]
    BY <1>7, CreatedIsFinite
  <2>2. \A v \in Uploads : Busy(v) => ContentOf[v] # k
    BY <1>3, <1>4, <1>7 DEF Joins
  <2>3. \/ /\ work' = [work EXCEPT ![u] = "done"] /\ files' = files \ {u}
           /\ jobStatus' = [jobStatus EXCEPT ![u] = "completed"]
        \/ /\ work' = [work EXCEPT ![u] = "waiting"] /\ files' = files
           /\ jobStatus' = [jobStatus EXCEPT ![u] = "queued"]
    BY <1>7 DEF Move, SetStatus
  <2>4. AudioFields'
    BY <1>1, <1>2, <1>3, <1>5, <1>7, <2>1, <2>3
  <2>5. jobOf'[k] = u /\ \A h \in Hashes : h # k => jobOf'[h] = PrunedIndex[h]
    BY <1>1, <1>3, <1>7
  <2>6. \A v \in Uploads : ContentOf[v] \in Hashes
    BY DEF Hashes
  <2>7. \A v \in Uploads : Busy(v)' =>
          /\ jobStatus'[v] \in LiveStatus /\ v \in jobs' /\ jobOf'[ContentOf[v]] = v
    BY <1>3, <1>4, <1>7, <2>2, <2>3, <2>5, <2>6
  <2>8. \A h \in Hashes : jobOf'[h] # NoJob => ContentOf[jobOf'[h]] = h
    BY <1>3, <2>5
  <2>9. \A v \in decoded : v # u \/ v \in orphans
    BY <1>5 DEF JobInv
  <2>10. \A v \in Uploads : created'[v] = 0 <=> jobStatus'[v] = "none"
    BY <2>1, <2>3 DEF JobInv
  <2>11. \A v \in Uploads : v # u => work'[v] = work[v] /\ jobStatus'[v] = jobStatus[v]
    BY <2>3
  <2>12. work'[u] \in {"done", "waiting"} /\ jobStatus'[u] # "none"
    BY <2>3
  <2>13. \A v \in jobs' \cup flagged' : jobStatus'[v] # "none"
    BY <1>5, <1>7, <2>11, <2>12 DEF JobInv
  <2>14. JobInv'
    BY <1>5, <2>3, <2>7, <2>8, <2>9, <2>10, <2>11, <2>12, <2>13 DEF JobInv
  <2> QED
    BY <2>4, <2>14
<1> QED
  BY <1>6, <1>7 DEF StartJob

\* A step of the task of a job.
LEMMA JobStepKeeps ==
  ASSUME AudioInv, NEW u \in Uploads, JobStep(u)
  PROVE  AudioInv'
<1> USE AudioAssumption
    DEF AudioInv, AudioFields, JobInv, Busy, InThread, LiveStatus, EndStatus, Move,
        SetStatus, FinishJob, indexVars, resultVars, processVars
<1>1. CASE TakeWorker(u)
  BY <1>1 DEF TakeWorker
<1>2. CASE Decode(u)
  BY <1>2 DEF Decode
<1>3. CASE Measure(u)
  BY <1>3 DEF Measure
<1>4. CASE StoreResult(u)
  BY <1>4 DEF StoreResult, Hashes
<1> QED
  BY <1>1, <1>2, <1>3, <1>4 DEF JobStep

LEMMA NextAudioInv ==
  ASSUME AudioInv, [AudioNext]_audioVars
  PROVE  AudioInv'
<1> USE AudioAssumption
    DEF AudioInv, AudioFields, JobInv, Busy, InThread, LiveStatus, EndStatus, Move,
        SetStatus, indexVars, resultVars, processVars
<1>1. ASSUME NEW u \in Uploads, BeginUpload(u)
      PROVE  AudioInv'
  BY <1>1 DEF BeginUpload
<1>2. ASSUME NEW u \in Uploads, RefuseUpload(u)
      PROVE  AudioInv'
  BY <1>2 DEF RefuseUpload
<1>3. ASSUME NEW u \in Uploads, CancelJob(u)
      PROVE  AudioInv'
  BY <1>3 DEF CancelJob
<1>4. CASE Shutdown
  BY <1>4 DEF Shutdown
<1>5. CASE StartAgain
  BY <1>5 DEF StartAgain, NewProcess
<1>6. CASE CoreCrashes
  BY <1>6 DEF CoreCrashes, NewProcess
<1>7. CASE UNCHANGED audioVars
  BY <1>7 DEF audioVars
<1> HIDE DEF AudioInv
<1> QED
  BY <1>1, <1>2, <1>3, <1>4, <1>5, <1>6, <1>7, StartJobKeeps, JobStepKeeps DEF AudioNext

LEMMA AudioInvariant == AudioSpec => []AudioInv
<1> QED
  BY InitAudioInv, NextAudioInv, PTL DEF AudioSpec

\* The variables of the audio jobs have their types; in particular a temporary
\* file of the decoder is beside an upload that is still there, or was left by a
\* crash.
THEOREM AudioTypes == AudioSpec => []AudioTypeOK
<1>1. AudioInv => AudioTypeOK
  BY DEF AudioInv, AudioFields, JobInv, AudioTypeOK, Busy, InThread
<1> QED
  BY <1>1, AudioInvariant, PTL

\* audio_analysis.py:782-788: however uploads, cancellations, prunings and
\* restarts meet, a content is analysed by one job at a time, which the index
\* names, so that it can be joined and cancelled.
THEOREM AudioOneJobPerContent == AudioSpec => []OneJobPerContent
<1>1. AudioInv => OneJobPerContent
  BY DEF AudioInv, JobInv, OneJobPerContent
<1> QED
  BY <1>1, AudioInvariant, PTL

-----------------------------------------------------------------------------
(* Memory.                                                                 *)

\* Ids that may stand in one prompt.
Apart(ids) ==
  \A i, j \in DOMAIN ids : i # j =>
    Normal(Records[ids[i]]) # Normal(Records[ids[j]]) /\ ~Rivals(ids[i], ids[j])

LEMMA ChosenAreApart ==
  ASSUME NEW winners, NEW D, winners \subseteq D, NEW r \in Seq(D)
  PROVE  /\ Chosen(r, winners) \in Seq(winners)
         /\ Len(Chosen(r, winners)) <= TopK
         /\ Apart(Chosen(r, winners))
<1> DEFINE X == {c \in Seq(winners) : Len(c) <= TopK /\ Apart(c)}
           n == Len(r)
           Refused(m, sofar) ==
             \/ m \notin winners
             \/ \E k \in ToSet(sofar) :
                  Normal(Records[k]) = Normal(Records[m]) \/ Rivals(m, k)
             \/ Len(sofar) >= TopK
           Take(i, c) == IF Refused(r[i], c) THEN c ELSE Append(c, r[i])
           chosen[i \in 0 .. n] == IF i = 0 THEN << >> ELSE Take(i, chosen[i - 1])
<1>1. n \in Nat /\ << >> \in X
  BY MemoryAssumption DEF Apart
<1>0. n \in Nat
  BY <1>1
<1>2. \A i \in 1 .. n : \A c \in X : Take(i, c) \in X
  <2> SUFFICES ASSUME NEW i \in 1 .. n, NEW c \in X, ~Refused(r[i], c)
               PROVE  Append(c, r[i]) \in X
    OBVIOUS
  <2>1. PICK m \in winners : m = r[i]
    OBVIOUS
  <2>2. PICK l \in Nat : l = Len(c)
    OBVIOUS
  <2>3. l < TopK /\ \A j \in 1 .. l :
          Normal(Records[c[j]]) # Normal(Records[m]) /\ ~Rivals(m, c[j])
    BY <2>1, <2>2, MemoryAssumption DEF ToSet
  <2>4. /\ Append(c, m) \in Seq(winners) /\ DOMAIN Append(c, m) = 1 .. l + 1
        /\ Append(c, m)[l + 1] = m /\ \A j \in 1 .. l : Append(c, m)[j] = c[j]
        /\ Len(Append(c, m)) = l + 1
    BY <2>2
  <2>5. DOMAIN c = 1 .. l
    BY <2>2
  <2>6. \A j \in 1 .. l : ~Rivals(c[j], m)
    BY <2>3 DEF Rivals
  <2>7. Apart(Append(c, m))
    BY <2>3, <2>4, <2>5, <2>6 DEF Apart
  <2> QED
    BY <2>1, <2>3, <2>4, <2>7, MemoryAssumption
<1> HIDE DEF X, Take
<1>3. PICK f \in [0 .. n -> X] : f = [i \in 0 .. n |-> IF i = 0 THEN << >> ELSE Take(i, f[i - 1])]
  <2> DEFINE step == [i \in 1 .. n |-> [c \in X |-> Take(i, c)]]
  <2>1. step \in Loops(n, X)
    BY <1>2 DEF Loops
  <2>2. \A i \in 1 .. n : \A c \in X : step[i][c] = Take(i, c)
    OBVIOUS
  <2> HIDE DEF step, n
  <2>3. \A x0 \in X : \E f \in [0 .. n -> X] : Follows(f, n, x0, step)
    BY <1>0, <2>1, FoldExists
  <2>a. PICK f \in [0 .. n -> X] : f[0] = << >> /\ \A i \in 1 .. n : f[i] = step[i][f[i - 1]]
    BY <1>1, <2>3 DEF Follows
  <2>4. \A i \in 0 .. n : f[i] = IF i = 0 THEN << >> ELSE Take(i, f[i - 1])
    BY <1>1, <2>2, <2>a
  <2>5. f = [i \in 0 .. n |-> f[i]]
    OBVIOUS
  <2>6. f = [i \in 0 .. n |-> IF i = 0 THEN << >> ELSE Take(i, f[i - 1])]
    BY <2>4, <2>5
  <2> QED
    BY <2>6
<1>4. chosen = [i \in 0 .. n |-> IF i = 0 THEN << >> ELSE Take(i, chosen[i - 1])]
  BY <1>3
<1> HIDE DEF chosen
<1>5. \A i \in 0 .. n : chosen[i] = IF i = 0 THEN << >> ELSE Take(i, chosen[i - 1])
  BY <1>4
<1> DEFINE S == {i \in 0 .. n : chosen[i] \in X}
<1>6. 0 \in S
  BY <1>1, <1>5
<1>7. \A i \in 0 .. n : i # n /\ i \in S => i + 1 \in S
  BY <1>1, <1>2, <1>5
<1>8. n \in S
  <2> HIDE DEF S, n
  <2>1. 0 .. n \subseteq S
    BY <1>1, <1>6, <1>7, Induction
  <2> QED
    BY <1>1, <2>1
<1>9. chosen[n] \in X
  BY <1>8
<1>10. Chosen(r, winners) = chosen[n]
  BY DEF Chosen, chosen, Take
<1> QED
  BY <1>9, <1>10 DEF X

PromptEntry == [id : Memories, row : Row]
MemoryRevision == [memory : Memories, old : Contents, new : Contents]

MemoryFields ==
  /\ DOMAIN memory \subseteq Memories
  /\ memory \in [DOMAIN memory -> Row]
  /\ history \in Seq(MemoryRevision)
  /\ repaired \in BOOLEAN
  /\ pool.read \in BOOLEAN
  /\ DOMAIN pool.rows \subseteq Memories /\ \A m \in DOMAIN pool.rows : pool.rows[m] \in Row
  /\ prompt \in Seq(PromptEntry) /\ Len(prompt) <= TopK
  /\ writes \in 0 .. MaxWrites

MemoryInv == MemoryFields /\ OneInForce /\ PromptIsConsistent

\* A finite set can be written as a sequence.
LEMMA SetAsSequence ==
  ASSUME NEW S, IsFiniteSet(S)
  PROVE  SetToSeq(S) \in Seq(S)
<1>1. Cardinality(S) \in Nat /\ ExistsBijection(1 .. Cardinality(S), S)
  BY FS_CardinalityType
<1>2. \E f \in [1 .. Cardinality(S) -> S] : IsInjective(f)
  BY <1>1 DEF ExistsBijection, Bijection, Injection, IsInjective
<1>3. SetToSeq(S) \in [1 .. Cardinality(S) -> S]
  BY <1>2 DEF SetToSeq
<1> QED
  BY <1>1, <1>3

LEMMA InitMemoryInv == MemoryInit => MemoryInv
<1> SUFFICES ASSUME MemoryInit PROVE MemoryInv
  OBVIOUS
<1>0. PICK some \in SUBSET Old :
        \E c \in [some -> Contents], a \in [some -> BOOLEAN] :
          memory = [m \in some |->
            [content |-> c[m], active |-> a[m], supersededBy |-> NoMemory, updated |-> 0]]
  BY DEF MemoryInit
<1>1. PICK c \in [some -> Contents], a \in [some -> BOOLEAN] :
        memory = [m \in some |->
          [content |-> c[m], active |-> a[m], supersededBy |-> NoMemory, updated |-> 0]]
  BY <1>0
<1>2. DOMAIN memory \subseteq Memories /\ memory \in [DOMAIN memory -> Row]
  BY <1>1, MemoryAssumption DEF Row
<1>3. /\ history = << >> /\ prompt = << >> /\ repaired = FALSE /\ writes = 0
      /\ pool = [read |-> FALSE, rows |-> << >>]
  BY DEF MemoryInit, NoPool
<1>4. DOMAIN prompt = {} /\ prompt \in Seq(PromptEntry) /\ Len(prompt) = 0
      /\ history \in Seq(MemoryRevision)
  BY <1>3
<1>5. /\ pool.read \in BOOLEAN /\ repaired \in BOOLEAN
      /\ DOMAIN pool.rows \subseteq Memories
      /\ \A m \in DOMAIN pool.rows : pool.rows[m] \in Row
  <2>1. pool.read = FALSE /\ pool.rows = << >>
    BY <1>3
  <2>2. DOMAIN pool.rows = {}
    BY <2>1
  <2>3. pool.read \in BOOLEAN /\ repaired \in BOOLEAN
    BY <1>3, <2>1
  <2> QED
    BY <2>2, <2>3
<1>6. Len(prompt) <= TopK /\ writes \in 0 .. MaxWrites
  BY <1>3, <1>4, MemoryAssumption
<1>7. MemoryFields
  BY <1>2, <1>4, <1>5, <1>6 DEF MemoryFields
<1> QED
  BY <1>3, <1>4, <1>7 DEF MemoryInv, OneInForce, PromptIsConsistent

\* version 4: of the memories that say the same the first stays in force.
LEMMA RepairKeeps ==
  ASSUME MemoryInv, RepairDuplicates
  PROVE  MemoryInv'
<1> USE DEF MemoryInv, MemoryFields
<1>1. PICK keep \in [DOMAIN memory -> DOMAIN memory] :
       /\ \A m, n \in DOMAIN memory :
            LET same == InForce(memory[m]) /\ InForce(memory[n])
                        /\ Normal(memory[m]) = Normal(memory[n])
            IN  /\ same => keep[m] = keep[n]
                /\ ~InForce(memory[m]) => keep[m] = m
                /\ keep[m] = n /\ m # n => same
       /\ memory' = [m \in DOMAIN memory |->
            IF keep[m] = m THEN memory[m]
            ELSE [memory[m] EXCEPT !.active = FALSE, !.supersededBy = keep[m]]]
       /\ history' = SetToSeq(
            {[memory |-> m, old |-> memory[m].content, new |-> memory[m].content] :
               m \in {n \in DOMAIN memory : keep[n] # n}})
  BY DEF RepairDuplicates
<1>2. repaired' = TRUE /\ UNCHANGED <<pool, prompt, writes>>
  BY DEF RepairDuplicates
<1>3. DOMAIN memory' \subseteq Memories /\ memory' \in [DOMAIN memory' -> Row]
  <2>1. \A m \in DOMAIN memory : memory[m] \in Row /\ keep[m] \in Memories
    OBVIOUS
  <2>2. \A r \in Row, m \in Memories :
          [r EXCEPT !.active = FALSE, !.supersededBy = m] \in Row
    BY DEF Row
  <2>3. DOMAIN memory' = DOMAIN memory
    BY <1>1
  <2>4. \A m \in DOMAIN memory : memory'[m] \in Row
    BY <1>1, <2>1, <2>2
  <2>5. memory' = [m \in DOMAIN memory' |-> memory'[m]]
    BY <1>1
  <2> QED
    BY <2>3, <2>4, <2>5
<1>4. history' \in Seq(MemoryRevision)
  <2> DEFINE S == {n \in DOMAIN memory : keep[n] # n}
             f == [m \in S |-> [memory |-> m, old |-> memory[m].content,
                                new |-> memory[m].content]]
             T == {[memory |-> m, old |-> memory[m].content, new |-> memory[m].content] :
                     m \in S}
  <2>1. IsFiniteSet(S)
    BY MemoryAssumption, FS_Subset
  <2>2. f \in Surjection(S, T)
    BY DEF Surjection
  <2>3. IsFiniteSet(T)
    <3> HIDE DEF S, T, f
    <3> QED
      BY <2>1, <2>2, FS_Surjection
  <2>4. T \subseteq MemoryRevision
    <3>1. \A m \in S : m \in Memories /\ memory[m].content \in Contents
      BY DEF Row
    <3> QED
      BY <3>1 DEF MemoryRevision
  <2>5. history' = SetToSeq(T)
    BY <1>1
  <2> HIDE DEF T
  <2>6. SetToSeq(T) \in Seq(T)
    BY <2>3, SetAsSequence
  <2> QED
    BY <2>4, <2>5, <2>6
<1>5. OneInForce'
  <2>1. ASSUME NEW m \in DOMAIN memory, NEW n \in DOMAIN memory, m # n,
               InForce(memory'[m]), InForce(memory'[n])
        PROVE  Normal(memory'[m]) # Normal(memory'[n])
    <3>1. keep[m] = m /\ keep[n] = n
      <4>1. ASSUME NEW k \in DOMAIN memory, keep[k] # k
            PROVE  ~InForce(memory'[k])
        <5>1. PICK row \in Row : row = memory[k]
          OBVIOUS
        <5>2. memory'[k] = [row EXCEPT !.active = FALSE, !.supersededBy = keep[k]]
          BY <1>1, <4>1, <5>1, Zenon
        <5>3. \A to : [row EXCEPT !.active = FALSE, !.supersededBy = to].active = FALSE
          BY DEF Row
        <5>4. memory'[k].active = FALSE
          BY <5>2, <5>3, Zenon
        <5> QED
          BY <5>4, Zenon DEF InForce
      <4> QED
        BY <2>1, <4>1, Zenon
    <3>2. memory'[m] = memory[m] /\ memory'[n] = memory[n]
      BY <1>1, <3>1, Zenon
    <3>3. InForce(memory[m]) /\ InForce(memory[n])
      BY <2>1, <3>2, Zenon
    <3>4. Normal(memory[m]) # Normal(memory[n])
      BY <1>1, <2>1, <3>1, <3>3, Zenon
    <3> QED
      BY <3>2, <3>4, Zenon
  <2>2. DOMAIN memory' = DOMAIN memory
    BY <1>1, Zenon
  <2> QED
    BY <2>1, <2>2, Zenon DEF OneInForce
<1>6. PromptIsConsistent'
  BY <1>2 DEF PromptIsConsistent
<1> QED
  BY <1>2, <1>3, <1>4, <1>5, <1>6

\* A row of its own content is written, if no other in force says the same.
LEMMA WithKeeps ==
  ASSUME MemoryInv, NEW m \in Memories, NEW row \in Row, Write,
         InForce(row) => Duplicates(row.content, m) = {}, memory' = With(m, row),
         UNCHANGED <<repaired, pool, prompt>>, history' \in Seq(MemoryRevision)
  PROVE  MemoryInv'
<1> USE DEF MemoryInv, MemoryFields
<1>1. /\ DOMAIN memory' = DOMAIN memory \cup {m} /\ memory'[m] = row
      /\ \A n \in DOMAIN memory : n # m => memory'[n] = memory[n]
      /\ memory' \in [DOMAIN memory' -> Row]
  BY DEF With
<1>2. writes' \in 0 .. MaxWrites
  BY MemoryAssumption DEF Write
<1>3. OneInForce'
  <2>1. ASSUME NEW n \in DOMAIN memory, n # m, InForce(row), InForce(memory[n])
        PROVE  Normal(row) # Normal(memory[n])
    BY <2>1 DEF Duplicates, Normal
  <2> QED
    BY <1>1, <2>1 DEF OneInForce
<1>4. PromptIsConsistent'
  BY DEF PromptIsConsistent
<1> QED
  BY <1>1, <1>2, <1>3, <1>4

LEMMA RetrieveKeeps ==
  ASSUME MemoryInv, Retrieve
  PROVE  MemoryInv'
<1> USE DEF MemoryInv, MemoryFields
<1>1. /\ DOMAIN Records \subseteq Memories
      /\ \A m \in DOMAIN Records : Records[m] \in Row
  BY DEF Records
<1>2. PICK r \in Rankings, relevant \in SUBSET {m \in DOMAIN Records : Eligible(m)} :
        prompt' = [i \in DOMAIN Chosen(r, Winners(relevant)) |->
                     [id |-> Chosen(r, Winners(relevant))[i],
                      row |-> Records[Chosen(r, Winners(relevant))[i]]]]
  BY DEF Retrieve
<1> DEFINE D == DOMAIN Records
           winners == Winners(relevant)
           ids == Chosen(r, winners)
<1>3. winners \subseteq relevant /\ \A m \in winners : Records[m].supersededBy = NoMemory
  BY DEF Winners, Eligible
<1>4. r \in Seq(D)
  <2>1. Cardinality(D) \in Nat
    BY <1>1, MemoryAssumption, FS_Subset, FS_CardinalityType
  <2>2. r \in [1 .. Cardinality(D) -> D]
    BY DEF Rankings, SetToSeqs
  <2> HIDE DEF D
  <2> QED
    BY <2>1, <2>2
<1>5. ids \in Seq(winners) /\ Len(ids) <= TopK /\ Apart(ids)
  <2>1. winners \subseteq D
    BY <1>3
  <2> HIDE DEF winners, D
  <2> QED
    BY <1>4, <2>1, ChosenAreApart
<1> HIDE DEF ids, winners
<1>6. PICK n \in Nat : n = Len(ids) /\ DOMAIN ids = 1 .. n
  BY <1>5
<1>7. prompt' = [i \in 1 .. n |-> [id |-> ids[i], row |-> Records[ids[i]]]]
  BY <1>2, <1>6 DEF ids, winners
<1>8. \A i \in 1 .. n : ids[i] \in Memories /\ Records[ids[i]] \in Row
                       /\ Records[ids[i]].supersededBy = NoMemory
  BY <1>1, <1>3, <1>5, <1>6
<1>9. prompt' \in Seq(PromptEntry) /\ Len(prompt') = n
  <2>1. prompt' \in [1 .. n -> PromptEntry]
    BY <1>7, <1>8 DEF PromptEntry
  <2> QED
    BY <2>1
<1>10. PromptIsConsistent'
  <2>1. ASSUME NEW i \in 1 .. n, NEW j \in 1 .. n, i # j
        PROVE  /\ Normal(Records[ids[i]]) # Normal(Records[ids[j]])
               /\ ~Rivals(ids[i], ids[j])
    BY <1>5, <1>6, <2>1 DEF Apart
  <2>2. \A i \in 1 .. n : prompt'[i].row = Records[ids[i]]
    BY <1>7
  <2>3. DOMAIN prompt' = 1 .. n
    BY <1>7
  <2> DEFINE shownRows == [i \in 1 .. n |-> Records[ids[i]]]
  <2>4. \A i \in 1 .. n : shownRows[i] = Records[ids[i]]
    OBVIOUS
  <2> HIDE DEF shownRows
  <2>5. \A i, j \in 1 .. n : i # j =>
          /\ Normal(shownRows[i]) # Normal(shownRows[j])
          /\ SubjectOf[shownRows[i].content] # NoSubject =>
               SubjectOf[shownRows[i].content] # SubjectOf[shownRows[j].content]
    BY <2>1, <2>4 DEF Rivals
  <2> QED
    BY <1>8, <2>2, <2>3, <2>4, <2>5 DEF PromptIsConsistent
<1>11. pool' = NoPool /\ UNCHANGED <<memory, history, repaired, writes>>
  BY DEF Retrieve
<1> QED
  BY <1>5, <1>6, <1>9, <1>10, <1>11 DEF NoPool, OneInForce

LEMMA NextMemoryInv ==
  ASSUME MemoryInv, [MemoryNext]_memoryVars
  PROVE  MemoryInv'
<1> USE DEF MemoryInv, MemoryFields
<1>1. ASSUME NEW m \in Memories, NEW text \in Contents, NEW active \in BOOLEAN,
             CreateMemory(m, text, active)
      PROVE  MemoryInv'
  <2> DEFINE row == [content |-> text, active |-> active,
                     supersededBy |-> NoMemory, updated |-> writes']
  <2>1. row \in Row /\ Write
    BY <1>1, MemoryAssumption DEF CreateMemory, Write, Row
  <2>2. /\ memory' = With(m, row) /\ UNCHANGED <<history, repaired, pool, prompt>>
        /\ InForce(row) => Duplicates(row.content, m) = {}
    BY <1>1 DEF CreateMemory, InForce
  <2> HIDE DEF row
  <2> QED
    BY <2>1, <2>2, WithKeeps
<1>2. ASSUME NEW m \in Memories, NEW text \in Contents, NEW active \in BOOLEAN,
             UpdateMemory(m, text, active)
      PROVE  MemoryInv'
  <2> DEFINE owner == IF active /\ text # memory[m].content THEN NoMemory
                      ELSE memory[m].supersededBy
             row == [content |-> text, active |-> active,
                     supersededBy |-> owner, updated |-> writes']
  <2>1. m \in DOMAIN memory /\ memory[m] \in Row /\ Write
    BY <1>2 DEF UpdateMemory
  <2>2. row \in Row
    BY <2>1, MemoryAssumption DEF Write, Row
  <2>3. /\ memory' = With(m, row) /\ UNCHANGED <<repaired, pool, prompt>>
        /\ InForce(row) => Duplicates(row.content, m) = {}
    BY <1>2 DEF UpdateMemory, InForce
  <2>4. history' \in Seq(MemoryRevision)
    <3>1. [memory |-> m, old |-> memory[m].content, new |-> text] \in MemoryRevision
      BY <2>1 DEF Row, MemoryRevision
    <3> QED
      BY <1>2, <3>1 DEF UpdateMemory
  <2> HIDE DEF row
  <2> QED
    BY <2>1, <2>2, <2>3, <2>4, WithKeeps
<1>3. ASSUME NEW m \in Memories, DeleteMemory(m)
      PROVE  MemoryInv'
  <2>1. writes' \in 0 .. MaxWrites
    BY <1>3, MemoryAssumption DEF DeleteMemory, Write
  <2>2. /\ memory' = [n \in DOMAIN memory \ {m} |-> memory[n]]
        /\ UNCHANGED <<history, repaired, pool, prompt>>
    BY <1>3 DEF DeleteMemory
  <2> QED
    BY <2>1, <2>2 DEF OneInForce, PromptIsConsistent
<1>4. CASE ReadCandidates
  <2>1. PICK found \in SUBSET DOMAIN memory :
          pool' = [read |-> TRUE, rows |-> [m \in found |-> memory[m]]]
    BY <1>4 DEF ReadCandidates
  <2>2. prompt' = << >> /\ UNCHANGED <<memory, history, repaired, writes>>
    BY <1>4 DEF ReadCandidates
  <2> QED
    BY <2>1, <2>2, MemoryAssumption DEF OneInForce, PromptIsConsistent
<1>5. CASE UNCHANGED memoryVars
  BY <1>5 DEF memoryVars, OneInForce, PromptIsConsistent
<1> HIDE DEF MemoryInv
<1> QED
  BY <1>1, <1>2, <1>3, <1>4, <1>5, RepairKeeps, RetrieveKeeps DEF MemoryNext

LEMMA MemoryInvariant == MemorySpec => []MemoryInv
<1> QED
  BY InitMemoryInv, NextMemoryInv, PTL DEF MemorySpec

\* The variables of the memory have their types.
THEOREM MemoryTypes == MemorySpec => []MemoryTypeOK
<1>1. MemoryInv => MemoryTypeOK
  <2> SUFFICES ASSUME MemoryInv PROVE MemoryTypeOK
    OBVIOUS
  <2>1. \A i \in DOMAIN history : history[i].memory \in Memories
    <3>1. \A i \in DOMAIN history : history[i] \in MemoryRevision
      BY DEF MemoryInv, MemoryFields
    <3> QED
      BY <3>1 DEF MemoryRevision
  <2> QED
    BY <2>1 DEF MemoryInv, MemoryFields, MemoryTypeOK
<1> QED
  BY <1>1, MemoryInvariant, PTL

\* database.py:343-427: once the repair has run, equivalent memories are never in
\* force together, whatever is created, edited, superseded and deleted.
THEOREM MemoryOneInForce == MemorySpec => []OneInForce
<1> QED
  BY MemoryInvariant, PTL DEF MemoryInv

\* memory_retriever.py:488-553: whatever the ranking, and whatever changes between
\* the two reads of a retrieval, a prompt states no fact twice and no two values
\* of one fact.
THEOREM MemoryPromptIsConsistent == MemorySpec => []PromptIsConsistent
<1> QED
  BY MemoryInvariant, PTL DEF MemoryInv


-----------------------------------------------------------------------------
(* Chat turns: the inductive invariant.                                     *)

\* ChatTypeOK without the claims, which ClaimInv describes exactly.
ChatFieldTypes ==
  /\ turn \in [Requests -> Stages]
  /\ cancelling \subseteq Requests /\ torn \subseteq Requests
  /\ sockets \subseteq Sockets
  /\ verdict \in [Requests -> {"none", "new", "refused"}]
  /\ rows \subseteq Requests
  /\ reply \in [Requests -> {"absent", "generating", "completed", "interrupted"}]
  /\ provider \in [Requests -> Providers \cup {0}]
  /\ texts \in [Requests -> SUBSET Providers]
  /\ told \in [Requests -> SUBSET {"refused", "accepted", "delta", "completed",
                                   "cancelled", "failed"}]
  /\ upsets \in 0 .. MaxUpsets

\* A turn holds all its keys from Claim to its end and none at any other
\* time, and no two turns hold the same key.
ClaimInv ==
  /\ claims = [t \in Requests |-> IF Working(t) THEN Keys(t) ELSE {}]
  /\ \A t \in Requests : claims[t] \subseteq inflight
  /\ \A t, u \in Requests : t # u => claims[t] \cap claims[u] = {}

\* What the stage of a turn says of its rows.
RowOK(t) ==
  /\ t \notin rows <=> reply[t] = "absent"
  /\ turn[t] \in {"none", "created", "looked", "claimed"} => reply[t] = "absent"
  /\ turn[t] \in {"accepted", "streaming", "committing", "failing"} => reply[t] = "generating"
  /\ turn[t] = "delivering" => reply[t] = "completed"
  /\ turn[t] = "interrupting" => reply[t] \in {"generating", "completed"}
  /\ turn[t] = "ended" /\ reply[t] = "generating" => t \in torn

\* What its stage and its rows say of the events that were sent.
ToldOK(t) ==
  /\ turn[t] # "ended" => told[t] \subseteq {"accepted", "delta"}
  /\ "completed" \in told[t] => reply[t] = "completed"
  /\ told[t] \cap {"cancelled", "failed", "refused"} # {} => reply[t] # "completed"

\* The answer holds the text of the provider at work, if any.
TextOK(t) ==
  /\ turn[t] \in {"none", "created", "looked", "claimed", "accepted"} => texts[t] = {}
  /\ texts[t] \subseteq {provider[t]}
  /\ turn[t] = "streaming" => provider[t] \in Providers

StageInv == \A t \in Requests : RowOK(t) /\ ToldOK(t) /\ TextOK(t)

\* A turn that was found new may retry what it names, and still may when its
\* rows are inserted and ever after; a message id is stored once.
RetryInv ==
  /\ \A t \in Requests : turn[t] = "claimed" => verdict[t] = "new"
  /\ \A t \in Requests :
       turn[t] \in {"looked", "claimed"} /\ verdict[t] = "new" => MayRetry(t)
  /\ \A t \in rows : MayRetry(t)
  /\ \A t, u \in rows : t # u => ~SameMessage(t, u)

ChatInv == ChatFieldTypes /\ ClaimInv /\ StageInv /\ RetryInv

-----------------------------------------------------------------------------
(* Types.                                                                  *)

LEMMA InitChatFieldTypes == ChatInit => ChatFieldTypes
BY ChatAssumption DEF ChatInit, ChatFieldTypes, Stages, Sockets

LEMMA NextChatFieldTypes ==
  ASSUME ChatFieldTypes, StageInv, [ChatNext]_chatVars
  PROVE  ChatFieldTypes'
<1> USE DEF ChatFieldTypes, Stages, taskVars, claimVars, rowVars, routerVars
<1>1. ASSUME NEW t \in Requests, ReceiveRequest(t)
      PROVE  ChatFieldTypes'
  BY <1>1, ChatAssumption DEF ReceiveRequest, SeenOn, Goto, Tell
<1>2. ASSUME NEW t \in Requests, ChatCancel(t)
      PROVE  ChatFieldTypes'
  BY <1>2, ChatAssumption DEF ChatCancel, Upset, Live
<1>3. ASSUME NEW t \in Requests, LookUp(t)
      PROVE  ChatFieldTypes'
  BY <1>3, ChatAssumption DEF LookUp, At, Goto
<1>4. ASSUME NEW t \in Requests, Claim(t)
      PROVE  ChatFieldTypes'
  BY <1>4, ChatAssumption DEF Claim, At, Refuse, End, Release, Goto, Tell
<1>5. ASSUME NEW t \in Requests, AllocateTurn(t)
      PROVE  ChatFieldTypes'
  BY <1>5, ChatAssumption DEF AllocateTurn, At, InsertRows, Refuse, End, Release, Goto, Tell
<1>6. ASSUME NEW t \in Requests, RunTools(t)
      PROVE  ChatFieldTypes'
  BY <1>6, ChatAssumption DEF RunTools, At, Goto
<1>7. ASSUME NEW t \in Requests, NEW retryable \in BOOLEAN, ProviderFails(t, retryable)
      PROVE  ChatFieldTypes'
  BY <1>7, ChatAssumption DEF ProviderFails, CanFallback, At, Goto
<1>8. ASSUME NEW t \in Requests, Final(t)
      PROVE  ChatFieldTypes'
  BY <1>8, ChatAssumption DEF Final, At, Goto
<1>9. ASSUME NEW t \in Requests, Commit(t)
      PROVE  ChatFieldTypes'
  BY <1>9, ChatAssumption DEF Commit, At, Settle, Upset, Goto
<1>10. ASSUME NEW t \in Requests, Deliver(t)
      PROVE  ChatFieldTypes'
  BY <1>10, ChatAssumption DEF Deliver, At, End, Release, Goto, Tell
<1>11. ASSUME NEW t \in Requests, NEW goal \in {"interrupting", "failing"},
             NEW event \in {"cancelled", "failed"}, StoreInterrupted(t, goal, event)
      PROVE  ChatFieldTypes'
  BY <1>11, ChatAssumption DEF StoreInterrupted, At, Settle, End, Release, Goto, Tell
<1>12. ASSUME NEW t \in Requests, Cancelled(t)
      PROVE  ChatFieldTypes'
  BY <1>12, ChatAssumption DEF Cancelled, InsertRows, Settle, End, Release, Goto, Tell
<1>13. ASSUME NEW t \in Requests, Delta(t)
      PROVE  ChatFieldTypes'
  BY <1>13 DEF Delta, At, Tell, StageInv, TextOK
<1>14. ASSUME NEW t \in Requests, StoreFails(t)
      PROVE  ChatFieldTypes'
  BY <1>14, ChatAssumption DEF StoreFails, Upset, End, Release, Goto
<1>15. ASSUME NEW s \in Sockets, CloseSocket(s)
      PROVE  ChatFieldTypes'
  BY <1>15, ChatAssumption DEF CloseSocket, Upset, Live
<1>16. ASSUME Restart
      PROVE  ChatFieldTypes'
  BY <1>16, ChatAssumption DEF Restart, Upset, Recover
<1>17. ASSUME UNCHANGED chatVars
      PROVE  ChatFieldTypes'
  BY <1>17, ChatAssumption DEF chatVars
<1> QED
  BY <1>1, <1>2, <1>3, <1>4, <1>5, <1>6, <1>7, <1>8, <1>9, <1>10, <1>11, <1>12, <1>13, <1>14, <1>15, <1>16, <1>17 DEF ChatNext, Generate

\* The end of a turn takes its keys out of inflight, and no other turn's.
LEMMA EndKeepsClaims ==
  ASSUME ChatFieldTypes, ClaimInv, NEW t \in Requests, End(t)
  PROVE  ClaimInv'
<1> USE DEF ChatFieldTypes, ClaimInv, Working, Stages, End, Release, Goto
<1>1. claims' = [u \in Requests |-> IF Working(u)' THEN Keys(u) ELSE {}]
  OBVIOUS
<1>2. \A u \in Requests : claims'[u] = IF u = t THEN {} ELSE claims[u]
  OBVIOUS
<1>3. \A u \in Requests : claims'[u] \subseteq inflight'
  BY <1>2
<1>4. \A u, v \in Requests : u # v => claims'[u] \cap claims'[v] = {}
  BY <1>2
<1> QED
  BY <1>1, <1>3, <1>4

\* A turn that works on keeps its keys.
LEMMA WorkKeepsClaims ==
  ASSUME ChatFieldTypes, ClaimInv, NEW t \in Requests, Working(t),
         NEW goal \in Stages \ {"none", "created", "looked", "ended"},
         Goto(t, goal), UNCHANGED <<inflight, claims>>
  PROVE  ClaimInv'
BY DEF ChatFieldTypes, ClaimInv, Working, Stages, Goto

LEMMA NextClaimInv ==
  ASSUME ChatFieldTypes, ClaimInv, [ChatNext]_chatVars
  PROVE  ClaimInv'
<1> USE DEF ChatFieldTypes, ClaimInv, Working, Stages, taskVars, claimVars, rowVars, routerVars
<1>1. ASSUME NEW t \in Requests, ReceiveRequest(t)
      PROVE  ClaimInv'
  BY <1>1 DEF ReceiveRequest, SeenOn, Goto, Tell
<1>2. ASSUME NEW t \in Requests, ChatCancel(t)
      PROVE  ClaimInv'
  BY <1>2 DEF ChatCancel, Upset, Live
<1>3. ASSUME NEW t \in Requests, LookUp(t)
      PROVE  ClaimInv'
  BY <1>3 DEF LookUp, At, Goto
<1>4. ASSUME NEW t \in Requests, Claim(t)
      PROVE  ClaimInv'
  <2>1. CASE End(t)
    BY <2>1, EndKeepsClaims
  <2>2. CASE /\ Keys(t) \cap inflight = {}
             /\ inflight' = inflight \cup Keys(t)
             /\ claims' = [claims EXCEPT ![t] = Keys(t)]
             /\ Goto(t, "claimed")
    <3>1. \A u \in Requests : claims'[u] = IF u = t THEN Keys(t) ELSE claims[u]
      BY <2>2
    <3>2. claims' = [u \in Requests |-> IF Working(u)' THEN Keys(u) ELSE {}]
      BY <2>2 DEF Goto
    <3>3. \A u \in Requests : claims'[u] \subseteq inflight'
      BY <2>2, <3>1
    <3>4. \A u, v \in Requests : u # v => claims'[u] \cap claims'[v] = {}
      BY <2>2, <3>1
    <3> QED
      BY <3>2, <3>3, <3>4
  <2> QED
    BY <1>4, <2>1, <2>2 DEF Claim, Refuse
<1>5. ASSUME NEW t \in Requests, AllocateTurn(t)
      PROVE  ClaimInv'
  <2>1. CASE End(t)
    BY <2>1, EndKeepsClaims
  <2>2. CASE Goto(t, "accepted") /\ UNCHANGED <<inflight, claims>>
    BY <1>5, <2>2, WorkKeepsClaims DEF AllocateTurn, At
  <2> QED
    BY <1>5, <2>1, <2>2 DEF AllocateTurn, Refuse
<1>6. ASSUME NEW t \in Requests, RunTools(t)
      PROVE  ClaimInv'
  BY <1>6 DEF RunTools, At, Goto
<1>7. ASSUME NEW t \in Requests, NEW retryable \in BOOLEAN, ProviderFails(t, retryable)
      PROVE  ClaimInv'
  BY <1>7 DEF ProviderFails, CanFallback, At, Goto
<1>8. ASSUME NEW t \in Requests, Final(t)
      PROVE  ClaimInv'
  BY <1>8 DEF Final, At, Goto
<1>9. ASSUME NEW t \in Requests, Commit(t)
      PROVE  ClaimInv'
  BY <1>9 DEF Commit, At, Settle, Upset, Goto
<1>10. ASSUME NEW t \in Requests, Deliver(t)
      PROVE  ClaimInv'
  BY <1>10, EndKeepsClaims DEF Deliver
<1>11. ASSUME NEW t \in Requests, NEW goal \in {"interrupting", "failing"},
             NEW event \in {"cancelled", "failed"}, StoreInterrupted(t, goal, event)
      PROVE  ClaimInv'
  BY <1>11, EndKeepsClaims DEF StoreInterrupted
<1>12. ASSUME NEW t \in Requests, Cancelled(t)
      PROVE  ClaimInv'
  <2>1. CASE End(t)
    BY <2>1, EndKeepsClaims
  <2>2. CASE /\ turn[t] \in {"accepted", "streaming", "committing"}
             /\ Goto(t, "interrupting")
             /\ UNCHANGED <<inflight, claims>>
    BY <2>2, WorkKeepsClaims
  <2> QED
    BY <1>12, <2>1, <2>2 DEF Cancelled
<1>13. ASSUME NEW t \in Requests, Delta(t)
      PROVE  ClaimInv'
  BY <1>13 DEF Delta, At, Tell
<1>14. ASSUME NEW t \in Requests, StoreFails(t)
      PROVE  ClaimInv'
  BY <1>14, EndKeepsClaims DEF StoreFails
<1>15. ASSUME NEW s \in Sockets, CloseSocket(s)
      PROVE  ClaimInv'
  BY <1>15 DEF CloseSocket, Upset, Live
<1>16. ASSUME Restart
      PROVE  ClaimInv'
  BY <1>16 DEF Restart, Upset, Recover
<1>17. ASSUME UNCHANGED chatVars
      PROVE  ClaimInv'
  BY <1>17 DEF chatVars
<1> QED
  BY <1>1, <1>2, <1>3, <1>4, <1>5, <1>6, <1>7, <1>8, <1>9, <1>10, <1>11, <1>12, <1>13, <1>14, <1>15, <1>16, <1>17 DEF ChatNext, Generate

LEMMA NextStageInv ==
  ASSUME ChatFieldTypes, StageInv, [ChatNext]_chatVars
  PROVE  StageInv'
<1> USE DEF ChatFieldTypes, StageInv, RowOK, ToldOK, TextOK, taskVars, claimVars, rowVars, routerVars
<1>1. ASSUME NEW t \in Requests, ReceiveRequest(t)
      PROVE  StageInv'
  BY <1>1, ChatAssumption DEF ReceiveRequest, SeenOn, Goto, Tell
<1>2. ASSUME NEW t \in Requests, ChatCancel(t)
      PROVE  StageInv'
  BY <1>2, ChatAssumption DEF ChatCancel, Upset, Live
<1>3. ASSUME NEW t \in Requests, LookUp(t)
      PROVE  StageInv'
  BY <1>3, ChatAssumption DEF LookUp, At, Goto
<1>4. ASSUME NEW t \in Requests, Claim(t)
      PROVE  StageInv'
  BY <1>4, ChatAssumption DEF Claim, At, Refuse, End, Release, Goto, Tell
<1>5. ASSUME NEW t \in Requests, AllocateTurn(t)
      PROVE  StageInv'
  BY <1>5, ChatAssumption DEF AllocateTurn, At, InsertRows, Refuse, End, Release, Goto, Tell
<1>6. ASSUME NEW t \in Requests, RunTools(t)
      PROVE  StageInv'
  BY <1>6, ChatAssumption DEF RunTools, At, Goto
<1>7. ASSUME NEW t \in Requests, NEW retryable \in BOOLEAN, ProviderFails(t, retryable)
      PROVE  StageInv'
  BY <1>7, ChatAssumption DEF ProviderFails, CanFallback, At, Goto
<1>8. ASSUME NEW t \in Requests, Final(t)
      PROVE  StageInv'
  BY <1>8, ChatAssumption DEF Final, At, Goto
<1>9. ASSUME NEW t \in Requests, Commit(t)
      PROVE  StageInv'
  BY <1>9, ChatAssumption DEF Commit, At, Settle, Upset, Goto
<1>10. ASSUME NEW t \in Requests, Deliver(t)
      PROVE  StageInv'
  BY <1>10, ChatAssumption DEF Deliver, At, End, Release, Goto, Tell
<1>11. ASSUME NEW t \in Requests, NEW goal \in {"interrupting", "failing"},
             NEW event \in {"cancelled", "failed"}, StoreInterrupted(t, goal, event)
      PROVE  StageInv'
  BY <1>11, ChatAssumption DEF StoreInterrupted, At, Settle, End, Release, Goto, Tell
<1>12. ASSUME NEW t \in Requests, Cancelled(t)
      PROVE  StageInv'
  BY <1>12, ChatAssumption DEF Cancelled, InsertRows, Settle, End, Release, Goto, Tell
<1>13. ASSUME NEW t \in Requests, Delta(t)
      PROVE  StageInv'
  BY <1>13, ChatAssumption DEF Delta, At, Tell
<1>14. ASSUME NEW t \in Requests, StoreFails(t)
      PROVE  StageInv'
  BY <1>14, ChatAssumption DEF StoreFails, Upset, End, Release, Goto
<1>15. ASSUME NEW s \in Sockets, CloseSocket(s)
      PROVE  StageInv'
  BY <1>15, ChatAssumption DEF CloseSocket, Upset, Live
<1>16. ASSUME Restart
      PROVE  StageInv'
  <2>1. ASSUME NEW t \in Requests
        PROVE  RowOK(t)' /\ ToldOK(t)' /\ TextOK(t)'
    <3>1. /\ turn'[t] = IF turn[t] = "none" THEN "none" ELSE "ended"
          /\ reply'[t] = IF reply[t] = "generating" THEN "interrupted" ELSE reply[t]
      BY <1>16, Zenon DEF Restart, Recover
    <3>2. /\ UNCHANGED <<verdict, rows, routerVars, told>>
          /\ inflight' = {} /\ torn' = {} /\ cancelling' = {}
      BY <1>16, Zenon DEF Restart
    <3>3. RowOK(t)'
      BY <3>1, <3>2
    <3>4. ToldOK(t)'
      BY <3>1, <3>2
    <3>5. TextOK(t)'
      BY <3>1, <3>2
    <3> QED
      BY <3>3, <3>4, <3>5
  <2> QED
    BY <2>1
<1>17. ASSUME UNCHANGED chatVars
      PROVE  StageInv'
  BY <1>17, ChatAssumption DEF chatVars
<1> HIDE DEF StageInv, RowOK, ToldOK, TextOK, taskVars, claimVars, rowVars, routerVars
<1> QED
  BY <1>1, <1>2, <1>3, <1>4, <1>5, <1>6, <1>7, <1>8, <1>9, <1>10, <1>11, <1>12, <1>13, <1>14, <1>15, <1>16, <1>17 DEF ChatNext, Generate

\* A message that may be retried may be retried as long as the rows are there
\* and an interrupted one stays interrupted.
LEMMA MayRetryIsStable ==
  ASSUME NEW t \in Requests, MayRetry(t), rows \subseteq rows',
         \A u \in rows : reply[u] = "interrupted" => reply'[u] = "interrupted"
  PROVE  MayRetry(t)'
BY DEF MayRetry

\* The rows of a turn that was found new are inserted once and are no second
\* message of one id.
LEMMA InsertKeepsRetries ==
  ASSUME ChatFieldTypes, StageInv, RetryInv,
         NEW t \in Requests, turn[t] = "claimed", InsertRows(t),
         NEW goal \in {"accepted", "ended"}, Goto(t, goal), UNCHANGED verdict
  PROVE  RetryInv'
<1> USE DEF ChatFieldTypes, InsertRows, Goto
<1>1. t \notin rows
  BY DEF StageInv, RowOK
<1>2. \A u \in rows : reply'[u] = reply[u]
  BY <1>1
<1>3. \A u \in Requests : MayRetry(u) => MayRetry(u)'
  BY <1>2, MayRetryIsStable
<1>4. \A u \in rows : ~SameMessage(t, u) /\ ~SameMessage(u, t)
  BY DEF Stored, SameMessage
<1>5. \A u, v \in rows' : u # v => ~SameMessage(u, v)
  BY <1>4 DEF RetryInv
<1> QED
  BY <1>3, <1>5 DEF RetryInv

LEMMA NextRetryInv ==
  ASSUME ChatFieldTypes, StageInv, RetryInv, [ChatNext]_chatVars
  PROVE  RetryInv'
<1> USE DEF ChatFieldTypes, StageInv, RowOK, RetryInv, MayRetry, taskVars, claimVars, rowVars, routerVars
<1>1. ASSUME NEW t \in Requests, ReceiveRequest(t)
      PROVE  RetryInv'
  BY <1>1 DEF ReceiveRequest, SeenOn, Goto, Tell
<1>2. ASSUME NEW t \in Requests, ChatCancel(t)
      PROVE  RetryInv'
  BY <1>2 DEF ChatCancel, Upset, Live
<1>3. ASSUME NEW t \in Requests, LookUp(t)
      PROVE  RetryInv'
  BY <1>3 DEF LookUp, At, Goto
<1>4. ASSUME NEW t \in Requests, Claim(t)
      PROVE  RetryInv'
  BY <1>4 DEF Claim, At, Refuse, End, Release, Goto, Tell
<1>5. ASSUME NEW t \in Requests, AllocateTurn(t)
      PROVE  RetryInv'
  <2>1. CASE InsertRows(t) /\ Goto(t, "accepted")
    BY <1>5, <2>1, InsertKeepsRetries DEF AllocateTurn, At
  <2>2. CASE Goto(t, "ended") /\ UNCHANGED rowVars
    BY <1>5, <2>2 DEF AllocateTurn, Goto
  <2> QED
    BY <1>5, <2>1, <2>2 DEF AllocateTurn, Refuse, End
<1>6. ASSUME NEW t \in Requests, RunTools(t)
      PROVE  RetryInv'
  BY <1>6 DEF RunTools, At, Goto
<1>7. ASSUME NEW t \in Requests, NEW retryable \in BOOLEAN, ProviderFails(t, retryable)
      PROVE  RetryInv'
  BY <1>7 DEF ProviderFails, CanFallback, At, Goto
<1>8. ASSUME NEW t \in Requests, Final(t)
      PROVE  RetryInv'
  BY <1>8 DEF Final, At, Goto
<1>9. ASSUME NEW t \in Requests, Commit(t)
      PROVE  RetryInv'
  BY <1>9 DEF Commit, At, Settle, Upset, Goto
<1>10. ASSUME NEW t \in Requests, Deliver(t)
      PROVE  RetryInv'
  BY <1>10 DEF Deliver, At, End, Release, Goto, Tell
<1>11. ASSUME NEW t \in Requests, NEW goal \in {"interrupting", "failing"},
             NEW event \in {"cancelled", "failed"}, StoreInterrupted(t, goal, event)
      PROVE  RetryInv'
  BY <1>11 DEF StoreInterrupted, At, Settle, End, Release, Goto, Tell
<1>12. ASSUME NEW t \in Requests, Cancelled(t)
      PROVE  RetryInv'
  <2>1. CASE turn[t] = "claimed" /\ InsertRows(t) /\ End(t)
    BY <1>12, <2>1, InsertKeepsRetries DEF Cancelled, End
  <2>2. CASE UNCHANGED rows
    BY <1>12, <2>2 DEF Cancelled, InsertRows, Settle, End, Goto
  <2> QED
    BY <1>12, <2>1, <2>2 DEF Cancelled
<1>13. ASSUME NEW t \in Requests, Delta(t)
      PROVE  RetryInv'
  BY <1>13 DEF Delta, At, Tell
<1>14. ASSUME NEW t \in Requests, StoreFails(t)
      PROVE  RetryInv'
  BY <1>14 DEF StoreFails, Upset, End, Release, Goto
<1>15. ASSUME NEW s \in Sockets, CloseSocket(s)
      PROVE  RetryInv'
  BY <1>15 DEF CloseSocket, Upset, Live
<1>16. ASSUME Restart
      PROVE  RetryInv'
  BY <1>16 DEF Restart, Upset, Recover
<1>17. ASSUME UNCHANGED chatVars
      PROVE  RetryInv'
  BY <1>17 DEF chatVars
<1> HIDE DEF StageInv, RowOK, RetryInv, MayRetry, taskVars, claimVars, rowVars, routerVars
<1> QED
  BY <1>1, <1>2, <1>3, <1>4, <1>5, <1>6, <1>7, <1>8, <1>9, <1>10, <1>11, <1>12, <1>13, <1>14, <1>15, <1>16, <1>17 DEF ChatNext, Generate

-----------------------------------------------------------------------------
(* Theorems.                                                               *)

LEMMA InitChatInv == ChatInit => ChatInv
BY InitChatFieldTypes
   DEF ChatInit, ChatInv, ClaimInv, Working, StageInv, RowOK, ToldOK, TextOK, RetryInv

\* The stages of every turn, its claims, its rows and its events fit together,
\* whatever is cancelled, closed, failing or restarted.
THEOREM ChatInvariant == ChatSpec => []ChatInv
<1>1. ChatInv /\ [ChatNext]_chatVars => ChatInv'
  BY NextChatFieldTypes, NextClaimInv, NextStageInv, NextRetryInv DEF ChatInv
<1> QED
  BY <1>1, InitChatInv, PTL DEF ChatSpec

\* The variables of the chat turns have their types.
THEOREM ChatTypes == ChatSpec => []ChatTypeOK
<1>1. ChatInv => ChatTypeOK
  BY DEF ChatInv, ChatFieldTypes, ClaimInv, ChatTypeOK
<1> QED
  BY <1>1, ChatInvariant, PTL

\* app.py:1295-1312: however the claims, the allocations and the ends of turns
\* interleave, two turns at work have no request, message, retry or
\* conversation in common.
THEOREM ChatConversationHasOneTurn == ChatSpec => []ConversationHasOneTurn
<1>1. ChatInv => ConversationHasOneTurn
  BY DEF ChatInv, ClaimInv, ConversationHasOneTurn
<1> QED
  BY <1>1, ChatInvariant, PTL

\* app.py:1675-1760: the client is told that a turn completed only when its
\* row is completed, and that it failed or was cancelled only when it is not.
THEOREM ChatEventsAgreeWithRows == ChatSpec => []EventsAgreeWithRows
<1>1. ChatInv => EventsAgreeWithRows
  BY DEF ChatInv, StageInv, ToldOK, EventsAgreeWithRows
<1> QED
  BY <1>1, ChatInvariant, PTL

\* docs/PROTOCOL_EVENTS.md:115-118: a turn that ended leaves no row generating,
\* unless it was cut off inside one of its own transactions.
THEOREM ChatSettledUnlessTorn == ChatSpec => []SettledUnlessTorn
<1>1. ChatInv => SettledUnlessTorn
  BY DEF ChatInv, StageInv, RowOK, SettledUnlessTorn
<1> QED
  BY <1>1, ChatInvariant, PTL

\* docs/DATABASE_MIGRATIONS.md:63-66: a message that was retried was
\* interrupted and stays so, although the database is read before the claim
\* and the rows are inserted long after it.
THEOREM ChatRetryMeansInterrupted == ChatSpec => []RetryMeansInterrupted
<1>1. ASSUME ChatInv, NEW t \in rows, NEW u \in rows,
             Asked[t].retryOf = Asked[u].message
      PROVE  reply[u] = "interrupted"
  <2>1. Asked[t].retryOf # NoMessage
    BY <1>1, ChatAssumption DEF ChatInv, ChatFieldTypes
  <2>2. PICK v \in rows : Asked[v].message = Asked[t].retryOf /\ reply[v] = "interrupted"
    BY <1>1, <2>1 DEF ChatInv, RetryInv, MayRetry
  <2>3. v = u
    BY <1>1, <2>2 DEF ChatInv, RetryInv, SameMessage
  <2> QED
    BY <2>2, <2>3
<1>2. ChatInv => RetryMeansInterrupted
  BY <1>1 DEF RetryMeansInterrupted
<1> QED
  BY <1>2, ChatInvariant, PTL

\* docs/architecture/model-runtime.md:36: the fallback takes over only from a
\* provider that has sent nothing, so no answer holds the text of two.
THEOREM ChatNoSplicedAnswer == ChatSpec => []NoSplicedAnswer
<1>1. ASSUME ChatInv, NEW t \in Requests
      PROVE  Cardinality(texts[t]) <= 1
  <2>1. texts[t] = {} \/ texts[t] = {provider[t]}
    BY <1>1 DEF ChatInv, StageInv, TextOK
  <2>2. Cardinality({}) = 0
    BY FS_EmptySet
  <2>3. Cardinality({provider[t]}) = 1
    BY FS_Singleton
  <2> QED
    BY <2>1, <2>2, <2>3
<1>2. ChatInv => NoSplicedAnswer
  BY <1>1 DEF NoSplicedAnswer
<1> QED
  BY <1>2, ChatInvariant, PTL

-----------------------------------------------------------------------------
(* Persona.                                                                *)

\* What the client was told is in the document, or in its backup; while a save
\* is at work the backups are the texts it found.
KeptInv ==
  /\ edit = NoEdit => \A d \in DocumentNames :
       reported[d] \in {document[d], Missing} \cup spare[d]
  /\ edit # NoEdit => \A d \in DocumentNames :
       /\ reported[d] \in {before[d], Missing} \cup spare[d]
       /\ d \notin replaced => document[d] = before[d]
  /\ edit # NoEdit => replaced \subseteq DOMAIN edit

PersonaInv == PersonaTypeOK /\ KeptInv

\* A save that has something to write is not the absence of one.
LEMMA EditsAreSomething ==
  ASSUME NEW S, S # {}, NEW e \in [S -> Texts]
  PROVE  e # NoEdit
<1>1. DOMAIN e = S /\ DOMAIN NoEdit = {}
  BY DEF NoEdit
<1> QED
  BY <1>1

LEMMA BackupKeeps ==
  ASSUME PersonaTypeOK, NEW S
  PROVE  /\ Backup(S) \in [DocumentNames -> SUBSET Texts]
         /\ \A d \in DocumentNames :
              /\ spare[d] \subseteq Backup(S)[d]
              /\ d \in S => before[d] \in Backup(S)[d] \cup {Missing}
BY DEF Backup, PersonaTypeOK

LEMMA InitPersonaInv == PersonaInit => PersonaInv
<1>1. (CHOOSE x \in Texts : TRUE) \in Texts
  BY PersonaAssumption
<1> QED
  BY <1>1, PersonaAssumption DEF PersonaInit, PersonaInv, PersonaTypeOK, KeptInv

LEMMA NextPersonaInv ==
  ASSUME PersonaInv, [PersonaNext]_personaVars
  PROVE  PersonaInv'
<1> USE PersonaAssumption DEF PersonaInv, PersonaTypeOK, KeptInv
<1>1. CASE BeginEdit
  <2>1. PICK S \in (SUBSET DocumentNames) \ {{}} : edit' \in [S -> Texts]
    BY <1>1 DEF BeginEdit
  <2>2. edit' # NoEdit
    BY <2>1, EditsAreSomething
  <2> QED
    BY <1>1, <2>1, <2>2 DEF BeginEdit
<1>2. CASE ReplaceDocument
  <2>1. PICK d \in DOMAIN edit \ replaced :
          /\ document' = [document EXCEPT ![d] = edit[d]]
          /\ replaced' = replaced \cup {d}
    BY <1>2 DEF ReplaceDocument
  <2>2. PICK S \in SUBSET DocumentNames : edit \in [S -> Texts]
    BY <1>2 DEF ReplaceDocument
  <2>3. UNCHANGED <<edit, before, spare, reported, accidents, edits>> /\ edit # NoEdit
    BY <1>2 DEF ReplaceDocument
  <2> QED
    BY <2>1, <2>2, <2>3
<1>3. CASE EditDone
  BY <1>3 DEF EditDone
<1>4. CASE EditFails
  <2>1. PICK stuck \in SUBSET replaced :
          /\ document' = [d \in DocumentNames |->
                           IF d \in replaced \ stuck THEN before[d] ELSE document[d]]
          /\ spare' = Backup(stuck)
    BY <1>4 DEF EditFails
  <2>2. /\ edit # NoEdit /\ edit' = NoEdit
        /\ UNCHANGED <<replaced, before, reported, edits>>
        /\ accidents' \in 0 .. MaxAccidents
    BY <1>4 DEF EditFails
  <2>3. \A d \in DocumentNames :
          /\ spare[d] \subseteq spare'[d]
          /\ d \in stuck => before[d] \in spare'[d] \cup {Missing}
    BY <2>1, BackupKeeps
  <2>4. spare' \in [DocumentNames -> SUBSET Texts]
    BY <2>1, BackupKeeps
  <2>5. \A d \in DocumentNames : d \notin stuck => document'[d] = before[d]
    BY <2>1, <2>2
  <2> QED
    BY <2>1, <2>2, <2>3, <2>4, <2>5
<1>5. CASE CoreDiesInEdit
  <2>1. /\ edit # NoEdit /\ edit' = NoEdit /\ spare' = Backup(DOMAIN edit)
        /\ UNCHANGED <<document, replaced, before, reported, edits>>
        /\ accidents' \in 0 .. MaxAccidents
    BY <1>5 DEF CoreDiesInEdit
  <2>2. \A d \in DocumentNames :
          /\ spare[d] \subseteq spare'[d]
          /\ d \in DOMAIN edit => before[d] \in spare'[d] \cup {Missing}
    BY <2>1, BackupKeeps
  <2>3. spare' \in [DocumentNames -> SUBSET Texts]
    BY <2>1, BackupKeeps
  <2> QED
    BY <2>1, <2>2, <2>3
<1>6. CASE BuildPrompt
  BY <1>6 DEF BuildPrompt, saveVars
<1>7. CASE UNCHANGED personaVars
  BY <1>7 DEF personaVars
<1> QED
  BY <1>1, <1>2, <1>3, <1>4, <1>5, <1>6, <1>7 DEF PersonaNext

LEMMA PersonaInvariant == PersonaSpec => []PersonaInv
<1> QED
  BY InitPersonaInv, NextPersonaInv, PTL DEF PersonaSpec

\* The variables of the persona have their types.
THEOREM PersonaTypes == PersonaSpec => []PersonaTypeOK
<1> QED
  BY PersonaInvariant, PTL DEF PersonaInv

\* persona.py:494-538: wherever a save fails, cannot be undone or is cut off, what
\* the client was last told is in the document or in a backup that is kept.
THEOREM PersonaFailedSaveLosesNothing == PersonaSpec => []FailedSaveLosesNothing
<1>1. PersonaInv => FailedSaveLosesNothing
  BY DEF PersonaInv, KeptInv, FailedSaveLosesNothing
<1> QED
  BY <1>1, PersonaInvariant, PTL

-----------------------------------------------------------------------------
(* Persona: the prompt.  The sum and the loop of the model are recursive   *)
(* functions; what they compute is proved by induction.                    *)

HistoryMessage == [role : STRING, size : Nat]

\* Only the running totals of a history solve the recursion of Size.
LEMMA Totals ==
  ASSUME NEW n \in Nat, NEW sizes \in [1 .. n -> Nat]
  PROVE  \E total \in [0 .. n -> Nat] :
           total[0] = 0 /\ \A i \in 1 .. n : total[i] = total[i - 1] + sizes[i]
<1> DEFINE step == [i \in 1 .. n |-> [x \in Nat |-> x + sizes[i]]]
           X == Nat
<1>1. step \in Loops(n, X)
  BY DEF Loops
<1>2. \A i \in 1 .. n : \A x \in Nat : step[i][x] = x + sizes[i]
  OBVIOUS
<1> HIDE DEF step
<1>3. \A x0 \in X : \E f \in [0 .. n -> X] : Follows(f, n, x0, step)
  <2> HIDE DEF X
  <2> QED
    BY <1>1, FoldExists
<1>4. PICK f \in [0 .. n -> Nat] : f[0] = 0 /\ \A i \in 1 .. n : f[i] = step[i][f[i - 1]]
  BY <1>3 DEF Follows
<1>5. ASSUME NEW i \in 1 .. n PROVE f[i] = f[i - 1] + sizes[i]
  <2>1. f[i - 1] \in Nat
    OBVIOUS
  <2>2. step[i][f[i - 1]] = f[i - 1] + sizes[i]
    BY <1>2, <2>1
  <2> QED
    BY <1>4, <2>2
<1> QED
  BY <1>4, <1>5

LEMMA SizeIsTotal ==
  ASSUME NEW s \in Seq(HistoryMessage), NEW total \in [0 .. Len(s) -> Int],
         total[0] = 0, \A i \in 1 .. Len(s) : total[i] = total[i - 1] + s[i].size
  PROVE  Size(s) = total[Len(s)]
<1> DEFINE n == Len(s)
           upTo[i \in 0 .. n] == IF i = 0 THEN 0 ELSE upTo[i - 1] + s[i].size
<1>1. n \in Nat
  OBVIOUS
<1>2. total = [i \in 0 .. n |-> IF i = 0 THEN 0 ELSE total[i - 1] + s[i].size]
  <2>1. total = [i \in 0 .. n |-> total[i]]
    OBVIOUS
  <2>2. \A i \in 0 .. n : total[i] = IF i = 0 THEN 0 ELSE total[i - 1] + s[i].size
    OBVIOUS
  <2> HIDE DEF n
  <2> QED
    BY <2>1, <2>2
<1>3. upTo = [i \in 0 .. n |-> IF i = 0 THEN 0 ELSE upTo[i - 1] + s[i].size]
  <2> HIDE DEF n
  <2> QED
    BY <1>2
<1> HIDE DEF upTo
<1> DEFINE S == {i \in 0 .. n : upTo[i] = total[i]}
<1>4. 0 \in S
  BY <1>3
<1>5. \A i \in 0 .. n : i # n /\ i \in S => i + 1 \in S
  <2> SUFFICES ASSUME NEW i \in 0 .. n, i # n, i \in S PROVE i + 1 \in S
    OBVIOUS
  <2>1. i + 1 \in 1 .. n /\ i + 1 # 0 /\ (i + 1) - 1 = i
    BY <1>1
  <2>2. upTo[i + 1] = upTo[i] + s[i + 1].size
    BY <1>3, <2>1
  <2>3. total[i + 1] = total[i] + s[i + 1].size
    BY <2>1
  <2> QED
    BY <2>1, <2>2, <2>3
<1>6. n \in S
  <2> HIDE DEF S, n
  <2>1. 0 .. n \subseteq S
    BY <1>1, <1>4, <1>5, Induction
  <2> QED
    BY <1>1, <2>1
<1>7. Size(s) = upTo[n]
  BY DEF Size, upTo
<1> QED
  BY <1>6, <1>7

LEMMA SizeOfNothing == Size(<< >>) = 0
<1> DEFINE total == [i \in 0 .. 0 |-> 0]
<1>0. << >> \in Seq(HistoryMessage) /\ Len(<< >>) = 0
  OBVIOUS
<1>1. PICK s \in Seq(HistoryMessage) : s = << >> /\ Len(s) = 0
  BY <1>0, Zenon
<1>2. total \in [0 .. Len(s) -> Int] /\ total[0] = 0
      /\ \A i \in 1 .. Len(s) : total[i] = total[i - 1] + s[i].size
  BY <1>1
<1> HIDE DEF total
<1>3. Size(s) = total[Len(s)]
  BY <1>2, SizeIsTotal
<1> QED
  BY <1>1, <1>2, <1>3

\* The running totals of a history.
IsTotal(h, total) ==
  /\ total \in [0 .. Len(h) -> Nat] /\ total[0] = 0
  /\ \A i \in 1 .. Len(h) : total[i] = total[i - 1] + h[i].size

\* What a stretch of a history weighs, by its running totals.
LEMMA SizeOfStretch ==
  ASSUME NEW h \in Seq(HistoryMessage), NEW total, IsTotal(h, total),
         NEW a \in 0 .. Len(h), NEW b \in a .. Len(h)
  PROVE  Size(SubSeq(h, a + 1, b)) = total[b] - total[a]
<1> USE DEF IsTotal
<1> DEFINE s == SubSeq(h, a + 1, b)
           part == [i \in 0 .. b - a |-> total[a + i] - total[a]]
<1>0. a \in Nat /\ b \in Nat /\ b - a \in Nat /\ b <= Len(h)
  OBVIOUS
<1>1. s \in Seq(HistoryMessage) /\ Len(s) = b - a /\ \A i \in 1 .. b - a : s[i] = h[a + i]
  <2>1. \A i \in a + 1 .. b : h[i] \in HistoryMessage
    BY <1>0
  <2>2. Len(s) = b - a
    BY <1>0
  <2>3. \A i \in 1 .. b - a : s[i] = h[a + i]
    BY <1>0
  <2>4. s \in Seq(HistoryMessage)
    BY <1>0, <2>1
  <2> QED
    BY <2>2, <2>3, <2>4
<1>2. part \in [0 .. b - a -> Int]
  <2>1. ASSUME NEW i \in 0 .. b - a
        PROVE  total[a + i] - total[a] \in Int
    <3>1. a + i \in 0 .. Len(h)
      BY <1>0
    <3>2. total[a + i] \in Nat /\ total[a] \in Nat
      BY <3>1
    <3> QED
      BY <3>2
  <2> QED
    BY <2>1
<1>3. part[0] = 0
  BY <1>0
<1>4. \A i \in 1 .. b - a : part[i] = part[i - 1] + s[i].size
  <2> SUFFICES ASSUME NEW i \in 1 .. b - a PROVE part[i] = part[i - 1] + s[i].size
    OBVIOUS
  <2>1. a + i \in 1 .. Len(h) /\ (a + i) - 1 = a + (i - 1) /\ a + (i - 1) \in 0 .. Len(h)
    BY <1>0
  <2>2. total[a + i] = total[a + (i - 1)] + h[a + i].size
    BY <2>1
  <2>3. h[a + i].size \in Nat
    <3>1. h[a + i] \in HistoryMessage
      BY <2>1
    <3> QED
      BY <3>1 DEF HistoryMessage
  <2>4. total[a + i] \in Nat /\ total[a + (i - 1)] \in Nat /\ total[a] \in Nat
    <3>1. a + i \in 0 .. Len(h)
      BY <2>1
    <3> QED
      BY <1>0, <2>1, <3>1
  <2>5. part[i] = total[a + i] - total[a] /\ part[i - 1] = total[a + (i - 1)] - total[a]
    <3> HIDE DEF part, IsTotal
    <3>1. i \in 0 .. b - a /\ i - 1 \in 0 .. b - a
      BY <1>0
    <3> QED
      BY <3>1, Zenon DEF part
  <2>6. s[i] = h[a + i]
    BY <1>1, Zenon
  <2> HIDE DEF s, part, IsTotal
  <2> QED
    BY <2>2, <2>3, <2>4, <2>5, <2>6
<1> HIDE DEF s, part
<1>5. Size(s) = part[b - a]
  BY <1>1, <1>2, <1>3, <1>4, SizeIsTotal
<1>6. part[b - a] = total[b] - total[a]
  <2>1. b - a \in 0 .. b - a /\ a + (b - a) = b
    BY <1>0
  <2> QED
    BY <2>1, Zenon DEF part
<1> QED
  BY <1>5, <1>6, Zenon DEF s

HistoryTurn(h, n) == SubSeq(h, Len(h) - 2 * n - 1, Len(h) - 2 * n)

\* Where the loop over the turns ends.
Stops(h, room, n) ==
  \/ Len(h) - 2 * n < 2
  \/ HistoryTurn(h, n)[1].role # "user" \/ HistoryTurn(h, n)[2].role # "assistant"
  \/ Size(LastOf(h, 2 * n)) + Size(HistoryTurn(h, n)) > room

\* The loop takes turns up to the first that ends it.
LEMMA TakenTurns ==
  ASSUME NEW h \in Seq(HistoryMessage), NEW room
  PROVE  \E t \in 0 .. Len(h) :
           /\ FitHistory(h, room) = LastOf(h, 2 * t)
           /\ Stops(h, room, t) /\ \A k \in 0 .. t - 1 : ~Stops(h, room, k)
<1> DEFINE l == Len(h)
           stop(n) == Stops(h, room, n)
           taken[n \in 0 .. l] == IF stop(n) THEN n ELSE taken[n + 1]
<1>1. l \in Nat
  OBVIOUS
<1>2. stop(l)
  BY DEF Stops
<1> HIDE DEF l, stop
<1>3. PICK g \in [0 .. l -> 0 .. l] :
        g[0] = l /\ \A i \in 1 .. l : g[i] = IF stop(l - i) THEN l - i ELSE g[i - 1]
  <2> DEFINE X == 0 .. l
             step == [i \in 1 .. l |-> [x \in X |-> IF stop(l - i) THEN l - i ELSE x]]
  <2>1. step \in Loops(l, X)
    BY <1>1 DEF Loops
  <2>2. \A i \in 1 .. l : \A x \in X : step[i][x] = IF stop(l - i) THEN l - i ELSE x
    OBVIOUS
  <2>3. l \in X
    BY <1>1
  <2> HIDE DEF step
  <2>4. \A x0 \in X : \E f \in [0 .. l -> X] : Follows(f, l, x0, step)
    <3> HIDE DEF X
    <3> QED
      BY <1>1, <2>1, FoldExists
  <2>5. PICK f \in [0 .. l -> X] : f[0] = l /\ \A i \in 1 .. l : f[i] = step[i][f[i - 1]]
    BY <2>3, <2>4 DEF Follows
  <2>6. \A i \in 1 .. l : f[i - 1] \in X
    BY <1>1
  <2>7. \A i \in 1 .. l : f[i] = IF stop(l - i) THEN l - i ELSE f[i - 1]
    <3> HIDE DEF X
    <3> QED
      BY <2>2, <2>5, <2>6
  <2> QED
    BY <2>5, <2>7
<1>4. \E f : f = [n \in 0 .. l |-> IF stop(n) THEN n ELSE f[n + 1]]
  <2> DEFINE f == [n \in 0 .. l |-> g[l - n]]
  <2>1. ASSUME NEW n \in 0 .. l
        PROVE  f[n] = IF stop(n) THEN n ELSE f[n + 1]
    <3>1. CASE n = l
      BY <1>1, <1>2, <1>3, <3>1
    <3>2. CASE n # l
      <4>1. l - n \in 1 .. l /\ l - (l - n) = n /\ n + 1 \in 0 .. l /\ l - (n + 1) = (l - n) - 1
        BY <1>1, <3>2
      <4>2. g[l - n] = IF stop(n) THEN n ELSE g[(l - n) - 1]
        BY <1>3, <4>1
      <4>3. f[n + 1] = g[l - (n + 1)]
        BY <4>1
      <4> QED
        BY <4>1, <4>2, <4>3
    <3> QED
      BY <3>1, <3>2
  <2>2. f = [n \in 0 .. l |-> f[n]]
    OBVIOUS
  <2> HIDE DEF f
  <2>3. f = [n \in 0 .. l |-> IF stop(n) THEN n ELSE f[n + 1]]
    BY <2>1, <2>2
  <2> QED
    BY <2>3
<1>5. taken = [n \in 0 .. l |-> IF stop(n) THEN n ELSE taken[n + 1]]
  BY <1>4
<1> HIDE DEF taken
<1>6. \A n \in 0 .. l : taken[n] = IF stop(n) THEN n ELSE taken[n + 1]
  BY <1>5
<1> DEFINE good(n) ==
             taken[n] \in n .. l /\ stop(taken[n]) /\ \A k \in n .. taken[n] - 1 : ~stop(k)
           S == {i \in 0 .. l : good(l - i)}
<1>7. 0 \in S
  <2>1. taken[l] = l /\ l - 0 = l
    BY <1>1, <1>2, <1>6
  <2> QED
    BY <1>1, <1>2, <2>1
<1>8. \A i \in 0 .. l : i # l /\ i \in S => i + 1 \in S
  <2> SUFFICES ASSUME NEW i \in 0 .. l, i # l, i \in S PROVE i + 1 \in S
    OBVIOUS
  <2>1. PICK n \in 0 .. l : n = l - (i + 1) /\ n + 1 = l - i /\ n \in Nat
    BY <1>1
  <2>2. good(n + 1)
    BY <2>1
  <2>3. CASE stop(n)
    <3>1. taken[n] = n
      BY <1>6, <2>3
    <3>2. good(n)
      BY <1>1, <2>1, <2>3, <3>1
    <3> HIDE DEF good
    <3> QED
      BY <1>1, <2>1, <3>2
  <2>4. CASE ~stop(n)
    <3>1. taken[n] = taken[n + 1]
      BY <1>6, <2>4
    <3>2. good(n)
      <4>1. \A k \in n .. taken[n] - 1 : k = n \/ k \in n + 1 .. taken[n + 1] - 1
        BY <1>1, <2>1, <2>2, <3>1
      <4>2. \A k \in n .. taken[n] - 1 : ~stop(k)
        BY <2>2, <2>4, <4>1
      <4>3. taken[n] \in n .. l
        <5>1. taken[n + 1] \in n + 1 .. l
          BY <2>2
        <5>2. \A x \in n + 1 .. l : x \in n .. l
          BY <1>1, <2>1
        <5> QED
          BY <3>1, <5>1, <5>2
      <4>4. stop(taken[n])
        BY <2>2, <3>1
      <4> QED
        BY <4>2, <4>3, <4>4
    <3> HIDE DEF good
    <3> QED
      BY <1>1, <2>1, <3>2
  <2> QED
    BY <2>3, <2>4
<1>9. good(0)
  <2>1. l \in S
    <3> HIDE DEF S
    <3>1. 0 .. l \subseteq S
      BY <1>1, <1>7, <1>8, Induction
    <3> QED
      BY <1>1, <3>1
  <2>2. l - l = 0
    BY <1>1
  <2> HIDE DEF good
  <2> QED
    BY <2>1, <2>2
<1>10. FitHistory(h, room) = LastOf(h, 2 * taken[0])
  BY DEF FitHistory, taken, stop, l, Stops, HistoryTurn
<1> QED
  BY <1>9, <1>10 DEF stop, l

\* A turn and what follows it weigh what they weigh together.
LEMMA SizeOfTurns ==
  ASSUME NEW h \in Seq(HistoryMessage), NEW n \in Nat, 2 * n + 2 <= Len(h)
  PROVE  /\ Size(LastOf(h, 2 * n + 2)) = Size(LastOf(h, 2 * n)) + Size(HistoryTurn(h, n))
         /\ Size(LastOf(h, 2 * n)) \in Int /\ Size(HistoryTurn(h, n)) \in Int
<1> DEFINE l == Len(h)
<1>1. l \in Nat
  OBVIOUS
<1>2. \A i \in 1 .. l : h[i] \in HistoryMessage
  OBVIOUS
<1> DEFINE sizes == [i \in 1 .. l |-> h[i].size]
<1>3. sizes \in [1 .. l -> Nat]
  BY <1>2 DEF HistoryMessage
<1> HIDE DEF sizes
<1>4. PICK total \in [0 .. l -> Nat] :
        total[0] = 0 /\ \A i \in 1 .. l : total[i] = total[i - 1] + sizes[i]
  <2> HIDE DEF l
  <2> QED
    BY <1>1, <1>3, Totals
<1>5. \A i \in 1 .. l : total[i] = total[i - 1] + h[i].size
  BY <1>4 DEF sizes
<1>6. \A a \in 0 .. l : \A b \in a .. l : Size(SubSeq(h, a + 1, b)) = total[b] - total[a]
  <2>1. IsTotal(h, total)
    BY <1>4, <1>5 DEF IsTotal
  <2>2. ASSUME NEW a \in 0 .. l, NEW b \in a .. l
        PROVE  Size(SubSeq(h, a + 1, b)) = total[b] - total[a]
    BY <2>1, SizeOfStretch
  <2> HIDE DEF l
  <2> QED
    BY <2>2
<1>7. PICK a \in 0 .. l : a = l - 2 * n - 2
  <2>1. l - 2 * n - 2 \in 0 .. l
    BY <1>1
  <2> QED
    BY <2>1, Zenon
<1>8. a + 2 \in a .. l /\ l \in a + 2 .. l /\ a + 2 \in 0 .. l /\ l \in a .. l
  BY <1>1, <1>7
<1>9. Size(LastOf(h, 2 * n + 2)) = total[l] - total[a]
  <2>1. l - (2 * n + 2) + 1 = a + 1
    BY <1>1, <1>7
  <2>2. LastOf(h, 2 * n + 2) = SubSeq(h, a + 1, l)
    BY <2>1, Zenon DEF LastOf
  <2> QED
    BY <1>6, <1>8, <2>2, Zenon
<1>10. Size(LastOf(h, 2 * n)) = total[l] - total[a + 2]
  <2>1. l - 2 * n + 1 = (a + 2) + 1
    BY <1>1, <1>7
  <2>2. LastOf(h, 2 * n) = SubSeq(h, (a + 2) + 1, l)
    BY <2>1, Zenon DEF LastOf
  <2> QED
    BY <1>6, <1>8, <2>2, Zenon
<1>11. Size(HistoryTurn(h, n)) = total[a + 2] - total[a]
  <2>1. Len(h) - 2 * n - 1 = a + 1 /\ Len(h) - 2 * n = a + 2
    BY <1>1, <1>7
  <2>2. HistoryTurn(h, n) = SubSeq(h, a + 1, a + 2)
    BY <2>1, Zenon DEF HistoryTurn
  <2> QED
    BY <1>6, <1>8, <2>2, Zenon
<1>12. PICK x, y, z \in Nat : x = total[a] /\ y = total[a + 2] /\ z = total[l]
  <2>1. a \in 0 .. l /\ a + 2 \in 0 .. l /\ l \in 0 .. l
    BY <1>1, <1>7
  <2>2. total[a] \in Nat /\ total[a + 2] \in Nat /\ total[l] \in Nat
    BY <1>4, <2>1, Zenon
  <2> QED
    BY <2>2, Zenon
<1>13. /\ Size(LastOf(h, 2 * n + 2)) = z - x /\ Size(LastOf(h, 2 * n)) = z - y
       /\ Size(HistoryTurn(h, n)) = y - x
  BY <1>9, <1>10, <1>11, <1>12, Zenon
<1>14. z - x = (z - y) + (y - x) /\ z - y \in Int /\ y - x \in Int
  OBVIOUS
<1> QED
  BY <1>13, <1>14, Zenon

Paired(s, n) == \A i \in 1 .. n : LastOf(s, n)[i].role = IF i % 2 = 1 THEN "user" ELSE "assistant"

\* What the loop takes fits, is made of complete turns, and leaves none out.
LEMMA HistoryFits ==
  ASSUME NEW h \in Seq(HistoryMessage), NEW room \in Nat
  PROVE  LET kept == Len(FitHistory(h, room))
         IN  /\ Size(FitHistory(h, room)) <= room /\ Size(FitHistory(h, room)) \in Int
             /\ kept % 2 = 0 /\ Paired(h, kept)
             /\ kept + 2 <= Len(h) /\ Paired(h, kept + 2) =>
                  Size(LastOf(h, kept + 2)) > room /\ Size(LastOf(h, kept + 2)) \in Int
<1> DEFINE l == Len(h)
<1>1. l \in Nat
  OBVIOUS
<1>2. PICK t \in 0 .. l :
        /\ FitHistory(h, room) = LastOf(h, 2 * t)
        /\ Stops(h, room, t) /\ \A k \in 0 .. t - 1 : ~Stops(h, room, k)
  BY TakenTurns
<1>3. t \in Nat /\ 2 * t <= l
  <2>1. CASE t = 0
    BY <1>1, <2>1
  <2>2. CASE t # 0
    <3>1. ~Stops(h, room, t - 1) /\ t - 1 \in Nat
      BY <1>1, <1>2, <2>2
    <3> QED
      BY <1>1, <3>1 DEF Stops
  <2> QED
    BY <2>1, <2>2
<1>4. Len(FitHistory(h, room)) = 2 * t
  BY <1>1, <1>2, <1>3 DEF LastOf
<1>5. Size(FitHistory(h, room)) <= room /\ Size(FitHistory(h, room)) \in Int
  <2>1. CASE t = 0
    <3>1. LastOf(h, 0) = << >>
      BY <1>1 DEF LastOf
    <3>2. Size(<< >>) = 0
      BY SizeOfNothing
    <3> QED
      BY <1>2, <2>1, <3>1, <3>2
  <2>2. CASE t # 0
    <3>1. PICK k \in Nat : t = k + 1
      BY <1>1, <2>2
    <3>2. ~Stops(h, room, k)
      BY <1>1, <1>2, <3>1
    <3>3. Size(LastOf(h, 2 * k)) + Size(HistoryTurn(h, k)) <= room
      BY <1>1, <1>3, <3>1, <3>2, SizeOfTurns DEF Stops
    <3> QED
      BY <1>1, <1>2, <1>3, <3>1, <3>3, SizeOfTurns
  <2> QED
    BY <2>1, <2>2
<1>6. (2 * t) % 2 = 0
  BY <1>3
<1>7. ASSUME NEW k \in 0 .. t - 1
      PROVE  /\ h[l - 2 * k - 1].role = "user" /\ h[l - 2 * k].role = "assistant"
  <2>1. ~Stops(h, room, k)
    BY <1>2
  <2>2. /\ HistoryTurn(h, k)[1] = h[l - 2 * k - 1] /\ HistoryTurn(h, k)[2] = h[l - 2 * k]
    BY <1>1, <1>3 DEF HistoryTurn
  <2> QED
    BY <2>1, <2>2 DEF Stops
<1>8. Paired(h, 2 * t)
  <2> SUFFICES ASSUME NEW i \in 1 .. 2 * t
               PROVE  LastOf(h, 2 * t)[i].role = IF i % 2 = 1 THEN "user" ELSE "assistant"
    BY DEF Paired
  <2>1. LastOf(h, 2 * t)[i] = h[l - 2 * t + i]
    <3>1. PICK a \in Nat : a = l - 2 * t
      <4>1. l - 2 * t \in Nat
        BY <1>1, <1>3
      <4> QED
        BY <4>1, Zenon
    <3>2. i \in 1 .. l - a /\ a <= l /\ l \in Nat
      BY <1>1, <1>3, <3>1
    <3>3. SubSeq(h, a + 1, l)[i] = h[a + i]
      BY <3>2
    <3>4. LastOf(h, 2 * t) = SubSeq(h, a + 1, l)
      BY <3>1, Zenon DEF LastOf
    <3> QED
      BY <3>1, <3>3, <3>4, Zenon
  <2>2. CASE i % 2 = 1
    <3>1. PICK j \in 1 .. t : i = 2 * j - 1
      <4>1. PICK k \in Nat : i = 2 * k + 1
        BY <1>3, <2>2
      <4>2. k + 1 \in 1 .. t /\ i = 2 * (k + 1) - 1
        BY <1>3, <4>1
      <4> QED
        BY <4>2
    <3>2. t - j \in 0 .. t - 1 /\ l - 2 * t + i = l - 2 * (t - j) - 1
      BY <1>1, <1>3, <3>1
    <3> QED
      BY <1>7, <2>1, <2>2, <3>2
  <2>3. CASE i % 2 # 1
    <3>1. PICK j \in 1 .. t : i = 2 * j
      BY <1>3, <2>3
    <3>2. t - j \in 0 .. t - 1 /\ l - 2 * t + i = l - 2 * (t - j)
      BY <1>1, <1>3, <3>1
    <3> QED
      BY <1>7, <2>1, <2>3, <3>2
  <2> QED
    BY <2>2, <2>3
<1>9. ASSUME 2 * t + 2 <= l, Paired(h, 2 * t + 2)
      PROVE  Size(LastOf(h, 2 * t + 2)) > room /\ Size(LastOf(h, 2 * t + 2)) \in Int
  <2>1. /\ LastOf(h, 2 * t + 2)[1] = HistoryTurn(h, t)[1]
        /\ LastOf(h, 2 * t + 2)[2] = HistoryTurn(h, t)[2]
    <3>1. LastOf(h, 2 * t + 2) = SubSeq(h, l - 2 * t - 1, l)
      BY <1>1, <1>3, <1>9 DEF LastOf
    <3>2. /\ LastOf(h, 2 * t + 2)[1] = h[l - 2 * t - 1]
          /\ LastOf(h, 2 * t + 2)[2] = h[l - 2 * t]
      <4>1. PICK a \in Nat : a = l - 2 * t - 1
        <5>1. l - 2 * t - 1 \in Nat
          BY <1>1, <1>3, <1>9
        <5> QED
          BY <5>1, Zenon
      <4>2. a \in 1 .. l /\ a + 1 = l - 2 * t /\ a + 1 \in 1 .. l
        BY <1>1, <1>3, <1>9, <4>1
      <4>3. SubSeq(h, a, l)[1] = h[a] /\ SubSeq(h, a, l)[2] = h[a + 1]
        BY <1>1, <4>2
      <4> QED
        BY <3>1, <4>1, <4>2, <4>3, Zenon
    <3>3. /\ HistoryTurn(h, t)[1] = h[l - 2 * t - 1]
          /\ HistoryTurn(h, t)[2] = h[l - 2 * t]
      <4>1. HistoryTurn(h, t) = SubSeq(h, l - 2 * t - 1, l - 2 * t)
        BY DEF HistoryTurn
      <4>2. l - 2 * t - 1 \in 1 .. l /\ l - 2 * t \in 1 .. l
        BY <1>1, <1>3, <1>9
      <4>3. PICK a \in 1 .. l : a = l - 2 * t - 1
        BY <4>2
      <4>a. a + 1 = l - 2 * t /\ a \in Nat
        BY <1>1, <4>3
      <4>4. Len(SubSeq(h, a, a + 1)) = 2 /\ SubSeq(h, a, a + 1)[1] = h[a]
            /\ SubSeq(h, a, a + 1)[2] = h[a + 1]
        BY <4>2, <4>3, <4>a
      <4> QED
        BY <4>1, <4>3, <4>a, <4>4
    <3> QED
      BY <3>2, <3>3
  <2>2. HistoryTurn(h, t)[1].role = "user" /\ HistoryTurn(h, t)[2].role = "assistant"
    <3>1. 1 \in 1 .. 2 * t + 2 /\ 2 \in 1 .. 2 * t + 2 /\ 1 % 2 = 1 /\ 2 % 2 # 1
      BY <1>3
    <3> QED
      BY <1>9, <2>1, <3>1 DEF Paired
  <2>3. Size(LastOf(h, 2 * t)) + Size(HistoryTurn(h, t)) > room
    BY <1>1, <1>2, <1>3, <1>9, <2>2 DEF Stops
  <2> QED
    BY <1>3, <1>9, <2>3, SizeOfTurns
<1> QED
  BY <1>4, <1>5, <1>6, <1>8, <1>9

\* PromptFits of any prompt.
WellFitted(prompted) ==
  LET kept == Len(prompted.kept)
  IN  /\ prompted.fixed + Size(prompted.kept) <= prompted.budget
      /\ kept % 2 = 0 /\ Paired(prompted.history, kept)
      /\ kept + 2 <= Len(prompted.history) /\ Paired(prompted.history, kept + 2) =>
           prompted.fixed + Size(LastOf(prompted.history, kept + 2)) > prompted.budget

LEMMA FitsIsWellFitted == PromptFits <=> WellFitted(built)
BY DEF PromptFits, WellFitted, Paired

LEMMA NoPromptFits == WellFitted(NoPrompt)
<1>1. PICK s \in Seq(HistoryMessage) : s = << >> /\ Len(s) = 0
  <2>1. << >> \in Seq(HistoryMessage) /\ Len(<< >>) = 0
    OBVIOUS
  <2> QED
    BY <2>1, Zenon
<1>2. NoPrompt.history = s /\ NoPrompt.kept = s /\ NoPrompt.fixed = 0 /\ NoPrompt.budget = 0
  BY <1>1 DEF NoPrompt
<1>3. Size(s) = 0
  BY <1>1, SizeOfNothing
<1>4. Paired(s, 0)
  BY DEF Paired
<1> QED
  BY <1>1, <1>2, <1>3, <1>4 DEF WellFitted

LEMMA FittedPromptFits ==
  ASSUME NEW h \in Seq(HistoryMessage), NEW budget \in Nat, NEW fixed \in Nat,
         NEW room \in Nat, room = budget - fixed
  PROVE  WellFitted([history |-> h, fixed |-> fixed, budget |-> budget,
                     kept |-> FitHistory(h, room)])
<1> DEFINE n == Len(FitHistory(h, room))
           p == [history |-> h, fixed |-> fixed, budget |-> budget,
                 kept |-> FitHistory(h, room)]
<1>1. /\ Size(FitHistory(h, room)) <= room /\ Size(FitHistory(h, room)) \in Int
      /\ n % 2 = 0 /\ Paired(h, n)
      /\ n + 2 <= Len(h) /\ Paired(h, n + 2) =>
           Size(LastOf(h, n + 2)) > room /\ Size(LastOf(h, n + 2)) \in Int
  BY HistoryFits
<1>2. p.history = h /\ p.kept = FitHistory(h, room) /\ p.fixed = fixed /\ p.budget = budget
  OBVIOUS
<1> HIDE DEF p
<1>3. WellFitted(p)
  BY <1>1, <1>2 DEF WellFitted
<1> QED
  BY <1>3 DEF p

LEMMA InitPromptFits == PersonaInit => PromptFits
BY NoPromptFits, FitsIsWellFitted DEF PersonaInit

\* Only a new prompt or the beginning of a save changes what was built.
LEMMA NextPromptFits ==
  ASSUME PromptFits, [PersonaNext]_personaVars
  PROVE  PromptFits'
<1>1. CASE BuildPrompt
  <2>1. PICK turns \in Histories, budget \in Budgets, fixed \in FixedSizes :
          /\ fixed <= budget
          /\ built' = [history |-> LastOf(turns, Min({Recent, Len(turns)})),
                       fixed |-> fixed, budget |-> budget,
                       kept |-> FitHistory(LastOf(turns, Min({Recent, Len(turns)})),
                                           budget - fixed)]
    BY <1>1 DEF BuildPrompt
  <2>2. PICK h : h = LastOf(turns, Min({Recent, Len(turns)}))
    OBVIOUS
  <2>3. h \in Seq(HistoryMessage)
    <3>1. turns \in Seq(HistoryMessage)
      BY PersonaAssumption DEF HistoryMessage
    <3>2. PICK n \in Nat : n = Min({Recent, Len(turns)}) /\ n <= Len(turns)
      BY <3>1, PersonaAssumption DEF Min
    <3>3. PICK a \in Nat : a = Len(turns) - n + 1 /\ 1 <= a /\ Len(turns) \in Nat
      BY <3>1, <3>2
    <3>4. \A i \in a .. Len(turns) : turns[i] \in HistoryMessage
      BY <3>1, <3>3
    <3>5. SubSeq(turns, a, Len(turns)) \in Seq(HistoryMessage)
      BY <3>1, <3>3, <3>4
    <3> QED
      BY <2>2, <3>2, <3>3, <3>5 DEF LastOf
  <2>4. PICK room \in Nat : room = budget - fixed
    BY <2>1, PersonaAssumption
  <2>5. budget \in Nat /\ fixed \in Nat
    BY PersonaAssumption
  <2>6. WellFitted([history |-> h, fixed |-> fixed, budget |-> budget,
                    kept |-> FitHistory(h, room)])
    BY <2>3, <2>4, <2>5, FittedPromptFits
  <2>7. WellFitted(built')
    BY <2>1, <2>2, <2>4, <2>6
  <2> QED
    BY <2>7 DEF PromptFits, WellFitted, Paired
<1>2. CASE built' = NoPrompt
  BY <1>2, NoPromptFits DEF PromptFits, WellFitted, Paired
<1>3. CASE built' = built
  BY <1>3 DEF PromptFits
<1> QED
  BY <1>1, <1>2, <1>3
     DEF PersonaNext, BeginEdit, ReplaceDocument, EditDone, EditFails, CoreDiesInEdit, personaVars

\* persona.py:394-431: whatever the history and the budget, a prompt fits, keeps
\* whole turns from the end, and leaves out no complete turn that would have fitted.
THEOREM PersonaPromptFits == PersonaSpec => []PromptFits
<1> QED
  BY InitPromptFits, NextPromptFits, PTL DEF PersonaSpec
=============================================================================
