----------------------------- MODULE LinkProofs ------------------------------
(* Proofs about the programs on the desktop: the migration of a legacy     *)
(* root, the installer of the runtime, the launcher, and Link itself with  *)
(* its microphone, its main window, its connection and its agent.          *)
EXTENDS LocalMigration, RuntimeInstall, Launcher, RealtimeAudio, LinkConnection, LinkAgent, LinkChat,
        SequenceTheorems, TLAPS

-----------------------------------------------------------------------------
(* The migration of a legacy root.                                         *)

\* Every legacy file has its copy and its backup in the tree.
HoldsLegacy(tree) ==
  \A f \in Files : legacy[f] # Absent =>
    tree.data[NewName(f)] # Absent /\ tree.backup[f] # Absent

MigrationInv ==
  /\ MigrationTypeOK
  /\ \A f \in Files : legacy[f] <= legacyWrites + 1
  /\ root.marker = "ours" => HoldsLegacy(root)
  /\ \A s \in Starters :
       /\ staging[s].marker = "ours" => HoldsLegacy(staging[s])
       /\ stands[s] = "staging" /\ cleared[s] => staging[s].marker = "ours"
  /\ \A f \in owned : root.there /\ root.data[f] = Own

LEMMA MigrationInvInit == MigrationInit => MigrationInv
<1> SUFFICES ASSUME MigrationInit PROVE MigrationInv
  OBVIOUS
<1>1. NoTree \in Trees /\ Tree(TRUE, NoFiles, NoFiles, "none") \in Trees
      /\ Tree(TRUE, NoFiles, NoFiles, "other") \in Trees
  BY MigrationAssumption DEF NoTree, Tree, Trees, NoFiles, Absent, Own
<1>2. MigrationTypeOK
  <2>1. legacy \in [Files -> 0 .. MaxLegacyWrites + 1]
    <3>1. {Absent, 1} \subseteq 0 .. MaxLegacyWrites + 1
      BY MigrationAssumption DEF Absent
    <3> QED
      BY <3>1 DEF MigrationInit
  <2>2. root \in Trees /\ staging \in [Starters -> Trees]
    BY <1>1 DEF MigrationInit
  <2>3. openings \in 0 .. MaxOpenings /\ legacyWrites \in 0 .. MaxLegacyWrites
    BY MigrationAssumption DEF MigrationInit
  <2>4. /\ stands \in [Starters -> {"out", "staging", "open", "refused"}]
        /\ cleared \in [Starters -> BOOLEAN] /\ owned \subseteq Files
    BY DEF MigrationInit
  <2> QED
    BY <2>1, <2>2, <2>3, <2>4 DEF MigrationTypeOK
<1>3. root.marker # "ours" /\ \A s \in Starters : staging[s].marker # "ours"
  BY DEF MigrationInit, NoTree, Tree
<1> QED
  BY <1>2, <1>3 DEF MigrationInit, MigrationInv, Absent

LEMMA MigrationInvNext == MigrationInv /\ [MigrationNext]_migrationVars => MigrationInv'
<1> SUFFICES ASSUME MigrationInv, [MigrationNext]_migrationVars PROVE MigrationInv'
  OBVIOUS
<1> USE MigrationAssumption DEF MigrationInv, MigrationTypeOK, Goes
<1>1. ASSUME NEW s \in Starters, OpenRoot(s) PROVE MigrationInv'
  <2>1. Tree(TRUE, NoFiles, NoFiles, "none") \in Trees
    BY DEF Tree, Trees, NoFiles, Absent, Own
  <2>2. Tree(TRUE, NoFiles, NoFiles, "none").marker = "none"
    BY DEF Tree
  <2>3. UNCHANGED <<legacy, root, owned, legacyWrites>> /\ openings' \in 0 .. MaxOpenings
        /\ cleared' = [cleared EXCEPT ![s] = FALSE]
    BY <1>1 DEF OpenRoot
  <2>4. /\ \/ staging' = staging
           \/ staging' = [staging EXCEPT ![s] = Tree(TRUE, NoFiles, NoFiles, "none")]
        /\ \E place \in {"staging", "open", "refused"} : stands' = [stands EXCEPT ![s] = place]
    BY <1>1 DEF OpenRoot
  <2>5. MigrationTypeOK'
    BY <2>1, <2>3, <2>4
  <2>6. ASSUME NEW t \in Starters
        PROVE /\ staging'[t].marker = "ours" => staging[t] = staging'[t]
              /\ cleared'[t] => stands'[t] = stands[t] /\ staging'[t] = staging[t] /\ cleared[t]
    <3>1. CASE t = s
      BY <2>2, <2>3, <2>4, <3>1
    <3>2. CASE t # s
      BY <2>3, <2>4, <3>2
    <3> QED
      BY <3>1, <3>2
  <2>7. HoldsLegacy(root)' <=> HoldsLegacy(root)
    BY <2>3 DEF HoldsLegacy
  <2>8. \A t \in Starters : staging'[t].marker = "ours" => HoldsLegacy(staging[t])'
    BY <2>3, <2>6 DEF HoldsLegacy
  <2>9. \A t \in Starters : stands'[t] = "staging" /\ cleared'[t] => staging'[t].marker = "ours"
    BY <2>6
  <2> QED
    BY <2>3, <2>5, <2>7, <2>8, <2>9
<1>2. ASSUME NEW s \in Starters, NEW f \in Files, CopyFile(s, f) PROVE MigrationInv'
  <2>1. NewName(f) \in Files /\ legacy[f] \in 0 .. Own
    BY DEF NewName, Files, Own
  <2>2. staging' = [staging EXCEPT ![s] =
           [staging[s] EXCEPT !.data = [staging[s].data EXCEPT ![NewName(f)] = legacy[f]]]]
    BY <1>2 DEF CopyFile
  <2> DEFINE new == [staging[s] EXCEPT !.data = [staging[s].data EXCEPT ![NewName(f)] = legacy[f]]]
  <2>3. new \in Trees /\ new.marker = staging[s].marker /\ new.backup = staging[s].backup
        /\ \A g \in Files : staging[s].data[g] # Absent => new.data[g] # Absent
    BY <1>2, <2>1 DEF CopyFile, Trees, Absent
  <2> HIDE DEF new
  <2>4. UNCHANGED <<legacy, root, stands, cleared, owned, openings, legacyWrites>>
    BY <1>2 DEF CopyFile
  <2>5. \A g \in Files : NewName(g) \in Files
    BY DEF NewName, Files
  <2>6. MigrationTypeOK'
    BY <2>2, <2>3, <2>4 DEF new
  <2>7. staging' = [staging EXCEPT ![s] = new]
    BY <2>2 DEF new
  <2> QED
    BY <2>3, <2>4, <2>5, <2>6, <2>7 DEF HoldsLegacy
<1>3. ASSUME NEW s \in Starters, NEW f \in Files, BackUpFile(s, f) PROVE MigrationInv'
  <2>1. legacy[f] \in 0 .. Own
    BY DEF Own
  <2> DEFINE new == [staging[s] EXCEPT !.backup = [staging[s].backup EXCEPT ![f] = legacy[f]]]
  <2>2. staging' = [staging EXCEPT ![s] = new]
    BY <1>3 DEF BackUpFile
  <2>3. new \in Trees /\ new.marker = staging[s].marker /\ new.data = staging[s].data
        /\ \A g \in Files : staging[s].backup[g] # Absent => new.backup[g] # Absent
    BY <1>3, <2>1 DEF BackUpFile, Trees, Absent
  <2> HIDE DEF new
  <2>4. UNCHANGED <<legacy, root, stands, cleared, owned, openings, legacyWrites>>
    BY <1>3 DEF BackUpFile
  <2>5. MigrationTypeOK'
    BY <2>2, <2>3, <2>4
  <2> QED
    BY <2>2, <2>3, <2>4, <2>5 DEF HoldsLegacy
<1>4. ASSUME NEW s \in Starters, WriteMarker(s) PROVE MigrationInv'
  <2> DEFINE new == [staging[s] EXCEPT !.marker = "ours"]
  <2>1. staging' = [staging EXCEPT ![s] = new]
        /\ UNCHANGED <<legacy, root, stands, cleared, owned, openings, legacyWrites>>
    BY <1>4 DEF WriteMarker
  <2>2. new \in Trees /\ new.marker = "ours" /\ new.data = staging[s].data
        /\ new.backup = staging[s].backup
    BY DEF Trees
  <2> HIDE DEF new
  <2>3. HoldsLegacy(new)
    BY <1>4, <2>2 DEF WriteMarker, Copied, BackedUp, HoldsLegacy
  <2>4. MigrationTypeOK'
    BY <2>1, <2>2
  <2> QED
    BY <2>1, <2>2, <2>3, <2>4 DEF HoldsLegacy
<1>5. ASSUME NEW s \in Starters, ClearRoot(s) PROVE MigrationInv'
  <2>1. CASE HasState(root)
    BY <1>5, <2>1 DEF ClearRoot, HoldsLegacy
  <2>2. CASE ~HasState(root)
    <3>1. owned = {}
      <4>1. ASSUME NEW f \in owned PROVE FALSE
        <5>1. root.there /\ root.data[f] = Own /\ f \in Files
          OBVIOUS
        <5>2. root.data = NoFiles
          BY <2>2, <5>1 DEF HasState
        <5> QED
          BY <5>1, <5>2 DEF NoFiles, Absent, Own
      <4> QED
        BY <4>1
    <3>2. NoTree \in Trees /\ NoTree.marker = "none"
      BY DEF NoTree, Tree, Trees, NoFiles, Absent, Own
    <3>3. /\ root' = NoTree /\ cleared' = [cleared EXCEPT ![s] = TRUE]
          /\ UNCHANGED <<legacy, staging, stands, owned, openings, legacyWrites>>
          /\ staging[s].marker = "ours"
      BY <1>5, <2>2 DEF ClearRoot
    <3> QED
      BY <3>1, <3>2, <3>3 DEF HoldsLegacy
  <2> QED
    BY <2>1, <2>2
<1>6. ASSUME NEW s \in Starters, Promote(s) PROVE MigrationInv'
  <2>1. CASE root.there
    BY <1>6, <2>1 DEF Promote, HoldsLegacy
  <2>2. CASE ~root.there
    <3>1. owned = {}
      BY <2>2
    <3>2. NoTree \in Trees /\ NoTree.marker = "none"
      BY DEF NoTree, Tree, Trees, NoFiles, Absent, Own
    <3>3. /\ root' = staging[s] /\ staging' = [staging EXCEPT ![s] = NoTree]
          /\ stands' = [stands EXCEPT ![s] = "open"]
          /\ UNCHANGED <<legacy, cleared, owned, openings, legacyWrites>>
      BY <1>6, <2>2 DEF Promote
    <3>4. MigrationTypeOK'
      BY <3>2, <3>3
    <3> QED
      BY <3>1, <3>2, <3>3, <3>4 DEF HoldsLegacy
  <2> QED
    BY <2>1, <2>2
<1>7. ASSUME NEW s \in Starters, EndMigration(s) PROVE MigrationInv'
  <2>1. NoTree \in Trees /\ NoTree.marker = "none"
    BY DEF NoTree, Tree, Trees, NoFiles, Absent, Own
  <2> QED
    BY <1>7, <2>1 DEF EndMigration, HoldsLegacy
<1>8. ASSUME NEW s \in Starters, NEW f \in Files, WriteOwnFile(s, f) PROVE MigrationInv'
  <2> DEFINE new == [root EXCEPT !.there = TRUE, !.data = [root.data EXCEPT ![f] = Own]]
  <2>1. root' = new /\ owned' = owned \cup {f}
        /\ UNCHANGED <<legacy, staging, stands, cleared, openings, legacyWrites>>
    BY <1>8 DEF WriteOwnFile
  <2>0. [root.data EXCEPT ![f] = Own] \in [Files -> 0 .. Own] /\ Own # Absent
    BY DEF Trees, Own, Absent
  <2>2. new \in Trees /\ new.there /\ new.data[f] = Own /\ Own # Absent
        /\ new.marker = root.marker /\ new.backup = root.backup
        /\ \A g \in Files : g # f => new.data[g] = root.data[g]
    <3>1. root \in Trees
      OBVIOUS
    <3> QED
      BY <2>0, <3>1 DEF Trees
  <2> HIDE DEF new
  <2>3. \A g \in Files : NewName(g) \in Files
    BY DEF NewName, Files
  <2>4. MigrationTypeOK'
    BY <2>1, <2>2
  <2>5. new.marker = "ours" => HoldsLegacy(new)
    BY <2>2, <2>3 DEF HoldsLegacy
  <2> QED
    BY <2>1, <2>2, <2>4, <2>5 DEF HoldsLegacy
<1>9. ASSUME NEW f \in Files, LegacyWrites(f) PROVE MigrationInv'
  <2>1. \A g \in Files : legacy'[g] # Absent <=> legacy[g] # Absent
    BY <1>9 DEF LegacyWrites, Absent
  <2>2. /\ UNCHANGED <<root, staging, stands, cleared, owned, openings>>
        /\ legacyWrites' = legacyWrites + 1 /\ legacyWrites < MaxLegacyWrites
        /\ legacy' = [legacy EXCEPT ![f] = @ + 1]
    BY <1>9 DEF LegacyWrites
  <2>3. MigrationTypeOK' /\ \A g \in Files : legacy'[g] <= legacyWrites' + 1
    BY <2>2
  <2> QED
    BY <2>1, <2>2, <2>3 DEF HoldsLegacy
<1>10. CASE UNCHANGED migrationVars
  BY <1>10 DEF migrationVars, HoldsLegacy
<1> QED
  BY <1>1, <1>2, <1>3, <1>4, <1>5, <1>6, <1>7, <1>8, <1>9, <1>10 DEF MigrationNext

LEMMA MigrationInvariant == MigrationSpec => []MigrationInv
BY MigrationInvInit, MigrationInvNext, PTL DEF MigrationSpec

\* The roots, the staging directories and the starters keep their types.
THEOREM MigrationTypes == MigrationSpec => []MigrationTypeOK
<1>1. MigrationInv => MigrationTypeOK
  BY DEF MigrationInv
<1> QED
  BY <1>1, MigrationInvariant, PTL

\* However many programs migrate at once and wherever they die, a root marked as
\* migrated holds every legacy file twice and nothing this release wrote is lost.
THEOREM MigrationWhole == MigrationSpec => []MigrationIsWhole
<1>1. MigrationInv => MigrationIsWhole
  BY DEF MigrationInv, MigrationIsWhole, HoldsLegacy
<1> QED
  BY <1>1, MigrationInvariant, PTL

-----------------------------------------------------------------------------
(* The installer of the runtime.                                           *)

\* Only a whole, genuine artifact carries a stamp; what is being downloaded is
\* not longer than the artifact.
InstallInv ==
  /\ InstallTypeOK
  /\ stamped => target.size = ArtifactSize /\ target.genuine
  /\ installer \in {"fetched", "extracting"} \/ (installer = "installed" /\ kind = "model") =>
       target.size = ArtifactSize /\ target.genuine
  /\ installer \in {"requesting", "receiving"} => part.size <= ArtifactSize
  /\ folder.server => folder.complete

\* The files and folders the installer makes.
LEMMA InstallValues ==
  /\ NoFile \in FileStates /\ NoFile.size = 0 /\ ~NoFile.there
  /\ \A n \in 0 .. ArtifactSize + 1, g \in BOOLEAN :
       /\ Content(n, g) \in FileStates
       /\ Content(n, g).size = n /\ Content(n, g).genuine = g
  /\ NoFolder \in FolderStates /\ ~NoFolder.server
  /\ [NoFolder EXCEPT !.there = TRUE] \in FolderStates
  /\ ~[NoFolder EXCEPT !.there = TRUE].server
<1>1. NoFile \in FileStates /\ NoFile.size = 0 /\ ~NoFile.there
  BY InstallAssumption DEF NoFile, FileStates
<1>2. \A n \in 0 .. ArtifactSize + 1, g \in BOOLEAN :
        /\ Content(n, g) \in FileStates
        /\ Content(n, g).size = n /\ Content(n, g).genuine = g
  BY DEF Content, FileStates
<1>3. NoFolder \in FolderStates /\ ~NoFolder.server
  BY DEF NoFolder, FolderStates
<1>4. /\ [NoFolder EXCEPT !.there = TRUE] \in FolderStates
      /\ ~[NoFolder EXCEPT !.there = TRUE].server
  BY DEF NoFolder, FolderStates
<1> QED
  BY <1>1, <1>2, <1>3, <1>4

LEMMA InstallInvInit == InstallInit => InstallInv
<1> SUFFICES ASSUME InstallInit PROVE InstallInv
  OBVIOUS
<1>1. InstallTypeOK
  <2>1. target \in FileStates /\ part \in FileStates
    BY InstallValues DEF InstallInit
  <2>2. folder \in FolderStates /\ extracted \in FolderStates
    BY InstallValues DEF InstallInit
  <2>3. attempt \in 0 .. DownloadAttempts /\ installs \in 0 .. MaxInstalls
        /\ alterations \in 0 .. MaxAlterations
    BY InstallAssumption DEF InstallInit
  <2> QED
    BY <2>1, <2>2, <2>3 DEF InstallInit, InstallTypeOK
<1>2. stamped = FALSE /\ installer = "out" /\ ~folder.server
  BY InstallValues DEF InstallInit
<1> QED
  BY <1>1, <1>2 DEF InstallInv

\* What a download that ended leaves: a file that is used only when it is the
\* artifact, and a part no longer than it.
LEMMA FinishIsSound ==
  ASSUME InstallInv, part.size <= ArtifactSize, Finish(part)
  PROVE  /\ target' \in FileStates /\ part' \in FileStates /\ stamped' \in BOOLEAN
         /\ installer' \in {"fetched", "requesting", "out"} /\ attempt' = attempt
         /\ stamped' \/ installer' = "fetched" =>
              target'.size = ArtifactSize /\ target'.genuine
         /\ part'.size <= ArtifactSize
<1> USE InstallAssumption
<1>1. part \in FileStates /\ target \in FileStates
  BY DEF InstallInv, InstallTypeOK
<1>2. CASE Verified(part, FALSE)
  <2>1. /\ target' = part /\ part' = NoFile /\ attempt' = attempt
        /\ stamped' \in BOOLEAN /\ installer' \in {"fetched", "out"}
    BY <1>2 DEF Finish
  <2>2. part.size = ArtifactSize /\ part.genuine
    BY <1>2 DEF Verified
  <2> QED
    BY <1>1, <2>1, <2>2, InstallValues
<1>3. CASE ~Verified(part, FALSE)
  <2>1. /\ part' = IF part.size = ArtifactSize THEN NoFile ELSE part
        /\ target' = target /\ attempt' = attempt /\ stamped' = FALSE
        /\ installer' \in {"requesting", "out"}
    BY <1>3 DEF Finish
  <2>2. part' \in FileStates /\ part'.size <= ArtifactSize
    BY <1>1, <2>1, InstallValues
  <2> QED
    BY <1>1, <2>1, <2>2
<1> QED
  BY <1>2, <1>3

LEMMA InstallInvNext == InstallInv /\ [InstallNext]_installVars => InstallInv'
<1> SUFFICES ASSUME InstallInv, [InstallNext]_installVars PROVE InstallInv'
  OBVIOUS
<1> USE InstallAssumption DEF InstallInv, InstallTypeOK, extractVars, downloadVars
<1>1. CASE BeginInstall
  <2>1. Prepared \in FileStates /\ Prepared.size <= ArtifactSize
    <3>1. \A f \in FileStates : f.size \in 0 .. ArtifactSize + 1
      BY DEF FileStates
    <3> QED
      BY <3>1, InstallValues DEF Prepared
  <2>2. /\ UNCHANGED <<kind, folder, extracted, setAside, alterations>>
        /\ installs' \in 0 .. MaxInstalls
    BY <1>1 DEF BeginInstall
  <2>3. CASE kind = "archive" /\ folder.server
    BY <1>1, <2>2, <2>3 DEF BeginInstall
  <2>4. CASE ~(kind = "archive" /\ folder.server) /\ Verified(target, stamped)
    <3>1. /\ installer' = "fetched" /\ stamped' = TRUE
          /\ UNCHANGED <<target, part, attempt>>
      BY <1>1, <2>4 DEF BeginInstall
    <3>2. target.size = ArtifactSize /\ target.genuine
      BY <2>4 DEF Verified
    <3> QED
      BY <2>2, <3>1, <3>2
  <2>5. CASE /\ ~(kind = "archive" /\ folder.server) /\ ~Verified(target, stamped)
             /\ Verified(Prepared, FALSE)
    <3>1. /\ target' = Prepared /\ part' = NoFile /\ stamped' = TRUE
          /\ installer' = "fetched" /\ attempt' = 0
      BY <1>1, <2>5 DEF BeginInstall
    <3>2. Prepared.size = ArtifactSize /\ Prepared.genuine
      BY <2>5 DEF Verified
    <3> QED
      BY <2>1, <2>2, <3>1, <3>2, InstallValues
  <2>6. CASE /\ ~(kind = "archive" /\ folder.server) /\ ~Verified(target, stamped)
             /\ ~Verified(Prepared, FALSE)
    <3>1. /\ target' = NoFile /\ stamped' = FALSE
          /\ part' = IF Prepared.size = ArtifactSize THEN NoFile ELSE Prepared
          /\ installer' = "requesting" /\ attempt' = 0
      BY <1>1, <2>6 DEF BeginInstall
    <3>2. part' \in FileStates /\ part'.size <= ArtifactSize
      BY <2>1, <3>1, InstallValues
    <3>a. target' \in FileStates /\ attempt' \in 0 .. DownloadAttempts
      BY <3>1, InstallValues
    <3>b. installer' = "requesting" /\ stamped' \in BOOLEAN
      BY <3>1
    <3>3. InstallTypeOK'
      BY <2>2, <3>a, <3>b, <3>2
    <3>4. (folder.server => folder.complete)' /\ installer' = "requesting" /\ ~stamped'
      BY <2>2, <3>1
    <3> QED
      BY <3>2, <3>3, <3>4
  <2> QED
    BY <2>3, <2>4, <2>5, <2>6
<1>2. CASE Request
  <2>1. /\ UNCHANGED <<kind, target, stamped, folder, extracted, setAside, installs, alterations>>
    BY <1>2 DEF Request
  <2>a. attempt' \in 0 .. DownloadAttempts
    BY <1>2 DEF Request
  <2>b. installer' \in {"requesting", "receiving", "out"}
    BY <1>2 DEF Request
  <2>2. part' \in FileStates /\ part'.size <= ArtifactSize
    <3>1. part' = part \/ part' = NoFile \/ part' = Content(0, TRUE)
      BY <1>2 DEF Request
    <3>2. part.size <= ArtifactSize /\ part \in FileStates
      BY <1>2 DEF Request
    <3>3. 0 \in 0 .. ArtifactSize + 1 /\ TRUE \in BOOLEAN /\ 0 <= ArtifactSize
      OBVIOUS
    <3>4. Content(0, TRUE) \in FileStates /\ Content(0, TRUE).size = 0
      BY <3>3 DEF Content, FileStates
    <3> QED
      BY <3>1, <3>2, <3>3, <3>4, InstallValues
  <2> QED
    BY <2>1, <2>a, <2>b, <2>2
<1>3. CASE Receive
  <2>1. part.size \in 0 .. ArtifactSize
    BY <1>3 DEF Receive, FileStates
  <2>2. PICK genuine \in BOOLEAN :
          part' = Content(part.size + 1, part.genuine /\ genuine /\ part.size < ArtifactSize)
    BY <1>3 DEF Receive
  <2>3. (part.genuine /\ genuine /\ part.size < ArtifactSize) \in BOOLEAN
    OBVIOUS
  <2>4. part' \in FileStates /\ part'.size = part.size + 1
    <3>1. part.size + 1 \in 0 .. ArtifactSize + 1
      BY <2>1
    <3> QED
      BY <2>2, <2>3, <3>1 DEF Content, FileStates
  <2>5. /\ UNCHANGED <<kind, target, stamped, attempt, folder, extracted, setAside, installs,
                       alterations>>
        /\ installer' = IF part'.size > ArtifactSize THEN "out" ELSE "receiving"
    BY <1>3 DEF Receive
  <2> QED
    BY <2>1, <2>4, <2>5
<1>4. CASE BodyEnds
  <2>1. /\ Finish(part) /\ part.size <= ArtifactSize
        /\ UNCHANGED <<kind, folder, extracted, setAside, installs, alterations>>
    BY <1>4 DEF BodyEnds
  <2> QED
    BY <2>1, FinishIsSound
<1>5. CASE UseArtifact
  BY <1>5, InstallValues DEF UseArtifact
<1>6. CASE ExtractServer
  BY <1>6 DEF ExtractServer, FolderStates
<1>7. CASE ExtractRest
  BY <1>7 DEF ExtractRest, FolderStates
<1>8. CASE SetAside
  BY <1>8, InstallValues DEF SetAside
<1>9. CASE PutInPlace
  <2>1. extracted.complete /\ folder' = extracted /\ extracted' = NoFolder /\ setAside' = FALSE
        /\ installer = "extracting" /\ installer' = "installed"
        /\ UNCHANGED <<kind, target, part, stamped, attempt, installs, alterations>>
    BY <1>9 DEF PutInPlace
  <2> QED
    BY <2>1, InstallValues
<1>10. CASE ExtractFails
  BY <1>10, InstallValues DEF ExtractFails
<1>11. CASE InstallerEnds
  BY <1>11, InstallValues DEF InstallerEnds
<1>12. CASE AlterTarget
  <2>1. PICK n \in 0 .. ArtifactSize : target' = Content(n, FALSE)
    BY <1>12 DEF AlterTarget
  <2>2. target' \in FileStates
    BY <2>1 DEF Content, FileStates
  <2>3. /\ UNCHANGED <<kind, part, installer, attempt, folder, extracted, setAside, installs>>
        /\ installer = "out" /\ stamped' = FALSE
    BY <1>12 DEF AlterTarget
  <2>4. alterations' \in 0 .. MaxAlterations
    BY <1>12 DEF AlterTarget
  <2> QED
    BY <2>2, <2>3, <2>4
<1>13. CASE UNCHANGED installVars
  BY <1>13 DEF installVars
<1> QED
  BY <1>1, <1>2, <1>3, <1>4, <1>5, <1>6, <1>7, <1>8, <1>9, <1>10, <1>11, <1>12, <1>13
  DEF InstallNext

LEMMA InstallInvariant == InstallSpec => []InstallInv
BY InstallInvInit, InstallInvNext, PTL DEF InstallSpec

\* The files, the folders and the counters of the installer keep their types.
THEOREM InstallTypes == InstallSpec => []InstallTypeOK
<1>1. InstallInv => InstallTypeOK
  BY DEF InstallInv
<1> QED
  BY <1>1, InstallInvariant, PTL

\* Whatever was resumed, altered, refused or cut off, only the genuine artifact
\* is used, and a folder in which the server is found holds all of it.
THEOREM InstallSound == InstallSpec => []InstallIsSound
<1>1. InstallInv => InstallIsSound
  BY DEF InstallInv, InstallIsSound
<1> QED
  BY <1>1, InstallInvariant, PTL

-----------------------------------------------------------------------------
(* The launcher.                                                           *)

ChildStates == {"none", "starting", "ready", "dead"}

\* A launcher that has not come to its processes, or only runs the client, has
\* started none; the client alone has nothing else to do.
LauncherInv ==
  /\ LauncherTypeOK
  /\ \A l \in Launchers :
       /\ step[l] \in {"begin", "configure", "settings"} \/ mode[l] = "client" =>
            \A k \in Kinds : child[l][k] = "none"
       /\ mode[l] = "client" => step[l] \in {"begin", "client", "ended"}
  /\ LauncherLeavesNothing

LEMMA LauncherInvInit == LauncherInit => LauncherInv
<1> SUFFICES ASSUME LauncherInit PROVE LauncherInv
  OBVIOUS
<1>1. LauncherTypeOK
  BY DEF LauncherInit, LauncherTypeOK, Steps, Kinds
<1> QED
  BY <1>1 DEF LauncherInit, LauncherInv, LauncherLeavesNothing

\* A launcher takes a step of its own: it goes to s, its processes become mine.
LEMMA LauncherStep ==
  ASSUME LauncherInv, UNCHANGED launchVars,
         NEW l \in Launchers, NEW s \in Steps, NEW mine \in [Kinds -> ChildStates],
         step' = [step EXCEPT ![l] = s],
         child' = [child EXCEPT ![l] = mine],
         models' \in {"missing", "empty", "complete"},
         writer' \subseteq Launchers, serves' \subseteq Launchers,
         s \in {"begin", "configure", "settings"} \/ mode[l] = "client" =>
           \A k \in Kinds : mine[k] = "none",
         mode[l] = "client" => s \in {"begin", "client", "ended"},
         s = "ended" => \A k \in Kinds :
           mine[k] \in {"starting", "ready"} => l \in keeps /\ mode[l] = "all"
  PROVE  LauncherInv'
<1> USE DEF LauncherInv, LauncherTypeOK, launchVars, ChildStates
<1>1. LauncherTypeOK'
  OBVIOUS
<1>2. \A m \in Launchers :
        /\ step'[m] = IF m = l THEN s ELSE step[m]
        /\ child'[m] = IF m = l THEN mine ELSE child[m]
        /\ mode'[m] = mode[m]
  OBVIOUS
<1>3. LauncherLeavesNothing'
  BY <1>2 DEF LauncherLeavesNothing, Alive
<1> QED
  BY <1>1, <1>2, <1>3

\* A step that starts and ends no process.
LEMMA LauncherPlainStep ==
  ASSUME LauncherInv, UNCHANGED launchVars, UNCHANGED child,
         NEW l \in Launchers, NEW s \in Steps,
         step' = [step EXCEPT ![l] = s],
         models' \in {"missing", "empty", "complete"},
         writer' \subseteq Launchers, serves' \subseteq Launchers,
         s \in {"begin", "configure", "settings"} =>
           step[l] \in {"begin", "configure", "settings"},
         mode[l] = "client" => s \in {"begin", "client", "ended"},
         s = "ended" => step[l] \in {"begin", "configure", "settings"} \/ mode[l] = "client"
  PROVE  LauncherInv'
<1>1. child[l] \in [Kinds -> ChildStates] /\ child' = [child EXCEPT ![l] = child[l]]
  BY DEF LauncherInv, LauncherTypeOK, ChildStates
<1> QED
  BY <1>1, LauncherStep DEF LauncherInv

LEMMA LauncherInvNext == LauncherInv /\ [LauncherNext]_launcherVars => LauncherInv'
<1> SUFFICES ASSUME LauncherInv, [LauncherNext]_launcherVars PROVE LauncherInv'
  OBVIOUS
<1> USE DEF StepTo
<1>a. LauncherTypeOK
  BY DEF LauncherInv
<1>0. CASE UNCHANGED launcherVars
  BY <1>0 DEF launcherVars, launchVars, LauncherInv, LauncherTypeOK, LauncherLeavesNothing, Alive
<1>1. ASSUME UNCHANGED launchVars, NEW l \in Launchers, BeginMain(l) PROVE LauncherInv'
  <2>1. /\ UNCHANGED child /\ models' \in {"missing", "empty", "complete"}
        /\ writer' \subseteq Launchers /\ serves' \subseteq Launchers
    BY <1>a, <1>1 DEF BeginMain, LauncherTypeOK
  <2>2. step[l] = "begin" /\ \E s \in {"client", "configure", "ended"} :
          /\ step' = [step EXCEPT ![l] = s]
          /\ mode[l] = "client" <=> s = "client"
    <3>1. CASE mode[l] = "client"
      BY <1>1, <3>1 DEF BeginMain
    <3>2. CASE mode[l] # "client"
      BY <1>1, <3>2 DEF BeginMain
    <3> QED
      BY <3>1, <3>2
  <2>3. PICK s \in {"client", "configure", "ended"} :
          step' = [step EXCEPT ![l] = s] /\ (mode[l] = "client" <=> s = "client")
    BY <2>2
  <2>4. s \in Steps
    BY DEF Steps
  <2> QED
    BY <1>1, <2>1, <2>2, <2>3, <2>4, LauncherPlainStep
<1>2. ASSUME UNCHANGED launchVars, NEW l \in Launchers, ConfigureModel(l) PROVE LauncherInv'
  <2>1. /\ UNCHANGED child /\ models' \in {"missing", "empty", "complete"}
        /\ writer' \subseteq Launchers /\ serves' \subseteq Launchers
    BY <1>a, <1>2 DEF ConfigureModel, LauncherTypeOK
  <2>2. step[l] = "configure" /\ mode[l] # "client"
    BY <1>2 DEF ConfigureModel, LauncherInv
  <2>3. \E s \in {"configure", "settings", "ended"} : step' = [step EXCEPT ![l] = s]
    <3>1. step = [step EXCEPT ![l] = "configure"]
      BY <1>a, <2>2 DEF LauncherTypeOK
    <3> QED
      BY <1>2, <3>1 DEF ConfigureModel
  <2>4. PICK s \in {"configure", "settings", "ended"} : step' = [step EXCEPT ![l] = s]
    BY <2>3
  <2>5. s \in Steps
    BY DEF Steps
  <2> QED
    BY <1>2, <2>1, <2>2, <2>4, <2>5, LauncherPlainStep
<1>3. ASSUME UNCHANGED launchVars, NEW l \in Launchers, LoadSettings(l) PROVE LauncherInv'
  <2>1. /\ UNCHANGED child /\ models' \in {"missing", "empty", "complete"}
        /\ writer' \subseteq Launchers /\ serves' \subseteq Launchers
    BY <1>a, <1>3 DEF LoadSettings, LauncherTypeOK
  <2>2. step[l] = "settings" /\ mode[l] # "client"
    BY <1>3 DEF LoadSettings, LauncherInv
  <2>3. PICK s \in {"llama", "ended"} : step' = [step EXCEPT ![l] = s]
    BY <1>3 DEF LoadSettings
  <2>4. s \in Steps
    BY DEF Steps
  <2> QED
    BY <1>3, <2>1, <2>2, <2>3, <2>4, LauncherPlainStep
<1>4. ASSUME UNCHANGED launchVars, NEW l \in Launchers, EnsureLlama(l) PROVE LauncherInv'
  <2>1. /\ models' \in {"missing", "empty", "complete"}
        /\ writer' \subseteq Launchers /\ serves' \subseteq Launchers
    BY <1>a, <1>4 DEF EnsureLlama, LauncherTypeOK
  <2>2. step[l] = "llama" /\ mode[l] # "client"
    BY <1>4 DEF EnsureLlama, LauncherInv
  <2>3. PICK s \in {"core", "cleanup"} : step' = [step EXCEPT ![l] = s]
    BY <1>4 DEF EnsureLlama
  <2>4. s \in Steps
    BY DEF Steps
  <2>5. CASE UNCHANGED child
    BY <1>4, <2>1, <2>2, <2>3, <2>4, <2>5, LauncherPlainStep
  <2>6. CASE StartProcess(l, "llama")
    <3> DEFINE mine == [child[l] EXCEPT !["llama"] = "starting"]
    <3>1. mine \in [Kinds -> ChildStates] /\ child' = [child EXCEPT ![l] = mine]
      BY <1>a, <2>6 DEF LauncherTypeOK, StartProcess, ChildStates
    <3> HIDE DEF mine
    <3> QED
      BY <1>4, <2>1, <2>2, <2>3, <2>4, <3>1, LauncherStep
  <2> QED
    BY <1>4, <2>5, <2>6 DEF EnsureLlama
<1>5. ASSUME UNCHANGED launchVars, NEW l \in Launchers, EnsureCore(l) PROVE LauncherInv'
  <2>1. /\ models' \in {"missing", "empty", "complete"}
        /\ writer' \subseteq Launchers /\ serves' \subseteq Launchers
    BY <1>a, <1>5 DEF EnsureCore, LauncherTypeOK
  <2>2. step[l] = "core" /\ mode[l] # "client"
    BY <1>5 DEF EnsureCore, LauncherInv
  <2>3. PICK s \in {"client", "wait core", "wait llama"} : step' = [step EXCEPT ![l] = s]
    BY <1>5 DEF EnsureCore
  <2>4. s \in Steps
    BY DEF Steps
  <2>5. CASE UNCHANGED child
    BY <1>5, <2>1, <2>2, <2>3, <2>4, <2>5, LauncherPlainStep
  <2>6. CASE StartProcess(l, "core")
    <3> DEFINE mine == [child[l] EXCEPT !["core"] = "starting"]
    <3>1. mine \in [Kinds -> ChildStates] /\ child' = [child EXCEPT ![l] = mine]
      BY <1>a, <2>6 DEF LauncherTypeOK, StartProcess, ChildStates
    <3> HIDE DEF mine
    <3> QED
      BY <1>5, <2>1, <2>2, <2>3, <2>4, <3>1, LauncherStep
  <2> QED
    BY <1>5, <2>5, <2>6 DEF EnsureCore
<1>6. ASSUME UNCHANGED launchVars, NEW l \in Launchers, WaitForServer(l) \/ WaitForLlama(l)
      PROVE LauncherInv'
  <2>1. /\ UNCHANGED child /\ models' \in {"missing", "empty", "complete"}
        /\ writer' \subseteq Launchers /\ serves' \subseteq Launchers
    BY <1>a, <1>6 DEF WaitForServer, WaitForLlama, WaitFor, LauncherTypeOK
  <2>2. step[l] \in {"wait core", "wait llama"}
    BY <1>6 DEF WaitForServer, WaitForLlama, WaitFor
  <2>3. mode[l] # "client"
    BY <2>2 DEF LauncherInv
  <2>4. \E s \in {"wait llama", "client", "cleanup"} : step' = [step EXCEPT ![l] = s]
    BY <1>6 DEF WaitForServer, WaitForLlama, WaitFor
  <2>5. PICK s \in {"wait llama", "client", "cleanup"} : step' = [step EXCEPT ![l] = s]
    BY <2>4
  <2>6. s \in Steps
    BY DEF Steps
  <2> QED
    BY <1>6, <2>1, <2>3, <2>5, <2>6, LauncherPlainStep
<1>7. ASSUME UNCHANGED launchVars, NEW l \in Launchers, ForegroundEnds(l) \/ Interrupted(l)
      PROVE LauncherInv'
  <2>1. /\ models' \in {"missing", "empty", "complete"}
        /\ writer' \subseteq Launchers /\ serves' \subseteq Launchers
    BY <1>a, <1>7 DEF ForegroundEnds, Interrupted, LauncherTypeOK
  <2>2. PICK s \in {"ended", "cleanup"} : /\ step' = [step EXCEPT ![l] = s]
                                          /\ mode[l] = "client" <=> s = "ended"
    BY <1>7 DEF ForegroundEnds, Interrupted
  <2>3. s \in Steps
    BY DEF Steps
  <2>4. CASE UNCHANGED child
    BY <1>7, <2>1, <2>2, <2>3, <2>4, LauncherPlainStep
  <2>5. CASE child' # child
    <3> DEFINE mine == [child[l] EXCEPT !["core"] = "dead"]
    <3>1. child' = [child EXCEPT ![l] = mine] /\ mode[l] = "server"
      BY <1>7, <2>5 DEF ForegroundEnds, Interrupted
    <3>2. mine \in [Kinds -> ChildStates]
      BY <1>a DEF LauncherTypeOK, ChildStates
    <3> HIDE DEF mine
    <3>3. s = "cleanup"
      BY <2>2, <3>1
    <3> QED
      BY <1>7, <2>1, <2>3, <2>2, <3>1, <3>2, <3>3, LauncherStep
  <2> QED
    BY <2>4, <2>5
<1>8. ASSUME UNCHANGED launchVars, NEW l \in Launchers, Cleanup(l) PROVE LauncherInv'
  <2>1. /\ models' \in {"missing", "empty", "complete"}
        /\ writer' \subseteq Launchers /\ serves' \subseteq Launchers
        /\ step' = [step EXCEPT ![l] = "ended"]
    BY <1>a, <1>8 DEF Cleanup, LauncherTypeOK
  <2>2. "ended" \in Steps /\ mode[l] # "client"
    BY <1>8 DEF Steps, Cleanup, LauncherInv
  <2>3. CASE l \in keeps /\ mode[l] = "all"
    <3>1. child[l] \in [Kinds -> ChildStates] /\ child' = [child EXCEPT ![l] = child[l]]
      BY <1>a, <1>8, <2>3 DEF LauncherTypeOK, ChildStates, Cleanup
    <3> QED
      BY <1>8, <2>1, <2>2, <2>3, <3>1, LauncherStep
  <2>4. CASE ~(l \in keeps /\ mode[l] = "all")
    <3> DEFINE mine == [k \in Kinds |-> IF Alive(l, k) THEN "dead" ELSE child[l][k]]
    <3>1. child' = [child EXCEPT ![l] = mine]
      BY <1>8, <2>4 DEF Cleanup
    <3>2. mine \in [Kinds -> ChildStates] /\ \A k \in Kinds : mine[k] \notin {"starting", "ready"}
      BY <1>a DEF LauncherTypeOK, ChildStates, Alive
    <3> HIDE DEF mine
    <3> QED
      BY <1>8, <2>1, <2>2, <3>1, <3>2, LauncherStep
  <2> QED
    BY <2>3, <2>4
<1>9. ASSUME UNCHANGED launchVars, NEW l \in Launchers, NEW k \in Kinds,
             ProcessStarts(l, k) \/ ProcessDies(l, k)
      PROVE LauncherInv'
  <2>1. /\ models' \in {"missing", "empty", "complete"}
        /\ writer' \subseteq Launchers /\ serves' \subseteq Launchers
        /\ UNCHANGED step
    BY <1>a, <1>9 DEF ProcessStarts, ProcessDies, LauncherTypeOK
  <2>2. PICK state \in {"dead", "ready"} : child' = [child EXCEPT ![l][k] = state]
    BY <1>9 DEF ProcessStarts, ProcessDies
  <2>3. child[l][k] \in {"starting", "ready"}
    BY <1>9 DEF ProcessStarts, ProcessDies, Alive
  <2> DEFINE mine == [child[l] EXCEPT ![k] = state]
  <2>4. mine \in [Kinds -> ChildStates] /\ child' = [child EXCEPT ![l] = mine]
        /\ \A other \in Kinds \ {k} : mine[other] = child[l][other]
    BY <1>a, <2>2 DEF LauncherTypeOK, ChildStates
  <2> HIDE DEF mine
  <2>5. step' = [step EXCEPT ![l] = step[l]] /\ step[l] \in Steps
    BY <1>a, <2>1 DEF LauncherTypeOK
  <2>6. /\ step[l] \notin {"begin", "configure", "settings"} /\ mode[l] # "client"
        /\ step[l] = "ended" => l \in keeps /\ mode[l] = "all"
    BY <2>3 DEF LauncherInv, LauncherLeavesNothing, Alive
  <2> QED
    BY <1>9, <2>1, <2>4, <2>5, <2>6, LauncherStep
<1> QED
  BY <1>0, <1>1, <1>2, <1>3, <1>4, <1>5, <1>6, <1>7, <1>8, <1>9 DEF LauncherNext

LEMMA LauncherInvariant == LauncherSpec => []LauncherInv
BY LauncherInvInit, LauncherInvNext, PTL DEF LauncherSpec

\* The steps of the launchers, their processes and models.yaml keep their types.
THEOREM LauncherTypes == LauncherSpec => []LauncherTypeOK
<1>1. LauncherInv => LauncherTypeOK
  BY DEF LauncherInv
<1> QED
  BY <1>1, LauncherInvariant, PTL

\* For any number of launchers: what one that has ended started runs on only if
\* it was told to keep it.
THEOREM LauncherCleansUp == LauncherSpec => []LauncherLeavesNothing
<1>1. LauncherInv => LauncherLeavesNothing
  BY DEF LauncherInv
<1> QED
  BY <1>1, LauncherInvariant, PTL

-----------------------------------------------------------------------------
(* The microphone: remainders and sequences.                               *)

\* The remainder of a number that is at most one divisor out of its range.
LEMMA SmallRemainder ==
  ASSUME NEW c \in Nat \ {0}, NEW a \in Int, 0 <= a + c, a < 2 * c
  PROVE  /\ a % c = IF a < 0 THEN a + c ELSE IF a < c THEN a ELSE a - c
         /\ a % c \in 0 .. c - 1
<1>1. CASE a < 0
  BY <1>1
<1>2. CASE 0 <= a /\ a < c
  BY <1>2
<1>3. CASE c <= a
  BY <1>3
<1> QED
  BY <1>1, <1>2, <1>3

LEMMA RemainderRange ==
  ASSUME NEW c \in Nat \ {0}, NEW a \in Int
  PROVE  a % c \in 0 .. c - 1
OBVIOUS

LEMMA FunctionAsSequence ==
  ASSUME NEW S, NEW n \in Nat, NEW f \in [1 .. n -> S]
  PROVE  f \in Seq(S) /\ Len(f) = n /\ DOMAIN f = 1 .. n
OBVIOUS

\* A sequence is a suffix when its elements are the last ones of the other.
LEMMA SuffixByElements ==
  ASSUME NEW S, NEW s \in Seq(S), NEW t \in Seq(S), Len(s) <= Len(t),
         \A i \in 1 .. Len(s) : s[i] = t[Len(t) - Len(s) + i]
  PROVE  IsSuffix(s, t)
<1> DEFINE m == Len(s)
           n == Len(t)
           rs == [i \in 1 .. m |-> s[(m - i) + 1]]
           rt == [i \in 1 .. n |-> t[(n - i) + 1]]
<1>1. m \in Nat /\ n \in Nat /\ m <= n
  OBVIOUS
<1>2. rs \in [1 .. m -> S] /\ rt \in [1 .. n -> S]
  <2>1. \A i \in 1 .. m : s[i] \in S
    OBVIOUS
  <2>2. \A i \in 1 .. n : t[i] \in S
    OBVIOUS
  <2>3. \A i \in 1 .. m : (m - i) + 1 \in 1 .. m
    BY <1>1
  <2>4. \A i \in 1 .. n : (n - i) + 1 \in 1 .. n
    BY <1>1
  <2> HIDE DEF m, n
  <2> QED
    BY <2>1, <2>2, <2>3, <2>4
<1>3. \A i \in 1 .. m : rs[i] = rt[i]
  <2>1. ASSUME NEW i \in 1 .. m PROVE rs[i] = rt[i]
    <3>1. (m - i) + 1 \in 1 .. m /\ n - m + ((m - i) + 1) = (n - i) + 1 /\ i \in 1 .. n
      BY <1>1
    <3>2. s[(m - i) + 1] = t[n - m + ((m - i) + 1)]
      BY <3>1
    <3> QED
      BY <3>1, <3>2
  <2> QED
    BY <2>1
<1>4. Reverse(s) = rs /\ Reverse(t) = rt
  BY DEF Reverse
<1> HIDE DEF m, n, rs, rt
<1>5. rs \in Seq(S) /\ Len(rs) = m /\ rt \in Seq(S) /\ Len(rt) = n
  BY <1>1, <1>2, FunctionAsSequence
<1>6. \A i \in 1 .. m : rs[i] \in S /\ rt[i] \in S
  BY <1>1, <1>2
<1>7. SubSeq(rs, 1, m) = SubSeq(rt, 1, m)
  <2>1. /\ SubSeq(rs, 1, m) \in Seq(S) /\ Len(SubSeq(rs, 1, m)) = m
        /\ \A i \in 1 .. m : SubSeq(rs, 1, m)[i] = rs[i]
    BY <1>1, <1>6, SubSeqProperties
  <2>2. /\ SubSeq(rt, 1, m) \in Seq(S) /\ Len(SubSeq(rt, 1, m)) = m
        /\ \A i \in 1 .. m : SubSeq(rt, 1, m)[i] = rt[i]
    BY <1>1, <1>6, SubSeqProperties
  <2> QED
    BY <1>3, <2>1, <2>2, SeqEqual
<1> QED
  BY <1>1, <1>4, <1>5, <1>7 DEF IsSuffix, IsPrefix

-----------------------------------------------------------------------------
(* The microphone: its queue and its ring buffer.                          *)

Samples == 1 .. MaxSamples
Increasing(s) == \A i, j \in 1 .. Len(s) : i < j => s[i] < s[j]
UpTo(s, n) == \A i \in 1 .. Len(s) : s[i] <= n
Before(s, t) == \A i \in 1 .. Len(s), j \in 1 .. Len(t) : s[i] < t[j]

\* The chunks of a queue are in order, after h and p and not beyond n.
Queued(q, h, p, n) ==
  \A i \in 1 .. Len(q) :
    /\ Increasing(q[i]) /\ UpTo(q[i], n) /\ Before(h, q[i]) /\ Before(p, q[i])
    /\ \A j \in i + 1 .. Len(q) : Before(q[i], q[j])

\* The buffer holds the last samples pushed, backwards from its write index.
RingHolds(buffer, index, size, samples) ==
  /\ size = IF Len(samples) < RingCapacity THEN Len(samples) ELSE RingCapacity
  /\ \A k \in 1 .. size : buffer[(index - k) % RingCapacity] = samples[Len(samples) + 1 - k]

QueueInv ==
  /\ chunks \in Seq(Seq(Samples)) /\ hand \in Seq(Samples)
  /\ Queued(chunks, hand, pushed, captured)
  /\ Increasing(hand) /\ UpTo(hand, captured) /\ Before(pushed, hand)
  /\ worker # "busy" => hand = << >>
  /\ capture = "off" => worker = "none" /\ chunks = << >> /\ pushed = << >>
  /\ capture = "on" =>
       /\ \A i \in 1 .. Len(chunks) : chunks[i] # << >>
       /\ chunks # << >> => LET last == chunks[Len(chunks)] IN last[Len(last)] = captured

RingInv ==
  /\ pushed \in Seq(Samples) /\ Increasing(pushed) /\ UpTo(pushed, captured)
  /\ RingHolds(ring, writeIndex, ringSize, pushed)
  /\ \A i, j \in DOMAIN analysed : i < j => analysed[i] < analysed[j]

CaptureInv == RealtimeTypeOK /\ QueueInv /\ RingInv

\* An index after i is the last one or lies between i and the last one.
LEMMA BeforeTheLast ==
  \A m \in Nat : \A i \in 1 .. m : \A j \in i + 1 .. m + 1 :
    j = m + 1 \/ (j \in i + 1 .. m /\ j \in 1 .. m)
OBVIOUS

\* A chunk put at the end of the queue, which loses its oldest one when full.
LEMMA PutKeepsOrder ==
  ASSUME chunks \in Seq(Seq(Samples)), Len(chunks) <= QueueCapacity,
         NEW h \in Seq(Samples), NEW p \in Seq(Samples), NEW n \in Nat,
         Queued(chunks, h, p, n),
         NEW c \in Seq(Samples), Increasing(c), UpTo(c, n), Before(h, c), Before(p, c),
         \A i \in 1 .. Len(chunks) : Before(chunks[i], c),
         Put(c)
  PROVE  /\ chunks' \in Seq(Seq(Samples)) /\ Len(chunks') <= QueueCapacity
         /\ Queued(chunks', h, p, n)
         /\ chunks' # << >> /\ chunks'[Len(chunks')] = c
         /\ \A i \in 1 .. Len(chunks') :
              chunks'[i] = c \/ \E j \in 1 .. Len(chunks) : chunks'[i] = chunks[j]
<1> USE RealtimeAssumption
<1>1. PICK a \in {0, 1} :
        /\ chunks' \in Seq(Seq(Samples)) /\ Len(chunks') = Len(chunks) - a + 1
        /\ Len(chunks) - a + 1 <= QueueCapacity /\ a <= Len(chunks)
        /\ \A i \in 1 .. Len(chunks) - a : chunks'[i] = chunks[i + a]
        /\ chunks'[Len(chunks) - a + 1] = c
  <2>1. CASE Len(chunks) < QueueCapacity
    <3>1. chunks' = Append(chunks, c)
      BY <2>1 DEF Put
    <3> QED
      BY <2>1, <3>1
  <2>2. CASE ~(Len(chunks) < QueueCapacity)
    <3>1. chunks' = Append(Tail(chunks), c) /\ chunks # << >>
      BY <2>2 DEF Put
    <3>2. /\ Tail(chunks) \in Seq(Seq(Samples)) /\ Len(Tail(chunks)) = Len(chunks) - 1
          /\ \A i \in 1 .. Len(chunks) - 1 : Tail(chunks)[i] = chunks[i + 1]
      BY <3>1, HeadTailProperties
    <3> DEFINE q == Tail(chunks)
    <3> HIDE DEF q
    <3>3. /\ q \in Seq(Seq(Samples)) /\ Len(q) = Len(chunks) - 1
          /\ \A i \in 1 .. Len(chunks) - 1 : q[i] = chunks[i + 1]
      BY <3>2 DEF q
    <3>4. chunks' = Append(q, c)
      BY <3>1 DEF q
    <3>5. /\ chunks' \in Seq(Seq(Samples)) /\ Len(chunks') = Len(chunks)
          /\ chunks'[Len(chunks)] = c
      BY <3>3, <3>4
    <3>6. \A i \in 1 .. Len(chunks) - 1 : chunks'[i] = chunks[i + 1]
      BY <3>3, <3>4
    <3>7. Len(chunks) - 1 + 1 = Len(chunks) /\ 1 <= Len(chunks)
      BY <3>1
    <3> QED
      BY <3>5, <3>6, <3>7
  <2> QED
    BY <2>1, <2>2
<1> DEFINE m == Len(chunks) - a
<1>2. m \in Nat /\ Len(chunks') = m + 1 /\ chunks'[m + 1] = c
      /\ \A i \in 1 .. m : chunks'[i] = chunks[i + a] /\ i + a \in 1 .. Len(chunks)
  <2>1. Len(chunks) \in Nat
    OBVIOUS
  <2>2. m \in Nat /\ \A i \in 1 .. m : i + a \in 1 .. Len(chunks)
    BY <1>1, <2>1
  <2> QED
    BY <1>1, <2>2
<1>3. \A i \in 1 .. m : \A j \in i + 1 .. m : j + a \in i + a + 1 .. Len(chunks)
  BY <1>1
<1>9. \A i \in 1 .. m : \A j \in i + 1 .. m + 1 :
        j = m + 1 \/ (j \in i + 1 .. m /\ j \in 1 .. m)
  BY BeforeTheLast, <1>2
<1> HIDE DEF m
<1>4. \A i \in 1 .. m + 1 : i = m + 1 \/ i \in 1 .. m
  BY <1>2
<1>5. Queued(chunks', h, p, n)
  <2>1. ASSUME NEW i \in 1 .. m
        PROVE  /\ Increasing(chunks'[i]) /\ UpTo(chunks'[i], n)
               /\ Before(h, chunks'[i]) /\ Before(p, chunks'[i])
               /\ \A j \in i + 1 .. m + 1 : Before(chunks'[i], chunks'[j])
    <3>1. chunks'[i] = chunks[i + a] /\ i + a \in 1 .. Len(chunks)
      BY <1>2
    <3>2. ASSUME NEW j \in i + 1 .. m + 1 PROVE Before(chunks'[i], chunks'[j])
      <4>1. CASE j = m + 1
        BY <1>2, <3>1, <4>1
      <4>2. CASE j # m + 1
        <5>1. j \in i + 1 .. m /\ j \in 1 .. m
          BY <1>9, <4>2, Zenon
        <5>2. chunks'[j] = chunks[j + a] /\ j + a \in i + a + 1 .. Len(chunks)
          BY <1>2, <1>3, <5>1
        <5> QED
          BY <3>1, <5>2 DEF Queued
      <4> QED
        BY <4>1, <4>2
    <3> QED
      BY <3>1, <3>2 DEF Queued
  <2>2. /\ Increasing(chunks'[m + 1]) /\ UpTo(chunks'[m + 1], n)
        /\ Before(h, chunks'[m + 1]) /\ Before(p, chunks'[m + 1])
        /\ \A j \in m + 1 + 1 .. m + 1 : Before(chunks'[m + 1], chunks'[j])
    BY <1>2
  <2>3. ASSUME NEW i \in 1 .. m + 1
        PROVE  /\ Increasing(chunks'[i]) /\ UpTo(chunks'[i], n)
               /\ Before(h, chunks'[i]) /\ Before(p, chunks'[i])
               /\ \A j \in i + 1 .. m + 1 : Before(chunks'[i], chunks'[j])
    <3>1. CASE i = m + 1
      BY <2>2, <3>1
    <3>2. CASE i # m + 1
      BY <1>4, <2>1, <3>2
    <3> QED
      BY <3>1, <3>2
  <2> QED
    BY <1>2, <2>3 DEF Queued
<1>6. \A i \in 1 .. Len(chunks') :
        chunks'[i] = c \/ \E j \in 1 .. Len(chunks) : chunks'[i] = chunks[j]
  BY <1>2, <1>4
<1>7. Len(chunks') <= QueueCapacity /\ chunks' # << >> /\ chunks'[Len(chunks')] = c
  BY <1>1, <1>2 DEF m
<1> QED
  BY <1>1, <1>5, <1>6, <1>7

\* What latest() returns of a buffer that holds the last samples pushed.
LEMMA LatestIsSuffix ==
  ASSUME NEW buffer, NEW index \in 0 .. RingCapacity - 1, NEW size \in 0 .. RingCapacity,
         NEW samples \in Seq(Samples), RingHolds(buffer, index, size, samples),
         NEW count \in 0 .. RingCapacity
  PROVE  /\ IsSuffix(LatestOf(buffer, index, size, count), samples)
         /\ Len(LatestOf(buffer, index, size, count)) # count =>
              LatestOf(buffer, index, size, count) = samples
         /\ Increasing(samples) =>
              \A i, j \in DOMAIN LatestOf(buffer, index, size, count) :
                i < j => LatestOf(buffer, index, size, count)[i]
                           < LatestOf(buffer, index, size, count)[j]
<1> USE RealtimeAssumption
<1> DEFINE n == IF count < size THEN count ELSE size
           seen == [i \in 1 .. n |-> buffer[(index - n + i - 1) % RingCapacity]]
           l == Len(samples)
<1>1. n \in Nat /\ n <= size /\ l \in Nat /\ size <= l /\ n \in 0 .. RingCapacity
  BY DEF RingHolds
<1>2. LatestOf(buffer, index, size, count) = seen
  BY DEF LatestOf
<1>3. \A k \in 1 .. size : buffer[(index - k) % RingCapacity] = samples[l + 1 - k]
  BY DEF RingHolds
<1>4. n = count \/ (n = size /\ size = l)
  BY DEF RingHolds
<1>5. \A i \in 1 .. l : samples[i] \in Samples
  OBVIOUS
<1> HIDE DEF n, l
<1>6. ASSUME NEW i \in 1 .. n PROVE seen[i] = samples[l - n + i] /\ l - n + i \in 1 .. l
  <2>1. PICK k \in 1 .. size : k = n - i + 1
    BY <1>1
  <2>2. index - n + i - 1 = index - k /\ l + 1 - k = l - n + i
    BY <1>1, <2>1
  <2>3. l - n + i \in 1 .. l
    BY <1>1
  <2> QED
    BY <1>3, <2>1, <2>2, <2>3
<1> HIDE DEF seen
<1>7. seen \in Seq(Samples) /\ Len(seen) = n /\ DOMAIN seen = 1 .. n
  <2>1. seen \in [1 .. n -> Samples]
    BY <1>5, <1>6 DEF seen
  <2> QED
    BY <1>1, <2>1, FunctionAsSequence
<1>8. IsSuffix(seen, samples)
  <2>1. Len(seen) <= Len(samples)
    BY <1>1, <1>7 DEF l
  <2>2. \A i \in 1 .. Len(seen) : seen[i] = samples[Len(samples) - Len(seen) + i]
    BY <1>6, <1>7 DEF l
  <2> QED
    BY <1>7, <2>1, <2>2, SuffixByElements
<1>9. Len(seen) = count \/ seen = samples
  <2>1. CASE n = count
    BY <1>7, <2>1
  <2>2. CASE n = size /\ size = l
    <3>1. \A i \in 1 .. n : seen[i] = samples[i]
      BY <1>1, <1>6, <2>2
    <3> QED
      BY <1>7, <2>2, <3>1, SeqEqual DEF l
  <2> QED
    BY <1>4, <2>1, <2>2
<1>10. Increasing(samples) => \A i, j \in DOMAIN seen : i < j => seen[i] < seen[j]
  <2>1. ASSUME Increasing(samples), NEW i \in 1 .. n, NEW j \in 1 .. n, i < j
        PROVE  seen[i] < seen[j]
    <3>1. /\ seen[i] = samples[l - n + i] /\ l - n + i \in 1 .. l
          /\ seen[j] = samples[l - n + j] /\ l - n + j \in 1 .. l
      BY <1>6
    <3>2. l - n + i < l - n + j
      BY <1>1, <2>1
    <3>3. samples[l - n + i] < samples[l - n + j]
      BY <2>1, <3>1, <3>2 DEF Increasing, l
    <3> QED
      BY <3>1, <3>3
  <2> QED
    BY <1>7, <2>1
<1> QED
  BY <1>2, <1>8, <1>9, <1>10

\* A chunk shorter than the buffer, written around its end.
LEMMA ShortChunkInRing ==
  ASSUME RealtimeTypeOK, pushed \in Seq(Samples),
         RingHolds(ring, writeIndex, ringSize, pushed),
         NEW c \in Seq(Samples), Len(c) < RingCapacity, AppendToRing(c)
  PROVE  /\ ring' \in [0 .. RingCapacity - 1 -> 0 .. MaxSamples]
         /\ writeIndex' \in 0 .. RingCapacity - 1 /\ ringSize' \in 0 .. RingCapacity
         /\ RingHolds(ring', writeIndex', ringSize', pushed \o c)
<1> USE RealtimeAssumption
<1> DEFINE l == Len(pushed)
           m == Len(c)
           all == pushed \o c
           at(i) == (i - writeIndex) % RingCapacity
<1>1. /\ l \in Nat /\ m \in Nat /\ m < RingCapacity
      /\ ring \in [0 .. RingCapacity - 1 -> 0 .. MaxSamples]
      /\ writeIndex \in 0 .. RingCapacity - 1 /\ RingCapacity \in Nat \ {0}
  BY DEF RealtimeTypeOK
<1>2. /\ Len(all) = l + m
      /\ \A i \in 1 .. l + m : all[i] = IF i <= l THEN pushed[i] ELSE c[i - l]
  BY ConcatProperties
<1>3. /\ ring' = [i \in DOMAIN ring |-> IF at(i) < m THEN c[at(i) + 1] ELSE ring[i]]
      /\ writeIndex' = (writeIndex + m) % RingCapacity
      /\ ringSize' = IF ringSize + m < RingCapacity THEN ringSize + m ELSE RingCapacity
  BY DEF AppendToRing
<1>4. /\ ringSize = IF l < RingCapacity THEN l ELSE RingCapacity
      /\ \A k \in 1 .. ringSize : ring[(writeIndex - k) % RingCapacity] = pushed[l + 1 - k]
  BY DEF RingHolds
<1>5. \A i \in 1 .. m : c[i] \in 0 .. MaxSamples
  <2>1. \A i \in 1 .. m : c[i] \in Samples
    OBVIOUS
  <2> QED
    BY <2>1 DEF Samples
<1> HIDE DEF l, m, all
<1>6. \A i \in 0 .. RingCapacity - 1 : at(i) \in 0 .. RingCapacity - 1
  <2>1. ASSUME NEW i \in 0 .. RingCapacity - 1 PROVE at(i) \in 0 .. RingCapacity - 1
    <3>1. i - writeIndex \in Int
      BY <1>1
    <3> QED
      BY <1>1, <3>1, RemainderRange
  <2> QED
    BY <2>1
<1>7. ring' \in [0 .. RingCapacity - 1 -> 0 .. MaxSamples]
  <2>1. ASSUME NEW i \in 0 .. RingCapacity - 1
        PROVE  (IF at(i) < m THEN c[at(i) + 1] ELSE ring[i]) \in 0 .. MaxSamples
    <3>1. at(i) \in 0 .. RingCapacity - 1
      BY <1>6
    <3> HIDE DEF at
    <3>2. CASE at(i) < m
      <4>1. at(i) + 1 \in 1 .. m
        <5>1. PICK x \in 0 .. RingCapacity - 1 : x = at(i)
          BY <3>1, Zenon
        <5>2. x \in Nat /\ x < m /\ m \in Nat
          BY <1>1, <3>2, <5>1
        <5>3. x + 1 \in 1 .. m
          BY <5>2
        <5> QED
          BY <5>1, <5>3, Zenon
      <4> QED
        BY <1>5, <3>2, <4>1
    <3>3. CASE ~(at(i) < m)
      BY <1>1, <3>3
    <3> QED
      BY <3>2, <3>3
  <2> HIDE DEF at
  <2> QED
    BY <1>1, <1>3, <2>1
<1>8. writeIndex' \in 0 .. RingCapacity - 1 /\ ringSize' \in 0 .. RingCapacity
  <2>1. writeIndex + m \in Int
    BY <1>1
  <2>2. writeIndex' \in 0 .. RingCapacity - 1
    BY <1>1, <1>3, <2>1, RemainderRange
  <2>3. ringSize \in 0 .. RingCapacity
    BY <1>1, <1>4
  <2>4. ringSize' \in 0 .. RingCapacity
    BY <1>1, <1>3, <2>3
  <2> QED
    BY <2>2, <2>4
<1>9. ringSize' = IF l + m < RingCapacity THEN l + m ELSE RingCapacity
  BY <1>1, <1>3, <1>4
<1>a. writeIndex' = IF writeIndex + m < RingCapacity THEN writeIndex + m
                    ELSE writeIndex + m - RingCapacity
  <2>1. /\ writeIndex + m \in Int /\ 0 <= writeIndex + m + RingCapacity
        /\ writeIndex + m < 2 * RingCapacity /\ ~(writeIndex + m < 0)
    BY <1>1
  <2>2. PICK x \in Int : x = writeIndex + m
    BY <2>1, Zenon
  <2>3. 0 <= x + RingCapacity /\ x < 2 * RingCapacity /\ ~(x < 0)
    BY <2>1, <2>2
  <2>4. x % RingCapacity = IF x < 0 THEN x + RingCapacity
                           ELSE IF x < RingCapacity THEN x ELSE x - RingCapacity
    BY <2>3, SmallRemainder
  <2>5. writeIndex' = x % RingCapacity
    BY <1>3, <2>2, Zenon
  <2> QED
    BY <1>1, <2>2, <2>3, <2>4, <2>5
<1>10. ASSUME NEW k \in 1 .. ringSize'
       PROVE  ring'[(writeIndex' - k) % RingCapacity] = all[l + m + 1 - k]
  <2>1. k \in 1 .. RingCapacity /\ k <= l + m
    BY <1>1, <1>9
  <2>a. PICK v \in 0 .. RingCapacity - 1 : v = writeIndex'
    BY <1>8, Zenon
  <2> DEFINE here == (v - k) % RingCapacity
             w == writeIndex + m - k
  <2>2. /\ here = (IF w < 0 THEN w + RingCapacity ELSE IF w < RingCapacity THEN w ELSE w - RingCapacity)
        /\ here \in 0 .. RingCapacity - 1
    <3>2. v - k \in Int /\ 0 <= v - k + RingCapacity /\ v - k < 2 * RingCapacity
      BY <1>1, <2>1
    <3>3. /\ here = IF v - k < 0 THEN v - k + RingCapacity
                    ELSE IF v - k < RingCapacity THEN v - k ELSE v - k - RingCapacity
          /\ here \in 0 .. RingCapacity - 1
      BY <3>2, SmallRemainder
    <3> HIDE DEF here
    <3> QED
      BY <1>1, <1>a, <2>1, <2>a, <3>3
  <2> HIDE DEF here
  <2>3. at(here) = IF k <= m THEN m - k ELSE RingCapacity + m - k
    <3>1. /\ here - writeIndex \in Int /\ 0 <= here - writeIndex + RingCapacity
          /\ here - writeIndex < 2 * RingCapacity
      BY <1>1, <2>2
    <3>2. at(here) = IF here - writeIndex < 0 THEN here - writeIndex + RingCapacity
                     ELSE IF here - writeIndex < RingCapacity THEN here - writeIndex
                     ELSE here - writeIndex - RingCapacity
      BY <3>1, SmallRemainder
    <3> HIDE DEF at
    <3> QED
      BY <1>1, <2>1, <2>2, <3>2
  <2> HIDE DEF at
  <2>4. ring'[here] = IF at(here) < m THEN c[at(here) + 1] ELSE ring[here]
    BY <1>1, <1>3, <2>2
  <2>5. CASE k <= m
    <3>1. at(here) < m /\ at(here) + 1 = m - k + 1
      BY <1>1, <2>1, <2>3, <2>5
    <3>2. l + m + 1 - k \in 1 .. l + m /\ ~(l + m + 1 - k <= l) /\ l + m + 1 - k - l = m - k + 1
      BY <1>1, <2>1, <2>5
    <3>3. all[l + m + 1 - k] = c[m - k + 1]
      <4>1. PICK i \in 1 .. l + m : i = l + m + 1 - k
        BY <3>2, Zenon
      <4>2. all[i] = c[i - l]
        BY <1>2, <3>2, <4>1
      <4>3. i - l = m - k + 1
        BY <1>1, <4>1
      <4> QED
        BY <4>1, <4>2, <4>3, Zenon
    <3>4. ring'[here] = c[m - k + 1]
      BY <2>4, <3>1
    <3> QED
      BY <2>a, <3>3, <3>4, Zenon DEF here
  <2>6. CASE ~(k <= m)
    <3>1. ~(at(here) < m)
      BY <1>1, <2>1, <2>3, <2>6
    <3>2. PICK j \in 1 .. ringSize : j = k - m
      <4>1. k - m \in 1 .. ringSize
        BY <1>1, <1>3, <1>4, <2>1, <2>6
      <4> QED
        BY <4>1, Zenon
    <3>3. ring[(writeIndex - j) % RingCapacity] = pushed[l + 1 - j]
      BY <1>4
    <3>a. j \in 1 .. RingCapacity /\ j <= l
      BY <1>1, <1>4
    <3>4. here = (writeIndex - j) % RingCapacity
      <4>1. /\ writeIndex - j \in Int /\ 0 <= writeIndex - j + RingCapacity
            /\ writeIndex - j < 2 * RingCapacity
        BY <1>1, <3>a
      <4>2. writeIndex - j = w
        BY <1>1, <2>1, <3>2
      <4>3. (writeIndex - j) % RingCapacity =
              (IF writeIndex - j < 0 THEN writeIndex - j + RingCapacity
               ELSE IF writeIndex - j < RingCapacity THEN writeIndex - j
               ELSE writeIndex - j - RingCapacity)
        BY <4>1, SmallRemainder
      <4> QED
        BY <2>2, <4>2, <4>3
    <3>5. l + m + 1 - k \in 1 .. l + m /\ l + m + 1 - k <= l /\ l + m + 1 - k = l + 1 - j
      BY <1>1, <3>a, <2>1, <2>6, <3>2
    <3>6. all[l + m + 1 - k] = pushed[l + 1 - j]
      <4>1. PICK i \in 1 .. l + m : i = l + m + 1 - k
        BY <3>5, Zenon
      <4>2. all[i] = pushed[i]
        BY <1>2, <3>5, <4>1
      <4> QED
        BY <3>5, <4>1, <4>2
    <3>7. ring'[here] = ring[here]
      BY <2>4, <3>1
    <3>8. ring[here] = pushed[l + 1 - j]
      BY <3>3, <3>4, Zenon
    <3> QED
      BY <2>a, <3>6, <3>7, <3>8, Zenon DEF here
  <2> QED
    BY <2>5, <2>6
<1>11. RingHolds(ring', writeIndex', ringSize', all)
  BY <1>2, <1>9, <1>10 DEF RingHolds
<1> QED
  BY <1>7, <1>8, <1>11 DEF all

\* A chunk at least as long as the buffer replaces it all.
LEMMA LongChunkInRing ==
  ASSUME RealtimeTypeOK, pushed \in Seq(Samples),
         NEW c \in Seq(Samples), Len(c) >= RingCapacity, AppendToRing(c)
  PROVE  /\ ring' \in [0 .. RingCapacity - 1 -> 0 .. MaxSamples]
         /\ writeIndex' \in 0 .. RingCapacity - 1 /\ ringSize' \in 0 .. RingCapacity
         /\ RingHolds(ring', writeIndex', ringSize', pushed \o c)
<1> USE RealtimeAssumption
<1> DEFINE l == Len(pushed)
           m == Len(c)
           all == pushed \o c
<1>1. l \in Nat /\ m \in Nat /\ m >= RingCapacity /\ RingCapacity \in Nat \ {0}
      /\ DOMAIN ring = 0 .. RingCapacity - 1
  BY DEF RealtimeTypeOK
<1>2. /\ Len(all) = l + m
      /\ \A i \in 1 .. l + m : all[i] = IF i <= l THEN pushed[i] ELSE c[i - l]
  BY ConcatProperties
<1>3. /\ ring' = [i \in DOMAIN ring |-> c[m - RingCapacity + 1 + i]]
      /\ writeIndex' = 0 /\ ringSize' = RingCapacity
  BY DEF AppendToRing
<1>4. \A i \in 1 .. m : c[i] \in 0 .. MaxSamples
  <2>1. \A i \in 1 .. m : c[i] \in Samples
    OBVIOUS
  <2> QED
    BY <2>1 DEF Samples
<1> HIDE DEF l, m, all
<1>5. \A i \in 0 .. RingCapacity - 1 : m - RingCapacity + 1 + i \in 1 .. m
  BY <1>1
<1>6. ring' \in [0 .. RingCapacity - 1 -> 0 .. MaxSamples]
  BY <1>1, <1>3, <1>4, <1>5
<1>7. ASSUME NEW k \in 1 .. RingCapacity
      PROVE  ring'[(0 - k) % RingCapacity] = all[l + m + 1 - k]
  <2>1. /\ 0 - k \in Int /\ 0 <= 0 - k + RingCapacity /\ 0 - k < 2 * RingCapacity
        /\ 0 - k < 0 /\ 0 - k + RingCapacity = RingCapacity - k
    BY <1>1
  <2>2. (0 - k) % RingCapacity = RingCapacity - k
    <3>1. (0 - k) % RingCapacity =
            (IF 0 - k < 0 THEN 0 - k + RingCapacity
             ELSE IF 0 - k < RingCapacity THEN 0 - k ELSE 0 - k - RingCapacity)
      BY <2>1, SmallRemainder
    <3> QED
      BY <2>1, <3>1
  <2>3. RingCapacity - k \in 0 .. RingCapacity - 1
        /\ m - RingCapacity + 1 + (RingCapacity - k) = m + 1 - k
    BY <1>1
  <2>4. ring'[RingCapacity - k] = c[m + 1 - k]
    BY <1>1, <1>3, <2>3
  <2>5. l + m + 1 - k \in 1 .. l + m /\ ~(l + m + 1 - k <= l) /\ l + m + 1 - k - l = m + 1 - k
    BY <1>1
  <2>6. all[l + m + 1 - k] = c[m + 1 - k]
    <3>1. PICK i \in 1 .. l + m : i = l + m + 1 - k
      BY <2>5, Zenon
    <3>2. all[i] = c[i - l]
      BY <1>2, <2>5, <3>1
    <3>3. i - l = m + 1 - k
      BY <1>1, <3>1
    <3> QED
      BY <3>1, <3>2, <3>3, Zenon
  <2> QED
    BY <2>2, <2>4, <2>6
<1>8. RingHolds(ring', 0, RingCapacity, all)
  <2>1. ~(l + m < RingCapacity) /\ Len(all) = l + m
    BY <1>1, <1>2
  <2> QED
    BY <1>7, <2>1, Zenon DEF RingHolds
<1>9. writeIndex' \in 0 .. RingCapacity - 1 /\ ringSize' \in 0 .. RingCapacity
  BY <1>1, <1>3
<1> QED
  BY <1>3, <1>6, <1>8, <1>9, Zenon DEF all

LEMMA CaptureInvInit == RealtimeInit => CaptureInv
<1> SUFFICES ASSUME RealtimeInit PROVE CaptureInv
  OBVIOUS
<1> USE RealtimeAssumption DEF RealtimeInit
<1>1. /\ Len(chunks) = 0 /\ Len(hand) = 0 /\ Len(pushed) = 0 /\ DOMAIN analysed = {}
      /\ chunks \in Seq(Seq(Samples)) /\ hand \in Seq(Samples) /\ pushed \in Seq(Samples)
  OBVIOUS
<1>2. RealtimeTypeOK
  <2>1. ring \in [0 .. RingCapacity - 1 -> 0 .. MaxSamples]
    BY DEF Cleared
  <2> QED
    BY <1>1, <2>1 DEF RealtimeTypeOK
<1>3. RingHolds(ring, writeIndex, ringSize, pushed)
  BY <1>1 DEF RingHolds
<1> QED
  BY <1>1, <1>2, <1>3 DEF CaptureInv, QueueInv, RingInv, Queued, Increasing, UpTo, Before

\* What the ring holds does not change while the ring and the samples do not.
LEMMA RingUntouched ==
  ASSUME RingInv, UNCHANGED <<ring, writeIndex, ringSize, pushed, analysed>>,
         captured' \in Nat, captured \in Nat, captured <= captured'
  PROVE  RingInv'
<1>1. RingHolds(ring, writeIndex, ringSize, pushed)'
  BY DEF RingInv, RingHolds
<1>2. UpTo(pushed, captured)'
  <2>1. \A i \in 1 .. Len(pushed) : pushed[i] \in Samples
    BY DEF RingInv
  <2> QED
    BY <2>1, RealtimeAssumption DEF RingInv, UpTo, Samples
<1> QED
  BY <1>1, <1>2 DEF RingInv, Increasing

LEMMA CaptureInvNext == CaptureInv /\ [RealtimeNext]_realtimeVars => CaptureInv'
<1> SUFFICES ASSUME CaptureInv, [RealtimeNext]_realtimeVars PROVE CaptureInv'
  OBVIOUS
<1> USE RealtimeAssumption
<1>a. RealtimeTypeOK /\ QueueInv /\ RingInv
  BY DEF CaptureInv
<1>b. captured \in 0 .. MaxSamples /\ Len(chunks) <= QueueCapacity
      /\ chunks \in Seq(Seq(Samples)) /\ hand \in Seq(Samples) /\ pushed \in Seq(Samples)
  BY <1>a DEF RealtimeTypeOK, QueueInv, RingInv
<1>c. \A i \in 1 .. Len(chunks) : chunks[i] \in Seq(Samples)
  BY <1>b
<1>0. CASE UNCHANGED realtimeVars
  <2>1. UNCHANGED <<capture, chunks, worker, hand, ring, writeIndex, ringSize, sinceAnalysis,
                    pushed, analysed, captured, captures>>
    BY <1>0 DEF realtimeVars, queueVars, ringVars
  <2>2. RealtimeTypeOK'
    BY <1>a, <2>1 DEF RealtimeTypeOK
  <2>3. QueueInv'
    BY <1>a, <2>1 DEF QueueInv
  <2>4. RingInv'
    BY <1>a, <1>b, <2>1, RingUntouched
  <2> QED
    BY <2>2, <2>3, <2>4 DEF CaptureInv
<1>1. CASE StartCapture
  <2>1. /\ capture = "off" /\ capture' \in {"on", "stopping"} /\ worker' = "waiting"
        /\ chunks' = (IF capture' = "on" THEN << >> ELSE <<<<>>>>)
        /\ captures' \in 0 .. MaxCaptures
        /\ UNCHANGED <<hand, ring, writeIndex, ringSize, sinceAnalysis, pushed, analysed, captured>>
    BY <1>1, <1>a DEF StartCapture, ringVars, RealtimeTypeOK
  <2>2. /\ hand = << >> /\ pushed = << >> /\ Len(hand) = 0 /\ Len(pushed) = 0
    BY <1>a, <2>1 DEF QueueInv
  <2>3. /\ chunks' \in Seq(Seq(Samples)) /\ Len(chunks') <= 1
        /\ \A i \in 1 .. Len(chunks') : chunks'[i] = << >>
        /\ capture' = "on" => chunks' = << >> /\ Len(chunks') = 0
    <3>1. CASE chunks' = << >>
      BY <3>1
    <3>2. CASE chunks' = <<<<>>>> /\ capture' = "stopping"
      BY <3>2
    <3> QED
      BY <2>1, <3>1, <3>2
  <2>4. RealtimeTypeOK'
    <3>1. Len(chunks') <= QueueCapacity
      BY <2>3
    <3> QED
      BY <1>a, <2>1, <3>1 DEF RealtimeTypeOK
  <2>5. Queued(chunks, hand, pushed, captured)'
    <3>1. Queued(chunks', hand, pushed, captured)
      <4>1. Len(<< >>) = 0
        OBVIOUS
      <4>2. \A i \in 1 .. Len(chunks') : \A j \in i + 1 .. Len(chunks') : FALSE
        BY <2>3
      <4> QED
        BY <2>2, <2>3, <4>1, <4>2 DEF Queued, Increasing, UpTo, Before
    <3> QED
      BY <2>1, <3>1
  <2>6. QueueInv'
    BY <1>a, <2>1, <2>2, <2>3, <2>5 DEF QueueInv, Increasing, UpTo, Before
  <2>7. RingInv'
    BY <1>a, <1>b, <2>1, RingUntouched
  <2> QED
    BY <2>4, <2>6, <2>7 DEF CaptureInv
<1>2. ASSUME NEW n \in ChunkSizes, DeliverChunk(n) PROVE CaptureInv'
  <2> DEFINE c == [i \in 1 .. n |-> captured + i]
  <2>1. /\ capture = "on" /\ captured' = captured + n /\ captured' \in 0 .. MaxSamples
        /\ n \in Nat \ {0} /\ Put(c)
        /\ UNCHANGED <<capture, worker, hand, ring, writeIndex, ringSize, sinceAnalysis, pushed,
                       analysed, captures>>
    BY <1>2, <1>b DEF DeliverChunk, ringVars
  <2>2. \A i \in 1 .. n : c[i] = captured + i /\ c[i] \in Samples /\ c[i] <= captured'
    BY <1>b, <2>1 DEF Samples
  <2>3. c \in Seq(Samples) /\ Len(c) = n
    <3>1. c \in [1 .. n -> Samples]
      BY <2>2
    <3> HIDE DEF c
    <3> QED
      BY <2>1, <3>1, FunctionAsSequence
  <2> HIDE DEF c
  <2>4. Increasing(c) /\ UpTo(c, captured') /\ c # << >> /\ c[Len(c)] = captured'
    BY <1>b, <2>1, <2>2, <2>3 DEF Increasing, UpTo
  <2>5. ASSUME NEW s \in Seq(Samples), UpTo(s, captured)
        PROVE  Before(s, c) /\ UpTo(s, captured')
    <3>1. \A i \in 1 .. Len(s) : s[i] \in Samples /\ s[i] <= captured
      BY <2>5 DEF UpTo
    <3>2. \A i \in 1 .. Len(s) : s[i] \in Int
      BY <3>1, <1>b DEF Samples
    <3>3. \A i \in 1 .. Len(s), j \in 1 .. Len(c) : s[i] < c[j]
      BY <1>b, <2>1, <2>2, <2>3, <3>1, <3>2
    <3>4. \A i \in 1 .. Len(s) : s[i] <= captured'
      BY <1>b, <2>1, <3>1, <3>2
    <3> QED
      BY <3>3, <3>4 DEF Before, UpTo
  <2>6. /\ Before(hand, c) /\ Before(pushed, c) /\ UpTo(hand, captured')
        /\ \A i \in 1 .. Len(chunks) : Before(chunks[i], c)
    BY <1>a, <1>b, <1>c, <2>5 DEF QueueInv, RingInv, Queued
  <2>7. Queued(chunks, hand, pushed, captured')
    BY <1>a, <1>b, <1>c, <2>5 DEF QueueInv, Queued
  <2>8. /\ chunks' \in Seq(Seq(Samples)) /\ Len(chunks') <= QueueCapacity
        /\ Queued(chunks', hand, pushed, captured')
        /\ chunks' # << >> /\ chunks'[Len(chunks')] = c
        /\ \A i \in 1 .. Len(chunks') :
             chunks'[i] = c \/ \E j \in 1 .. Len(chunks) : chunks'[i] = chunks[j]
    <3>1. captured' \in Nat
      BY <2>1
    <3> QED
      BY <1>b, <2>1, <2>3, <2>4, <2>6, <2>7, <3>1, PutKeepsOrder
  <2>9. RealtimeTypeOK'
    BY <1>a, <2>1, <2>8 DEF RealtimeTypeOK
  <2>10. \A i \in 1 .. Len(chunks') : chunks'[i] # << >>
    BY <1>a, <2>1, <2>4, <2>8 DEF QueueInv
  <2>11. LET last == chunks'[Len(chunks')] IN last[Len(last)] = captured'
    BY <2>4, <2>8
  <2>12. QueueInv'
    <3>1. Queued(chunks, hand, pushed, captured)'
      BY <2>1, <2>8
    <3> QED
      BY <1>a, <2>1, <2>6, <2>8, <2>10, <2>11, <3>1 DEF QueueInv, Increasing, UpTo, Before
  <2>13. RingInv'
    BY <1>a, <1>b, <2>1, RingUntouched
  <2> QED
    BY <2>9, <2>12, <2>13 DEF CaptureInv
<1>3. CASE Take
  <2>1. UNCHANGED <<capture, ring, writeIndex, ringSize, sinceAnalysis, pushed, analysed,
                    captured, captures>>
        /\ worker = "waiting" /\ hand = << >>
    BY <1>3, <1>a DEF Take, ringVars, QueueInv
  <2>2. RingInv'
    BY <1>a, <1>b, <2>1, RingUntouched
  <2>3. CASE capture = "stopping" /\ worker' = "none" /\ UNCHANGED <<hand, chunks>>
    <3>1. RealtimeTypeOK'
      BY <1>a, <2>1, <2>3 DEF RealtimeTypeOK
    <3>2. QueueInv'
      BY <1>a, <2>1, <2>3 DEF QueueInv
    <3> QED
      BY <2>2, <3>1, <3>2 DEF CaptureInv
  <2>4. CASE /\ chunks # << >> /\ Head(chunks) # << >>
             /\ hand' = Head(chunks) /\ chunks' = Tail(chunks) /\ worker' = "busy"
    <3>1. /\ chunks' \in Seq(Seq(Samples)) /\ Len(chunks') = Len(chunks) - 1
          /\ \A i \in 1 .. Len(chunks') : chunks'[i] = chunks[i + 1]
      BY <1>b, <2>4, HeadTailProperties
    <3>2. hand' = chunks[1] /\ 1 \in 1 .. Len(chunks)
      BY <1>b, <2>4
    <3>3. /\ Len(chunks) \in Nat /\ \A i \in 1 .. Len(chunks') : i + 1 \in 1 .. Len(chunks)
          /\ \A i \in 1 .. Len(chunks') : i + 1 \in 2 .. Len(chunks)
          /\ \A i \in 1 .. Len(chunks') : \A j \in i + 1 .. Len(chunks') :
               j \in 1 .. Len(chunks') /\ j + 1 \in i + 1 + 1 .. Len(chunks)
      <4>1. Len(chunks) \in Nat /\ Len(chunks') = Len(chunks) - 1
        BY <1>b, <3>1
      <4> DEFINE m == Len(chunks)
                 m1 == Len(chunks')
      <4> HIDE DEF m, m1
      <4>2. m \in Nat /\ m1 = m - 1
        BY <4>1 DEF m, m1
      <4>3. /\ \A i \in 1 .. m1 : i + 1 \in 1 .. m /\ i + 1 \in 2 .. m
            /\ \A i \in 1 .. m1 : \A j \in i + 1 .. m1 :
                 j \in 1 .. m1 /\ j + 1 \in i + 1 + 1 .. m
        BY <4>2
      <4> QED
        BY <4>1, <4>3 DEF m, m1
    <3>4. RealtimeTypeOK'
      <4>1. Len(chunks') <= QueueCapacity
        BY <1>b, <3>1, <3>3
      <4> QED
        BY <1>a, <2>1, <2>4, <4>1 DEF RealtimeTypeOK
    <3>5. /\ hand' \in Seq(Samples) /\ Increasing(hand') /\ UpTo(hand', captured)
          /\ Before(pushed, hand') /\ \A j \in 2 .. Len(chunks) : Before(hand', chunks[j])
      BY <1>a, <1>c, <3>2 DEF QueueInv, Queued
    <3>6. Queued(chunks', hand', pushed, captured)
      <4>1. ASSUME NEW i \in 1 .. Len(chunks')
            PROVE  /\ Increasing(chunks'[i]) /\ UpTo(chunks'[i], captured)
                   /\ Before(hand', chunks'[i]) /\ Before(pushed, chunks'[i])
        BY <1>a, <3>1, <3>3, <3>5 DEF QueueInv, Queued
      <4>2. ASSUME NEW i \in 1 .. Len(chunks'), NEW j \in i + 1 .. Len(chunks')
            PROVE  Before(chunks'[i], chunks'[j])
        <5>1. chunks'[i] = chunks[i + 1] /\ chunks'[j] = chunks[j + 1]
              /\ i + 1 \in 1 .. Len(chunks) /\ j + 1 \in i + 1 + 1 .. Len(chunks)
          BY <3>1, <3>3
        <5> QED
          BY <1>a, <5>1 DEF QueueInv, Queued
      <4> QED
        BY <4>1, <4>2 DEF Queued
    <3>7. Queued(chunks, hand, pushed, captured)'
      BY <2>1, <3>6
    <3>8. capture' = "on" =>
            /\ \A i \in 1 .. Len(chunks') : chunks'[i] # << >>
            /\ chunks' # << >> => LET last == chunks'[Len(chunks')] IN last[Len(last)] = captured'
      <4>1. ASSUME capture = "on" PROVE \A i \in 1 .. Len(chunks') : chunks'[i] # << >>
        BY <1>a, <3>1, <3>3, <4>1 DEF QueueInv
      <4>2. ASSUME capture = "on", chunks' # << >>
            PROVE  LET last == chunks'[Len(chunks')] IN last[Len(last)] = captured
        <5>1. Len(chunks') \in 1 .. Len(chunks') /\ Len(chunks') + 1 = Len(chunks)
          BY <3>1, <3>3, <4>2
        <5>2. chunks'[Len(chunks')] = chunks[Len(chunks)]
          BY <3>1, <5>1
        <5> QED
          BY <1>a, <2>4, <4>2, <5>2 DEF QueueInv
      <4> QED
        BY <2>1, <4>1, <4>2
    <3>9. capture' # "off"
      BY <1>a, <2>1 DEF QueueInv
    <3>10. QueueInv'
      <4>1. /\ hand' \in Seq(Samples) /\ Increasing(hand)' /\ UpTo(hand, captured)'
            /\ Before(pushed, hand)'
        BY <2>1, <3>5
      <4> QED
        BY <2>4, <3>1, <3>7, <3>8, <3>9, <4>1 DEF QueueInv
    <3> QED
      BY <2>2, <3>4, <3>10 DEF CaptureInv
  <2> QED
    BY <1>3, <2>3, <2>4 DEF Take
<1>4. CASE Push
  <2>1. /\ worker = "busy" /\ worker' = "waiting" /\ hand' = << >> /\ pushed' = pushed \o hand
        /\ AppendToRing(hand)
        /\ UNCHANGED <<capture, chunks, captured, captures>>
    BY <1>4 DEF Push
  <2>2. /\ ring' \in [0 .. RingCapacity - 1 -> 0 .. MaxSamples]
        /\ writeIndex' \in 0 .. RingCapacity - 1 /\ ringSize' \in 0 .. RingCapacity
        /\ RingHolds(ring', writeIndex', ringSize', pushed')
    <3>1. CASE Len(hand) < RingCapacity
      BY <1>a, <1>b, <2>1, <3>1, ShortChunkInRing DEF RingInv
    <3>2. CASE Len(hand) >= RingCapacity
      BY <1>a, <1>b, <2>1, <3>2, LongChunkInRing
    <3>3. Len(hand) \in Nat
      BY <1>b
    <3> QED
      BY <3>1, <3>2, <3>3
  <2>3. sinceAnalysis' \in 0 .. Hop - 1
    <3>1. sinceAnalysis + Len(hand) \in Int
      BY <1>a, <1>b DEF RealtimeTypeOK
    <3>2. sinceAnalysis' = (sinceAnalysis + Len(hand)) % Hop
      BY <1>4 DEF Push
    <3> QED
      BY <3>1, <3>2, RemainderRange
  <2>4. RealtimeTypeOK'
    BY <1>a, <2>1, <2>2, <2>3 DEF RealtimeTypeOK
  <2>5. /\ pushed' \in Seq(Samples) /\ Len(pushed') = Len(pushed) + Len(hand)
        /\ \A i \in 1 .. Len(pushed) + Len(hand) :
             pushed'[i] = IF i <= Len(pushed) THEN pushed[i] ELSE hand[i - Len(pushed)]
    BY <1>b, <2>1, ConcatProperties
  <2> DEFINE l == Len(pushed)
             m == Len(hand)
  <2>6. l \in Nat /\ m \in Nat
    BY <1>b
  <2>7. /\ \A i \in 1 .. l : pushed'[i] = pushed[i]
        /\ \A i \in l + 1 .. l + m : pushed'[i] = hand[i - l] /\ i - l \in 1 .. m
        /\ \A i \in 1 .. l + m : i \in 1 .. l \/ i \in l + 1 .. l + m
        /\ Len(pushed') = l + m
    <3> HIDE DEF l, m
    <3>1. /\ \A i \in 1 .. l : i \in 1 .. l + m /\ i <= l
          /\ \A i \in l + 1 .. l + m : i \in 1 .. l + m /\ ~(i <= l) /\ i - l \in 1 .. m
          /\ \A i \in 1 .. l + m : i \in 1 .. l \/ i \in l + 1 .. l + m
      BY <2>6
    <3>2. /\ Len(pushed') = l + m
          /\ \A i \in 1 .. l + m : pushed'[i] = IF i <= l THEN pushed[i] ELSE hand[i - l]
      BY <2>5 DEF l, m
    <3> QED
      BY <3>1, <3>2
  <2>8. Increasing(pushed')
    <3>1. Increasing(pushed) /\ Increasing(hand) /\ Before(pushed, hand)
      BY <1>a DEF QueueInv, RingInv
    <3> HIDE DEF l, m
    <3>2. ASSUME NEW i \in 1 .. l + m, NEW j \in 1 .. l + m, i < j PROVE pushed'[i] < pushed'[j]
      <4>1. CASE j \in 1 .. l
        <5>1. i \in 1 .. l
          BY <2>6, <3>2, <4>1
        <5> QED
          BY <2>7, <3>1, <3>2, <4>1, <5>1 DEF Increasing, l
      <4>2. CASE i \in 1 .. l /\ j \in l + 1 .. l + m
        BY <2>7, <3>1, <4>2 DEF Before, l, m
      <4>3. CASE i \in l + 1 .. l + m /\ j \in l + 1 .. l + m
        <5>1. /\ pushed'[i] = hand[i - l] /\ pushed'[j] = hand[j - l]
              /\ i - l \in 1 .. m /\ j - l \in 1 .. m
          BY <2>7, <4>3
        <5>2. i - l < j - l
          BY <2>6, <3>2
        <5> QED
          BY <3>1, <5>1, <5>2 DEF Increasing, m
      <4> QED
        BY <2>7, <4>1, <4>2, <4>3
    <3> QED
      BY <2>7, <3>2 DEF Increasing
  <2>9. UpTo(pushed', captured)
    <3>1. UpTo(pushed, captured) /\ UpTo(hand, captured)
      BY <1>a DEF QueueInv, RingInv
    <3> HIDE DEF l, m
    <3> QED
      BY <2>7, <3>1 DEF UpTo, l, m
  <2>10. \A i, j \in DOMAIN analysed' : i < j => analysed'[i] < analysed'[j]
    <3>1. analysed' = analysed \/ analysed' = LatestOf(ring', writeIndex', ringSize', RingCapacity)
      BY <1>4 DEF Push
    <3>2. CASE analysed' = analysed
      BY <1>a, <3>2 DEF RingInv
    <3>3. CASE analysed' = LatestOf(ring', writeIndex', ringSize', RingCapacity)
      <4>1. RingCapacity \in 0 .. RingCapacity
        OBVIOUS
      <4>2. \A i, j \in DOMAIN LatestOf(ring', writeIndex', ringSize', RingCapacity) :
              i < j => LatestOf(ring', writeIndex', ringSize', RingCapacity)[i]
                         < LatestOf(ring', writeIndex', ringSize', RingCapacity)[j]
        BY <2>2, <2>5, <2>8, <4>1, LatestIsSuffix
      <4> QED
        BY <3>3, <4>2
    <3> QED
      BY <3>1, <3>2, <3>3
  <2>11. RingInv'
    <3>1. RingHolds(ring, writeIndex, ringSize, pushed)'
      BY <2>2
    <3> QED
      BY <2>1, <2>5, <2>8, <2>9, <2>10, <3>1 DEF RingInv
  <2>12. Queued(chunks, hand', pushed', captured)
    <3>1. Len(hand') = 0
      BY <2>1
    <3>2. ASSUME NEW i \in 1 .. Len(chunks) PROVE Before(pushed', chunks[i]) /\ Before(hand', chunks[i])
      <4>1. Before(pushed, chunks[i]) /\ Before(hand, chunks[i])
        BY <1>a DEF QueueInv, Queued
      <4>2. Before(hand', chunks[i])
        BY <3>1 DEF Before
      <4>3. ASSUME NEW x \in 1 .. Len(pushed'), NEW y \in 1 .. Len(chunks[i])
            PROVE  pushed'[x] < chunks[i][y]
        <5> HIDE DEF l, m
        <5>1. x \in 1 .. l \/ x \in l + 1 .. l + m
          BY <2>7
        <5>2. CASE x \in 1 .. l
          BY <2>7, <4>1, <5>2 DEF Before, l
        <5>3. CASE x \in l + 1 .. l + m
          BY <2>7, <4>1, <5>3 DEF Before, m
        <5> QED
          BY <5>1, <5>2, <5>3
      <4> QED
        BY <4>2, <4>3 DEF Before
    <3> QED
      BY <1>a, <3>2 DEF QueueInv, Queued
  <2>13. QueueInv'
    <3>1. /\ hand' \in Seq(Samples) /\ Increasing(hand)' /\ UpTo(hand, captured)'
          /\ Before(pushed, hand)' /\ Queued(chunks, hand, pushed, captured)'
      <4>1. Len(hand') = 0 /\ hand' \in Seq(Samples)
        BY <2>1
      <4> QED
        BY <2>1, <2>12, <4>1 DEF Increasing, UpTo, Before
    <3>2. capture # "off"
      BY <1>a, <2>1 DEF QueueInv
    <3> QED
      BY <1>a, <2>1, <3>1, <3>2 DEF QueueInv
  <2> QED
    BY <2>4, <2>11, <2>13 DEF CaptureInv
<1>5. CASE StopCapture
  <2>1. /\ capture = "on" /\ capture' = "stopping" /\ Put(<< >>)
        /\ UNCHANGED <<worker, hand, ring, writeIndex, ringSize, sinceAnalysis, pushed, analysed,
                       captured, captures>>
    BY <1>5 DEF StopCapture, ringVars
  <2>2. /\ Increasing(<< >>) /\ UpTo(<< >>, captured) /\ << >> \in Seq(Samples)
        /\ Before(hand, << >>) /\ Before(pushed, << >>)
        /\ \A i \in 1 .. Len(chunks) : Before(chunks[i], << >>)
    BY DEF Increasing, UpTo, Before
  <2>3. /\ chunks' \in Seq(Seq(Samples)) /\ Len(chunks') <= QueueCapacity
        /\ Queued(chunks', hand, pushed, captured)
    <3>1. captured \in Nat /\ Queued(chunks, hand, pushed, captured)
      BY <1>a, <1>b DEF QueueInv
    <3> QED
      BY <1>b, <2>1, <2>2, <3>1, PutKeepsOrder
  <2>4. RealtimeTypeOK'
    BY <1>a, <2>1, <2>3 DEF RealtimeTypeOK
  <2>5. Queued(chunks, hand, pushed, captured)'
    BY <2>1, <2>3
  <2>6. QueueInv'
    BY <1>a, <2>1, <2>3, <2>5 DEF QueueInv
  <2>7. RingInv'
    BY <1>a, <1>b, <2>1, RingUntouched
  <2> QED
    BY <2>4, <2>6, <2>7 DEF CaptureInv
<1>6. CASE Joined
  <2>1. /\ capture' = "off" /\ worker = "none" /\ chunks' = << >>
        /\ ring' = Cleared /\ writeIndex' = 0 /\ ringSize' = 0 /\ sinceAnalysis' = 0
        /\ pushed' = << >> /\ analysed' = << >> /\ UNCHANGED <<worker, hand, captured, captures>>
    BY <1>6 DEF Joined
  <2>2. /\ Len(chunks') = 0 /\ Len(pushed') = 0 /\ DOMAIN analysed' = {}
        /\ chunks' \in Seq(Seq(Samples)) /\ pushed' \in Seq(Samples)
    BY <2>1
  <2>3. RealtimeTypeOK'
    <3>1. ring' \in [0 .. RingCapacity - 1 -> 0 .. MaxSamples]
      BY <2>1 DEF Cleared
    <3>2. /\ writeIndex' \in 0 .. RingCapacity - 1 /\ ringSize' \in 0 .. RingCapacity
          /\ sinceAnalysis' \in 0 .. Hop - 1
      BY <2>1
    <3> QED
      BY <1>a, <2>1, <2>2, <3>1, <3>2 DEF RealtimeTypeOK
  <2>4. RingInv'
    <3>1. RingHolds(ring, writeIndex, ringSize, pushed)'
      BY <2>1, <2>2 DEF RingHolds
    <3> QED
      BY <2>2, <3>1 DEF RingInv, Increasing, UpTo
  <2>5. QueueInv'
    <3>1. Queued(chunks, hand, pushed, captured)' /\ Before(pushed, hand)'
      BY <2>2 DEF Queued, Before
    <3> QED
      BY <1>a, <2>1, <2>2, <3>1 DEF QueueInv
  <2> QED
    BY <2>3, <2>4, <2>5 DEF CaptureInv
<1> QED
  BY <1>0, <1>1, <1>2, <1>3, <1>4, <1>5, <1>6 DEF RealtimeNext

LEMMA CaptureInvariant == RealtimeSpec => []CaptureInv
BY CaptureInvInit, CaptureInvNext, PTL DEF RealtimeSpec

\* The engine, its ring buffer and its counters keep their types.
THEOREM CaptureTypes == RealtimeSpec => []RealtimeTypeOK
<1>1. CaptureInv => RealtimeTypeOK
  BY DEF CaptureInv
<1> QED
  BY <1>1, CaptureInvariant, PTL

\* For every size of the buffer and of the chunks: latest(n) is the last n samples
\* pushed in this capture, and an analysis saw such a run of them.
THEOREM CaptureRing == RealtimeSpec => []RingKeepsLatest
<1>1. CaptureInv => RingKeepsLatest
  <2> SUFFICES ASSUME CaptureInv PROVE RingKeepsLatest
    OBVIOUS
  <2>1. /\ writeIndex \in 0 .. RingCapacity - 1 /\ ringSize \in 0 .. RingCapacity
        /\ pushed \in Seq(Samples) /\ RingHolds(ring, writeIndex, ringSize, pushed)
        /\ \A i, j \in DOMAIN analysed : i < j => analysed[i] < analysed[j]
    BY DEF CaptureInv, RealtimeTypeOK, RingInv
  <2>2. ASSUME NEW n \in 0 .. RingCapacity
        PROVE  /\ IsSuffix(LatestOf(ring, writeIndex, ringSize, n), pushed)
               /\ \/ Len(LatestOf(ring, writeIndex, ringSize, n)) = n
                  \/ LatestOf(ring, writeIndex, ringSize, n) = pushed
    <3>1. IsSuffix(LatestOf(ring, writeIndex, ringSize, n), pushed)
      BY <2>1, LatestIsSuffix
    <3>2. \/ Len(LatestOf(ring, writeIndex, ringSize, n)) = n
          \/ LatestOf(ring, writeIndex, ringSize, n) = pushed
      <4>1. ASSUME Len(LatestOf(ring, writeIndex, ringSize, n)) # n
            PROVE  LatestOf(ring, writeIndex, ringSize, n) = pushed
        BY <2>1, <4>1, LatestIsSuffix
      <4> QED
        BY <4>1
    <3> QED
      BY <3>1, <3>2
  <2> QED
    BY <2>1, <2>2 DEF RingKeepsLatest
<1> QED
  BY <1>1, CaptureInvariant, PTL

\* A capture that was stopped has no worker and nothing queued; what is queued is
\* in order, with the newest chunk kept.
THEOREM CaptureEnds == RealtimeSpec => []CaptureStops
<1>1. CaptureInv => CaptureStops
  <2> SUFFICES ASSUME CaptureInv PROVE CaptureStops
    OBVIOUS
  <2>1. QueueInv /\ RingHolds(ring, writeIndex, ringSize, pushed)
    BY DEF CaptureInv, RingInv
  <2>2. capture = "off" => worker = "none" /\ chunks = << >> /\ ringSize = 0
    <3>1. ASSUME capture = "off" PROVE worker = "none" /\ chunks = << >> /\ ringSize = 0
      <4>1. Len(pushed) = 0 /\ worker = "none" /\ chunks = << >>
        BY <2>1, <3>1 DEF QueueInv
      <4> QED
        BY <2>1, <4>1, RealtimeAssumption DEF RingHolds
    <3> QED
      BY <3>1
  <2>3. ASSUME NEW i \in DOMAIN chunks, NEW j \in DOMAIN chunks,
               i < j, chunks[i] # << >>, chunks[j] # << >>
        PROVE  chunks[i][1] < chunks[j][1]
    <3>1. /\ chunks \in Seq(Seq(Samples)) /\ i \in 1 .. Len(chunks) /\ j \in 1 .. Len(chunks)
          /\ chunks[i] \in Seq(Samples) /\ chunks[j] \in Seq(Samples)
      BY <2>1 DEF QueueInv
    <3>2. 1 \in 1 .. Len(chunks[i]) /\ 1 \in 1 .. Len(chunks[j])
      BY <2>3, <3>1
    <3>3. j \in i + 1 .. Len(chunks)
      BY <2>3, <3>1
    <3>4. Before(chunks[i], chunks[j])
      BY <2>1, <3>1, <3>3 DEF QueueInv, Queued
    <3> QED
      BY <3>2, <3>4 DEF Before
  <2>4. capture = "on" /\ chunks # << >> =>
          LET last == chunks[Len(chunks)] IN last[Len(last)] = captured
    BY <2>1 DEF QueueInv
  <2> QED
    BY <2>2, <2>3, <2>4 DEF CaptureStops
<1> QED
  BY <1>1, CaptureInvariant, PTL

-----------------------------------------------------------------------------
(* The connection of Link.                                                 *)

LoopStages == {"none", "new", "sleeping", "probing"} \cup Connecting
FrontStages == {"none", "waiting", "saved", "probing", "dialog"} \cup Connecting
Outcomes == Profiles \cup {NoProfile, Pending}

LoopRecords == [at : LoopStages, got : Outcomes, held : BOOLEAN, stale : BOOLEAN]
AttemptRecords ==
  [at : {"none", "new", "probing"}, left : Seq(Profiles), mismatch : BOOLEAN,
   retryable : BOOLEAN, stale : BOOLEAN]
Managers ==
  [state : States, active : Profiles \cup {NoProfile}, auto : BOOLEAN,
   profiles : Seq(Profiles), failures : 0 .. 2, loop : LoopRecords,
   attempt : AttemptRecords]
FrontRecords == [at : FrontStages, got : Outcomes]

\* After a manual disconnect: what is still under way is of an older generation.
Off(m) ==
  /\ m.active = NoProfile /\ ~m.auto
  /\ m.attempt.at # "none" => m.attempt.stale
  /\ m.loop.at # "none" => m.loop.stale

\* A manager that waits to reconnect has a loop.
Covered(m) ==
  m.state = "reconnect_wait" /\ m.auto /\ m.active = NoProfile /\ m.profiles # << >>
    => m.loop.at # "none"

TaskRests(m) == m.loop.at = "none" /\ m.attempt.at = "none"

Asking == {"waiting", "dialog"}

\* What holds of the manager and of the tasks that use it.
Fine(m, f, off, ph) ==
  /\ m \in Managers /\ f \in [Fronts -> FrontRecords]
  /\ off => Off(m)
  /\ ph = "running" => Covered(m) \/ f["settings"].at \in Asking
  /\ ph # "running" => \A w \in Fronts : f[w].at = "none"
  /\ ph \in {"stopped", "over"} => TaskRests(m)

MonitorRecords ==
  [at : {"none", "sleeping", "checking", "status"}, watched : Profiles \cup {NoProfile}]

Around ==
  /\ monitor \in MonitorRecords
  /\ badAnswers \in [authentication : 0 .. 2, status : 0 .. 2]
  /\ token \in BOOLEAN /\ chat \in BOOLEAN /\ manual \in BOOLEAN
  /\ closing \subseteq {"chat", "agent"}
  /\ send \in {"none", "opening", "waiting", "failed"}
  /\ phase \in {"running", "ending", "stopped", "over"}
  /\ phase # "running" => monitor.at = "none" /\ send = "none"
  /\ phase = "over" => ~chat
  /\ send = "waiting" => chat

ConnectionInv == Fine(manager, front, manual, phase) /\ Around

-----------------------------------------------------------------------------
(* The functions of the manager.                                           *)

LEMMA NoneAreRecords ==
  NoLoop \in LoopRecords /\ NoAttempt \in AttemptRecords
  /\ Idle \in FrontRecords
  /\ NoLoop.at = "none" /\ NoAttempt.at = "none" /\ Idle.at = "none"
BY DEF NoLoop, NoAttempt, Idle, LoopRecords, AttemptRecords, FrontRecords, LoopStages,
  FrontStages, Outcomes

\* A new generation.
LEMMA OutdatedIs ==
  ASSUME NEW m \in Managers
  PROVE  /\ Outdated(m) \in Managers
         /\ Outdated(m).state = m.state /\ Outdated(m).active = m.active
         /\ Outdated(m).auto = m.auto /\ Outdated(m).profiles = m.profiles
         /\ Outdated(m).loop.at = m.loop.at /\ Outdated(m).loop.held = m.loop.held
         /\ Outdated(m).attempt.at = m.attempt.at
         /\ m.loop.at # "none" => Outdated(m).loop.stale
         /\ m.attempt.at # "none" => Outdated(m).attempt.stale
BY DEF Outdated, Managers, LoopRecords, AttemptRecords

\* A retry: a loop when there is to be one, and nothing else.
LEMMA RetriedIs ==
  ASSUME NEW m \in Managers
  PROVE  /\ Retried(m) \in Managers
         /\ Retried(m).state = m.state /\ Retried(m).active = m.active
         /\ Retried(m).auto = m.auto /\ Retried(m).attempt = m.attempt
         /\ m.loop.at # "none" =>
              Retried(m).loop.at = m.loop.at /\ Retried(m).loop.stale = m.loop.stale
         /\ phase # "running" => Retried(m) = m
         /\ Off(m) => Off(Retried(m))
         /\ phase = "running" => Covered(Retried(m))
<1> DEFINE r == Retried(m)
<1>1. CASE ~MayReconnect(m)
  <2>1. r = m
    BY <1>1 DEF Retried
  <2>2. phase = "running" => Covered(m)
    BY <1>1 DEF MayReconnect, Covered
  <2> QED
    BY <2>1, <2>2
<1>2. CASE MayReconnect(m) /\ m.loop.at # "none"
  <2>1. r = [m EXCEPT !.loop.held = TRUE]
    BY <1>2 DEF Retried
  <2> HIDE DEF r
  <2>2. /\ r \in Managers /\ r.state = m.state /\ r.active = m.active /\ r.auto = m.auto
        /\ r.attempt = m.attempt /\ r.loop.at = m.loop.at /\ r.loop.stale = m.loop.stale
    BY <2>1 DEF Managers, LoopRecords
  <2>3. phase = "running" /\ m.auto
    BY <1>2 DEF MayReconnect
  <2> QED
    BY <1>2, <2>2, <2>3 DEF r, Off, Covered
<1>3. CASE MayReconnect(m) /\ m.loop.at = "none"
  <2>1. r = [m EXCEPT !.loop = [NoLoop EXCEPT !.at = "new", !.held = TRUE]]
    BY <1>3 DEF Retried
  <2>2. PICK l \in LoopRecords : l = [NoLoop EXCEPT !.at = "new", !.held = TRUE]
    BY NoneAreRecords DEF LoopRecords, LoopStages
  <2>3. l.at = "new"
    BY <2>2, NoneAreRecords DEF LoopRecords
  <2>4. r = [m EXCEPT !.loop = l]
    BY <2>1, <2>2, Zenon
  <2> HIDE DEF r
  <2>5. /\ r \in Managers /\ r.state = m.state /\ r.active = m.active /\ r.auto = m.auto
        /\ r.attempt = m.attempt /\ r.loop = l
    BY <2>4 DEF Managers
  <2>6. phase = "running" /\ m.auto
    BY <1>3 DEF MayReconnect
  <2> QED
    BY <1>3, <2>3, <2>5, <2>6 DEF r, Off, Covered
<1> QED
  BY <1>1, <1>2, <1>3

\* What a manager is without its loop.
LEMMA LoopGone ==
  ASSUME NEW m \in Managers
  PROVE  /\ [m EXCEPT !.loop = NoLoop] \in Managers
         /\ [m EXCEPT !.loop = NoLoop].state = m.state
         /\ [m EXCEPT !.loop = NoLoop].active = m.active
         /\ [m EXCEPT !.loop = NoLoop].auto = m.auto
         /\ [m EXCEPT !.loop = NoLoop].attempt = m.attempt
         /\ [m EXCEPT !.loop = NoLoop].loop.at = "none"
BY NoneAreRecords DEF Managers

LEMMA LoopEndedIs ==
  ASSUME NEW m \in Managers
  PROVE  /\ LoopEnded(m) \in Managers
         /\ Off(m) => Off(LoopEnded(m))
         /\ phase = "running" => Covered(LoopEnded(m))
<1>1. PICK d \in Managers : d = [m EXCEPT !.loop = NoLoop]
  BY LoopGone
<1>2. d.state = m.state /\ d.active = m.active /\ d.auto = m.auto /\ d.attempt = m.attempt
      /\ d.loop.at = "none"
  BY <1>1, LoopGone
<1>3. LoopEnded(m) = IF m.state = "reconnect_wait" THEN Retried(d) ELSE d
  BY <1>1 DEF LoopEnded
<1>4. Off(m) => Off(d)
  BY <1>2 DEF Off
<1>5. m.state # "reconnect_wait" => Covered(d)
  BY <1>2 DEF Covered
<1> QED
  BY <1>3, <1>4, <1>5, RetriedIs

LEMMA LoopFailedIs ==
  ASSUME NEW m \in Managers
  PROVE  /\ LoopFailed(m) \in Managers
         /\ Off(m) => Off(LoopFailed(m))
         /\ Covered(LoopFailed(m))
<1>1. /\ LoopFailed(m) \in Managers /\ LoopFailed(m).state = "failed"
      /\ LoopFailed(m).active = m.active /\ LoopFailed(m).auto = m.auto
      /\ LoopFailed(m).attempt = m.attempt /\ LoopFailed(m).loop.at = "none"
  BY NoneAreRecords DEF LoopFailed, Managers, States
<1> QED
  BY <1>1 DEF Off, Covered

LEMMA LoopCancelledIs ==
  ASSUME NEW m \in Managers
  PROVE  /\ LoopCancelled(m) \in Managers
         /\ LoopCancelled(m).state = m.state /\ LoopCancelled(m).active = m.active
         /\ LoopCancelled(m).auto = m.auto /\ LoopCancelled(m).attempt = m.attempt
         /\ LoopCancelled(m).loop.at # "none" => LoopCancelled(m).loop = m.loop
         /\ m.loop.at = "none" => LoopCancelled(m).loop.at = "none"
         /\ Off(m) => Off(LoopCancelled(m))
<1>1. /\ LoopCancelled(m) \in Managers
      /\ LoopCancelled(m).state = m.state /\ LoopCancelled(m).active = m.active
      /\ LoopCancelled(m).auto = m.auto /\ LoopCancelled(m).attempt = m.attempt
      /\ LoopCancelled(m).loop = m.loop \/ LoopCancelled(m).loop.at = "none"
  BY LoopGone DEF LoopCancelled
<1> QED
  BY <1>1 DEF Off

LEMMA ResetIs ==
  ASSUME NEW o \in Managers
  PROVE  LET r == [o EXCEPT !.active = NoProfile, !.failures = 0, !.state = "reconnect_wait"]
         IN  /\ r \in Managers /\ r.active = NoProfile /\ r.auto = o.auto
             /\ r.loop = o.loop /\ r.attempt = o.attempt
<1> DEFINE r == [o EXCEPT !.active = NoProfile, !.failures = 0, !.state = "reconnect_wait"]
<1>1. r.active = NoProfile /\ r.auto = o.auto /\ r.loop = o.loop /\ r.attempt = o.attempt
  BY DEF Managers
<1>2. 0 \in 0 .. 2 /\ "reconnect_wait" \in States /\ NoProfile \in Profiles \cup {NoProfile}
  BY DEF States
<1>3. r \in Managers
  BY <1>2 DEF Managers
<1> QED
  BY <1>1, <1>3

LEMMA LostIs ==
  ASSUME NEW m \in Managers
  PROVE  /\ Lost(m) \in Managers
         /\ Lost(m).loop.at = m.loop.at /\ Lost(m).attempt.at = m.attempt.at
         /\ Off(m) => Off(Lost(m))
<1>1. PICK o \in Managers : o = Outdated(m)
  BY OutdatedIs
<1>2. Lost(m) = [o EXCEPT !.active = NoProfile, !.failures = 0, !.state = "reconnect_wait"]
  BY <1>1, Zenon DEF Lost
<1>3. /\ Lost(m) \in Managers /\ Lost(m).active = NoProfile /\ Lost(m).auto = o.auto
      /\ Lost(m).loop = o.loop /\ Lost(m).attempt = o.attempt
  BY <1>2, ResetIs, Zenon
<1>4. /\ o.auto = m.auto /\ o.loop.at = m.loop.at /\ o.attempt.at = m.attempt.at
      /\ m.loop.at # "none" => o.loop.stale
      /\ m.attempt.at # "none" => o.attempt.stale
  BY <1>1, OutdatedIs
<1> QED
  BY <1>3, <1>4 DEF Off

LEMMA NeedsPairingIs ==
  ASSUME NEW m \in Managers
  PROVE  /\ NeedsPairing(m) \in Managers
         /\ Off(NeedsPairing(m)) /\ Covered(NeedsPairing(m))
         /\ TaskRests(m) => TaskRests(NeedsPairing(m))
<1>1. PICK c \in Managers : c = LoopCancelled(m)
  BY LoopCancelledIs
<1>2. PICK o \in Managers : o = Outdated(c)
  BY OutdatedIs
<1>3. PICK l \in Managers :
        l = [o EXCEPT !.active = NoProfile, !.failures = 0, !.state = "reconnect_wait"]
  BY ResetIs
<1>4. /\ NeedsPairing(m) \in Managers /\ NeedsPairing(m).active = NoProfile
      /\ NeedsPairing(m).auto = FALSE /\ NeedsPairing(m).loop = o.loop
      /\ NeedsPairing(m).attempt = o.attempt
  <2>1. NeedsPairing(m) = [l EXCEPT !.auto = FALSE, !.state = "failed"]
    BY <1>1, <1>2, <1>3, Zenon DEF NeedsPairing, Lost
  <2>2. l.active = NoProfile /\ l.loop = o.loop /\ l.attempt = o.attempt
    BY <1>3, ResetIs
  <2> QED
    BY <2>1, <2>2 DEF Managers, States
<1>5. /\ c.loop.at # "none" => o.loop.stale
      /\ c.attempt.at # "none" => o.attempt.stale
      /\ o.loop.at = c.loop.at /\ o.attempt.at = c.attempt.at
  BY <1>2, OutdatedIs
<1>6. TaskRests(m) => TaskRests(c)
  BY <1>1, LoopCancelledIs DEF TaskRests
<1> QED
  BY <1>4, <1>5, <1>6 DEF Off, Covered, TaskRests

-----------------------------------------------------------------------------
(* The steps of a task that uses the manager.                              *)

\* Task w may go on with the manager in the state m.
Serves(w, m) ==
  /\ m \in Managers
  /\ manual => Off(m)
  /\ phase = "running" => Covered(m) \/ (w # "settings" /\ front["settings"].at \in Asking)
  /\ phase = "running" \/ (w = "loop" /\ phase = "ending")
  /\ w = "loop" => m.loop.at # "none"

InOrder == Fine(manager', front', manual, phase)

Workers == Fronts \cup {"loop"}

LEMMA TaskServes ==
  ASSUME Fine(manager, front, manual, phase),
         phase \in {"running", "ending", "stopped", "over"},
         NEW w \in Workers, NEW stage \in FrontStages \cup LoopStages, IsAt(w, stage),
         stage \notin {"none", "waiting", "dialog"}
  PROVE  Serves(w, manager)
<1>1. CASE w = "loop"
  <2>1. manager.loop.at # "none"
    BY <1>1 DEF IsAt
  <2> QED
    BY <1>1, <2>1 DEF Fine, Serves, Covered, TaskRests
<1>2. CASE w # "loop"
  <2>1. w \in Fronts /\ front[w].at = stage
    BY <1>2 DEF Workers, IsAt
  <2>2. phase = "running"
    BY <2>1 DEF Fine
  <2>3. Covered(manager) \/ (w # "settings" /\ front["settings"].at \in Asking)
    BY <2>1, <2>2 DEF Fine, Asking
  <2> QED
    BY <1>2, <2>2, <2>3 DEF Fine, Serves
<1> QED
  BY <1>1, <1>2

\* Another stage of a task.
LEMMA LoopMoved ==
  ASSUME NEW m \in Managers, NEW stage \in LoopStages
  PROVE  LET r == [m EXCEPT !.loop.at = stage, !.loop.got = Pending]
         IN  /\ r \in Managers /\ r.state = m.state /\ r.active = m.active
             /\ r.auto = m.auto /\ r.attempt = m.attempt
             /\ r.loop.at = stage /\ r.loop.stale = m.loop.stale
BY DEF Managers, LoopRecords, Outcomes

LEMMA FrontMoved ==
  ASSUME NEW f \in [Fronts -> FrontRecords], NEW w \in Fronts, NEW stage \in FrontStages
  PROVE  LET g == [f EXCEPT ![w] = [Idle EXCEPT !.at = stage]]
         IN  /\ g \in [Fronts -> FrontRecords]
             /\ g[w].at = stage
             /\ \A v \in Fronts \ {w} : g[v] = f[v]
<1>1. PICK r \in FrontRecords : r = [Idle EXCEPT !.at = stage]
  BY NoneAreRecords DEF FrontRecords
<1>2. r.at = stage
  BY <1>1, NoneAreRecords DEF FrontRecords
<1> QED
  BY <1>1, <1>2

LEMMA StaysSettles ==
  ASSUME Fine(manager, front, manual, phase),
         NEW w \in Workers, NEW m, Serves(w, m), NEW stage, Stays(w, m, stage),
         stage \in LoopStages \ {"none"}, w # "loop" => stage \in FrontStages
  PROVE  InOrder
<1>1. m \in Managers
  BY DEF Serves
<1>2. CASE w = "loop"
  <2>1. manager' = [m EXCEPT !.loop.at = stage, !.loop.got = Pending] /\ front' = front
    BY <1>2 DEF Stays
  <2>2. /\ manager' \in Managers /\ manager'.active = m.active /\ manager'.auto = m.auto
        /\ manager'.attempt = m.attempt /\ manager'.loop.at = stage
        /\ manager'.loop.stale = m.loop.stale
    BY <1>1, <2>1, LoopMoved
  <2>3. phase \in {"running", "ending"} /\ m.loop.at # "none"
    BY <1>2 DEF Serves
  <2>4. manual => Off(manager')
    BY <2>2, <2>3 DEF Serves, Off
  <2>5. Covered(manager')
    BY <2>2 DEF Covered
  <2> QED
    BY <2>1, <2>2, <2>3, <2>4, <2>5 DEF Fine, InOrder
<1>3. CASE w # "loop"
  <2>1. /\ manager' = m /\ front' = [front EXCEPT ![w] = [Idle EXCEPT !.at = stage]]
        /\ w \in Fronts
    BY <1>3 DEF Stays, Workers
  <2>2. front \in [Fronts -> FrontRecords]
    BY DEF Fine
  <2>3. /\ front' \in [Fronts -> FrontRecords]
        /\ \A v \in Fronts \ {w} : front'[v] = front[v]
    BY <1>3, <2>1, <2>2, FrontMoved
  <2>4. phase = "running"
    BY <1>3 DEF Serves
  <2>5. Covered(m) \/ front'["settings"].at \in Asking
    BY <2>3, <2>4 DEF Serves, Fronts
  <2> QED
    BY <1>1, <2>1, <2>3, <2>4, <2>5 DEF Fine, InOrder, Serves
<1> QED
  BY <1>2, <1>3

\* A front opens its dialog, whatever it was at.
LEMMA DialogSettles ==
  ASSUME Fine(manager, front, manual, phase), phase = "running",
         NEW w \in Fronts, Stays(w, manager, "dialog"),
         Covered(manager) \/ w = "settings" \/ front["settings"].at \in Asking
  PROVE  InOrder
<1>1. /\ manager' = manager /\ front' = [front EXCEPT ![w] = [Idle EXCEPT !.at = "dialog"]]
  BY DEF Stays, Fronts
<1>2. front \in [Fronts -> FrontRecords] /\ "dialog" \in FrontStages
  BY DEF Fine, FrontStages
<1>3. /\ front' \in [Fronts -> FrontRecords] /\ front'[w].at = "dialog"
      /\ \A v \in Fronts \ {w} : front'[v] = front[v]
  BY <1>1, <1>2, FrontMoved
<1>4. Covered(manager) \/ front'["settings"].at \in Asking
  BY <1>3 DEF Fronts, Asking
<1> QED
  BY <1>1, <1>3, <1>4 DEF Fine, InOrder

\* A task ends.
LEMMA Ends ==
  ASSUME Fine(manager, front, manual, phase), NEW w \in Fronts,
         phase = "running", manager' \in Managers, manual => Off(manager'),
         Covered(manager') \/ (w # "settings" /\ front["settings"].at \in Asking),
         front' = [front EXCEPT ![w] = Idle]
  PROVE  InOrder
<1>1. front \in [Fronts -> FrontRecords]
  BY DEF Fine
<1>2. /\ front' \in [Fronts -> FrontRecords]
      /\ \A v \in Fronts \ {w} : front'[v] = front[v]
  BY <1>1, NoneAreRecords
<1>3. Covered(manager') \/ front'["settings"].at \in Asking
  BY <1>2 DEF Fronts
<1> QED
  BY <1>2, <1>3 DEF Fine, InOrder

LEMMA ReturnSettles ==
  ASSUME Fine(manager, front, manual, phase),
         NEW w \in Workers, NEW m, Serves(w, m), FrontReturns(w, m)
  PROVE  InOrder
<1>1. m \in Managers
  BY DEF Serves
<1>2. CASE w = "loop"
  <2>1. manager' = LoopEnded(m) /\ front' = front
    BY <1>2 DEF FrontReturns
  <2>2. phase \in {"running", "ending"}
    BY <1>2 DEF Serves
  <2>3. manager' \in Managers /\ (manual => Off(manager'))
        /\ (phase = "running" => Covered(manager'))
    BY <1>1, <2>1, LoopEndedIs DEF Serves
  <2> QED
    BY <2>1, <2>2, <2>3 DEF Fine, InOrder
<1>3. CASE w # "loop"
  <2>1. manager' = m /\ front' = [front EXCEPT ![w] = Idle] /\ w \in Fronts
    BY <1>3 DEF FrontReturns, Workers
  <2> QED
    BY <1>1, <1>3, <2>1, Ends DEF Serves
<1> QED
  BY <1>2, <1>3

LEMMA RaiseSettles ==
  ASSUME Fine(manager, front, manual, phase),
         NEW w \in Workers, NEW m, Serves(w, m), Raises(w, m)
  PROVE  InOrder
<1>1. m \in Managers
  BY DEF Serves
<1>2. CASE w = "loop"
  <2>1. manager' = LoopFailed(m) /\ front' = front
    BY <1>2 DEF Raises
  <2>2. phase \in {"running", "ending"}
    BY <1>2 DEF Serves
  <2>3. manager' \in Managers /\ (manual => Off(manager')) /\ Covered(manager')
    BY <1>1, <2>1, LoopFailedIs DEF Serves
  <2> QED
    BY <2>1, <2>2, <2>3 DEF Fine, InOrder
<1>3. CASE w # "loop"
  <2>1. /\ manager' = IF w = "settings" THEN Retried(m) ELSE m
        /\ front' = [front EXCEPT ![w] = Idle] /\ w \in Fronts
    BY <1>3 DEF Raises, Workers
  <2>2. phase = "running"
    BY <1>3 DEF Serves
  <2>3. manager' \in Managers /\ (manual => Off(manager'))
    BY <1>1, <2>1, RetriedIs DEF Serves
  <2>4. Covered(manager') \/ (w # "settings" /\ front["settings"].at \in Asking)
    BY <1>1, <2>1, <2>2, RetriedIs DEF Serves
  <2> QED
    BY <2>1, <2>2, <2>3, <2>4, Ends
<1> QED
  BY <1>2, <1>3

LEMMA RequestSettles ==
  ASSUME Fine(manager, front, manual, phase),
         NEW w \in Workers, NEW m, Serves(w, m), NEW stage, NextRequest(w, m, stage),
         stage \in (LoopStages \cap FrontStages) \ {"none"}
  PROVE  InOrder
BY StaysSettles, RaiseSettles DEF NextRequest

\* The connection is lost or needs another pairing.
LEMMA LostServes ==
  ASSUME NEW w \in Workers, Serves(w, manager)
  PROVE  Serves(w, Retried(Lost(manager)))
<1>1. PICK l \in Managers : l = Lost(manager)
  BY LostIs DEF Serves
<1>2. (Off(manager) => Off(l)) /\ l.loop.at = manager.loop.at
  BY <1>1, LostIs DEF Serves
<1>3. /\ Retried(l) \in Managers /\ (Off(l) => Off(Retried(l)))
      /\ (phase = "running" => Covered(Retried(l)))
      /\ (l.loop.at # "none" => Retried(l).loop.at # "none")
  BY RetriedIs
<1> QED
  BY <1>1, <1>2, <1>3 DEF Serves

LEMMA LostSettles ==
  ASSUME Fine(manager, front, manual, phase),
         NEW w \in Workers, Serves(w, manager), ReturnsLost(w)
  PROVE  InOrder
<1>1. PICK m : m = Retried(Lost(manager))
  OBVIOUS
<1>2. Serves(w, m)
  BY <1>1, LostServes
<1>3. FrontReturns(w, m)
  BY <1>1 DEF ReturnsLost
<1> QED
  BY <1>2, <1>3, ReturnSettles

LEMMA UnpairedSettles ==
  ASSUME Fine(manager, front, manual, phase),
         NEW w \in Workers, Serves(w, manager), ReturnsUnpaired(w)
  PROVE  InOrder
<1>1. PICK m \in Managers :
        m = IF w = "loop" THEN [manager EXCEPT !.loop.held = FALSE] ELSE manager
  BY DEF Serves, Managers, LoopRecords
<1>2. m.loop.at = manager.loop.at
  BY <1>1 DEF Serves, Managers, LoopRecords
<1>3. FrontReturns(w, NeedsPairing(m))
  BY <1>1, Zenon DEF ReturnsUnpaired
<1>4. NeedsPairing(m) \in Managers /\ Off(NeedsPairing(m)) /\ Covered(NeedsPairing(m))
  BY NeedsPairingIs
<1>5. CASE w # "loop"
  <2>1. Serves(w, NeedsPairing(m))
    BY <1>4, <1>5 DEF Serves
  <2> QED
    BY <1>3, <2>1, ReturnSettles
<1>6. CASE w = "loop"
  <2>1. manager' = LoopEnded(NeedsPairing(m)) /\ front' = front
    BY <1>3, <1>6 DEF FrontReturns
  <2>2. phase \in {"running", "ending"}
    BY <1>6 DEF Serves
  <2>3. manager' \in Managers /\ Off(manager') /\ (phase = "running" => Covered(manager'))
    BY <1>4, <2>1, LoopEndedIs
  <2> QED
    BY <2>1, <2>2, <2>3 DEF Fine, InOrder
<1> QED
  BY <1>5, <1>6

-----------------------------------------------------------------------------
(* The actions keep the manager and its tasks in order.                    *)

Requesting == {"status", "pairing", "chat", "agent", "refreshing"}

LEMMA RequestingServes ==
  ASSUME ConnectionInv, NEW w \in Workers,
         NEW stage \in Requesting \cup {"probing", "saved"}, IsAt(w, stage)
  PROVE  Serves(w, manager)
<1>1. stage \in FrontStages \cup LoopStages /\ stage \notin {"none", "waiting", "dialog"}
  BY DEF Requesting, FrontStages, LoopStages, Connecting
<1> QED
  BY <1>1, TaskServes DEF ConnectionInv, Around

LEMMA RequestingStages ==
  /\ Requesting \subseteq (LoopStages \cap FrontStages) \ {"none"}
  /\ "probing" \in (LoopStages \cap FrontStages) \ {"none"}
BY DEF Requesting, LoopStages, FrontStages, Connecting

LEMMA AuthenticatingServes ==
  ASSUME NEW w \in Workers, Serves(w, manager)
  PROVE  LET m == [IF w = "loop" THEN [manager EXCEPT !.loop.held = FALSE]
                   ELSE LoopCancelled(manager) EXCEPT !.state = "authenticating"]
         IN  Serves(w, m)
<1> DEFINE m == [IF w = "loop" THEN [manager EXCEPT !.loop.held = FALSE]
                 ELSE LoopCancelled(manager) EXCEPT !.state = "authenticating"]
<1>1. manager \in Managers
  BY DEF Serves
<1>2. PICK h \in Managers : h = [manager EXCEPT !.loop.held = FALSE]
  BY <1>1 DEF Managers, LoopRecords
<1>3. /\ h.auto = manager.auto /\ h.active = manager.active /\ h.attempt = manager.attempt
      /\ h.loop.at = manager.loop.at /\ h.loop.stale = manager.loop.stale
  BY <1>1, <1>2 DEF Managers, LoopRecords
<1>4. Off(manager) => Off(h)
  BY <1>3 DEF Off
<1>5. PICK n \in Managers : n = IF w = "loop" THEN h ELSE LoopCancelled(manager)
  BY <1>1, LoopCancelledIs
<1>6. (Off(manager) => Off(n)) /\ (w = "loop" => n.loop.at = manager.loop.at)
  BY <1>1, <1>3, <1>4, <1>5, LoopCancelledIs
<1>7. m = [n EXCEPT !.state = "authenticating"]
  BY <1>2, <1>5, Zenon
<1> HIDE DEF m
<1>8. /\ m \in Managers /\ m.state = "authenticating" /\ m.auto = n.auto
      /\ m.active = n.active /\ m.attempt = n.attempt /\ m.loop = n.loop
  BY <1>7 DEF Managers, States
<1>9. (Off(n) => Off(m)) /\ Covered(m)
  BY <1>8 DEF Off, Covered
<1>10. Serves(w, m)
  BY <1>6, <1>8, <1>9 DEF Serves
<1> QED
  BY <1>10 DEF m

LEMMA BeginConnectedSettles ==
  ASSUME ConnectionInv, NEW w \in Workers, BeginConnected(w)
  PROVE  InOrder
<1>1. Serves(w, manager)
  BY RequestingServes DEF BeginConnected
<1>2. PICK m : m = [IF w = "loop" THEN [manager EXCEPT !.loop.held = FALSE]
                    ELSE LoopCancelled(manager) EXCEPT !.state = "authenticating"]
  OBVIOUS
<1>3. Serves(w, m)
  BY <1>1, <1>2, AuthenticatingServes
<1>4. NextRequest(w, m, IF token' THEN "status" ELSE "pairing")
  BY <1>2, Zenon DEF BeginConnected
<1>5. PICK stage \in Requesting : stage = IF token' THEN "status" ELSE "pairing"
  BY DEF Requesting
<1>6. NextRequest(w, m, stage)
  BY <1>4, <1>5, Zenon
<1> QED
  BY <1>3, <1>6, RequestSettles, RequestingStages DEF ConnectionInv

LEMMA FailedServes ==
  ASSUME NEW w \in Workers, Serves(w, manager)
  PROVE  Serves(w, [manager EXCEPT !.state = "failed"])
<1>1. PICK m \in Managers : m = [manager EXCEPT !.state = "failed"]
  BY DEF Serves, Managers, States
<1>2. /\ m.state = "failed" /\ m.auto = manager.auto /\ m.active = manager.active
      /\ m.attempt = manager.attempt /\ m.loop = manager.loop
  BY <1>1 DEF Serves, Managers
<1> QED
  BY <1>1, <1>2 DEF Serves, Off, Covered

LEMMA ConnectedServes ==
  ASSUME NEW w \in Workers, Serves(w, manager), manager.active # NoProfile
  PROVE  Serves(w, [manager EXCEPT !.state = "connected", !.failures = 0, !.auto = TRUE])
<1>1. manager \in Managers /\ ~manual
  BY DEF Serves, Off
<1>2. PICK m : m = [manager EXCEPT !.state = "connected", !.failures = 0, !.auto = TRUE]
  OBVIOUS
<1>3. m \in Managers
  <2>1. 0 \in 0 .. 2 /\ "connected" \in States
    BY DEF States
  <2> QED
    BY <1>1, <1>2, <2>1 DEF Managers
<1>4. m.state = "connected" /\ m.loop = manager.loop
  BY <1>1, <1>2 DEF Managers
<1>5. Serves(w, m)
  BY <1>1, <1>3, <1>4 DEF Serves, Covered
<1> QED
  BY <1>2, <1>5

LEMMA MarkConnectedSettles ==
  ASSUME ConnectionInv, NEW w \in Workers, Serves(w, manager), MarkConnected(w)
  PROVE  InOrder
<1>1. CASE manager.active = NoProfile
  BY <1>1, RaiseSettles DEF MarkConnected, ConnectionInv
<1>2. CASE manager.active # NoProfile
  <2>1. PICK m : m = [manager EXCEPT !.state = "connected", !.failures = 0, !.auto = TRUE]
    OBVIOUS
  <2>2. Serves(w, m)
    BY <1>2, <2>1, ConnectedServes
  <2>3. FrontReturns(w, m) \/ Stays(w, m, "refreshing")
    BY <1>2, <2>1, Zenon DEF MarkConnected
  <2>4. "refreshing" \in Requesting
    BY DEF Requesting
  <2> QED
    BY <2>2, <2>3, <2>4, ReturnSettles, StaysSettles, RequestingStages DEF ConnectionInv
<1> QED
  BY <1>1, <1>2

LEMMA ConnectedSettles ==
  ASSUME ConnectionInv, NEW w \in Workers, Connected(w)
  PROVE  InOrder
<1> USE RequestingStages DEF ConnectionInv
<1>1. ASSUME Pair(w) PROVE InOrder
  <2>1. Serves(w, manager)
    BY <1>1, RequestingServes DEF Pair, Requesting
  <2>2. "status" \in Requesting
    BY DEF Requesting
  <2> QED
    BY <1>1, <2>1, <2>2, RequestSettles, UnpairedSettles DEF Pair
<1>2. ASSUME GoodStatus(w) PROVE InOrder
  <2>1. Serves(w, manager)
    BY <1>2, RequestingServes DEF GoodStatus, Requesting
  <2>2. "chat" \in Requesting
    BY DEF Requesting
  <2> QED
    BY <1>2, <2>1, <2>2, RequestSettles DEF GoodStatus
<1>3. ASSUME NEW answer \in {"mismatch", "unauthorized", "down", "malformed"},
             BadStatus(w, answer)
      PROVE  InOrder
  <2>1. Serves(w, manager)
    BY <1>3, RequestingServes DEF BadStatus, Requesting
  <2>2. PICK m : m = [manager EXCEPT !.state = "failed"]
    OBVIOUS
  <2>3. Serves(w, m)
    BY <2>1, <2>2, FailedServes
  <2>4. ReturnsUnpaired(w) \/ ReturnsLost(w) \/ FrontReturns(w, m)
    BY <1>3, <2>2, Zenon DEF BadStatus
  <2> QED
    BY <2>1, <2>3, <2>4, UnpairedSettles, LostSettles, ReturnSettles
<1>4. ASSUME OpenChat(w) PROVE InOrder
  <2>1. Serves(w, manager)
    BY <1>4, RequestingServes DEF OpenChat, Requesting
  <2>2. "agent" \in Requesting
    BY DEF Requesting
  <2>3. MarkConnected(w) \/ Stays(w, manager, "agent") \/ ReturnsLost(w)
    BY <1>4 DEF OpenChat
  <2> QED
    BY <2>1, <2>2, <2>3, MarkConnectedSettles, StaysSettles, LostSettles
<1>5. ASSUME StartAgent(w) PROVE InOrder
  <2>1. Serves(w, manager)
    BY <1>5, RequestingServes DEF StartAgent, Requesting
  <2> QED
    BY <1>5, <2>1, MarkConnectedSettles DEF StartAgent
<1>6. ASSUME Refresh(w) PROVE InOrder
  <2>1. Serves(w, manager)
    BY <1>6, RequestingServes DEF Refresh, Requesting
  <2> QED
    BY <1>6, <2>1, ReturnSettles DEF Refresh
<1> QED
  BY <1>1, <1>2, <1>3, <1>4, <1>5, <1>6, BeginConnectedSettles DEF Connected

\* The end of an attempt: its outcome wakes who waits for it.
LEMMA AnsweredIs ==
  /\ \A l \in LoopRecords, outcome \in Outcomes :
       /\ Answered(l, outcome) \in LoopRecords
       /\ Answered(l, outcome).at = l.at /\ Answered(l, outcome).stale = l.stale
  /\ \A f \in FrontRecords, outcome \in Outcomes :
       Answered(f, outcome) \in FrontRecords /\ Answered(f, outcome).at = f.at
BY DEF Answered, LoopRecords, FrontRecords

LEMMA EndAttemptSettles ==
  ASSUME Fine(manager, front, manual, phase), manager.attempt.at # "none",
         NEW m \in Managers, NEW outcome \in Outcomes, EndAttempt(m, outcome),
         manual => Off(m), Covered(manager) => Covered(m), m.loop = manager.loop
  PROVE  InOrder
<1>1. PICK l \in LoopRecords : l = Answered(m.loop, outcome)
  BY AnsweredIs DEF Managers
<1>2. l.at = m.loop.at /\ l.stale = m.loop.stale
  BY <1>1, AnsweredIs DEF Managers
<1>3. manager' = [m EXCEPT !.attempt = NoAttempt, !.loop = l]
  BY <1>1 DEF EndAttempt, Managers
<1>4. /\ manager' \in Managers /\ manager'.loop = l /\ manager'.attempt = NoAttempt
      /\ manager'.state = m.state /\ manager'.auto = m.auto
      /\ manager'.active = m.active /\ manager'.profiles = m.profiles
  BY <1>3, NoneAreRecords DEF Managers
<1>5. (manual => Off(manager')) /\ (Covered(manager) => Covered(manager'))
  BY <1>2, <1>4, NoneAreRecords DEF Off, Covered
<1>6. /\ front' \in [Fronts -> FrontRecords]
      /\ \A w \in Fronts : front'[w].at = front[w].at
  BY AnsweredIs DEF EndAttempt, Fine
<1>7. phase \notin {"stopped", "over"}
  BY DEF Fine, TaskRests
<1> QED
  BY <1>4, <1>5, <1>6, <1>7 DEF Fine, InOrder, Fronts

LEMMA AttemptSettles ==
  ASSUME ConnectionInv,
         \/ AttemptBegins \/ AttemptIsStale
         \/ \E outcome \in {"ok", "mismatch", "down"} : ProbeAnswers(outcome)
  PROVE  InOrder
<1> USE DEF ConnectionInv
<1>0. manager \in Managers
  BY DEF Fine
<1>1. ASSUME AttemptBegins PROVE InOrder
  <2>1. PICK a \in AttemptRecords :
          a = [manager.attempt EXCEPT !.at = "probing", !.left = manager.profiles]
    BY <1>0 DEF Managers, AttemptRecords
  <2>2. manager' = [manager EXCEPT !.state = "connecting", !.active = NoProfile, !.attempt = a]
    BY <1>0, <1>1, <2>1 DEF AttemptBegins, Managers, AttemptRecords
  <2>3. manager' \in Managers /\ manager'.state = "connecting"
    BY <1>0, <2>2 DEF Managers, States
  <2>4. Covered(manager')
    BY <2>3 DEF Covered
  <2>5. ~manual /\ phase \notin {"stopped", "over"} /\ front' = front
    BY <1>1 DEF AttemptBegins, Fine, Off, TaskRests
  <2> QED
    BY <2>3, <2>4, <2>5 DEF Fine, InOrder
<1>2. ASSUME AttemptIsStale PROVE InOrder
  <2>1. NoProfile \in Outcomes
    BY DEF Outcomes
  <2> QED
    BY <1>0, <1>2, <2>1, EndAttemptSettles DEF AttemptIsStale, Fine
<1>3. ASSUME NEW outcome \in {"ok", "mismatch", "down"}, ProbeAnswers(outcome)
      PROVE  InOrder
  <2>1. /\ manager.attempt.at = "probing" /\ ~manager.attempt.stale
        /\ manager.attempt.left # << >> /\ manager.attempt.left \in Seq(Profiles)
    BY <1>0, <1>3 DEF ProbeAnswers, Managers, AttemptRecords
  <2>2. ~manual
    BY <2>1 DEF Fine, Off
  <2>3. Head(manager.attempt.left) \in Profiles /\ Tail(manager.attempt.left) \in Seq(Profiles)
    BY <2>1
  <2> DEFINE wrong == [manager.attempt EXCEPT !.left = Tail(@),
                         !.mismatch = @ \/ outcome = "mismatch",
                         !.retryable = @ \/ outcome = "down"]
  <2>4. wrong \in AttemptRecords /\ wrong.at = "probing"
    BY <1>0, <2>1, <2>3 DEF Managers, AttemptRecords
  <2>5. wrong.mismatch \in BOOLEAN /\ wrong.retryable \in BOOLEAN
    BY <2>4 DEF AttemptRecords
  <2>6. ASSUME outcome = "ok" PROVE InOrder
    <3>1. PICK m : m = [manager EXCEPT !.active = Head(manager.attempt.left),
                          !.state = "authenticating", !.failures = 0]
      OBVIOUS
    <3>2. 0 \in 0 .. 2 /\ "authenticating" \in States
      BY DEF States
    <3>3. m \in Managers /\ m.state = "authenticating" /\ m.loop = manager.loop
      BY <1>0, <2>3, <3>1, <3>2 DEF Managers
    <3>4. EndAttempt(m, Head(manager.attempt.left))
      BY <1>3, <2>6, <3>1, Zenon DEF ProbeAnswers
    <3>5. Head(manager.attempt.left) \in Outcomes
      BY <2>3 DEF Outcomes
    <3>6. Covered(m)
      BY <3>3 DEF Covered
    <3> QED
      BY <2>1, <2>2, <3>3, <3>4, <3>5, <3>6, EndAttemptSettles
  <2> HIDE DEF wrong
  <2>7. ASSUME outcome # "ok", manager' = [manager EXCEPT !.attempt = wrong], front' = front
        PROVE  InOrder
    <3>1. /\ manager' \in Managers /\ manager'.state = manager.state
          /\ manager'.auto = manager.auto /\ manager'.active = manager.active
          /\ manager'.profiles = manager.profiles /\ manager'.loop = manager.loop
      BY <1>0, <2>4, <2>7 DEF Managers
    <3>2. Covered(manager) => Covered(manager')
      BY <3>1 DEF Covered
    <3>3. phase \notin {"stopped", "over"}
      BY <2>1 DEF Fine, TaskRests
    <3> QED
      BY <2>2, <2>7, <3>1, <3>2, <3>3 DEF Fine, InOrder
  <2>8. ASSUME outcome # "ok",
               EndAttempt([manager EXCEPT !.state = "failed",
                             !.auto = @ /\ (wrong.mismatch => wrong.retryable)], NoProfile)
        PROVE  InOrder
    <3>1. PICK on \in BOOLEAN : on = (manager.auto /\ (wrong.mismatch => wrong.retryable))
      BY <1>0, <2>5 DEF Managers
    <3>2. PICK m : m = [manager EXCEPT !.state = "failed", !.auto = on]
      OBVIOUS
    <3>3. m = [manager EXCEPT !.state = "failed",
                 !.auto = @ /\ (wrong.mismatch => wrong.retryable)]
      BY <3>1, <3>2, Zenon
    <3>4. m \in Managers /\ m.state = "failed" /\ m.loop = manager.loop
      BY <1>0, <3>1, <3>2 DEF Managers, States
    <3>5. EndAttempt(m, NoProfile)
      BY <2>8, <3>3, Zenon
    <3>6. Covered(m) /\ NoProfile \in Outcomes
      BY <3>4 DEF Covered, Outcomes
    <3> QED
      BY <2>1, <2>2, <3>4, <3>5, <3>6, EndAttemptSettles
  <2>9. \/ outcome = "ok"
        \/ outcome # "ok" /\ manager' = [manager EXCEPT !.attempt = wrong] /\ front' = front
        \/ outcome # "ok"
           /\ EndAttempt([manager EXCEPT !.state = "failed",
                            !.auto = @ /\ (wrong.mismatch => wrong.retryable)], NoProfile)
    BY <1>3, Zenon DEF ProbeAnswers, wrong
  <2> QED
    BY <2>6, <2>7, <2>8, <2>9
<1> QED
  BY <1>1, <1>2, <1>3

\* A retry by a task that has no stage in the manager.
LEMMA RetrySettles ==
  ASSUME Fine(manager, front, manual, phase), NEW m \in Managers, manual => Off(m),
         phase \in {"stopped", "over"} => TaskRests(m),
         manager' = Retried(m), front' = front
  PROVE  InOrder
<1>1. /\ manager' \in Managers /\ (manual => Off(manager'))
      /\ (phase = "running" => Covered(manager'))
      /\ (phase # "running" => manager' = m)
  BY RetriedIs
<1> QED
  BY <1>1 DEF Fine, InOrder

LEMMA MarksLostSettles ==
  ASSUME ConnectionInv, MarksLost
  PROVE  InOrder
<1>1. manager \in Managers
  BY DEF ConnectionInv, Fine
<1>2. PICK m \in Managers : m = Lost(manager)
  BY <1>1, LostIs
<1>3. (Off(manager) => Off(m)) /\ (TaskRests(manager) => TaskRests(m))
  BY <1>1, <1>2, LostIs DEF TaskRests
<1>4. manager' = Retried(m) /\ front' = front
  BY <1>2 DEF MarksLost
<1>5. (manual => Off(m)) /\ (phase \in {"stopped", "over"} => TaskRests(m))
  BY <1>3 DEF ConnectionInv, Fine
<1> QED
  BY <1>4, <1>5, RetrySettles DEF ConnectionInv

\* Another mark on the manager, and nothing else.
LEMMA MarkedSettles ==
  ASSUME Fine(manager, front, manual, phase), phase = "running",
         manager' \in Managers, manual => Off(manager'),
         Covered(manager) => Covered(manager'), front' = front
  PROVE  InOrder
BY DEF Fine, InOrder

\* The loop takes another turn.
LEMMA LoopSettles ==
  ASSUME ConnectionInv, LoopTurns \/ LoopWakes
  PROVE  InOrder
<1> USE DEF ConnectionInv
<1>0. manager \in Managers /\ "loop" \in Workers
  BY DEF Fine, Workers
<1>1. manager.loop.at \notin {"none", "waiting", "dialog"}
  BY DEF LoopTurns, LoopWakes
<1>2. manager.loop.at \in LoopStages /\ IsAt("loop", manager.loop.at)
  BY <1>0 DEF Managers, LoopRecords, IsAt
<1>3. Serves("loop", manager)
  BY <1>0, <1>1, <1>2, TaskServes DEF Around
<1>4. {"sleeping", "probing"} \subseteq LoopStages \ {"none"}
  BY DEF LoopStages
<1>5. ASSUME Stays("loop", [manager EXCEPT !.state = "reconnect_wait"], "sleeping")
      PROVE  InOrder
  <2>1. PICK m \in Managers : m = [manager EXCEPT !.state = "reconnect_wait"]
    BY <1>0 DEF Managers, States
  <2>2. /\ m.auto = manager.auto /\ m.active = manager.active
        /\ m.attempt = manager.attempt /\ m.loop = manager.loop
    BY <1>0, <2>1 DEF Managers
  <2>3. Serves("loop", m)
    BY <1>3, <2>2 DEF Serves, Off, Covered
  <2>4. Stays("loop", m, "sleeping")
    BY <1>5, <2>1, Zenon
  <2> QED
    BY <1>0, <1>4, <2>3, <2>4, StaysSettles
<1>6. ASSUME ~manager.loop.stale, Stays("loop", Attempted(manager), "probing")
      PROVE  InOrder
  <2>1. PICK a \in AttemptRecords : a = [NoAttempt EXCEPT !.at = "new"]
    BY NoneAreRecords DEF AttemptRecords
  <2>2. PICK n \in Managers : n = [manager EXCEPT !.attempt = a]
    BY <1>0 DEF Managers
  <2>3. n.loop = manager.loop
    BY <1>0, <2>2 DEF Managers
  <2>4. PICK m \in Managers : m = Attempted(manager)
    BY <1>0, <2>1, <2>2 DEF Attempted
  <2>5. m = n \/ m = manager
    BY <2>1, <2>2, <2>4 DEF Attempted
  <2>6. ~manual
    BY <1>1, <1>6 DEF Fine, Off
  <2>7. m.loop.at # "none"
    BY <1>1, <2>3, <2>5
  <2>8. Serves("loop", m)
    BY <1>3, <2>6, <2>7 DEF Serves, Covered
  <2>9. Stays("loop", m, "probing")
    BY <1>6, <2>4, Zenon
  <2> QED
    BY <1>0, <1>4, <2>8, <2>9, StaysSettles
<1>7. \/ FrontReturns("loop", manager)
      \/ Stays("loop", [manager EXCEPT !.state = "reconnect_wait"], "sleeping")
      \/ ~manager.loop.stale /\ Stays("loop", Attempted(manager), "probing")
  BY Zenon DEF LoopTurns, LoopWakes
<1> QED
  BY <1>0, <1>3, <1>5, <1>6, <1>7, ReturnSettles

LEMMA RetriedServes ==
  ASSUME NEW w \in Fronts, NEW m \in Managers, manual => Off(m), phase = "running"
  PROVE  Serves(w, Retried(m))
BY RetriedIs DEF Serves, Fronts

\* A front that tries what is saved, asks, or gives up.
LEMMA FrontSettles ==
  ASSUME ConnectionInv, NEW w \in Fronts,
         EnterFront(w) \/ FrontFails(w) \/ DialogRejected(w)
  PROVE  InOrder
<1> USE DEF ConnectionInv
<1>0. manager \in Managers /\ w \in Workers
  BY DEF Fine, Workers
<1>1. phase = "running"
  BY DEF EnterFront, FrontFails, DialogRejected, Fine
<1>2. Covered(manager) \/ front["settings"].at \in Asking
  BY <1>1 DEF Fine
<1>3. ASSUME Stays(w, manager, "dialog") PROVE InOrder
  BY <1>1, <1>2, <1>3, DialogSettles
<1>4. ASSUME manager.auto,
             FrontReturns(w, Retried([manager EXCEPT !.state = "reconnect_wait"]))
      PROVE  InOrder
  <2>1. PICK m \in Managers : m = [manager EXCEPT !.state = "reconnect_wait"]
    BY <1>0 DEF Managers, States
  <2>2. PICK r : r = Retried(m)
    OBVIOUS
  <2>3. ~manual
    BY <1>4 DEF Fine, Off
  <2>4. Serves(w, r)
    BY <1>1, <2>2, <2>3, RetriedServes
  <2>5. FrontReturns(w, r)
    BY <1>4, <2>1, <2>2, Zenon
  <2> QED
    BY <1>0, <2>4, <2>5, ReturnSettles
<1>5. ASSUME FrontReturns(w, Retried(manager)) PROVE InOrder
  <2>1. PICK r : r = Retried(manager)
    OBVIOUS
  <2>2. Serves(w, r)
    BY <1>0, <1>1, <2>1, RetriedServes DEF Fine
  <2>3. FrontReturns(w, r)
    BY <1>5, <2>1
  <2> QED
    BY <1>0, <2>2, <2>3, ReturnSettles
<1>6. \/ Stays(w, manager, "dialog")
      \/ manager.auto /\ FrontReturns(w, Retried([manager EXCEPT !.state = "reconnect_wait"]))
      \/ FrontReturns(w, Retried(manager))
  BY Zenon DEF EnterFront, FrontFails, DialogRejected
<1> QED
  BY <1>3, <1>4, <1>5, <1>6

\* What was entered: the manual disconnect is over.
LEMMA AcceptedSettles ==
  ASSUME ConnectionInv, NEW w \in Fronts, NEW list \in Entered, DialogAccepted(w, list)
  PROVE  Fine(manager', front', FALSE, phase)
<1> USE DEF ConnectionInv
<1>0. manager \in Managers
  BY DEF Fine
<1>1. phase = "running"
  BY DEF DialogAccepted, Fine
<1>2. PICK o \in Managers : o = Outdated(manager)
  BY <1>0, OutdatedIs
<1>3. PICK s : s = SetProfiles(manager, list)
  OBVIOUS
<1>4. s = [o EXCEPT !.profiles = list, !.active = NoProfile,
             !.state = "disconnected", !.failures = 0, !.auto = TRUE]
  BY <1>2, <1>3, Zenon DEF SetProfiles
<1>5. 0 \in 0 .. 2 /\ "disconnected" \in States /\ list \in Seq(Profiles)
  BY ConnectionAssumption DEF States
<1>6. s \in Managers /\ s.state = "disconnected"
  BY <1>4, <1>5 DEF Managers
<1>7. PICK a \in AttemptRecords : a = [NoAttempt EXCEPT !.at = "new"]
  BY NoneAreRecords DEF AttemptRecords
<1>8. PICK n \in Managers : n = [s EXCEPT !.attempt = a]
  BY <1>6, <1>7 DEF Managers
<1>9. n.state = "disconnected"
  BY <1>6, <1>8 DEF Managers
<1>10. Attempted(s) = s \/ Attempted(s) = n
  BY <1>7, <1>8 DEF Attempted
<1>11. Stays(w, Attempted(s), "probing")
  BY <1>3, Zenon DEF DialogAccepted
<1>12. manager' = Attempted(s) /\ front' = [front EXCEPT ![w] = [Idle EXCEPT !.at = "probing"]]
  BY <1>11 DEF Stays, Fronts
<1>13. manager' \in Managers /\ Covered(manager')
  BY <1>6, <1>8, <1>9, <1>10, <1>12 DEF Covered
<1>14. "probing" \in FrontStages /\ front \in [Fronts -> FrontRecords]
  BY DEF FrontStages, Fine
<1>15. front' \in [Fronts -> FrontRecords]
  BY <1>12, <1>14, FrontMoved
<1> QED
  BY <1>1, <1>13, <1>15 DEF Fine

LEMMA SettingsSettles ==
  ASSUME ConnectionInv, ConnectionSettings
  PROVE  Fine(manager', front', FALSE, phase)
<1> USE DEF ConnectionInv
<1>0. manager \in Managers /\ front \in [Fronts -> FrontRecords] /\ phase = "running"
  BY DEF Fine, ConnectionSettings
<1>1. PICK c \in Managers : c = LoopCancelled(manager)
  BY <1>0, LoopCancelledIs
<1>2. PICK state \in States :
        state = IF c.state = "manual_offline" THEN "disconnected" ELSE c.state
  BY DEF Managers, States
<1>3. PICK l \in LoopRecords : l = [c.loop EXCEPT !.held = FALSE]
  BY DEF Managers, LoopRecords
<1>4. manager' = [c EXCEPT !.auto = TRUE, !.state = state, !.loop = l]
  BY <1>1, <1>2, <1>3 DEF ConnectionSettings, Managers
<1>5. manager' \in Managers
  BY <1>4 DEF Managers
<1>6. front' = [front EXCEPT !["settings"] = [Idle EXCEPT !.at = "waiting"]]
  BY DEF ConnectionSettings
<1>7. "settings" \in Fronts /\ "waiting" \in FrontStages
  BY DEF Fronts, FrontStages
<1>8. front' \in [Fronts -> FrontRecords] /\ front'["settings"].at = "waiting"
  BY <1>0, <1>6, <1>7, FrontMoved
<1> QED
  BY <1>0, <1>5, <1>8 DEF Fine, Asking

LEMMA DisconnectSettles ==
  ASSUME ConnectionInv, DisconnectManually
  PROVE  Fine(manager', front', TRUE, phase)
<1> USE DEF ConnectionInv
<1>0. manager \in Managers /\ front' = front /\ phase = "running"
  BY DEF Fine, DisconnectManually
<1>1. PICK c \in Managers : c = LoopCancelled(manager)
  BY <1>0, LoopCancelledIs
<1>2. PICK o \in Managers : o = Outdated(c)
  BY OutdatedIs
<1>3. /\ c.loop.at # "none" => o.loop.stale
      /\ c.attempt.at # "none" => o.attempt.stale
      /\ o.loop.at = c.loop.at /\ o.attempt.at = c.attempt.at
  BY <1>2, OutdatedIs
<1>4. PICK n : n = ManuallyOff(c)
  OBVIOUS
<1>5. n = [o EXCEPT !.active = NoProfile, !.failures = 0, !.auto = FALSE,
             !.state = "manual_offline"]
  BY <1>2, <1>4, Zenon DEF ManuallyOff
<1>6. 0 \in 0 .. 2 /\ "manual_offline" \in States
  BY DEF States
<1>7. /\ n \in Managers /\ n.active = NoProfile /\ n.auto = FALSE
      /\ n.loop = o.loop /\ n.attempt = o.attempt
  BY <1>5, <1>6 DEF Managers
<1>8. PICK l \in LoopRecords : l = [n.loop EXCEPT !.held = FALSE]
  BY <1>7 DEF Managers, LoopRecords
<1>9. l.at = n.loop.at /\ l.stale = n.loop.stale
  BY <1>7, <1>8 DEF Managers, LoopRecords
<1>10. manager' = [n EXCEPT !.loop = l]
  BY <1>1, <1>4, <1>7, <1>8 DEF DisconnectManually, Managers
<1>11. /\ manager' \in Managers /\ manager'.active = NoProfile /\ manager'.auto = FALSE
       /\ manager'.loop = l /\ manager'.attempt = o.attempt
  BY <1>7, <1>10 DEF Managers
<1>12. Off(manager') /\ Covered(manager')
  BY <1>3, <1>7, <1>9, <1>11 DEF Off, Covered
<1> QED
  BY <1>0, <1>11, <1>12 DEF Fine

\* The monitor marks the manager, or gives the connection up.
LEMMA CountedIs ==
  ASSUME NEW n \in 0 .. 2, NEW m \in Managers
  PROVE  LET r == [m EXCEPT !.failures = n]
         IN  /\ r \in Managers /\ r.active = m.active /\ r.loop = m.loop
             /\ r.attempt = m.attempt /\ r.auto = m.auto
             /\ (Off(m) => Off(r)) /\ (Covered(m) => Covered(r))
<1> DEFINE r == [m EXCEPT !.failures = n]
<1>1. r \in Managers /\ r.state = m.state /\ r.active = m.active /\ r.auto = m.auto
      /\ r.profiles = m.profiles /\ r.loop = m.loop /\ r.attempt = m.attempt
  BY DEF Managers
<1> HIDE DEF r
<1>2. (Off(m) => Off(r)) /\ (Covered(m) => Covered(r))
  BY <1>1 DEF Off, Covered
<1> QED
  BY <1>1, <1>2 DEF r

LEMMA GivenUpIs ==
  ASSUME NEW m \in Managers
  PROVE  LET r == [m EXCEPT !.active = NoProfile, !.state = "reconnect_wait"]
         IN  r \in Managers /\ (Off(m) => Off(r))
BY DEF Managers, States, Off

LEMMA MonitorSettles ==
  ASSUME ConnectionInv, MonitorWakes \/ MonitorChecked \/ MonitorAnswered
  PROVE  InOrder
<1> USE DEF ConnectionInv
<1>0. manager \in Managers /\ phase = "running" /\ front' = front /\ (manual => Off(manager))
  BY DEF Fine, Around, MonitorWakes, MonitorChecked, MonitorAnswered
<1>1. ASSUME manager' = manager PROVE InOrder
  BY <1>0, <1>1, MarkedSettles
<1>2. ASSUME NEW m \in Managers, manager' = Retried(m), manual => Off(m)
      PROVE  InOrder
  BY <1>0, <1>2, RetrySettles
<1>3. ASSUME NEW m \in Managers, manager' = Retried(Lost(m)), manual => Off(m)
      PROVE  InOrder
  <2>1. PICK l \in Managers : l = Lost(m)
    BY <1>3, LostIs
  <2>2. manual => Off(l)
    BY <1>3, <2>1, LostIs
  <2>3. manager' = Retried(l)
    BY <1>3, <2>1
  <2> QED
    BY <1>2, <2>2, <2>3
<1>4. ASSUME manager' = NeedsPairing(manager) PROVE InOrder
  <2>1. manager' \in Managers /\ Off(manager') /\ Covered(manager')
    BY <1>0, <1>4, NeedsPairingIs
  <2> QED
    BY <1>0, <2>1, MarkedSettles
<1>5. ASSUME manager' = [manager EXCEPT !.state = "failed"] PROVE InOrder
  <2>1. /\ manager' \in Managers /\ manager'.state = "failed"
        /\ manager'.active = manager.active /\ manager'.auto = manager.auto
        /\ manager'.loop = manager.loop /\ manager'.attempt = manager.attempt
    BY <1>0, <1>5 DEF Managers, States
  <2>2. (Off(manager) => Off(manager')) /\ Covered(manager')
    BY <2>1 DEF Off, Covered
  <2> QED
    BY <1>0, <2>1, <2>2, MarkedSettles
<1>6. ASSUME NEW n \in 0 .. 2, manager' = [manager EXCEPT !.failures = n] PROVE InOrder
  <2>1. manager' \in Managers /\ (Off(manager) => Off(manager'))
        /\ (Covered(manager) => Covered(manager'))
    BY <1>0, <1>6, CountedIs
  <2> QED
    BY <1>0, <2>1, MarkedSettles
<1>7. MonitorWakes => InOrder
  BY <1>0, <1>1, <1>2 DEF MonitorWakes, MonitorEnds
<1>8. ASSUME MonitorChecked PROVE InOrder
  <2>1. PICK n \in 0 .. 2 : n = Failures
    BY <1>0 DEF Failures, Managers
  <2>2. PICK m \in Managers : m = [manager EXCEPT !.failures = n]
    BY <1>0 DEF Managers
  <2>3. PICK z \in Managers : z = [manager EXCEPT !.failures = 0]
    <3>1. 0 \in 0 .. 2
      OBVIOUS
    <3> QED
      BY <1>0, <3>1 DEF Managers
  <2>4. (Off(manager) => Off(m)) /\ m.active = manager.active
    BY <1>0, <2>2, CountedIs
  <2>5. 0 \in 0 .. 2
    OBVIOUS
  <2>6. Off(manager) => Off(z)
    BY <1>0, <2>3, <2>5, CountedIs
  <2>7. HealthIsGood => InOrder
    <3>1. HealthIsGood => manager' = z \/ manager' = Retried(Lost(z))
      BY <2>3, Zenon DEF HealthIsGood, Monitors, MonitorEnds
    <3>2. manager' = z => InOrder
      BY <1>6, <2>3, <2>5
    <3> QED
      BY <1>0, <1>3, <2>6, <3>1, <3>2
  <2>8. ASSUME manager' = Retried(IdentityChanged) PROVE InOrder
    <3>1. PICK g \in Managers : g = IdentityChanged
      BY <1>0, GivenUpIs DEF IdentityChanged
    <3>2. Off(manager) => Off(g)
      BY <1>0, <3>1, GivenUpIs DEF IdentityChanged
    <3> QED
      BY <1>0, <1>2, <2>8, <3>1, <3>2
  <2>9. PICK g : g = [m EXCEPT !.active = NoProfile, !.state = "reconnect_wait"]
    OBVIOUS
  <2>10. g \in Managers /\ (Off(m) => Off(g))
    BY <2>9, GivenUpIs
  <2>11. g = [manager EXCEPT !.failures = n, !.active = NoProfile, !.state = "reconnect_wait"]
    BY <1>0, <2>2, <2>9 DEF Managers
  <2>12. HealthFailed = m \/ HealthFailed = g
    BY <2>1, <2>2, <2>11, Zenon DEF HealthFailed
  <2>13. ASSUME manager' = Retried(HealthFailed) PROVE InOrder
    BY <1>0, <1>2, <2>4, <2>10, <2>12, <2>13
  <2>14. g.active = NoProfile
    BY <2>9 DEF Managers
  <2>15. ASSUME HealthFailed.active # NoProfile, manager' = HealthFailed PROVE InOrder
    <3>1. manager' = m
      BY <2>12, <2>14, <2>15
    <3> QED
      BY <1>6, <2>2, <3>1
  <2>16. \/ HealthIsGood \/ manager' = Retried(IdentityChanged)
         \/ manager' = Retried(HealthFailed)
         \/ HealthFailed.active # NoProfile /\ manager' = HealthFailed
    BY <1>8, Zenon DEF MonitorChecked, Monitors, MonitorEnds
  <2> QED
    BY <2>7, <2>8, <2>13, <2>15, <2>16
<1>9. ASSUME MonitorAnswered PROVE InOrder
  <2>1. \/ manager' = manager \/ manager' = Retried(Lost(manager))
        \/ manager' = NeedsPairing(manager)
        \/ manager' = [manager EXCEPT !.state = "failed"]
    BY <1>9, Zenon DEF MonitorAnswered, StatusIsGood, StatusIsDown, StatusIsRefused,
      StatusIsOfAnother, Monitors, MonitorEnds
  <2> QED
    BY <1>0, <1>1, <1>3, <1>4, <1>5, <2>1
<1> QED
  BY <1>7, <1>8, <1>9

LEMMA StopSettles ==
  ASSUME ConnectionInv, Quit \/ StopManager \/ StopClient
  PROVE  Fine(manager', front', manual, phase')
<1> USE DEF ConnectionInv
<1>0. manager \in Managers
  BY DEF Fine
<1>1. ASSUME Quit PROVE Fine(manager', front', manual, phase')
  <2>1. manager' \in Managers /\ (Off(manager) => Off(manager'))
    BY <1>0, <1>1, LoopCancelledIs DEF Quit
  <2>2. phase' = "ending" /\ front' = [w \in Fronts |-> Idle]
    BY <1>1 DEF Quit
  <2> QED
    BY <2>1, <2>2, NoneAreRecords DEF Fine
<1>2. ASSUME StopManager PROVE Fine(manager', front', manual, phase')
  <2>1. PICK o \in Managers : o = Outdated(manager)
    BY <1>0, OutdatedIs
  <2>2. manager' = [o EXCEPT !.attempt = NoAttempt, !.loop = NoLoop,
                      !.active = NoProfile, !.auto = FALSE, !.state = "disconnected"]
    BY <1>2, <2>1, Zenon DEF StopManager
  <2>3. /\ manager' \in Managers /\ manager'.attempt = NoAttempt /\ manager'.loop = NoLoop
        /\ manager'.active = NoProfile /\ manager'.auto = FALSE
    BY <2>2, NoneAreRecords DEF Managers, States
  <2>4. Off(manager') /\ TaskRests(manager')
    BY <2>3, NoneAreRecords DEF Off, TaskRests
  <2>5. phase = "ending" /\ phase' = "stopped" /\ front' = front
    BY <1>2 DEF StopManager
  <2> QED
    BY <2>3, <2>4, <2>5 DEF Fine
<1>3. ASSUME StopClient PROVE Fine(manager', front', manual, phase')
  BY <1>3 DEF StopClient, Fine
<1> QED
  BY <1>1, <1>2, <1>3

LEMMA FineNext ==
  ASSUME ConnectionInv, [ConnectionNext]_connectionVars
  PROVE  Fine(manager, front, manual, phase)'
<1>1. ASSUME InOrder, manual' = manual, phase' = phase
      PROVE  Fine(manager, front, manual, phase)'
  BY <1>1 DEF InOrder
<1>2. CASE AttemptBegins \/ AttemptIsStale
           \/ \E outcome \in {"ok", "mismatch", "down"} : ProbeAnswers(outcome)
  <2>1. manual' = manual /\ phase' = phase
    BY <1>2 DEF AttemptBegins, AttemptIsStale, ProbeAnswers
  <2> QED
    BY <1>1, <1>2, <2>1, AttemptSettles
<1>3. ASSUME NEW w \in Workers, Connected(w) PROVE Fine(manager, front, manual, phase)'
  <2>1. manual' = manual /\ phase' = phase
    BY <1>3 DEF Connected, BeginConnected, Pair, GoodStatus, BadStatus, OpenChat,
      StartAgent, Refresh
  <2> QED
    BY <1>1, <1>3, <2>1, ConnectedSettles
<1>4. CASE LoopTurns \/ LoopWakes
  <2>1. manual' = manual /\ phase' = phase
    BY <1>4 DEF LoopTurns, LoopWakes
  <2> QED
    BY <1>1, <1>4, <2>1, LoopSettles
<1>5. ASSUME NEW w \in Fronts, EnterFront(w) \/ FrontFails(w) \/ DialogRejected(w)
      PROVE  Fine(manager, front, manual, phase)'
  <2>1. manual' = manual /\ phase' = phase
    BY <1>5 DEF EnterFront, FrontFails, DialogRejected
  <2> QED
    BY <1>1, <1>5, <2>1, FrontSettles
<1>6. ASSUME NEW w \in Fronts, NEW list \in Entered, DialogAccepted(w, list)
      PROVE  Fine(manager, front, manual, phase)'
  <2>1. manual' = FALSE /\ phase' = phase
    BY <1>6 DEF DialogAccepted
  <2>2. Fine(manager', front', FALSE, phase)
    BY <1>6, AcceptedSettles
  <2> QED
    BY <2>1, <2>2
<1>7. CASE ConnectionSettings
  <2>1. manual' = FALSE /\ phase' = phase
    BY <1>7 DEF ConnectionSettings
  <2> QED
    BY <1>7, <2>1, SettingsSettles
<1>8. CASE DisconnectManually
  <2>1. manual' = TRUE /\ phase' = phase
    BY <1>8 DEF DisconnectManually
  <2> QED
    BY <1>8, <2>1, DisconnectSettles
<1>9. CASE MonitorWakes \/ MonitorChecked \/ MonitorAnswered
  <2>1. manual' = manual /\ phase' = phase
    BY <1>9 DEF MonitorWakes, MonitorChecked, MonitorAnswered
  <2> QED
    BY <1>1, <1>9, <2>1, MonitorSettles
<1>10. CASE Quit \/ StopManager \/ StopClient
  <2>1. manual' = manual
    BY <1>10 DEF Quit, StopManager, StopClient
  <2>2. Fine(manager', front', manual, phase')
    BY <1>10, StopSettles
  <2> QED
    BY <2>1, <2>2
<1>11. CASE SendOpens \/ SendEnds \/ ChatDrops
  <2>1. manual' = manual /\ phase' = phase
    BY <1>11 DEF SendOpens, SendEnds, ChatDrops
  <2>2. MarksLost \/ (manager' = manager /\ front' = front)
    BY <1>11 DEF SendOpens, SendEnds, ChatDrops
  <2>3. manager' = manager /\ front' = front => InOrder
    BY DEF InOrder, ConnectionInv
  <2> QED
    BY <1>1, <2>1, <2>2, <2>3, MarksLostSettles
<1>12. CASE BeginSend \/ CloseChat \/ CloseAgent \/ UNCHANGED connectionVars
  <2>1. manual' = manual /\ phase' = phase /\ manager' = manager /\ front' = front
    BY <1>12 DEF BeginSend, CloseChat, CloseAgent, connectionVars
  <2> QED
    BY <2>1 DEF ConnectionInv
<1> QED
  BY <1>2, <1>3, <1>4, <1>5, <1>6, <1>7, <1>8, <1>9, <1>10, <1>11, <1>12
    DEF ConnectionNext, Workers

-----------------------------------------------------------------------------
(* What stands around the manager.                                         *)

LEMMA MonitorsAre ==
  /\ NoMonitor \in MonitorRecords /\ NoMonitor.at = "none"
  /\ [NoMonitor EXCEPT !.at = "sleeping"] \in MonitorRecords
  /\ \A p \in Profiles \cup {NoProfile} : [at |-> "checking", watched |-> p] \in MonitorRecords
  /\ \A r \in MonitorRecords : [r EXCEPT !.at = "status"] \in MonitorRecords
BY DEF NoMonitor, MonitorRecords

LEMMA CountersAre ==
  \A b \in [authentication : 0 .. 2, status : 0 .. 2], n \in 0 .. 2 :
    /\ [b EXCEPT !.authentication = n] \in [authentication : 0 .. 2, status : 0 .. 2]
    /\ [b EXCEPT !.status = n] \in [authentication : 0 .. 2, status : 0 .. 2]
OBVIOUS

LEMMA AroundNext ==
  ASSUME ConnectionInv, [ConnectionNext]_connectionVars
  PROVE  Around'
<1> USE MonitorsAre, CountersAre DEF ConnectionInv, Around
<1>0. /\ \A w \in Fronts : front[w].at # "none" => phase = "running"
      /\ manager.loop.at # "none" => phase \in {"running", "ending"}
      /\ manager \in Managers /\ manager.active \in Profiles \cup {NoProfile}
  BY DEF Fine, TaskRests, Managers
<1>1. \A n \in {0, 1} : n + 1 \in 0 .. 2
  OBVIOUS
<1>2. \A answer : RefusedStatuses(answer) \in 0 .. 2
  BY DEF RefusedStatuses
<1>3. ScheduleClose => closing' \subseteq {"chat", "agent"}
  BY DEF ScheduleClose
<1>4. ASSUME NEW w \in Workers, Connected(w) PROVE Around'
  <2>0. phase \in {"running", "ending"} /\ (w # "loop" => phase = "running")
    BY <1>0, <1>4 DEF Workers, Connected, BeginConnected, Pair, GoodStatus, BadStatus,
      OpenChat, StartAgent, Refresh, IsAt
  <2>1. ASSUME MarkConnected(w)
        PROVE  /\ monitor' \in MonitorRecords
               /\ badAnswers' \in [authentication : 0 .. 2, status : 0 .. 2]
               /\ phase # "running" => monitor'.at = "none"
    BY <2>1 DEF MarkConnected
  <2>2. BeginConnected(w) => Around'
    BY DEF BeginConnected
  <2>3. ASSUME Pair(w) PROVE Around'
    <3>1. PICK paired \in BOOLEAN : paired = (manager.active # NoProfile)
      OBVIOUS
    <3>2. \/ token' = paired /\ monitor' = monitor /\ closing' = closing
          \/ ReturnsUnpaired(w)
      BY <2>3, <3>1, Zenon DEF Pair
    <3>3. token' \in BOOLEAN /\ monitor' \in {monitor, NoMonitor}
          /\ closing' \subseteq {"chat", "agent"}
      BY <1>3, <3>1, <3>2 DEF ReturnsUnpaired
    <3>4. UNCHANGED <<badAnswers, chat, send, phase, manual>>
      BY <2>3 DEF Pair
    <3> QED
      BY <3>3, <3>4
  <2>4. GoodStatus(w) => Around'
    BY DEF GoodStatus, netVars
  <2>5. ASSUME NEW answer \in {"mismatch", "unauthorized", "down", "malformed"},
               BadStatus(w, answer)
        PROVE  Around'
    <3>1. badAnswers' = [badAnswers EXCEPT !.authentication = RefusedStatuses(answer)]
      BY <2>5 DEF BadStatus
    <3>2. badAnswers' \in [authentication : 0 .. 2, status : 0 .. 2]
      BY <1>2, <3>1
    <3>3. /\ monitor' \in {monitor, NoMonitor} /\ token' \in {token, FALSE}
          /\ closing' \subseteq {"chat", "agent"}
      BY <1>3, <2>5 DEF BadStatus, ReturnsUnpaired, ReturnsLost
    <3>4. chat' = chat /\ send' = send /\ phase' = phase /\ manual' = manual
      BY <2>5 DEF BadStatus
    <3> QED
      BY <3>2, <3>3, <3>4
  <2>6. ASSUME OpenChat(w) PROVE Around'
    <3>1. phase' = phase /\ manual' = manual
      BY <2>6 DEF OpenChat
    <3>2. ASSUME chat' = TRUE, send' \in {send, Replaced}, token' = token,
                 closing' = closing, MarkConnected(w)
          PROVE  Around'
      BY <2>0, <2>1, <3>1, <3>2 DEF Replaced
    <3>3. ASSUME chat' = TRUE, send' \in {send, Replaced}, token' = token,
                 closing' = closing, monitor' = monitor, badAnswers' = badAnswers
          PROVE  Around'
      BY <2>0, <3>1, <3>3 DEF Replaced
    <3>4. ASSUME ReturnsLost(w), chat' = FALSE, send' = Replaced, badAnswers' = badAnswers
          PROVE  Around'
      BY <1>3, <2>0, <3>1, <3>4 DEF Replaced, ReturnsLost
    <3> QED
      BY <2>6, <3>2, <3>3, <3>4 DEF OpenChat
  <2>7. StartAgent(w) => Around'
    BY <2>1 DEF StartAgent, netVars
  <2>8. Refresh(w) => Around'
    BY DEF Refresh, netVars
  <2> QED
    BY <1>4, <2>2, <2>3, <2>4, <2>5, <2>6, <2>7, <2>8 DEF Connected
<1>5. CASE \/ AttemptBegins \/ AttemptIsStale
           \/ \E outcome \in {"ok", "mismatch", "down"} : ProbeAnswers(outcome)
           \/ LoopTurns \/ LoopWakes \/ UNCHANGED connectionVars
           \/ \E w \in Fronts : EnterFront(w) \/ FrontFails(w)
           \/ \E w \in Fronts, list \in Entered : DialogAccepted(w, list)
  <2>1. /\ UNCHANGED <<monitor, badAnswers, token, chat, closing, send, phase>>
        /\ manual' \in {manual, FALSE}
    BY <1>5 DEF AttemptBegins, AttemptIsStale, ProbeAnswers, LoopTurns, LoopWakes,
      EnterFront, FrontFails, DialogAccepted, connectionVars, netVars
  <2> QED
    BY <2>1
<1>6. ASSUME NEW w \in Fronts, DialogRejected(w) PROVE Around'
  <2>1. phase = "running"
    BY <1>0, <1>6 DEF DialogRejected
  <2>2. UNCHANGED <<badAnswers, netVars, phase, manual>>
    BY <1>6, Zenon DEF DialogRejected
  <2>3. monitor' = [NoMonitor EXCEPT !.at = "sleeping"] \/ monitor' = monitor
    BY <1>6, Zenon DEF DialogRejected
  <2>4. monitor' \in MonitorRecords
    BY <2>3
  <2> QED
    BY <2>1, <2>2, <2>4 DEF netVars
<1>7. ASSUME ConnectionSettings PROVE Around'
  <2>1. badAnswers' \in [authentication : 0 .. 2, status : 0 .. 2]
    <3>1. badAnswers' = [badAnswers EXCEPT !.authentication = 0]
      BY <1>7, Zenon DEF ConnectionSettings
    <3> QED
      BY <3>1
  <2>2. monitor' = NoMonitor /\ manual' = FALSE /\ UNCHANGED <<token, chat, closing, send, phase>>
    BY <1>7 DEF ConnectionSettings, netVars
  <2> QED
    BY <2>1, <2>2
<1>8. DisconnectManually => Around'
  BY <1>3 DEF DisconnectManually
<1>9. BeginSend => Around'
  BY DEF BeginSend
<1>10. SendOpens => Around'
  BY <1>3 DEF SendOpens, MarksLost
<1>11. SendEnds => Around'
  BY <1>3 DEF SendEnds, MarksLost
<1>12. ChatDrops => Around'
  BY <1>3 DEF ChatDrops, MarksLost, Replaced
<1>13. ASSUME CloseChat \/ CloseAgent PROVE Around'
  <2>1. closing' \subseteq {"chat", "agent"}
    BY <1>13 DEF CloseChat, CloseAgent
  <2>2. \/ chat' = FALSE /\ send' = Replaced
        \/ chat' = chat /\ send' = send
    BY <1>13 DEF CloseChat, CloseAgent
  <2>3. UNCHANGED <<monitor, badAnswers, token, phase, manual>>
    BY <1>13 DEF CloseChat, CloseAgent
  <2>4. /\ send' \in {"none", "opening", "waiting", "failed"} /\ chat' \in BOOLEAN
        /\ send' = "waiting" => chat'
        /\ send = "none" => send' = "none"
        /\ chat' => chat
    <3>1. CASE chat' = FALSE /\ send' = Replaced
      BY <3>1 DEF Replaced
    <3>2. CASE chat' = chat /\ send' = send
      BY <3>2, Zenon
    <3> QED
      BY <2>2, <3>1, <3>2
  <2> QED
    BY <2>1, <2>3, <2>4
<1>14. ASSUME MonitorWakes \/ MonitorChecked PROVE Around'
  <2>1. phase = "running"
    BY <1>14 DEF MonitorWakes, MonitorChecked
  <2>2. monitor' \in MonitorRecords
    <3>1. \/ monitor' \in {NoMonitor, [NoMonitor EXCEPT !.at = "sleeping"]}
          \/ monitor' = [at |-> "checking", watched |-> manager.active]
          \/ monitor' = [monitor EXCEPT !.at = "status"]
      <4>1. MonitorWakes => \/ monitor' = NoMonitor
                            \/ monitor' = [at |-> "checking", watched |-> manager.active]
        BY DEF MonitorWakes, MonitorEnds
      <4>2. ASSUME NEW m, Monitors(m) \/ MonitorEnds(m)
            PROVE  monitor' \in {NoMonitor, [NoMonitor EXCEPT !.at = "sleeping"]}
        BY <4>2 DEF Monitors, MonitorEnds
      <4>3. HealthIsGood => \/ monitor' \in {NoMonitor, [NoMonitor EXCEPT !.at = "sleeping"]}
                            \/ monitor' = [monitor EXCEPT !.at = "status"]
        BY <4>2, Zenon DEF HealthIsGood
      <4> QED
        BY <1>14, <4>1, <4>2, <4>3, Zenon DEF MonitorChecked
    <3> QED
      BY <1>0, <3>1, Zenon
  <2>3. UNCHANGED <<badAnswers, token, chat, closing, send, phase, manual>>
    BY <1>14 DEF MonitorWakes, MonitorChecked, netVars
  <2> QED
    BY <2>1, <2>2, <2>3
<1>15. ASSUME MonitorAnswered PROVE Around'
  <2>1. phase = "running" /\ UNCHANGED <<chat, send, phase, manual>>
    BY <1>15 DEF MonitorAnswered
  <2>2. monitor' \in MonitorRecords /\ token' \in BOOLEAN /\ closing' \subseteq {"chat", "agent"}
    BY <1>3, <1>15 DEF MonitorAnswered, StatusIsGood, StatusIsDown, StatusIsRefused,
      StatusIsOfAnother, Monitors, MonitorEnds
  <2>3. badAnswers' \in [authentication : 0 .. 2, status : 0 .. 2]
    <3>1. StatusIsDown => badAnswers' \in [authentication : 0 .. 2, status : 0 .. 2]
      <4>1. badAnswers.status + 1 < 2 => badAnswers.status + 1 \in 0 .. 2
        OBVIOUS
      <4>2. badAnswers.status + 1 >= 2 \/ badAnswers.status + 1 < 2
        OBVIOUS
      <4> QED
        BY <4>1, <4>2 DEF StatusIsDown
    <3>2. StatusIsRefused => badAnswers' \in [authentication : 0 .. 2, status : 0 .. 2]
      BY <1>2 DEF StatusIsRefused
    <3>3. StatusIsGood => badAnswers' \in [authentication : 0 .. 2, status : 0 .. 2]
      BY DEF StatusIsGood
    <3> QED
      BY <1>15, <3>1, <3>2, <3>3 DEF MonitorAnswered, StatusIsOfAnother
  <2> QED
    BY <2>1, <2>2, <2>3
<1>16. Quit => Around'
  BY <1>3 DEF Quit
<1>17. StopManager => Around'
  BY DEF StopManager, netVars
<1>18. StopClient => Around'
  BY DEF StopClient, Replaced
<1> QED
  BY <1>4, <1>5, <1>6, <1>7, <1>8, <1>9, <1>10, <1>11, <1>12, <1>13, <1>14, <1>15,
    <1>16, <1>17, <1>18 DEF ConnectionNext, Workers

LEMMA ConnectionInvInit == ConnectionInit => ConnectionInv
<1> SUFFICES ASSUME ConnectionInit PROVE ConnectionInv
  OBVIOUS
<1>1. PICK a \in AttemptRecords :
        a = IF Saved = << >> THEN NoAttempt ELSE [NoAttempt EXCEPT !.at = "new"]
  BY NoneAreRecords DEF AttemptRecords
<1>2. 0 \in 0 .. 2 /\ "disconnected" \in States /\ Saved \in Seq(Profiles)
  BY ConnectionAssumption DEF States
<1>3. manager = [state |-> "disconnected", active |-> NoProfile, auto |-> TRUE,
                 profiles |-> Saved, failures |-> 0, loop |-> NoLoop, attempt |-> a]
  BY <1>1 DEF ConnectionInit
<1>4. manager \in Managers /\ manager.state = "disconnected"
  BY <1>2, <1>3, NoneAreRecords DEF Managers
<1>5. PICK stage \in FrontStages : stage = IF Saved = << >> THEN "dialog" ELSE "saved"
  BY DEF FrontStages
<1>6. PICK r \in FrontRecords : r = [Idle EXCEPT !.at = stage]
  BY NoneAreRecords DEF FrontRecords
<1>7. front = [w \in Fronts |-> IF w = "settings" THEN Idle ELSE r]
  BY <1>5, <1>6, Zenon DEF ConnectionInit
<1>8. front \in [Fronts -> FrontRecords]
  BY <1>6, <1>7, NoneAreRecords
<1>9. Covered(manager) /\ ~manual /\ phase = "running"
  BY <1>4 DEF Covered, ConnectionInit
<1>10. Around
  <2>1. badAnswers \in [authentication : 0 .. 2, status : 0 .. 2]
    BY <1>2 DEF ConnectionInit
  <2> QED
    BY <2>1, MonitorsAre DEF ConnectionInit, Around
<1> QED
  BY <1>4, <1>8, <1>9, <1>10 DEF ConnectionInv, Fine

LEMMA ConnectionInvariant == ConnectionSpec => []ConnectionInv
<1>1. ConnectionInv /\ [ConnectionNext]_connectionVars => ConnectionInv'
  <2> SUFFICES ASSUME ConnectionInv, [ConnectionNext]_connectionVars PROVE ConnectionInv'
    OBVIOUS
  <2> QED
    BY FineNext, AroundNext DEF ConnectionInv
<1> QED
  BY <1>1, ConnectionInvInit, PTL DEF ConnectionSpec

\* What the tasks of Link hold of its connection has its type
\* (nivelle_link/network.py and app.py), for every list of profiles.
THEOREM ConnectionTypes == ConnectionSpec => []ConnectionTypeOK
<1>1. ConnectionInv => ConnectionTypeOK
  <2> SUFFICES ASSUME ConnectionInv PROVE ConnectionTypeOK
    OBVIOUS
  <2>1. manager \in Managers /\ front \in [Fronts -> FrontRecords]
    BY DEF ConnectionInv, Fine
  <2>2. /\ manager.state \in States /\ manager.active \in Profiles \cup {NoProfile}
        /\ manager.auto \in BOOLEAN /\ manager.failures \in 0 .. 2
        /\ manager.attempt.at \in {"none", "new", "probing"}
        /\ manager.loop.at \in {"none", "new", "sleeping", "probing"} \cup Connecting
    BY <2>1 DEF Managers, AttemptRecords, LoopRecords, LoopStages
  <2>3. \A w \in Fronts :
          front[w].at \in {"none", "waiting", "saved", "probing", "dialog"} \cup Connecting
    BY <2>1 DEF FrontRecords, FrontStages
  <2>4. monitor.at \in {"none", "sleeping", "checking", "status"}
    BY DEF ConnectionInv, Around, MonitorRecords
  <2> QED
    BY <2>2, <2>3, <2>4 DEF ConnectionInv, Around, ConnectionTypeOK
<1> QED
  BY <1>1, ConnectionInvariant, PTL

\* While Link shows that it waits to reconnect somebody waits for the next
\* attempt, however retries, dialogs and older generations overlap
\* (docs/RECONNECT_STATE_MACHINE.md:13).
THEOREM ConnectionRetries == ConnectionSpec => []WaitingMeansRetrying
<1>1. ConnectionInv => WaitingMeansRetrying
  BY DEF ConnectionInv, Fine, Covered, Asking, WaitingMeansRetrying, SomebodyConnects, Fronts
<1> QED
  BY <1>1, ConnectionInvariant, PTL

\* After a manual disconnect nothing that was under way brings a connection
\* back, the retry loop and the shared attempt of an older generation included
\* (docs/RECONNECT_STATE_MACHINE.md:15).
THEOREM ConnectionManual == ConnectionSpec => []ManualStaysOffline
<1>1. ConnectionInv => ManualStaysOffline
  BY DEF ConnectionInv, Fine, Off, ManualStaysOffline
<1> QED
  BY <1>1, ConnectionInvariant, PTL

\* A request that waits for its answer is told when its socket is gone
\* (network.py:706-760).
THEOREM ConnectionTellsSend == ConnectionSpec => []SendIsNotStranded
<1>1. ConnectionInv => SendIsNotStranded
  BY DEF ConnectionInv, Around, SendIsNotStranded
<1> QED
  BY <1>1, ConnectionInvariant, PTL

\* When the application is over no task is left that could connect and no
\* socket is open (docs/RECONNECT_STATE_MACHINE.md:28-30).
THEOREM ConnectionShutsDown == ConnectionSpec => []ShutdownLeavesNothing
<1>1. ConnectionInv => ShutdownLeavesNothing
  BY DEF ConnectionInv, Fine, Around, TaskRests, ShutdownLeavesNothing, SomebodyConnects
<1> QED
  BY <1>1, ConnectionInvariant, PTL
=============================================================================
