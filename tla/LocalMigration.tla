--------------------------- MODULE LocalMigration ---------------------------
(***************************************************************************)
(* The one-time migration of a legacy data root                            *)
(* (nivelle_protocol/local_migration.py), run by every program that opens  *)
(* the data root: two of them may start together, each may die at any      *)
(* step, and the legacy program may still be writing.                      *)
(*                                                                         *)
(* Files are copied to a staging directory beside the destination, which   *)
(* one os.replace then puts in its place.                                  *)
(***************************************************************************)
EXTENDS Naturals

CONSTANTS
  Starters,    \* programs that open the data root
  OldDatabase, NewDatabase, \* one file under its legacy and its new name
  OtherFiles,
  MaxOpenings, MaxLegacyWrites \* bounds

Files == OtherFiles \cup {OldDatabase, NewDatabase}
Absent == 0
Own == MaxLegacyWrites + 2      \* what this release writes to a file

ASSUME MigrationAssumption ==
  /\ OldDatabase # NewDatabase
  /\ MaxOpenings \in Nat /\ MaxLegacyWrites \in Nat

VARIABLES
  legacy,    \* the legacy root: what each file holds
  root,      \* the destination
  staging,   \* the staging directory of each starter
  stands,    \* where each starter stands
  cleared,   \* it made sure that the destination is out of the way
  owned,     \* files this release has written in the destination
  openings, legacyWrites

migrationVars == <<legacy, root, staging, stands, cleared, owned, openings, legacyWrites>>

NoFiles == [f \in Files |-> Absent]
Tree(there, data, backup, marker) ==
  [there |-> there, data |-> data, backup |-> backup, marker |-> marker]
NoTree == Tree(FALSE, NoFiles, NoFiles, "none")
Trees == [there : BOOLEAN, data : [Files -> 0 .. Own], backup : [Files -> 0 .. Own],
          marker : {"none", "ours", "other"}]

MigrationTypeOK ==
  /\ legacy \in [Files -> 0 .. MaxLegacyWrites + 1]
  /\ root \in Trees /\ staging \in [Starters -> Trees]
  /\ stands \in [Starters -> {"out", "staging", "open", "refused"}]
  /\ cleared \in [Starters -> BOOLEAN]
  /\ owned \subseteq Files
  /\ openings \in 0 .. MaxOpenings /\ legacyWrites \in 0 .. MaxLegacyWrites

\* A machine with or without legacy data, whose destination is missing, an
\* empty directory, or marked by another installation.
MigrationInit ==
  /\ legacy \in [Files -> {Absent, 1}]
  /\ root \in {NoTree, Tree(TRUE, NoFiles, NoFiles, "none"),
               Tree(TRUE, NoFiles, NoFiles, "other")}
  /\ staging = [s \in Starters |-> NoTree]
  /\ stands = [s \in Starters |-> "out"]
  /\ cleared = [s \in Starters |-> FALSE]
  /\ owned = {} /\ openings = 0 /\ legacyWrites = 0

Goes(s, place) == stands' = [stands EXCEPT ![s] = place]

\* _tree_has_state: a marker is a file too.
HasState(tree) == tree.there /\ (tree.data # NoFiles \/ tree.marker # "none")

\* migrate_local_data up to the staging directory.
OpenRoot(s) ==
  /\ stands[s] = "out" /\ openings < MaxOpenings
  /\ openings' = openings + 1
  /\ cleared' = [cleared EXCEPT ![s] = FALSE]
  /\ CASE root.marker = "other" -> Goes(s, "refused") /\ UNCHANGED staging
       [] root.marker = "ours" -> Goes(s, "open") /\ UNCHANGED staging
       [] root.marker = "none" /\ legacy = NoFiles -> Goes(s, "open") /\ UNCHANGED staging
       [] OTHER ->
            IF HasState(root) \/ (legacy[OldDatabase] # Absent /\ legacy[NewDatabase] # Absent)
            THEN Goes(s, "refused") /\ UNCHANGED staging
            ELSE /\ Goes(s, "staging")
                 /\ staging' = [staging EXCEPT ![s] = Tree(TRUE, NoFiles, NoFiles, "none")]
  /\ UNCHANGED <<legacy, root, owned, legacyWrites>>

NewName(f) == IF f = OldDatabase THEN NewDatabase ELSE f
Copied(s) == \A f \in Files : legacy[f] # Absent => staging[s].data[NewName(f)] # Absent
BackedUp(s) == \A f \in Files : legacy[f] # Absent => staging[s].backup[f] # Absent

\* _copy_tree into the staging directory: each copy is verified, the
\* database is a snapshot under its new name.
CopyFile(s, f) ==
  /\ stands[s] = "staging" /\ legacy[f] # Absent
  /\ staging[s].data[NewName(f)] = Absent
  /\ staging' = [staging EXCEPT ![s].data[NewName(f)] = legacy[f]]
  /\ UNCHANGED <<legacy, root, stands, cleared, owned, openings, legacyWrites>>

\* A second verified copy, under the legacy names, is the backup.
BackUpFile(s, f) ==
  /\ stands[s] = "staging" /\ Copied(s) /\ legacy[f] # Absent
  /\ staging[s].backup[f] = Absent
  /\ staging' = [staging EXCEPT ![s].backup[f] = legacy[f]]
  /\ UNCHANGED <<legacy, root, stands, cleared, owned, openings, legacyWrites>>

WriteMarker(s) ==
  /\ stands[s] = "staging" /\ Copied(s) /\ BackedUp(s)
  /\ staging[s].marker = "none"
  /\ staging' = [staging EXCEPT ![s].marker = "ours"]
  /\ UNCHANGED <<legacy, root, stands, cleared, owned, openings, legacyWrites>>

\* _remove_verified_empty_tree: only a directory without files is removed.
ClearRoot(s) ==
  /\ stands[s] = "staging" /\ staging[s].marker = "ours" /\ ~cleared[s]
  /\ IF HasState(root)
     THEN Goes(s, "refused") /\ UNCHANGED <<root, cleared>>
     ELSE /\ root' = NoTree
          /\ cleared' = [cleared EXCEPT ![s] = TRUE]
          /\ UNCHANGED stands
  /\ UNCHANGED <<legacy, staging, owned, openings, legacyWrites>>

\* Variant: whatever stands at the destination is replaced.
PromoteOver(s) ==
  /\ stands[s] = "staging" /\ cleared[s]
  /\ root' = staging[s]
  /\ staging' = [staging EXCEPT ![s] = NoTree]
  /\ Goes(s, "open")
  /\ UNCHANGED <<legacy, cleared, owned, openings, legacyWrites>>

\* os.replace fails on a destination that is there again.
Promote(s) ==
  /\ stands[s] = "staging" /\ cleared[s]
  /\ IF root.there
     THEN Goes(s, "refused") /\ UNCHANGED <<root, staging>>
     ELSE /\ root' = staging[s]
          /\ staging' = [staging EXCEPT ![s] = NoTree]
          /\ Goes(s, "open")
  /\ UNCHANGED <<legacy, cleared, owned, openings, legacyWrites>>

\* A copy that fails its verification or a full disk stops the program, and a
\* program may be closed or die anywhere: its staging directory is abandoned.
EndMigration(s) ==
  /\ stands[s] # "out"
  /\ Goes(s, "out")
  /\ staging' = [staging EXCEPT ![s] = NoTree]
  /\ UNCHANGED <<legacy, root, cleared, owned, openings, legacyWrites>>

\* The program writes its files, in a root it may have to create.
WriteOwnFile(s, f) ==
  /\ stands[s] = "open" /\ f # OldDatabase
  /\ root' = [root EXCEPT !.there = TRUE, !.data[f] = Own]
  /\ owned' = owned \cup {f}
  /\ UNCHANGED <<legacy, staging, stands, cleared, openings, legacyWrites>>

\* The legacy program changes a file it has.
LegacyWrites(f) ==
  /\ legacyWrites < MaxLegacyWrites /\ legacy[f] # Absent
  /\ legacyWrites' = legacyWrites + 1
  /\ legacy' = [legacy EXCEPT ![f] = @ + 1]
  /\ UNCHANGED <<root, staging, stands, cleared, owned, openings>>

MigrationNext ==
  \/ \E s \in Starters :
       \/ OpenRoot(s) \/ WriteMarker(s) \/ ClearRoot(s) \/ Promote(s) \/ EndMigration(s)
       \/ \E f \in Files : CopyFile(s, f) \/ BackUpFile(s, f) \/ WriteOwnFile(s, f)
  \/ \E f \in Files : LegacyWrites(f)

MigrationSpec == MigrationInit /\ [][MigrationNext]_migrationVars

\* local_migration.py:289-382: whoever migrates, and whenever it dies, a root
\* marked as migrated has every legacy file under its new name and again in
\* its backup, and what this release wrote to it is never replaced, even by a
\* migration that began before.
MigrationIsWhole ==
  /\ root.marker = "ours" =>
       \A f \in Files : legacy[f] # Absent =>
         root.data[NewName(f)] # Absent /\ root.backup[f] # Absent
  /\ \A f \in owned : root.there /\ root.data[f] = Own
=============================================================================
