------------------------------- MODULE Schema -------------------------------
(***************************************************************************)
(* Database.initialize of Core (nivelle_core/database.py): the schema is   *)
(* brought from whatever version the file has to the latest, across        *)
(* crashes, full disks and damaged backups.                                *)
(*                                                                         *)
(* Versions 4 to 8 change data and are one transaction each, marker        *)
(* included.  The others are scripts that commit before their marker does, *)
(* written so that they can be repeated.                                   *)
(***************************************************************************)
EXTENDS Naturals

CONSTANTS
  Versions,       \* 1 .. LATEST_SCHEMA_VERSION
  Transactional,  \* versions in {4, 5, 6, 7, 8}
  MaxStarts       \* bound: starts of Core

ASSUME SchemaAssumption ==
  /\ \E n \in Versions : Versions = 1 .. n
  /\ Transactional \subseteq Versions
  /\ MaxStarts \in Nat

Latest == CHOOSE v \in Versions : \A w \in Versions : w <= v

VARIABLES
  stage,     \* where initialize() stands, or "down"
  existed,   \* the file held something when initialize() began
  markers,   \* rows of schema_versions
  content,   \* versions whose statements the file has
  old,       \* versions the file had before any Core of this release opened
             \* it, or {} for a new file
  backups,   \* what each verified backup holds: its versions
  indexed,   \* the full-text indexes were rebuilt by this process, or given up
  starts     \* starts so far

schemaVars == <<stage, existed, markers, content, old, backups, indexed, starts>>

SchemaTypeOK ==
  /\ stage \in {"down", "opened", "migrating", "migrated", "ready", "failed"}
  /\ existed \in BOOLEAN /\ indexed \in BOOLEAN
  /\ markers \subseteq Versions /\ content \subseteq Versions
  /\ old \subseteq Versions
  /\ backups \subseteq SUBSET Versions
  /\ starts \in 0 .. MaxStarts

\* A file of any earlier release, or none.
SchemaInit ==
  /\ \E n \in Versions \cup {0} : old = 1 .. n
  /\ markers = old /\ content = old
  /\ stage = "down" /\ existed = FALSE
  /\ backups = {} /\ indexed = FALSE
  /\ starts = 0

Exists == old # {} \/ starts > 0

OpenDatabase ==
  /\ stage = "down" /\ starts < MaxStarts
  /\ starts' = starts + 1
  /\ stage' = "opened"
  /\ existed' = Exists
  /\ indexed' = FALSE
  /\ UNCHANGED <<markers, content, old, backups>>

MaxMarker == IF markers = {} THEN 0 ELSE CHOOSE v \in markers : \A w \in markers : w <= v

\* _backup_before_migration: an older file is copied and the copy checked.
BackUp ==
  /\ stage = "opened"
  /\ \/ /\ existed /\ MaxMarker < Latest
        /\ \/ backups' = backups \cup {content} /\ stage' = "migrating"
           \/ stage' = "failed" /\ UNCHANGED backups
     \/ /\ ~(existed /\ MaxMarker < Latest)
        /\ stage' = "migrating"
        /\ UNCHANGED backups
  /\ UNCHANGED <<existed, markers, content, old, indexed, starts>>

NextVersion == CHOOSE v \in Versions \ markers : \A w \in Versions \ markers : v <= w

\* _apply_transactional_migration: all of it or nothing.
MigrateAtOnce ==
  /\ stage = "migrating" /\ Versions # markers
  /\ NextVersion \in Transactional
  /\ \/ /\ content' = content \cup {NextVersion}
        /\ markers' = markers \cup {NextVersion}
        /\ UNCHANGED stage
     \/ stage' = "failed" /\ UNCHANGED <<content, markers>>
  /\ UNCHANGED <<existed, old, backups, indexed, starts>>

\* executescript: done, or cut off anywhere by a failure.
RunScript ==
  /\ stage = "migrating" /\ Versions # markers
  /\ NextVersion \notin Transactional /\ NextVersion \notin content
  /\ content' = content \cup {NextVersion}
  /\ UNCHANGED <<stage, existed, markers, old, backups, indexed, starts>>

\* Variant: the marker is set whether or not the script has run.
MarkScriptFirst ==
  /\ stage = "migrating" /\ Versions # markers
  /\ NextVersion \notin Transactional
  /\ \/ markers' = markers \cup {NextVersion} /\ UNCHANGED stage
     \/ stage' = "failed" /\ UNCHANGED markers
  /\ UNCHANGED <<existed, content, old, backups, indexed, starts>>

MarkScript ==
  /\ stage = "migrating" /\ Versions # markers
  /\ NextVersion \notin Transactional /\ NextVersion \in content
  /\ \/ markers' = markers \cup {NextVersion} /\ UNCHANGED stage
     \/ stage' = "failed" /\ UNCHANGED markers
  /\ UNCHANGED <<existed, content, old, backups, indexed, starts>>

Migrated ==
  /\ stage = "migrating" /\ Versions = markers
  /\ stage' = "migrated"
  /\ UNCHANGED <<existed, markers, content, old, backups, indexed, starts>>

\* The full-text indexes are rebuilt at every start; without FTS5 the search
\* goes without them.
RebuildIndexes ==
  /\ stage = "migrated"
  /\ stage' = "ready"
  /\ indexed' \in BOOLEAN
  /\ UNCHANGED <<existed, markers, content, old, backups, starts>>

SchemaCrash ==
  /\ stage # "down"
  /\ stage' = "down"
  /\ UNCHANGED <<existed, markers, content, old, backups, indexed, starts>>

SchemaNext ==
  \/ OpenDatabase \/ BackUp \/ MigrateAtOnce \/ RunScript \/ MarkScript
  \/ Migrated \/ RebuildIndexes \/ SchemaCrash

SchemaSpec == SchemaInit /\ [][SchemaNext]_schemaVars

-----------------------------------------------------------------------------
(* Properties.                                                             *)

\* database.py:168-200, 254-335: before an old file is changed there is a
\* checked copy of it as it was, however often a migration was broken off; a
\* version that is marked is there with all before it, and Core serves only
\* with all of them.
NothingIsLost ==
  /\ old # {} /\ content # old => old \in backups
  /\ \A v \in markers : 1 .. v \subseteq content /\ 1 .. v \subseteq markers
  /\ stage = "ready" => content = Versions
=============================================================================
