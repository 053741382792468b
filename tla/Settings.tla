----------------------------- MODULE Settings ------------------------------
(***************************************************************************)
(* ConfigService of Core (nivelle_core/config.py) and its endpoints        *)
(* (nivelle_core/app.py): a YAML file per section and the table            *)
(* settings_revisions.                                                     *)
(*                                                                         *)
(* The file is replaced atomically and before its revision is inserted; a  *)
(* lock per section keeps two saves apart.  A value has one field that is  *)
(* special and the rest: for "server" the advertised host, which an older  *)
(* Link leaves out, for "models" the endpoint, which the environment may   *)
(* override whenever the section is read.                                  *)
(***************************************************************************)
EXTENDS Naturals, Sequences

CONSTANTS
  Sections,     \* sections of the instance, among "server" and "models"
  Fields,       \* values of the special field
  Rests,        \* values of everything else
  LeftOut,      \* a special field that is not in the request
  Override,     \* NIVELLE_PROVIDER_ENDPOINT or --provider-endpoint, or LeftOut
  Saves,        \* requests that may arrive
  Nobody,       \* of a lock that is free
  MaxMishaps    \* bound: failing writes and crashes

ASSUME SettingsAssumption ==
  /\ Sections \subseteq {"server", "models"}
  /\ LeftOut \notin Fields /\ Override \in Fields \cup {LeftOut}
  /\ Nobody \notin Saves
  /\ MaxMishaps \in Nat

Value == [field : Fields, rest : Rests]

VARIABLES
  file,       \* the section files
  revisions,  \* settings_revisions, oldest first
  save,       \* the requests: stage, section, the validated value, and the
              \* previous one once the lock is held
  holder,     \* who holds the lock of a section
  queue,      \* who waits for it, in order
  unrecorded, \* sections whose file was replaced for good without a revision
  mishaps     \* failing writes and crashes so far

settingsVars == <<file, revisions, save, holder, queue, unrecorded, mishaps>>

NotSent == [stage |-> "none"]
Over == [stage |-> "done"]

\* load(): what a section is read as.
Loaded(section, value) ==
  IF section = "models" /\ Override # LeftOut
  THEN [value EXCEPT !.field = Override] ELSE value

Load(section) == Loaded(section, file[section])

SettingsTypeOK ==
  /\ file \in [Sections -> Value]
  /\ \A i \in DOMAIN revisions :
       /\ revisions[i].section \in Sections
       /\ {revisions[i].previous, revisions[i].new} \subseteq Value
  /\ \A s \in Saves : save[s].stage \in {"none", "waiting", "writing", "done"}
  /\ \A section \in Sections :
       /\ holder[section] # Nobody => save[holder[section]].stage = "writing"
       /\ queue[section] \in Seq(Saves)
  /\ unrecorded \subseteq Sections
  /\ mishaps \in 0 .. MaxMishaps

SettingsInit ==
  /\ \E v \in Value : file = [section \in Sections |-> v]
  /\ revisions = << >>
  /\ save = [s \in Saves |-> NotSent]
  /\ holder = [section \in Sections |-> Nobody]
  /\ queue = [section \in Sections |-> << >>]
  /\ unrecorded = {}
  /\ mishaps = 0

Mishap == mishaps < MaxMishaps /\ mishaps' = mishaps + 1

-----------------------------------------------------------------------------
(* save().                                                                 *)

\* validate(): what the request leaves out is taken from the file as it is
\* now, before the lock is held.
Validated(section, body) ==
  IF body.field = LeftOut THEN [body EXCEPT !.field = Load(section).field] ELSE body

\* The lock is held: the previous value is read and the file replaced.
WriteFile(s, section, value) ==
  /\ save' = [save EXCEPT ![s] =
       [stage |-> "writing", section |-> section, value |-> value,
        previous |-> Load(section)]]
  /\ file' = [file EXCEPT ![section] = value]
  /\ holder' = [holder EXCEPT ![section] = s]
  /\ UNCHANGED mishaps

\* _atomic_write raised: the old file is still there.
WriteFails(s) ==
  /\ Mishap
  /\ save' = [save EXCEPT ![s] = Over]
  /\ UNCHANGED <<file, holder>>

\* Variant: without the lock of the section.
AcquireAtOnce(s, section, value) ==
  /\ WriteFile(s, section, value) \/ WriteFails(s)
  /\ UNCHANGED queue

Acquire(s, section, value) ==
  \/ /\ holder[section] = Nobody /\ queue[section] = << >>
     /\ WriteFile(s, section, value) \/ WriteFails(s)
     /\ UNCHANGED queue
  \/ /\ holder[section] # Nobody \/ queue[section] # << >>
     /\ save' = [save EXCEPT ![s] =
          [stage |-> "waiting", section |-> section, value |-> value]]
     /\ queue' = [queue EXCEPT ![section] = Append(@, s)]
     /\ UNCHANGED <<file, holder, mishaps>>

\* Only "server" accepts a request without the field.
PutSettings(s, section, body) ==
  /\ save[s] = NotSent
  /\ body.field = LeftOut => section = "server"
  /\ Acquire(s, section, Validated(section, body))
  /\ UNCHANGED <<revisions, unrecorded>>

\* rollback(): a save of what the revision replaced.
Rollback(s, i) ==
  /\ save[s] = NotSent
  /\ Acquire(s, revisions[i].section, revisions[i].previous)
  /\ UNCHANGED <<revisions, unrecorded>>

\* asyncio.Lock: the first in the queue is next.
Wake(section) ==
  /\ holder[section] = Nobody /\ queue[section] # << >>
  /\ queue' = [queue EXCEPT ![section] = Tail(@)]
  /\ LET s == Head(queue[section])
     IN  WriteFile(s, section, save[s].value) \/ WriteFails(s)
  /\ UNCHANGED <<revisions, unrecorded>>

Writing(s) == save[s].stage = "writing"

Leave(s) ==
  /\ holder' = [holder EXCEPT ![save[s].section] = Nobody]
  /\ save' = [save EXCEPT ![s] = Over]

InsertRevision(s) ==
  /\ Writing(s)
  /\ revisions' = Append(revisions,
       [section |-> save[s].section, previous |-> save[s].previous,
        new |-> save[s].value,
        pendingRestart |-> save[s].previous.field # save[s].value.field])
  /\ Leave(s)
  /\ UNCHANGED <<file, queue, unrecorded, mishaps>>

\* The insert raised: what was read is written back, which may fail as well.
InsertFails(s) ==
  /\ Writing(s)
  /\ Mishap
  /\ \/ file' = [file EXCEPT ![save[s].section] = save[s].previous]
        /\ UNCHANGED unrecorded
     \/ unrecorded' = unrecorded \cup {save[s].section} /\ UNCHANGED file
  /\ Leave(s)
  /\ UNCHANGED <<revisions, queue>>

\* The process dies between the file and the revision.
SettingsCrash ==
  /\ Mishap
  /\ unrecorded' = unrecorded \cup {save[s].section : s \in {t \in Saves : Writing(t)}}
  /\ save' = [s \in Saves |-> IF save[s] = NotSent THEN NotSent ELSE Over]
  /\ holder' = [section \in Sections |-> Nobody]
  /\ queue' = [section \in Sections |-> << >>]
  /\ UNCHANGED <<file, revisions>>

-----------------------------------------------------------------------------
Bodies == [field : Fields \cup {LeftOut}, rest : Rests]

SettingsNext ==
  \/ \E s \in Saves :
       \/ \E section \in Sections, body \in Bodies : PutSettings(s, section, body)
       \/ \E i \in DOMAIN revisions : Rollback(s, i)
       \/ InsertRevision(s) \/ InsertFails(s)
  \/ \E section \in Sections : Wake(section)
  \/ SettingsCrash

SettingsSpec == SettingsInit /\ [][SettingsNext]_settingsVars

-----------------------------------------------------------------------------
(* Properties.                                                             *)

OfSection(section) == {i \in DOMAIN revisions : revisions[i].section = section}

\* config.py:93-117: every revision starts from what the one before it left,
\* and the file is what the last one says, so that a rollback undoes exactly
\* one change.
RevisionsChain ==
  \A section \in Sections \ unrecorded :
    /\ \A i, j \in OfSection(section) :
         i < j /\ (\A k \in OfSection(section) : k <= i \/ k >= j) =>
           revisions[j].previous = Loaded(section, revisions[i].new)
    /\ holder[section] = Nobody =>
         \A i \in OfSection(section) :
           (\A k \in OfSection(section) : k <= i) =>
             Load(section) = Loaded(section, revisions[i].new)
=============================================================================
