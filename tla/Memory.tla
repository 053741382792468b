------------------------------- MODULE Memory -------------------------------
(***************************************************************************)
(* The memories of Core: MemoryRepository (memory_repository.py), the      *)
(* repair of old data (database.py) and MemoryRetriever                    *)
(* (memory_retriever.py), which picks the memories of a prompt.            *)
(*                                                                         *)
(* A write is one transaction.  A retrieval reads the candidates and then, *)
(* in another transaction, the memories attached to the request.  Scores   *)
(* are left out: any ranking with the attached memories first may occur.   *)
(***************************************************************************)
EXTENDS Naturals, Sequences, SequencesExt

CONSTANTS
  Memories,     \* memory ids
  Old,          \* those a database of version 3 may hold
  Contents,     \* contents of a memory
  NormalOf,     \* normalize_memory_content of each
  SubjectOf,    \* memory_conflict_key of each, or NoSubject
  NoSubject,
  NoMemory,     \* superseded_by IS NULL
  Attached,     \* explicitly_attached_memory_ids of the retrieval
  IncludeInactive, \* MemoryRetrievalSettings.include_inactive
  TopK,         \* MemoryRetrievalSettings.top_k
  MaxWrites     \* bound: writes

ASSUME MemoryAssumption ==
  /\ IsFiniteSet(Memories) /\ NoMemory \notin Memories
  /\ Old \subseteq Memories /\ Attached \subseteq Memories
  /\ IncludeInactive \in BOOLEAN
  /\ TopK \in 1 .. 10 /\ MaxWrites \in Nat

VARIABLES
  memory,     \* the rows, a function on the memories that exist
  history,    \* memory_revisions, oldest first
  repaired,   \* version 4 of the schema is applied
  pool,       \* rows a retrieval has read, and whether it has read them
  prompt,     \* memories of the last prompt, best first, as they were read;
              \* none while another one is put together
  writes      \* writes so far; the latest is the newest updated_at

memoryVars == <<memory, history, repaired, pool, prompt, writes>>

Row ==
  [content : Contents, active : BOOLEAN,
   supersededBy : Memories \cup {NoMemory}, updated : 0 .. MaxWrites]

MemoryTypeOK ==
  /\ DOMAIN memory \subseteq Memories
  /\ \A m \in DOMAIN memory : memory[m] \in Row
  /\ \A i \in DOMAIN history : history[i].memory \in Memories
  /\ repaired \in BOOLEAN
  /\ pool.read \in BOOLEAN
  /\ \A m \in DOMAIN pool.rows : pool.rows[m] \in Row
  /\ Len(prompt) <= TopK
  /\ writes \in 0 .. MaxWrites

NoPool == [read |-> FALSE, rows |-> << >>]

\* A database of version 3 may hold equivalent active memories.
MemoryInit ==
  /\ \E some \in SUBSET Old :
       \E c \in [some -> Contents], a \in [some -> BOOLEAN] :
         memory = [m \in some |->
           [content |-> c[m], active |-> a[m], supersededBy |-> NoMemory, updated |-> 0]]
  /\ history = << >>
  /\ repaired = FALSE
  /\ pool = NoPool /\ prompt = << >>
  /\ writes = 0

InForce(row) == row.active /\ row.supersededBy = NoMemory
Normal(row) == NormalOf[row.content]

\* Variant: equivalent means spelled the same.
DuplicatesAsSpelled(content, except) ==
  {m \in DOMAIN memory \ {except} :
     InForce(memory[m]) /\ memory[m].content = content}

\* _duplicate_id, and the index uq_memories_active_normalized.
Duplicates(content, except) ==
  {m \in DOMAIN memory \ {except} :
     InForce(memory[m]) /\ Normal(memory[m]) = NormalOf[content]}

-----------------------------------------------------------------------------
(* Writes.                                                                 *)

\* _migrate_memory_v4: of the equivalent active memories one stays, the first
\* in an order of its own; the others name it and are switched off.
RepairDuplicates ==
  /\ ~repaired
  /\ repaired' = TRUE
  /\ \E keep \in [DOMAIN memory -> DOMAIN memory] :
       /\ \A m, n \in DOMAIN memory :
            LET same == InForce(memory[m]) /\ InForce(memory[n])
                        /\ Normal(memory[m]) = Normal(memory[n])
            IN  /\ same => keep[m] = keep[n]
                /\ ~InForce(memory[m]) => keep[m] = m
                /\ keep[m] = n /\ m # n => same
       /\ memory' = [m \in DOMAIN memory |->
            IF keep[m] = m THEN memory[m]
            ELSE [memory[m] EXCEPT !.active = FALSE, !.supersededBy = keep[m]]]
       /\ history' = SetToSeq(
            {[memory |-> m, old |-> memory[m].content, new |-> memory[m].content] :
               m \in {n \in DOMAIN memory : keep[n] # n}})
  /\ UNCHANGED <<pool, prompt, writes>>

Write == repaired /\ writes < MaxWrites /\ writes' = writes + 1

With(m, row) ==
  [n \in DOMAIN memory \cup {m} |-> IF n = m THEN row ELSE memory[n]]

CreateMemory(m, content, active) ==
  /\ Write
  /\ m \notin DOMAIN memory
  /\ active => Duplicates(content, m) = {}
  /\ memory' = With(m, [content |-> content, active |-> active,
                        supersededBy |-> NoMemory, updated |-> writes'])
  /\ UNCHANGED <<history, repaired, pool, prompt>>

\* update(): a superseded memory comes back into force only with a new
\* content; a change of the content leaves a revision.
UpdateMemory(m, content, active) ==
  /\ Write
  /\ m \in DOMAIN memory
  /\ LET changed == content # memory[m].content
         owner   == IF active /\ changed THEN NoMemory ELSE memory[m].supersededBy
     IN  /\ active /\ owner = NoMemory => Duplicates(content, m) = {}
         /\ memory' = With(m, [content |-> content, active |-> active,
                               supersededBy |-> owner, updated |-> writes'])
         /\ history' = IF changed
              THEN Append(history, [memory |-> m, old |-> memory[m].content, new |-> content])
              ELSE history
  /\ UNCHANGED <<repaired, pool, prompt>>

DeleteMemory(m) ==
  /\ Write
  /\ m \in DOMAIN memory
  /\ memory' = [n \in DOMAIN memory \ {m} |-> memory[n]]
  /\ UNCHANGED <<history, repaired, pool, prompt>>

-----------------------------------------------------------------------------
(* MemoryRetriever.retrieve.                                               *)

\* retrieval_candidates: what the text search and the newest active memories
\* yield, and a sample of the others for the report.
ReadCandidates ==
  /\ repaired /\ ~pool.read
  /\ \E found \in SUBSET DOMAIN memory :
       pool' = [read |-> TRUE, rows |-> [m \in found |-> memory[m]]]
  /\ prompt' = << >>
  /\ UNCHANGED <<memory, history, repaired, writes>>

\* The attached memories are read now and replace what was read before.
Records ==
  LET attached == Attached \cap DOMAIN memory
  IN  [m \in DOMAIN pool.rows \cup attached |->
         IF m \in attached THEN memory[m] ELSE pool.rows[m]]

IsAttached(m) == m \in Attached \cap DOMAIN memory

\* The reasons superseded, inactive and low_relevance; what is relevant is
\* not modelled.
Eligible(m) ==
  /\ Records[m].supersededBy = NoMemory
  /\ Records[m].active \/ IsAttached(m) \/ IncludeInactive

Rankings ==
  {r \in SetToSeqs(DOMAIN Records) :
     \A i, j \in DOMAIN r : i < j /\ IsAttached(r[j]) => IsAttached(r[i])}

\* _conflict_rank: attached memories first, then the newest.
Beats(m, n) ==
  \/ IsAttached(m) /\ ~IsAttached(n)
  \/ IsAttached(m) = IsAttached(n) /\ Records[m].updated > Records[n].updated

Rivals(m, n) ==
  /\ SubjectOf[Records[m].content] = SubjectOf[Records[n].content]
  /\ SubjectOf[Records[m].content] # NoSubject

Winners(among) ==
  {m \in among : ~\E n \in among \ {m} : Rivals(m, n) /\ Beats(n, m)}

\* The loop over the ranking: conflict_lost, duplicate and top_k_limit.  Rows
\* of one age are told apart by their score, so one rival wins.
Chosen(ranking, winners) ==
  LET Refused(m, sofar) ==
        \/ m \notin winners
        \/ \E n \in ToSet(sofar) :
             Normal(Records[n]) = Normal(Records[m]) \/ Rivals(m, n)
        \/ Len(sofar) >= TopK
      chosen[i \in 0 .. Len(ranking)] ==
        IF i = 0 THEN << >>
        ELSE IF Refused(ranking[i], chosen[i - 1]) THEN chosen[i - 1]
        ELSE Append(chosen[i - 1], ranking[i])
  IN  chosen[Len(ranking)]

\* Relevance removes some of the eligible memories, never an attached one.
Retrieve ==
  /\ pool.read
  /\ \E r \in Rankings :
       \E relevant \in SUBSET {m \in DOMAIN Records : Eligible(m)} :
         /\ \A m \in DOMAIN Records : Eligible(m) /\ IsAttached(m) => m \in relevant
         /\ LET ids == Chosen(r, Winners(relevant))
            IN  prompt' = [i \in DOMAIN ids |-> [id |-> ids[i], row |-> Records[ids[i]]]]
  /\ pool' = NoPool
  /\ UNCHANGED <<memory, history, repaired, writes>>

-----------------------------------------------------------------------------
MemoryNext ==
  \/ RepairDuplicates
  \/ \E m \in Memories :
       \/ \E content \in Contents, active \in BOOLEAN :
            CreateMemory(m, content, active) \/ UpdateMemory(m, content, active)
       \/ DeleteMemory(m)
  \/ ReadCandidates \/ Retrieve

MemorySpec == MemoryInit /\ [][MemoryNext]_memoryVars

-----------------------------------------------------------------------------
(* Properties.                                                             *)

\* memory_retriever.py:488-553: although memories are switched off, edited and
\* replaced between the two reads, a prompt never states one fact twice nor
\* two values of one fact, and holds nothing that is superseded.
PromptIsConsistent ==
  \A i, j \in DOMAIN prompt :
    LET a == prompt[i].row
        b == prompt[j].row
    IN  /\ a.supersededBy = NoMemory
        /\ i # j => Normal(a) # Normal(b)
        /\ i # j /\ SubjectOf[a.content] # NoSubject => SubjectOf[a.content] # SubjectOf[b.content]

\* database.py:343-427 and memory_repository.py:40-75, 250-275: after the
\* repair, equivalent memories are never in force at the same time.
OneInForce ==
  repaired =>
    \A m, n \in DOMAIN memory :
      m # n /\ InForce(memory[m]) /\ InForce(memory[n]) =>
        Normal(memory[m]) # Normal(memory[n])
=============================================================================
