------------------------------ MODULE Persona ------------------------------
(***************************************************************************)
(* PersonaService of Core (nivelle_core/persona.py): the two documents of  *)
(* the persona are saved together, and prompts are cut to the context.     *)
(*                                                                         *)
(* A save never awaits once it has the service's lock, so no prompt is     *)
(* built in the middle of one; a full disk or a crash can still stop it    *)
(* between the two replacements.                                           *)
(***************************************************************************)
EXTENDS Naturals, Sequences, FiniteSetsExt

CONSTANTS
  Texts,        \* what a saved document may say
  Histories,    \* completed messages: sequences of [role, size] records
  Recent,       \* how many of them a prompt considers (10)
  Budgets,      \* context_size less max_output_tokens
  FixedSizes,   \* sizes of the system text with the request
  MaxEdits, MaxAccidents  \* bounds: saves begun; failures and crashes

Documents == <<"identity", "behavior">>
DocumentNames == {"identity", "behavior"}
Missing == 0
NoEdit == << >>

ASSUME PersonaAssumption ==
  /\ Texts \subseteq Nat \ {Missing} /\ Texts # {} /\ Recent \in Nat
  /\ \A history \in Histories : history \in Seq([role : STRING, size : Nat])
  /\ Budgets \subseteq Nat /\ FixedSizes \subseteq Nat
  /\ MaxEdits \in Nat /\ MaxAccidents \in Nat

VARIABLES
  document,   \* the text of each YAML file
  edit,       \* the running save: section -> text
  replaced,   \* the documents it has put in place
  before,     \* their texts when it began: its backup files
  spare,      \* texts kept in backup files that were not cleaned up
  reported,   \* what the client was last told the documents say
  accidents, edits,
  built      \* the prompt built since the last save began

personaVars == <<document, edit, replaced, before, spare, reported, accidents, edits, built>>
saveVars == <<document, edit, replaced, before, spare, reported, accidents, edits>>

NoPrompt == [history |-> << >>, kept |-> << >>, fixed |-> 0, budget |-> 0]

PersonaTypeOK ==
  /\ document \in [DocumentNames -> Texts \cup {Missing}]
  /\ edit = NoEdit \/ \E S \in SUBSET DocumentNames : edit \in [S -> Texts]
  /\ replaced \subseteq DocumentNames
  /\ before \in [DocumentNames -> Texts \cup {Missing}]
  /\ spare \in [DocumentNames -> SUBSET Texts]
  /\ reported \in [DocumentNames -> Texts \cup {Missing}]
  /\ accidents \in 0 .. MaxAccidents /\ edits \in 0 .. MaxEdits

PersonaInit ==
  /\ document \in [DocumentNames -> {Missing, CHOOSE x \in Texts : TRUE}]
  /\ before = document /\ reported = document
  /\ edit = NoEdit /\ replaced = {}
  /\ spare = [d \in DocumentNames |-> {}]
  /\ accidents = 0 /\ edits = 0
  /\ built = NoPrompt

\* save(): merge what was asked into both documents, stage the new files and
\* the backups of the old ones.
BeginEdit ==
  /\ edit = NoEdit /\ edits < MaxEdits
  /\ \E S \in (SUBSET DocumentNames) \ {{}} : edit' \in [S -> Texts]
  /\ before' = document /\ replaced' = {}
  /\ edits' = edits + 1
  /\ built' = NoPrompt
  /\ UNCHANGED <<document, spare, reported, accidents>>

Backup(S) ==
  [d \in DocumentNames |->
    IF d \in S /\ before[d] # Missing THEN spare[d] \cup {before[d]} ELSE spare[d]]

\* One os.replace of _atomic_write; the files go in the order of Documents.
ReplaceDocument ==
  /\ edit # NoEdit
  /\ \E i \in 1 .. 2 :
       LET d == Documents[i] IN
       /\ d \in DOMAIN edit \ replaced
       /\ \A j \in 1 .. i - 1 : Documents[j] \in DOMAIN edit => Documents[j] \in replaced
       /\ document' = [document EXCEPT ![d] = edit[d]]
       /\ replaced' = replaced \cup {d}
  /\ UNCHANGED <<edit, before, spare, reported, accidents, edits, built>>

\* The client is answered with what both documents say now.
EditDone ==
  /\ edit # NoEdit /\ replaced = DOMAIN edit
  /\ reported' = document
  /\ edit' = NoEdit
  /\ UNCHANGED <<document, replaced, before, spare, accidents, edits, built>>

\* A replacement fails: those already made are undone, and the backup of one
\* that cannot be undone is kept and named in the error.
EditFails ==
  /\ edit # NoEdit /\ replaced # DOMAIN edit
  /\ accidents < MaxAccidents /\ accidents' = accidents + 1
  /\ \E stuck \in SUBSET replaced :
       /\ document' = [d \in DocumentNames |->
                        IF d \in replaced \ stuck THEN before[d] ELSE document[d]]
       /\ spare' = Backup(stuck)
  /\ edit' = NoEdit
  /\ UNCHANGED <<replaced, before, reported, edits, built>>

\* Core dies in the middle: the temporary files stay.
CoreDiesInEdit ==
  /\ edit # NoEdit
  /\ accidents < MaxAccidents /\ accidents' = accidents + 1
  /\ spare' = Backup(DOMAIN edit)
  /\ edit' = NoEdit
  /\ UNCHANGED <<document, replaced, before, reported, edits, built>>

Size(messages) ==
  LET upTo[n \in 0 .. Len(messages)] ==
        IF n = 0 THEN 0 ELSE upTo[n - 1] + messages[n].size
  IN  upTo[Len(messages)]

LastOf(messages, n) == SubSeq(messages, Len(messages) - n + 1, Len(messages))

\* _fit_history: take complete turns from the end while they fit.
FitHistory(history, room) ==
  LET Turn(n) == SubSeq(history, Len(history) - 2 * n - 1, Len(history) - 2 * n)
      taken[n \in 0 .. Len(history)] ==
        IF \/ Len(history) - 2 * n < 2
           \/ Turn(n)[1].role # "user" \/ Turn(n)[2].role # "assistant"
           \/ Size(LastOf(history, 2 * n)) + Size(Turn(n)) > room
        THEN n
        ELSE taken[n + 1]
  IN LastOf(history, 2 * taken[0])

\* build() refuses what cannot fit and cuts the rest to the budget.
BuildPrompt ==
  /\ edit = NoEdit /\ built = NoPrompt
  /\ \E history \in Histories, budget \in Budgets, fixed \in FixedSizes :
       /\ fixed <= budget
       /\ LET recent == LastOf(history, Min({Recent, Len(history)})) IN
          built' = [history |-> recent, fixed |-> fixed, budget |-> budget,
                     kept |-> FitHistory(recent, budget - fixed)]
  /\ UNCHANGED saveVars

PersonaNext ==
  \/ BeginEdit \/ ReplaceDocument \/ EditDone \/ EditFails \/ CoreDiesInEdit
  \/ BuildPrompt

PersonaSpec == PersonaInit /\ [][PersonaNext]_personaVars

\* Whatever a document says, the text the client was last told of is either
\* there or in a backup file that is still on the disk: a save that failed or
\* was cut off loses nothing (persona.py:494-538).
FailedSaveLosesNothing ==
  edit = NoEdit =>
    \A d \in DocumentNames : reported[d] \in {document[d], Missing} \cup spare[d]

\* A prompt fits its budget, begins its history with a user's message, and
\* leaves no complete turn out that would have fitted.
PromptFits ==
  LET kept == Len(built.kept)
      Paired(n) == \A i \in 1 .. n :
                     LastOf(built.history, n)[i].role = IF i % 2 = 1 THEN "user" ELSE "assistant"
  IN /\ built.fixed + Size(built.kept) <= built.budget
     /\ kept % 2 = 0 /\ Paired(kept)
     /\ kept + 2 <= Len(built.history) /\ Paired(kept + 2) =>
          built.fixed + Size(LastOf(built.history, kept + 2)) > built.budget
=============================================================================
