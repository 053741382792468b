---------------------------- MODULE MCLinkAgent ----------------------------
(* Instances of LinkAgent for TLC.                                         *)
EXTENDS LinkAgent, TLC

CONSTANTS c1, c2, c3

Ask(tool, business) == [tool |-> tool, business |-> business]

\* Two calls with every pair of tools that can meet: an effect and its repeat
\* under another id, or two that compete for the slot and the records.
AnyTools ==
  c1 :> {Ask(t, "memo") : t \in {"system_status", "create_note", "set_reminder"}}
  @@ c2 :> {Ask(t, "memo") : t \in Tools \ {"system_status"}}

\* A note that competes for the slot, the lock and the records with another
\* one, a search that can be cancelled, or a reminder.
FewTools ==
  c1 :> {Ask("create_note", "memo")}
  @@ c2 :> {Ask(t, "memo") : t \in {"search_files", "create_note", "set_reminder"}}

\* One note, then another one twice, the second time under a new id.
ThreeNotes ==
  c1 :> {Ask("create_note", "memo")}
  @@ c2 :> {Ask("create_note", "list")}
  @@ c3 :> {Ask("create_note", "list")}

LinkAgentFairSpec == LinkAgentSpec /\ LinkAgentFairness
=============================================================================
