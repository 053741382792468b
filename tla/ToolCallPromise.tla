--------------------------- MODULE ToolCallPromise ---------------------------
(***************************************************************************)
(* What the tool-call machinery promises a chat turn, without saying how:  *)
(* each call's row walks the protocol's state graph, and the turn is told  *)
(* about each call once, never ahead of the row.                           *)
(*                                                                         *)
(*   told[c] = "success"    the tool completed, and so says the row        *)
(*   told[c] = "ended"      the sent request ended some other way: the row *)
(*                          is terminal, whatever the reason               *)
(*   told[c] = "rejected"   the request was never sent                     *)
(*   told[c] = "abandoned"  the turn itself ended first                    *)
(***************************************************************************)
EXTENDS ToolProtocol

CONSTANT Calls

VARIABLES status, told

promiseVars == <<status, told>>

Told == {"nothing", "success", "ended", "rejected", "abandoned"}

Init ==
  /\ status = [c \in Calls |-> Absent]
  /\ told = [c \in Calls |-> "nothing"]

\* Nothing happens to the row of c, it is created, or it takes one legal move.
RowStep(c) ==
  \/ status'[c] = status[c]
  \/ status[c] = Absent /\ status'[c] = "proposed"
  \/ status'[c] \in LegalTransitions[status[c]]

TellStep(c) ==
  \/ told'[c] = told[c]
  \/ /\ told[c] = "nothing"
     /\ told'[c] = "success" => status[c] = "completed"
     /\ told'[c] = "ended" => status[c] \in TerminalStatuses

\* A lost session moves several rows at once and a restart ends several turns,
\* so a step is a step of every call.
Next ==
  /\ status' \in [Calls -> Statuses \cup {Absent}]
  /\ told' \in [Calls -> Told]
  /\ \A c \in Calls : RowStep(c) /\ TellStep(c)

Spec == Init /\ [][Next]_promiseVars

=============================================================================
