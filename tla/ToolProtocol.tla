---------------------------- MODULE ToolProtocol ----------------------------
(***************************************************************************)
(* The shared vocabulary of a tool call: the statuses Core and Link agree   *)
(* on, and the state graph both sides validate against                     *)
(* (src/packages/nivelle_protocol/tools.py).                               *)
(***************************************************************************)

\* A call that has no row in tool_calls.
Absent == "absent"

TerminalStatuses ==
  {"completed", "validation_failed", "denied", "failed", "cancelled",
   "timed_out", "client_disconnected"}

LiveStatuses ==
  {"proposed", "validated", "awaiting_approval", "approved", "queued", "running"}

Statuses == LiveStatuses \cup TerminalStatuses

\* EXECUTION_STATUSES: the call occupies one of the client's parallel slots.
ExecutionStatuses == {"queued", "running"}

\* LEGAL_TOOL_TRANSITIONS, as the set of successors of each status.
LegalTransitions ==
  [s \in Statuses \cup {Absent} |->
     CASE s = "proposed" ->
            {"validated", "validation_failed", "client_disconnected"}
       [] s = "validated" ->
            {"awaiting_approval", "queued", "client_disconnected"}
       [] s = "awaiting_approval" ->
            {"approved", "denied", "timed_out", "client_disconnected"}
       [] s = "approved" -> {"queued", "client_disconnected"}
       [] s = "queued" -> {"running", "cancelled", "client_disconnected"}
       [] s = "running" ->
            {"completed", "failed", "cancelled", "timed_out",
             "client_disconnected"}
       [] OTHER -> {}]

=============================================================================
