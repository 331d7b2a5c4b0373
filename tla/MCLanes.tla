------------------------------- MODULE MCLanes -------------------------------
(* An instance of Lanes for TLC. *)
EXTENDS Lanes

Kind(type, tool) == [type |-> type, tool |-> tool, failed |-> FALSE]

\* Calls and answers of one tool, of a task and of none, a subagent, errors, a
\* failure and a note.
AllKinds ==
  {Kind("tool_call", "Read"), Kind("tool_response", "Read"),
   Kind("subagent_call", "Read"), Kind("subagent_response", "Read"),
   Kind("tool_call", "Task"), Kind("tool_response", "Task"),
   Kind("tool_call", "none"), Kind("error", "none"), Kind("error", "Read"),
   [type |-> "tool_response", tool |-> "Read", failed |-> TRUE],
   Kind("other", "none")}
=============================================================================
