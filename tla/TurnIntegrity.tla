---------------------------- MODULE TurnIntegrity ----------------------------
(***************************************************************************)
(* The integrity layer of agent-runtime: which semantic event a turn may   *)
(* emit next, and what an emission changes.  One value of the set          *)
(* Integrities is one TurnIntegrity structure; an event is a kind and, for *)
(* tool events, the call it is about (any member of Calls otherwise).      *)
(***************************************************************************)
CONSTANT Calls   (* tool call ids a turn may use *)

(* unknown: the id is not in the `tools` map; the last four are Terminal.  *)
OpenPhases == {"requested", "permission", "executing"}
DonePhases == {"result", "denied", "cancelled", "failed"}
ToolPhases == {"unknown"} \union OpenPhases \union DonePhases

Integrities ==
  [phase     : {"NotStarted", "Active", "Terminal"},
   assistant : BOOLEAN,
   thinking  : BOOLEAN,
   tools     : [Calls -> ToolPhases],
   worked    : BOOLEAN]

NewIntegrity ==
  [phase |-> "NotStarted", assistant |-> FALSE, thinking |-> FALSE,
   tools |-> [c \in Calls |-> "unknown"], worked |-> FALSE]

TerminalEvents == {"turn_completed", "turn_cancelled", "turn_failed"}

ToolEvents == {"tool_call_requested", "permission_requested",
               "tool_execution_started", "tool_result_received"}

EventKinds ==
  {"turn_started", "assistant_started", "assistant_delta",
   "assistant_completed", "thinking_started", "thinking_delta",
   "thinking_completed"} \union ToolEvents \union TerminalEvents

OpenTools(t) == {c \in Calls : t.tools[c] \in OpenPhases}

(* Mutant: every ending demands closed scopes, the abortive ones included. *)
AdmitsStrict(t, kind, c) ==
  IF kind = "turn_started" THEN t.phase = "NotStarted"
  ELSE
    /\ t.phase = "Active"
    /\ kind \in TerminalEvents =>
         ~t.assistant /\ ~t.thinking /\ OpenTools(t) = {}

(* What each transition of TurnIntegrity demands of the state before it.   *)
(* The two abortive endings close whatever is open before they check.      *)
Admits(t, kind, c) ==
  IF kind = "turn_started" THEN t.phase = "NotStarted"
  ELSE
    /\ t.phase = "Active"
    /\ kind = "assistant_started"      => ~t.assistant /\ ~t.thinking
    /\ kind \in {"assistant_delta", "assistant_completed"}
                                       => t.assistant /\ ~t.thinking
    /\ kind = "thinking_started"       => t.assistant /\ ~t.thinking
    /\ kind \in {"thinking_delta", "thinking_completed"} => t.thinking
    /\ kind = "tool_call_requested"    =>
         ~t.assistant /\ ~t.thinking /\ t.tools[c] = "unknown"
    /\ kind = "permission_requested"   => t.tools[c] = "requested"
    /\ kind = "tool_execution_started" =>
         t.tools[c] \in {"requested", "permission"}
    /\ kind = "tool_result_received"   =>
         t.tools[c] \in {"permission", "executing"}
    /\ kind = "turn_completed"         =>
         t.worked /\ ~t.assistant /\ ~t.thinking /\ OpenTools(t) = {}

(* The phase a tool call moves to.                                         *)
ToolPhaseAfter(t, kind, c) ==
  CASE kind = "tool_call_requested"    -> "requested"
    [] kind = "permission_requested"   -> "permission"
    [] kind = "tool_execution_started" -> "executing"
    [] kind = "tool_result_received"   ->
         IF t.tools[c] = "executing" THEN "result" ELSE "denied"

(* abort_open_tools, with the reason the ending gives.                     *)
Abort(t, reason) ==
  [c \in Calls |-> IF t.tools[c] \in OpenPhases THEN reason ELSE t.tools[c]]

After(t, kind, c) ==
  CASE kind = "turn_started"       -> [t EXCEPT !.phase = "Active"]
    [] kind = "assistant_started"  ->
         [t EXCEPT !.assistant = TRUE, !.worked = TRUE]
    [] kind = "assistant_completed" -> [t EXCEPT !.assistant = FALSE]
    [] kind = "thinking_started"   -> [t EXCEPT !.thinking = TRUE]
    [] kind = "thinking_completed" -> [t EXCEPT !.thinking = FALSE]
    [] kind \in {"assistant_delta", "thinking_delta"} -> t
    [] kind \in ToolEvents         ->
         [t EXCEPT !.tools[c] = ToolPhaseAfter(t, kind, c),
                   !.worked = @ \/ kind = "tool_call_requested"]
    [] kind \in TerminalEvents     ->
         [t EXCEPT !.phase = "Terminal", !.assistant = FALSE,
                   !.thinking = FALSE,
                   !.tools = Abort(t, IF kind = "turn_cancelled"
                                      THEN "cancelled" ELSE "failed")]

(* assistant_yields_to_action closes the scope and publishes nothing.      *)
YieldsToAction(t) == [t EXCEPT !.assistant = FALSE]
=============================================================================
