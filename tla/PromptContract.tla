---------------------------- MODULE PromptContract ----------------------------
(***************************************************************************)
(* What session/prompt promises the ACP client, told from the client's     *)
(* side.  Tool cards appear and only advance; the prompt is answered once; *)
(* nothing moves after the answer; and an answer of end_turn leaves no     *)
(* card that still looks unfinished.                                       *)
(***************************************************************************)
CONSTANT Calls

VARIABLES
  card,    (* tool call -> how the client shows it *)
  answer   (* the response to the prompt *)

Cards   == {"hidden", "pending", "running", "done"}
Answers == {"end_turn", "cancelled", "max_turn_requests", "error"}

Init ==
  /\ card = [c \in Calls |-> "hidden"]
  /\ answer = "none"

(* A card is created before it is updated, and never goes back.            *)
Successors(shown) ==
  CASE shown = "hidden"  -> {"pending", "done"}
    [] shown = "pending" -> {"running", "done"}
    [] shown = "running" -> {"done"}
    [] shown = "done"    -> {}

Show(c) ==
  /\ answer = "none"
  /\ \E shown \in Successors(card[c]) : card' = [card EXCEPT ![c] = shown]
  /\ UNCHANGED answer

Answer(a) ==
  /\ answer = "none"
  /\ a = "end_turn" => \A c \in Calls : card[c] \in {"hidden", "done"}
  /\ answer' = a
  /\ UNCHANGED card

Next == (\E c \in Calls : Show(c)) \/ (\E a \in Answers : Answer(a))

Spec == Init /\ [][Next]_<<card, answer>>
===============================================================================
