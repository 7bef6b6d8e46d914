---------------------------- MODULE MCTurnPipeline ----------------------------
(* TLC instances of TurnPipeline: two tool calls and one terminal action. *)
EXTENDS TurnPipeline

CONSTANTS a, b, f
===============================================================================
