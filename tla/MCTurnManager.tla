---------------------------- MODULE MCTurnManager ----------------------------
(* TLC instance of TurnManager: two start calls compete for one session    *)
(* while a third has another session to itself.                            *)
EXTENDS TurnManager, TLC

CONSTANTS s1, s2, t1, t2, t3

MCTarget == t1 :> s1 @@ t2 :> s1 @@ t3 :> s2
=============================================================================
