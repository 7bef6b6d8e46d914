---------------------------- MODULE MCSessionStore ----------------------------
(* TLC instances of SessionStore.                                          *)
EXTENDS SessionStore, TLC

CONSTANTS p, q, t1, t2, t3, u, v, g, d, c

(* Process p runs the turns t1 and t3, the update u and the get g; process *)
(* q the turn t2, the update v, the delete d and the close c.              *)
MCHome == [t \in Tasks |-> IF t \in {t1, t3, u, g} THEN p ELSE q]
MCKind == [t \in Tasks |-> CASE t \in {u, v} -> "update" [] t = g -> "get"
                             [] t = d -> "delete" [] t = c -> "close"
                             [] OTHER -> "turn"]

(* Only p crashes, once. *)
MCCrashes == p :> 1 @@ q :> 0

(* Three turns, or one or two of them with the calls that do not take the  *)
(* sentinel, in the same process and in the other.                         *)
MCWorkloads ==
  {{t1, t2, t3}, {t1, t3, u}, {t1, t2, v}, {t1, t2, g}, {t1, t2, d}, {t1, t2, c},
   {t1, u, g, d}, {t1, u, v, g}}

(* A turn and a delete; two turns in two processes. *)
MCTurnAndDelete == {{t1, d}}
MCTwoTurns == {{t1, t2}}

(* Everything in one process that never crashes. *)
MCOneHome == [t \in Tasks |-> p]
MCNoCrash == [x \in Procs |-> 0]
===============================================================================
