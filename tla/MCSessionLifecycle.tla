------------------------- MODULE MCSessionLifecycle -------------------------
(* Two session ids: the client uses the first; a fork of it takes the other. *)
EXTENDS SessionLifecycle
=============================================================================
