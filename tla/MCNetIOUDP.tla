----------------------------- MODULE MCNetIOUDP -----------------------------
(* NetIOUDP with TLC; the configuration gives every constant its value. *)
EXTENDS NetIOUDP, TLC
=============================================================================
