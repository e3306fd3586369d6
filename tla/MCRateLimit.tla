---------------------------- MODULE MCRateLimit ----------------------------
(***************************************************************************)
(* Values of the constants of RateLimit for TLC.                           *)
(***************************************************************************)
EXTENDS RateLimit

CONSTANT alice

OneUser == {[user |-> alice, address |-> NoAddress]}
=============================================================================
