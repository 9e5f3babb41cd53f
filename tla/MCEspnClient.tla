---------------------------- MODULE MCEspnClient -----------------------------
(* EspnClient with two concurrent calls, up to three relays and two attempts each. *)
EXTENDS EspnClient

CONSTANTS c1, c2
=============================================================================
