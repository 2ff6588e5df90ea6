-------------------------- MODULE MCClientSession --------------------------
(* Instances of ClientSession for TLC. *)
EXTENDS ClientSession

CONSTANTS r1, r2, r3, r4
=============================================================================
