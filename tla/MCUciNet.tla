------------------------------ MODULE MCUciNet ------------------------------
(* The UCI adapter for TLC.                                                *)
EXTENDS UciNet
=============================================================================
