----------------------------- MODULE MCBodyPoll ------------------------------
(* The poll loop for TLC: counter bytes of two values, so that bodies of two   *)
(* and more bytes carry; a sink with room for two.                             *)
EXTENDS BodyPoll
=============================================================================
