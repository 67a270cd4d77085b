----------------------------- MODULE MCHandshake -----------------------------
(***************************************************************************)
(* Instances of Handshake for TLC.                                         *)
(***************************************************************************)
EXTENDS Handshake

BothChecked == {Initiator, Responder}
OnlyResponder == {Responder}
=============================================================================
