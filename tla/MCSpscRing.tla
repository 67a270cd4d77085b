----------------------------- MODULE MCSpscRing -----------------------------
(* SpscRing with four slots and two distinguishable items.                 *)
EXTENDS SpscRing
=============================================================================
