---------------------------- MODULE MCPacketPool ----------------------------
(* The packet pool with the small sets of threads of the configurations.   *)
EXTENDS PacketPool
=============================================================================
