-------------------------- MODULE MCEngineBuffers --------------------------
(* A small engine: interchangeable buffers, tiny rings, little traffic. *)
EXTENDS EngineBuffers, Functions, TLC

AnyBuffer == Permutations(Buffers)

(* The state without the bytes that nobody will read: poll reads a buffer's
   packet only at the head of the RX or the result ring, and a buffer reaches
   one of them through RxPacket, which writes its bytes, or from the crypto
   ring.  States that differ in other buffers' bytes have the same future. *)
Unread == Buffers \ (UNION {Range(m[q]) : q \in {"rx_ring", "crypto_ring", "result_ring"}} \cup {job})

LiveState == <<m, [b \in Buffers \ Unread |-> data[b]], rx, job, tx, engine, traffic, peer_fec>>

=============================================================================
