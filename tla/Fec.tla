-------------------------------- MODULE Fec ---------------------------------
(***************************************************************************)
(* Forward error correction of one direction of a session: the sender adds *)
(* a parity packet to every group of data packets (fec_tx_accumulate and   *)
(* fec_tx_after_encrypt), the receiver keeps what arrives and rebuilds a   *)
(* packet that is missing (fec_rx_track, fec_rx_store_parity,              *)
(* fec_rx_rebuild and resilience_check), and the bitrate control switches  *)
(* all of it off (adaptive_bitrate.c).                                     *)
(*                                                                         *)
(* A payload is the set of the packets that were XORed into it: XOR is the *)
(* symmetric difference, and a packet is whole when the set has only       *)
(* itself.  Sequence numbers are shared with the control packets, which    *)
(* leave gaps between the data packets.  The receiver answers with data of *)
(* its own, which goes through the same buffers as what it receives.       *)
(* Nothing calls resilience_record_loss: the loss rate that abr_update     *)
(* reads is 0 at all times, and LossRates = {0} is what the program has.   *)
(***************************************************************************)
EXTENDS Integers, Sequences, FiniteSets

CONSTANTS Slots,       \* RESILIENCE_FEC_GROUP: the buffers, and the group at first
          Firsts,      \* numbers that the first data packet may have
          LongSeqs,    \* the packets that are longer than the others
          LossRates,   \* loss rates in percent that the paths report
          MaxData, MaxGaps, MaxBack, MaxLost, MaxTransit   \* bounds of a behaviour

ASSUME FecAssumption ==
    /\ Slots \in Nat \ {0, 1} /\ Firsts \subseteq Nat /\ LongSeqs \subseteq Nat
    /\ LossRates \subseteq 0 .. 100
    /\ MaxData \in Nat /\ MaxGaps \in Nat /\ MaxBack \in Nat
    /\ MaxLost \in Nat /\ MaxTransit \in Nat

VARIABLES
    next,       \* the sender's sequence counter
    tx,         \* fec_group_pos, _start_seq, _parity_buf and _parity_len of the sender
    wire,       \* datagrams in transit, oldest first
    rx,         \* fec_rx_* and fec_buf_* of the receiver, and its fec_group_pos
    group,      \* fec_group_size at each end; 0 when abr_update has disabled FEC
    recovered,  \* what fec_rx_rebuild returned last, and what was accepted of it
    seen        \* what the run has met so far: losses, gaps, answers, reordering, ABR

fvars == <<next, tx, wire, rx, group, recovered, seen>>

SlotSet == 0 .. Slots - 1
NoPacket == [len |-> 0, seq |-> 0, bits |-> {}]
NoParity == [have |-> FALSE, start |-> 0, size |-> 0, bits |-> {}, len |-> 0]
Nothing == [seq |-> -1, bits |-> {}, len |-> 0]

Xor(a, b) == (a \ b) \cup (b \ a)
Larger(a, b) == IF a > b THEN a ELSE b
LengthOf(s) == IF s \in LongSeqs THEN 2 ELSE 1

FecInit ==
    /\ next \in Firsts
    /\ tx = [pos |-> 0, start |-> 0, bits |-> {}, len |-> 0]
    /\ wire = <<>>
    /\ rx = [slot |-> [i \in SlotSet |-> NoPacket], parity |-> NoParity, pos |-> 0]
    /\ group = [tx |-> Slots, rx |-> Slots]
    /\ recovered = [last |-> Nothing, seqs |-> {}]
    /\ seen = [first |-> next, sent |-> 0, gaps |-> 0, back |-> 0, lost |-> {},
               ordered |-> TRUE, abr |-> FALSE]

-----------------------------------------------------------------------------
(* fec_tx_accumulate for the data packet s, and the parity packet that     *)
(* fec_tx_after_encrypt adds when the group is complete.                   *)
Accumulated(s) ==
    LET t == IF tx.pos = 0 THEN [pos |-> 0, start |-> s, bits |-> {}, len |-> 0] ELSE tx
    IN  [pos |-> t.pos + 1, start |-> t.start, bits |-> Xor(t.bits, {s}),
         len |-> Larger(t.len, LengthOf(s))]

DataPacket(s) == [op |-> "DATA", seq |-> s]
ParityPacket(t) ==
    [op |-> "PARITY", start |-> t.start, size |-> group.tx, bits |-> t.bits, len |-> t.len]

SendPacket ==
    LET t == Accumulated(next)
        complete == group.tx # 0 /\ t.pos >= group.tx
    IN  /\ seen.sent < MaxData /\ Len(wire) < MaxTransit
        /\ next' = next + 1
        /\ seen' = [seen EXCEPT !.sent = @ + 1]
        /\ tx' = IF group.tx = 0 THEN tx ELSE IF complete THEN [t EXCEPT !.pos = 0] ELSE t
        /\ wire' = wire \o <<DataPacket(next)>> \o (IF complete THEN <<ParityPacket(t)>> ELSE <<>>)
        /\ UNCHANGED <<rx, group, recovered>>

(* A control packet takes the next sequence number.                        *)
Gap ==
    /\ seen.gaps < MaxGaps
    /\ next' = next + 1
    /\ seen' = [seen EXCEPT !.gaps = @ + 1]
    /\ UNCHANGED <<tx, wire, rx, group, recovered>>

-----------------------------------------------------------------------------
(* fec_rx_track.                                                           *)
Track(r, s) ==
    [r EXCEPT !.slot[s % group.rx] = [len |-> LengthOf(s), seq |-> s, bits |-> {s}]]

(* fec_rx_store_parity.                                                    *)
StoreParity(r, m) ==
    [r EXCEPT !.parity = [have |-> TRUE, start |-> m.start, size |-> m.size,
                          bits |-> m.bits, len |-> m.len]]

(* Mutant: a slot with any packet in it counts.                            *)
Filled_AnySeq(r) == {i \in 0 .. r.parity.size - 1 : r.slot[i].len > 0}

(* The slots that hold the packet of the group that belongs there.         *)
Filled(r) ==
    {i \in 0 .. r.parity.size - 1 : r.slot[i].len > 0 /\ r.slot[i].seq = r.parity.start + i}

(* The slots that hold something else.                                     *)
Foreign(r) == {i \in 0 .. r.parity.size - 1 : r.slot[i].len > 0} \ Filled(r)

(* Mutant: the buffers keep what they hold.                                *)
ClearGroup_Parity(r) == [r EXCEPT !.parity.have = FALSE, !.parity.size = 0]

(* fec_rx_clear_group.                                                     *)
ClearGroup(r) ==
    [slot |-> [i \in SlotSet |-> [len |-> 0, seq |-> 0, bits |-> r.slot[i].bits]],
     parity |-> [have |-> FALSE, start |-> r.parity.start, size |-> 0,
                 bits |-> r.parity.bits, len |-> r.parity.len],
     pos |-> r.pos]

(* fec_rx_rebuild: whether it rebuilds, and what.                          *)
Rebuilds(r) ==
    /\ r.parity.have /\ r.parity.size # 0
    /\ Cardinality(Filled(r)) = r.parity.size - 1
    /\ Foreign(r) = {}

(* The parity XORed with the packets that did arrive.                      *)
Rebuilt(r) ==
    LET F == Filled(r)
        Parts(x) == Cardinality({i \in F : x \in r.slot[i].bits})
                    + (IF x \in r.parity.bits THEN 1 ELSE 0)
        gap == CHOOSE i \in 0 .. r.parity.size - 1 : i \notin F
    IN  [seq |-> r.parity.start + gap, len |-> r.parity.len,
         bits |-> {x \in r.parity.bits \cup UNION {r.slot[i].bits : i \in F} : Parts(x) % 2 = 1}]

(* try_rebuild and process_fec_recovered: what was rebuilt is decrypted    *)
(* under the header made for it, so that only the very packet that was     *)
(* sent, with its number and length, is accepted.                          *)
Authentic(d) == d.bits = {d.seq} /\ d.len = LengthOf(d.seq)

TryRebuild(r) ==
    LET d == Rebuilt(r)
    IN  IF Rebuilds(r)
        THEN /\ rx' = ClearGroup(r)
             /\ recovered' = [last |-> d, seqs |-> recovered.seqs
                                                   \cup (IF Authentic(d) THEN {d.seq} ELSE {})]
        ELSE /\ rx' = IF r.parity.have /\ Cardinality(Filled(r)) = r.parity.size
                      THEN ClearGroup(r) ELSE r
             /\ UNCHANGED recovered

(* The datagrams in transit without the one at place i.                    *)
Without(q, i) == SubSeq(q, 1, i - 1) \o SubSeq(q, i + 1, Len(q))

(* resilience_check for the packet at place i of the network.              *)
Deliver(i) ==
    LET m == wire[i]
    IN  /\ wire' = Without(wire, i)
        /\ seen' = [seen EXCEPT !.ordered = @ /\ i = 1]
        /\ IF m.op = "PARITY" THEN TryRebuild(StoreParity(rx, m))
           ELSE IF group.rx = 0 THEN UNCHANGED <<rx, recovered>>
           ELSE TryRebuild(Track(rx, m.seq))
        /\ UNCHANGED <<next, tx, group>>

LosePacket(i) ==
    /\ Cardinality(seen.lost) < MaxLost
    /\ wire' = Without(wire, i)
    /\ seen' = [seen EXCEPT !.lost = @ \cup {wire[i]}]
    /\ UNCHANGED <<next, tx, rx, group, recovered>>

-----------------------------------------------------------------------------
(* The receiver sends a data packet: fec_tx_accumulate writes it to the    *)
(* buffer of its own group position and leaves fec_rx_seqs alone.          *)
Answer ==
    LET mine == {- 1 - seen.back}
        Emptied(f) == [i \in SlotSet |-> IF i < group.rx THEN [f[i] EXCEPT !.len = 0] ELSE f[i]]
        before == IF rx.pos = 0 THEN Emptied(rx.slot) ELSE rx.slot
        kept == [before EXCEPT ![rx.pos] = [len |-> 1, seq |-> @.seq, bits |-> mine]]
        full == rx.pos + 1 >= group.rx
    IN  /\ seen.back < MaxBack /\ group.rx # 0
        /\ seen' = [seen EXCEPT !.back = @ + 1]
        /\ rx' = [slot |-> IF full THEN Emptied(kept) ELSE kept, parity |-> rx.parity,
                  pos |-> IF full THEN 0 ELSE rx.pos + 1]
        /\ UNCHANGED <<next, tx, wire, group, recovered>>

(* Mutant: little loss asks for the largest groups.                        *)
AbrGroup_NoOff(loss) == IF loss < 10 THEN 8 ELSE IF loss < 20 THEN 4 ELSE 2

(* The group size of abr_update, 0 for none.                               *)
AbrGroup(loss) == IF loss < 3 THEN 0 ELSE IF loss < 10 THEN 8 ELSE IF loss < 20 THEN 4 ELSE 2

(* abr_update at one end; a group that is under way stays as it is.        *)
AbrUpdate(e) ==
    /\ \E loss \in LossRates : group' = [group EXCEPT ![e] = AbrGroup(loss)]
    /\ seen' = [seen EXCEPT !.abr = TRUE]
    /\ UNCHANGED <<next, tx, wire, rx, recovered>>

FecNext ==
    \/ SendPacket \/ Gap \/ Answer
    \/ \E i \in 1 .. Len(wire) : Deliver(i) \/ LosePacket(i)
    \/ \E e \in {"tx", "rx"} : AbrUpdate(e)

FecSpec == FecInit /\ [][FecNext]_fvars

-----------------------------------------------------------------------------
(* The group sizes fit the buffers that they index (fec_buf_ptrs has       *)
(* RESILIENCE_FEC_GROUP of them), and positions stay inside a group.       *)
FecTypeOK ==
    /\ group \in [{"tx", "rx"} -> 0 .. Slots]
    /\ tx.pos \in 0 .. Slots - 1 /\ rx.pos \in 0 .. Slots - 1
    /\ rx.parity.size \in 0 .. Slots
    /\ \A i \in SlotSet : rx.slot[i].len \in 0 .. 2

(* What fec_rx_rebuild returns is the packet whose number it names, in     *)
(* whatever order the packets of the groups arrive and whatever buffers of *)
(* earlier groups are left over, as long as the numbers of the data        *)
(* packets have no gaps and the receiver sends nothing.                    *)
RebuildRight ==
    seen.gaps = 0 /\ seen.back = 0 /\ recovered.last # Nothing =>
        recovered.last.bits = {recovered.last.seq}

(* The parity of the group of s, and all before it, has left the network.  *)
GroupArrived(s) ==
    LET end == s - (s % Slots) + Slots
    IN  /\ next >= end
        /\ \A i \in 1 .. Len(wire) : (IF wire[i].op = "DATA" THEN wire[i].seq ELSE wire[i].start) >= end

(* The scope of LossRecovered: in order, no control packets, no answers,   *)
(* no bitrate control, and groups that start at a multiple of their size.  *)
Aligned ==
    seen.ordered /\ seen.gaps = 0 /\ seen.back = 0 /\ ~ seen.abr /\ seen.first % Slots = 0

(* In order, with groups that start at a multiple of their size, no packet *)
(* longer than the one lost and nothing else lost, the packet is back as   *)
(* soon as the parity of its group has arrived.                            *)
LossRecovered ==
    Aligned =>
        \A m \in seen.lost :
            seen.lost = {m} /\ m.op = "DATA" /\ LengthOf(m.seq) = 2 /\ GroupArrived(m.seq)
                => m.seq \in recovered.seqs

-----------------------------------------------------------------------------
(* The inductive invariants from which the properties above are proved.    *)
Datagrams ==
    [op : {"DATA"}, seq : Nat]
      \cup [op : {"PARITY"}, start : Nat, size : Nat, bits : SUBSET Nat, len : 0 .. 2]
Buffers == [SlotSet -> [len : 0 .. 2, seq : Nat, bits : SUBSET Int]]
Parities == [have : BOOLEAN, start : Nat, size : Nat, bits : SUBSET Nat, len : 0 .. 2]
Senders == [pos : Nat, start : Nat, bits : SUBSET Nat, len : 0 .. 2]
Receivers == [slot : Buffers, parity : Parities, pos : Nat]
Observations == [first : Nat, sent : Nat, gaps : Nat, back : Nat, lost : SUBSET Datagrams,
                 ordered : BOOLEAN, abr : BOOLEAN]

(* The shape of the state, whatever group sizes the bitrate control asks   *)
(* for.                                                                    *)
FecShape ==
    /\ next \in Nat
    /\ tx \in Senders
    /\ wire \in Seq(Datagrams)
    /\ rx \in Receivers
    /\ group \in [tx : Nat, rx : Nat]
    /\ recovered = [last |-> recovered.last, seqs |-> recovered.seqs]
    /\ seen \in Observations

(* The group sizes asked for so far fit the buffers.                       *)
Fits == seen.abr => \A loss \in LossRates : AbrGroup(loss) <= Slots

FecBounds ==
    Fits =>
        /\ group.tx <= Slots /\ group.rx <= Slots
        /\ tx.pos < Slots /\ rx.pos < Slots /\ rx.parity.size <= Slots
        /\ \A i \in 1 .. Len(wire) : wire[i].op = "PARITY" => wire[i].size <= Slots

(* The bitrate control has at most switched the groups off.                *)
Uniform == seen.abr => LossRates \subseteq 0 .. 2

(* p is the parity of Slots packets with successive numbers, and as long   *)
(* as the longest of them.                                                 *)
WholeGroup(p) ==
    /\ p.size = Slots
    /\ p.bits = p.start .. p.start + Slots - 1
    /\ \A s \in p.bits : LengthOf(s) <= p.len

RebuildInv ==
    Uniform =>
        /\ group.tx \in {0, Slots} /\ group.rx \in {0, Slots}
        /\ seen.gaps = 0 =>
             /\ tx.pos > 0 /\ group.tx # 0 =>
                  /\ next = tx.start + tx.pos
                  /\ tx.bits = tx.start .. next - 1
                  /\ \A s \in tx.bits : LengthOf(s) <= tx.len
             /\ \A i \in 1 .. Len(wire) : wire[i].op = "PARITY" => WholeGroup(wire[i])
             /\ rx.parity.have => WholeGroup(rx.parity)
        /\ seen.back = 0 =>
             \A i \in SlotSet : rx.slot[i].len > 0 => rx.slot[i].bits = {rx.slot[i].seq}
        /\ RebuildRight

(* Where a packet stands in the order in which the sender made them.       *)
Place(m) == IF m.op = "DATA" THEN 2 * m.seq ELSE 2 * (m.start + Slots) - 1

First(m) == IF m.op = "DATA" THEN m.seq ELSE m.start

InTransit == {wire[i] : i \in 1 .. Len(wire)}

(* The sender's half of the aligned case: what is in transit is in the     *)
(* order in which it was made, and its parity packets are of whole groups. *)
SendingInv ==
    Aligned =>
        /\ group.tx = Slots /\ group.rx = Slots
        /\ tx.pos <= next /\ (next - tx.pos) % Slots = 0
        /\ \A i, j \in 1 .. Len(wire) : i < j => Place(wire[i]) < Place(wire[j])
        /\ \A m \in InTransit :
             IF m.op = "DATA" THEN m.seq < next
             ELSE m.start % Slots = 0 /\ m.start + Slots <= next
        /\ \A m \in seen.lost : m.op = "DATA" => m.seq < next /\ m \notin InTransit

(* The receiver is at the group that starts at b: every packet from b on   *)
(* is in transit, in its buffer or lost, every parity is in transit, and a *)
(* packet lost from an earlier group is back.                              *)
ReceivingGroup(b) ==
    /\ b % Slots = 0
    /\ \A m \in InTransit : First(m) >= b
    /\ \A g \in b .. next : g % Slots = 0 /\ g + Slots <= next =>
         \E m \in InTransit : m.op = "PARITY" /\ m.start = g
    /\ \A s \in b .. next - 1 :
         \/ DataPacket(s) \in InTransit \cup seen.lost
         \/ s < b + Slots /\ rx.slot[s - b].len > 0
    /\ \A i \in SlotSet : rx.slot[i].len > 0 =>
         /\ rx.slot[i].seq = b + i /\ b + i < next
         /\ DataPacket(b + i) \notin InTransit \cup seen.lost
    /\ \A m \in seen.lost : LengthOf(m.seq) = 2 /\ m.seq < b => m.seq \in recovered.seqs

OneLost == \A m, n \in seen.lost : m.op = "DATA" /\ m = n

ReceivingInv ==
    Aligned /\ OneLost => ~ rx.parity.have /\ \E b \in 0 .. next : ReceivingGroup(b)
====
