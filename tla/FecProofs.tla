----------------------------- MODULE FecProofs -----------------------------
(***************************************************************************)
(* Proofs about the forward error correction of resilience_ctx.c and       *)
(* resilience.c, for every group size, every message length and every      *)
(* number of losses, gaps and answers: positions and group sizes stay      *)
(* within the buffers, and what a rebuild returns is the packet whose      *)
(* number it names.                                                        *)
(***************************************************************************)
EXTENDS Fec, FiniteSetTheorems, TLAPS

(***************************************************************************)
(* Division by the group size, as fec_rx_track computes the slot.          *)
(***************************************************************************)
LEMMA SlotDivision ==
    /\ \A s \in Nat : /\ s % Slots \in 0 .. Slots - 1
                      /\ \E p \in Nat : s = Slots * p + (s % Slots)
    /\ \A p \in Nat, i \in 0 .. Slots - 1 : (Slots * p + i) % Slots = i
  <1>0. Slots \in Nat /\ Slots > 1
    BY FecAssumption
  <1>1. ASSUME NEW s \in Nat
        PROVE  /\ s % Slots \in 0 .. Slots - 1
               /\ s \div Slots \in Nat /\ s = Slots * (s \div Slots) + (s % Slots)
    BY <1>0
  <1>2. ASSUME NEW p \in Nat, NEW i \in 0 .. Slots - 1
        PROVE  (Slots * p + i) % Slots = i
    <2> DEFINE s == Slots * p + i
               d == s \div Slots
    <2>1. s \in Nat
      BY <1>0
    <2>2. d \in Nat /\ s = Slots * d + (s % Slots) /\ s % Slots \in 0 .. Slots - 1
      BY <1>1, <2>1
    <2>3. s = Slots * p + i
      OBVIOUS
    <2> HIDE DEF s, d
    <2>4. ~ (d < p)
      <3> SUFFICES ASSUME d < p PROVE FALSE
        OBVIOUS
      <3>1. Slots * p >= Slots * (d + 1)
        BY <1>0, <2>2
      <3>2. Slots * (d + 1) = Slots * d + Slots
        BY <1>0, <2>2
      <3> QED
        BY <1>0, <2>2, <2>3, <3>1, <3>2
    <2>5. ~ (p < d)
      <3> SUFFICES ASSUME p < d PROVE FALSE
        OBVIOUS
      <3>1. Slots * d >= Slots * (p + 1)
        BY <1>0, <2>2
      <3>2. Slots * (p + 1) = Slots * p + Slots
        BY <1>0
      <3> QED
        BY <1>0, <2>2, <2>3, <3>1, <3>2
    <2>6. p = d
      BY <2>2, <2>4, <2>5
    <2>7. s % Slots = i
      BY <1>0, <2>2, <2>3, <2>6
    <2> QED
      BY <2>7 DEF s
  <1> QED
    BY <1>1, <1>2

(***************************************************************************)
(* Numbers that start a group are a whole group apart, and the slot of a   *)
(* packet is its place in its group.                                       *)
(***************************************************************************)
LEMMA GroupStarts ==
    ASSUME NEW g \in Nat, g % Slots = 0
    PROVE  /\ (g + Slots) % Slots = 0
           /\ \A h \in Nat : h % Slots = 0 /\ g < h => g + Slots <= h
           /\ \A i \in SlotSet : (g + i) % Slots = i
  <1>0. Slots \in Nat /\ Slots > 1
    BY FecAssumption
  <1>1. PICK p \in Nat : g = Slots * p + 0
    <2>1. \E p \in Nat : g = Slots * p + (g % Slots)
      BY SlotDivision, Zenon
    <2> QED
      BY <2>1, Zenon
  <1>2. (g + Slots) % Slots = 0
    <2>1. g + Slots = Slots * (p + 1) + 0 /\ p + 1 \in Nat /\ 0 \in 0 .. Slots - 1
      BY <1>0, <1>1
    <2> QED
      BY <2>1, SlotDivision
  <1>3. ASSUME NEW h \in Nat, h % Slots = 0, g < h
        PROVE  g + Slots <= h
    <2>1. PICK q \in Nat : h = Slots * q + 0
      <3>1. \E q \in Nat : h = Slots * q + (h % Slots)
        BY SlotDivision, Zenon
      <3> QED
        BY <1>3, <3>1, Zenon
    <2>2. q > p
      BY <1>0, <1>1, <1>3, <2>1
    <2>3. Slots * q >= Slots * (p + 1)
      BY <1>0, <2>2
    <2> QED
      BY <1>0, <1>1, <2>1, <2>3
  <1>4. ASSUME NEW i \in SlotSet
        PROVE  (g + i) % Slots = i
    <2>1. i \in 0 .. Slots - 1 /\ g + i = Slots * p + i
      BY <1>0, <1>1 DEF SlotSet
    <2> QED
      BY <2>1, SlotDivision
  <1> QED
    BY <1>2, <1>3, <1>4

(***************************************************************************)
(* Every packet has a group, which starts at a multiple of Slots.          *)
(***************************************************************************)
LEMMA GroupOf ==
    ASSUME NEW s \in Nat
    PROVE  /\ s % Slots \in SlotSet
           /\ s - (s % Slots) \in Nat
           /\ (s - (s % Slots)) % Slots = 0
  <1>0. Slots \in Nat /\ Slots > 1
    BY FecAssumption
  <1>1. s % Slots \in 0 .. Slots - 1
    BY SlotDivision
  <1>2. PICK p \in Nat : s = Slots * p + (s % Slots)
    BY SlotDivision
  <1> DEFINE i == s % Slots
             g == Slots * p
  <1>3. s - i = g + 0 /\ g + 0 \in Nat /\ 0 \in 0 .. Slots - 1
    <2>1. i \in Nat /\ g \in Nat /\ s = g + i
      BY <1>0, <1>1, <1>2
    <2> HIDE DEF i, g
    <2> QED
      BY <1>0, <2>1
  <1>4. (Slots * p + 0) % Slots = 0
    BY <1>3, SlotDivision
  <1> QED
    BY <1>1, <1>3, <1>4 DEF SlotSet

(***************************************************************************)
(* What is left in transit when the packet at place i has gone.            *)
(***************************************************************************)
LEMMA WithoutOne ==
    ASSUME NEW S, NEW q \in Seq(S), NEW i \in 1 .. Len(q)
    PROVE  /\ Without(q, i) \in Seq(S) /\ Len(Without(q, i)) = Len(q) - 1
           /\ \A k \in 1 .. Len(q) - 1 : Without(q, i)[k] = IF k < i THEN q[k] ELSE q[k + 1]
  <1>1. Len(q) \in Nat /\ i \in Nat /\ 1 <= i /\ i <= Len(q)
    OBVIOUS
  <1> DEFINE a == SubSeq(q, 1, i - 1)
             b == SubSeq(q, i + 1, Len(q))
             r == Without(q, i)
  <1>2. /\ a \in Seq(S) /\ Len(a) = i - 1
        /\ \A k \in 1 .. i - 1 : a[k] = q[k]
    BY <1>1
  <1>3. /\ b \in Seq(S) /\ Len(b) = Len(q) - i
        /\ \A k \in 1 .. Len(q) - i : b[k] = q[i + k]
    BY <1>1
  <1>4. r = a \o b
    BY DEF Without
  <1> HIDE DEF a, b, r
  <1>5. r \in Seq(S) /\ Len(r) = Len(q) - 1
    BY <1>1, <1>2, <1>3, <1>4
  <1>6. ASSUME NEW k \in 1 .. Len(q) - 1
        PROVE  r[k] = IF k < i THEN q[k] ELSE q[k + 1]
    <2>0. k \in Nat /\ 1 <= k /\ k <= Len(q) - 1
      BY <1>1
    <2>1. CASE k < i
      <3>1. r[k] = a[k]
        BY <1>1, <1>2, <1>3, <1>4, <2>0, <2>1
      <3> QED
        BY <1>1, <1>2, <2>0, <2>1, <3>1
    <2>2. CASE ~ (k < i)
      <3>1. r[k] = b[k - (i - 1)]
        BY <1>1, <1>2, <1>3, <1>4, <2>0, <2>2
      <3>2. k - (i - 1) \in 1 .. Len(q) - i /\ i + (k - (i - 1)) = k + 1
        BY <1>1, <2>0, <2>2
      <3> QED
        BY <1>3, <2>2, <3>1, <3>2
    <2> QED
      BY <2>1, <2>2
  <1> QED
    BY <1>5, <1>6 DEF r

(***************************************************************************)
(* Every other packet is still there, and nothing else is.                 *)
(***************************************************************************)
LEMMA WithoutKeeps ==
    ASSUME NEW S, NEW q \in Seq(S), NEW i \in 1 .. Len(q)
    PROVE  /\ \A k \in 1 .. Len(q) : k # i =>
                \E j \in 1 .. Len(Without(q, i)) : Without(q, i)[j] = q[k]
           /\ \A j \in 1 .. Len(Without(q, i)) :
                \E k \in 1 .. Len(q) : k # i /\ k >= j /\ Without(q, i)[j] = q[k]
  <1> DEFINE r == Without(q, i)
  <1>1. Len(q) \in Nat /\ i \in Nat /\ 1 <= i /\ i <= Len(q)
    OBVIOUS
  <1>2. /\ Len(r) = Len(q) - 1
        /\ \A k \in 1 .. Len(q) - 1 : r[k] = IF k < i THEN q[k] ELSE q[k + 1]
    BY WithoutOne
  <1> HIDE DEF r
  <1>3. ASSUME NEW k \in 1 .. Len(q), k # i
        PROVE  \E j \in 1 .. Len(r) : r[j] = q[k]
    <2>0. k \in Nat /\ 1 <= k /\ k <= Len(q)
      BY <1>1
    <2>1. CASE k < i
      <3>1. k \in 1 .. Len(q) - 1 /\ r[k] = q[k]
        BY <1>1, <1>2, <2>0, <2>1
      <3> QED
        BY <1>2, <3>1
    <2>2. CASE k > i
      <3>1. k - 1 \in 1 .. Len(q) - 1 /\ ~ (k - 1 < i) /\ (k - 1) + 1 = k
        BY <1>1, <2>0, <2>2
      <3>2. r[k - 1] = q[k]
        BY <1>2, <3>1
      <3> QED
        BY <1>2, <3>1, <3>2
    <2> QED
      BY <1>1, <1>3, <2>0, <2>1, <2>2
  <1>4. ASSUME NEW j \in 1 .. Len(r)
        PROVE  \E k \in 1 .. Len(q) : k # i /\ k >= j /\ r[j] = q[k]
    <2>0. j \in Nat /\ 1 <= j /\ j <= Len(q) - 1 /\ j \in 1 .. Len(q) - 1
      BY <1>1, <1>2
    <2>1. CASE j < i
      <3>1. j \in 1 .. Len(q) /\ j # i /\ j >= j /\ r[j] = q[j]
        BY <1>1, <1>2, <2>0, <2>1
      <3> QED
        BY <3>1
    <2>2. CASE ~ (j < i)
      <3>1. j + 1 \in 1 .. Len(q) /\ j + 1 # i /\ j + 1 >= j /\ r[j] = q[j + 1]
        BY <1>1, <1>2, <2>0, <2>2
      <3> QED
        BY <3>1
    <2> QED
      BY <2>1, <2>2
  <1> QED
    BY <1>3, <1>4 DEF r

(***************************************************************************)
(* fec_rx_clear_group empties every buffer and forgets the parity.         *)
(***************************************************************************)
LEMMA ClearGroupEmpties ==
    ASSUME NEW r \in Receivers
    PROVE  /\ ClearGroup(r) \in Receivers
           /\ ClearGroup(r).pos = r.pos
           /\ ClearGroup(r).parity.have = FALSE
           /\ ClearGroup(r).parity.size = 0
           /\ \A i \in SlotSet : ClearGroup(r).slot[i].len = 0
  <1> DEFINE cleared == [i \in SlotSet |-> [len |-> 0, seq |-> 0, bits |-> r.slot[i].bits]]
             forgotten == [have |-> FALSE, start |-> r.parity.start, size |-> 0,
                           bits |-> r.parity.bits, len |-> r.parity.len]
  <1>1. ClearGroup(r) = [slot |-> cleared, parity |-> forgotten, pos |-> r.pos]
    BY DEF ClearGroup
  <1>2. cleared \in Buffers /\ \A i \in SlotSet : cleared[i].len = 0
    BY DEF Receivers, Buffers
  <1>3. forgotten \in Parities /\ forgotten.have = FALSE /\ forgotten.size = 0
    BY DEF Receivers, Parities
  <1>4. r.pos \in Nat
    BY DEF Receivers
  <1> HIDE DEF cleared, forgotten
  <1> QED
    BY <1>1, <1>2, <1>3, <1>4 DEF Receivers

(***************************************************************************)
(* fec_rx_track fills the slot of the packet, if there is one.             *)
(***************************************************************************)
LEMMA TrackFills ==
    ASSUME NEW r \in Receivers, NEW s \in Nat, NEW n \in Nat, group.rx = n
    PROVE  /\ Track(r, s) \in Receivers
           /\ Track(r, s).pos = r.pos /\ Track(r, s).parity = r.parity
           /\ \A i \in SlotSet : Track(r, s).slot[i] =
                IF i = s % n THEN [len |-> LengthOf(s), seq |-> s, bits |-> {s}] ELSE r.slot[i]
  <1> DEFINE new == [len |-> LengthOf(s), seq |-> s, bits |-> {s}]
             filled == [r.slot EXCEPT ![s % n] = new]
  <1>1. Track(r, s) = [slot |-> filled, parity |-> r.parity, pos |-> r.pos]
    BY DEF Track, Receivers
  <1>2. r.slot \in Buffers /\ r.parity \in Parities /\ r.pos \in Nat
    BY DEF Receivers
  <1>3. new \in [len : 0 .. 2, seq : Nat, bits : SUBSET Int]
    BY DEF LengthOf
  <1> HIDE DEF new
  <1>4. filled \in Buffers /\ \A i \in SlotSet : filled[i] = IF i = s % n THEN new ELSE r.slot[i]
    BY <1>2, <1>3, Zenon DEF Buffers
  <1> HIDE DEF filled
  <1>5. /\ Track(r, s) \in Receivers
        /\ Track(r, s).pos = r.pos /\ Track(r, s).parity = r.parity /\ Track(r, s).slot = filled
    BY <1>1, <1>2, <1>4 DEF Receivers
  <1> QED
    BY <1>4, <1>5 DEF new

(***************************************************************************)
(* fec_rx_store_parity keeps the parity beside the buffers.                *)
(***************************************************************************)
LEMMA StoreParityKeeps ==
    ASSUME NEW r \in Receivers, NEW m \in Datagrams, m.op = "PARITY"
    PROVE  /\ StoreParity(r, m) \in Receivers
           /\ StoreParity(r, m).pos = r.pos /\ StoreParity(r, m).slot = r.slot
           /\ StoreParity(r, m).parity = [have |-> TRUE, start |-> m.start, size |-> m.size,
                                          bits |-> m.bits, len |-> m.len]
  <1> DEFINE p == [have |-> TRUE, start |-> m.start, size |-> m.size,
                   bits |-> m.bits, len |-> m.len]
  <1>1. StoreParity(r, m) = [slot |-> r.slot, parity |-> p, pos |-> r.pos]
    <2>1. StoreParity(r, m) = [r EXCEPT !.parity = p]
      BY DEF StoreParity
    <2> HIDE DEF p
    <2> QED
      BY <2>1 DEF Receivers
  <1>2. p \in Parities
    BY DEF Parities, Datagrams
  <1>3. r.slot \in Buffers /\ r.pos \in Nat
    BY DEF Receivers
  <1> HIDE DEF p
  <1>4. /\ StoreParity(r, m) \in Receivers
        /\ StoreParity(r, m).pos = r.pos /\ StoreParity(r, m).slot = r.slot
        /\ StoreParity(r, m).parity = p
    BY <1>1, <1>2, <1>3 DEF Receivers
  <1> QED
    BY <1>4 DEF p

(***************************************************************************)
(* What a datagram is, from its opcode.                                    *)
(***************************************************************************)
LEMMA PacketKinds ==
    ASSUME NEW m \in Datagrams
    PROVE  \/ m.op = "DATA" /\ m.seq \in Nat /\ m = DataPacket(m.seq)
           \/ /\ m.op = "PARITY" /\ m.start \in Nat /\ m.size \in Nat
              /\ m.bits \in SUBSET Nat /\ m.len \in 0 .. 2
  BY DEF Datagrams, DataPacket

(***************************************************************************)
(* A rebuild leaves the receiver as it was handed over, or cleared.        *)
(***************************************************************************)
LEMMA TryRebuildOutcome ==
    ASSUME NEW r \in Receivers, TryRebuild(r)
    PROVE  /\ rx' = r \/ rx' = ClearGroup(r)
           /\ rx' \in Receivers
           /\ recovered = [last |-> recovered.last, seqs |-> recovered.seqs] =>
                recovered' = [last |-> recovered'.last, seqs |-> recovered'.seqs]
  <1>1. rx' = r \/ rx' = ClearGroup(r)
    BY DEF TryRebuild
  <1>2. rx' \in Receivers
    BY <1>1, ClearGroupEmpties, Zenon
  <1>3. \/ recovered' = recovered
        \/ \E a, b : recovered' = [last |-> a, seqs |-> b]
    BY DEF TryRebuild
  <1> QED
    BY <1>1, <1>2, <1>3

(***************************************************************************)
(* fec_tx_accumulate starts a group or adds to the one under way.          *)
(***************************************************************************)
LEMMA AccumulatedSum ==
    ASSUME FecShape
    PROVE  /\ Accumulated(next) \in Senders
           /\ Accumulated(next).pos = tx.pos + 1
           /\ tx.pos = 0 => /\ Accumulated(next).start = next
                            /\ Accumulated(next).bits = {next}
                            /\ Accumulated(next).len = LengthOf(next)
           /\ tx.pos # 0 => /\ Accumulated(next).start = tx.start
                            /\ Accumulated(next).bits = Xor(tx.bits, {next})
                            /\ Accumulated(next).len = Larger(tx.len, LengthOf(next))
  <1>1. next \in Nat /\ tx \in Senders /\ LengthOf(next) \in 1 .. 2
    BY DEF FecShape, LengthOf
  <1>2. CASE tx.pos = 0
    <2>1. Accumulated(next) = [pos |-> 0 + 1, start |-> next, bits |-> Xor({}, {next}),
                               len |-> Larger(0, LengthOf(next))]
      BY <1>2 DEF Accumulated
    <2>2. Xor({}, {next}) = {next} /\ Larger(0, LengthOf(next)) = LengthOf(next)
      BY <1>1 DEF Xor, Larger
    <2> QED
      BY <1>1, <1>2, <2>1, <2>2 DEF Senders
  <1>3. CASE tx.pos # 0
    <2>1. Accumulated(next) = [pos |-> tx.pos + 1, start |-> tx.start,
                               bits |-> Xor(tx.bits, {next}),
                               len |-> Larger(tx.len, LengthOf(next))]
      BY <1>3 DEF Accumulated
    <2>2. Xor(tx.bits, {next}) \in SUBSET Nat /\ Larger(tx.len, LengthOf(next)) \in 0 .. 2
      BY <1>1 DEF Xor, Larger, Senders
    <2>3. tx.pos + 1 \in Nat /\ tx.start \in Nat
      BY <1>1 DEF Senders
    <2> DEFINE t == Accumulated(next)
               b == Xor(tx.bits, {next})
               l == Larger(tx.len, LengthOf(next))
               p == tx.pos + 1
    <2> HIDE DEF t, b, l, p
    <2>4. t = [pos |-> p, start |-> tx.start, bits |-> b, len |-> l]
      BY <2>1 DEF t, b, l, p
    <2>5. t \in Senders
      BY <2>2, <2>3, <2>4 DEF Senders, b, l, p
    <2>6. t.pos = p /\ t.start = tx.start /\ t.bits = b /\ t.len = l
      BY <2>4
    <2> QED
      BY <1>3, <2>5, <2>6 DEF t, b, l, p
  <1> QED
    BY <1>2, <1>3

(***************************************************************************)
(* What the run has met, after a change of one field.                      *)
(***************************************************************************)
LEMMA SeenUpdate ==
    ASSUME seen \in Observations, NEW k
    PROVE  /\ [seen EXCEPT !.sent = k] =
                [first |-> seen.first, sent |-> k, gaps |-> seen.gaps, back |-> seen.back,
                 lost |-> seen.lost, ordered |-> seen.ordered, abr |-> seen.abr]
           /\ [seen EXCEPT !.gaps = k] =
                [first |-> seen.first, sent |-> seen.sent, gaps |-> k, back |-> seen.back,
                 lost |-> seen.lost, ordered |-> seen.ordered, abr |-> seen.abr]
           /\ [seen EXCEPT !.back = k] =
                [first |-> seen.first, sent |-> seen.sent, gaps |-> seen.gaps, back |-> k,
                 lost |-> seen.lost, ordered |-> seen.ordered, abr |-> seen.abr]
           /\ [seen EXCEPT !.lost = k] =
                [first |-> seen.first, sent |-> seen.sent, gaps |-> seen.gaps,
                 back |-> seen.back, lost |-> k, ordered |-> seen.ordered, abr |-> seen.abr]
           /\ [seen EXCEPT !.ordered = k] =
                [first |-> seen.first, sent |-> seen.sent, gaps |-> seen.gaps,
                 back |-> seen.back, lost |-> seen.lost, ordered |-> k, abr |-> seen.abr]
           /\ [seen EXCEPT !.abr = k] =
                [first |-> seen.first, sent |-> seen.sent, gaps |-> seen.gaps,
                 back |-> seen.back, lost |-> seen.lost, ordered |-> seen.ordered, abr |-> k]
  BY DEF Observations

(***************************************************************************)
(* What sending a data packet does, field by field: it is put in transit   *)
(* behind what is there, and so is the parity when the group is complete.  *)
(***************************************************************************)
LEMMA SendEffect ==
    ASSUME FecShape, SendPacket
    PROVE  LET t == Accumulated(next)
               complete == group.tx # 0 /\ t.pos >= group.tx
               n == Len(wire)
           IN  /\ next' = next + 1 /\ rx' = rx /\ group' = group /\ recovered' = recovered
               /\ seen' \in Observations /\ seen'.gaps = seen.gaps /\ seen'.back = seen.back
               /\ seen'.first = seen.first /\ seen'.lost = seen.lost
               /\ seen'.ordered = seen.ordered /\ seen'.abr = seen.abr
               /\ group.tx = 0 => tx' = tx
               /\ group.tx # 0 /\ ~ complete => tx' = t
               /\ complete => tx' \in Senders /\ tx'.pos = 0
               /\ wire' \in Seq(Datagrams) /\ ParityPacket(t) \in Datagrams
               /\ Len(wire') = IF complete THEN n + 2 ELSE n + 1
               /\ \A k \in 1 .. n : wire'[k] = wire[k]
               /\ wire'[n + 1] = DataPacket(next)
               /\ complete => wire'[n + 2] = ParityPacket(t)
  <1> DEFINE t == Accumulated(next)
             complete == group.tx # 0 /\ t.pos >= group.tx
             n == Len(wire)
             d == DataPacket(next)
             p == ParityPacket(t)
  <1>1. t \in Senders
    BY AccumulatedSum
  <1>2. /\ next \in Nat /\ wire \in Seq(Datagrams) /\ seen \in Observations
        /\ group \in [tx : Nat, rx : Nat]
    BY DEF FecShape
  <1>3. d \in Datagrams
    BY <1>2 DEF DataPacket, Datagrams
  <1>4. p \in Datagrams
    BY <1>1, <1>2 DEF ParityPacket, Datagrams, Senders
  <1>5. /\ next' = next + 1 /\ rx' = rx /\ group' = group /\ recovered' = recovered
        /\ seen' = [seen EXCEPT !.sent = @ + 1]
        /\ tx' = IF group.tx = 0 THEN tx ELSE IF complete THEN [t EXCEPT !.pos = 0] ELSE t
        /\ wire' = wire \o <<d>> \o (IF complete THEN <<p>> ELSE <<>>)
    BY DEF SendPacket
  <1> HIDE DEF t, complete, d, p
  <1>6. /\ seen' \in Observations /\ seen'.gaps = seen.gaps /\ seen'.back = seen.back
        /\ seen'.first = seen.first /\ seen'.lost = seen.lost
        /\ seen'.ordered = seen.ordered /\ seen'.abr = seen.abr
    <2> DEFINE k == seen.sent + 1
    <2>1. seen' = [seen EXCEPT !.sent = k] /\ k \in Nat
      BY <1>2, <1>5 DEF Observations
    <2> HIDE DEF k
    <2>2. seen' = [first |-> seen.first, sent |-> k, gaps |-> seen.gaps, back |-> seen.back,
                   lost |-> seen.lost, ordered |-> seen.ordered, abr |-> seen.abr]
      BY <1>2, <2>1, SeenUpdate, Zenon
    <2>3. seen' \in Observations
      BY <1>2, <2>1, <2>2 DEF Observations
    <2> QED
      BY <2>2, <2>3
  <1>7. /\ group.tx = 0 => tx' = tx
        /\ group.tx # 0 /\ ~ complete => tx' = t
    BY <1>5
  <1>8. complete => tx' \in Senders /\ tx'.pos = 0
    <2> SUFFICES ASSUME complete PROVE tx' \in Senders /\ tx'.pos = 0
      OBVIOUS
    <2>1. tx' = [t EXCEPT !.pos = 0]
      BY <1>5 DEF complete
    <2> QED
      BY <1>1, <2>1 DEF Senders
  <1>9. /\ n \in Nat /\ wire \o <<d>> \in Seq(Datagrams) /\ Len(wire \o <<d>>) = n + 1
        /\ \A k \in 1 .. n : (wire \o <<d>>)[k] = wire[k]
        /\ (wire \o <<d>>)[n + 1] = d
    BY <1>2, <1>3
  <1>10. /\ wire' \in Seq(Datagrams)
         /\ Len(wire') = IF complete THEN n + 2 ELSE n + 1
         /\ \A k \in 1 .. n : wire'[k] = wire[k]
         /\ wire'[n + 1] = d
         /\ complete => wire'[n + 2] = p
    <2> DEFINE w == wire \o <<d>>
    <2>1. /\ w \in Seq(Datagrams) /\ Len(w) = n + 1 /\ w[n + 1] = d
          /\ \A k \in 1 .. n : w[k] = wire[k]
      BY <1>9
    <2>2. wire' = w \o (IF complete THEN <<p>> ELSE <<>>)
      BY <1>5
    <2> HIDE DEF w, n
    <2>3. CASE complete
      <3>1. wire' = w \o <<p>>
        BY <2>2, <2>3
      <3> QED
        BY <1>4, <1>9, <2>1, <2>3, <3>1
    <2>4. CASE ~ complete
      <3>1. wire' = w
        BY <2>1, <2>2, <2>4
      <3> QED
        BY <1>9, <2>1, <2>4, <3>1
    <2> QED
      BY <2>3, <2>4
  <1> QED
    BY <1>4, <1>5, <1>6, <1>7, <1>8, <1>10 DEF t, complete, d, p

(***************************************************************************)
(* What the network does when it delivers a packet.                        *)
(***************************************************************************)
LEMMA DeliverEffect ==
    ASSUME FecShape, NEW i \in 1 .. Len(wire), Deliver(i)
    PROVE  /\ wire' = Without(wire, i) /\ next' = next /\ tx' = tx /\ group' = group
           /\ wire' \in Seq(Datagrams) /\ wire[i] \in Datagrams
           /\ seen' \in Observations /\ seen'.gaps = seen.gaps /\ seen'.back = seen.back
           /\ seen'.first = seen.first /\ seen'.lost = seen.lost /\ seen'.abr = seen.abr
           /\ seen'.ordered = (seen.ordered /\ i = 1)
           /\ rx' \in Receivers
  <1>1. wire \in Seq(Datagrams) /\ seen \in Observations /\ rx \in Receivers
        /\ group \in [tx : Nat, rx : Nat]
    BY DEF FecShape
  <1>2. wire[i] \in Datagrams
    BY <1>1
  <1>3. /\ wire' = Without(wire, i) /\ next' = next /\ tx' = tx /\ group' = group
        /\ seen' = [seen EXCEPT !.ordered = @ /\ i = 1]
        /\ IF wire[i].op = "PARITY" THEN TryRebuild(StoreParity(rx, wire[i]))
           ELSE IF group.rx = 0 THEN UNCHANGED <<rx, recovered>>
           ELSE TryRebuild(Track(rx, wire[i].seq))
    BY DEF Deliver
  <1>4. wire' \in Seq(Datagrams)
    BY <1>1, <1>3, WithoutOne
  <1>5. /\ seen' \in Observations /\ seen'.gaps = seen.gaps /\ seen'.back = seen.back
        /\ seen'.first = seen.first /\ seen'.lost = seen.lost /\ seen'.abr = seen.abr
        /\ seen'.ordered = (seen.ordered /\ i = 1)
    <2> DEFINE k == seen.ordered /\ i = 1
    <2>1. seen' = [seen EXCEPT !.ordered = k] /\ k \in BOOLEAN
      BY <1>1, <1>3 DEF Observations
    <2> HIDE DEF k
    <2>2. seen' = [first |-> seen.first, sent |-> seen.sent, gaps |-> seen.gaps,
                   back |-> seen.back, lost |-> seen.lost, ordered |-> k, abr |-> seen.abr]
      BY <1>1, <2>1, SeenUpdate, Zenon
    <2>3. seen' \in Observations
      BY <1>1, <2>1, <2>2 DEF Observations
    <2>4. seen'.ordered = (seen.ordered /\ i = 1)
      BY <2>2 DEF k
    <2> QED
      BY <2>2, <2>3, <2>4
  <1>6. rx' \in Receivers
    <2>1. CASE wire[i].op = "PARITY"
      BY <1>1, <1>2, <1>3, <2>1, StoreParityKeeps, TryRebuildOutcome, Zenon
    <2>2. CASE wire[i].op # "PARITY" /\ group.rx = 0
      BY <1>1, <1>3, <2>2
    <2>3. CASE wire[i].op # "PARITY" /\ group.rx # 0
      <3>1. wire[i].seq \in Nat /\ group.rx \in Nat
        BY <1>1, <1>2, <2>3, PacketKinds
      <3>2. Track(rx, wire[i].seq) \in Receivers
        BY <1>1, <3>1, TrackFills, Zenon
      <3> QED
        BY <1>3, <2>3, <3>2, TryRebuildOutcome
    <2> QED
      BY <2>1, <2>2, <2>3
  <1> QED
    BY <1>2, <1>3, <1>4, <1>5, <1>6

(***************************************************************************)
(* What the network does when it loses a packet.                           *)
(***************************************************************************)
LEMMA LoseEffect ==
    ASSUME FecShape, NEW i \in 1 .. Len(wire), LosePacket(i)
    PROVE  /\ wire' = Without(wire, i) /\ next' = next /\ tx' = tx /\ group' = group
           /\ rx' = rx /\ recovered' = recovered
           /\ wire' \in Seq(Datagrams) /\ wire[i] \in Datagrams
           /\ seen' \in Observations /\ seen'.gaps = seen.gaps /\ seen'.back = seen.back
           /\ seen'.first = seen.first /\ seen'.lost = seen.lost \cup {wire[i]}
           /\ seen'.ordered = seen.ordered /\ seen'.abr = seen.abr
  <1>1. wire \in Seq(Datagrams) /\ seen \in Observations
    BY DEF FecShape
  <1>2. wire[i] \in Datagrams
    BY <1>1
  <1>3. /\ wire' = Without(wire, i) /\ next' = next /\ tx' = tx /\ group' = group
        /\ rx' = rx /\ recovered' = recovered
        /\ seen' = [seen EXCEPT !.lost = @ \cup {wire[i]}]
    BY DEF LosePacket
  <1>4. wire' \in Seq(Datagrams)
    BY <1>1, <1>3, WithoutOne
  <1> DEFINE k == seen.lost \cup {wire[i]}
  <1>5. seen' = [seen EXCEPT !.lost = k] /\ k \in SUBSET Datagrams
    BY <1>1, <1>2, <1>3 DEF Observations
  <1> HIDE DEF k
  <1>6. seen' = [first |-> seen.first, sent |-> seen.sent, gaps |-> seen.gaps,
                 back |-> seen.back, lost |-> k, ordered |-> seen.ordered, abr |-> seen.abr]
    BY <1>1, <1>5, SeenUpdate, Zenon
  <1>7. seen' \in Observations
    BY <1>1, <1>5, <1>6 DEF Observations
  <1> QED
    BY <1>2, <1>3, <1>4, <1>6, <1>7 DEF k

(***************************************************************************)
(* A control packet leaves a gap in the numbers.                           *)
(***************************************************************************)
LEMMA GapEffect ==
    ASSUME FecShape, Gap
    PROVE  /\ next' = next + 1 /\ seen'.gaps # 0
           /\ tx' = tx /\ wire' = wire /\ rx' = rx /\ group' = group /\ recovered' = recovered
           /\ seen' \in Observations /\ seen'.back = seen.back /\ seen'.abr = seen.abr
  <1>1. seen \in Observations
    BY DEF FecShape
  <1> DEFINE k == seen.gaps + 1
  <1>2. seen' = [seen EXCEPT !.gaps = k] /\ k \in Nat /\ k # 0
    BY <1>1 DEF Gap, Observations
  <1> HIDE DEF k
  <1>3. seen' = [first |-> seen.first, sent |-> seen.sent, gaps |-> k, back |-> seen.back,
                 lost |-> seen.lost, ordered |-> seen.ordered, abr |-> seen.abr]
    BY <1>1, <1>2, SeenUpdate, Zenon
  <1>4. seen' \in Observations
    BY <1>1, <1>2, <1>3 DEF Observations
  <1> QED
    BY <1>2, <1>3, <1>4 DEF Gap

(***************************************************************************)
(* abr_update sets the group size of one end.                              *)
(***************************************************************************)
LEMMA AbrEffect ==
    ASSUME FecShape, NEW e \in {"tx", "rx"}, AbrUpdate(e)
    PROVE  /\ \E loss \in LossRates :
                /\ group'.tx = IF e = "tx" THEN AbrGroup(loss) ELSE group.tx
                /\ group'.rx = IF e = "rx" THEN AbrGroup(loss) ELSE group.rx
           /\ group' \in [tx : Nat, rx : Nat] /\ seen'.abr = TRUE
           /\ next' = next /\ tx' = tx /\ wire' = wire /\ rx' = rx /\ recovered' = recovered
           /\ seen' \in Observations /\ seen'.gaps = seen.gaps /\ seen'.back = seen.back
  <1>1. seen \in Observations /\ group \in [tx : Nat, rx : Nat]
    BY DEF FecShape
  <1>2. seen' = [first |-> seen.first, sent |-> seen.sent, gaps |-> seen.gaps,
                 back |-> seen.back, lost |-> seen.lost, ordered |-> seen.ordered, abr |-> TRUE]
    BY <1>1, SeenUpdate, Zenon DEF AbrUpdate
  <1>3. seen' \in Observations
    BY <1>1, <1>2 DEF Observations
  <1>4. PICK loss \in LossRates : group' = [group EXCEPT ![e] = AbrGroup(loss)]
    BY Zenon DEF AbrUpdate
  <1>5. AbrGroup(loss) \in Nat
    BY DEF AbrGroup
  <1> DEFINE k == AbrGroup(loss)
  <1> HIDE DEF k
  <1>6. /\ group' \in [tx : Nat, rx : Nat]
        /\ group'.tx = IF e = "tx" THEN k ELSE group.tx
        /\ group'.rx = IF e = "rx" THEN k ELSE group.rx
    BY <1>1, <1>4, <1>5 DEF k
  <1> QED
    BY <1>2, <1>3, <1>6 DEF AbrUpdate, k

(***************************************************************************)
(* The answers of the receiver go through its buffers and leave the parity *)
(* alone.                                                                  *)
(***************************************************************************)
LEMMA AnswerEffect ==
    ASSUME FecShape, Answer
    PROVE  /\ rx' \in Receivers /\ rx'.parity = rx.parity /\ group.rx # 0
           /\ rx'.pos = IF rx.pos + 1 >= group.rx THEN 0 ELSE rx.pos + 1
           /\ next' = next /\ tx' = tx /\ wire' = wire /\ group' = group
           /\ recovered' = recovered /\ seen'.back # 0
           /\ seen' \in Observations /\ seen'.gaps = seen.gaps /\ seen'.abr = seen.abr
  <1>1. seen \in Observations /\ rx \in Receivers
    BY DEF FecShape
  <1> DEFINE k == seen.back + 1
             mine == {- 1 - seen.back}
             Emptied(f) == [i \in SlotSet |-> IF i < group.rx THEN [f[i] EXCEPT !.len = 0] ELSE f[i]]
             before == IF rx.pos = 0 THEN Emptied(rx.slot) ELSE rx.slot
             kept == [before EXCEPT ![rx.pos] = [len |-> 1, seq |-> @.seq, bits |-> mine]]
             full == rx.pos + 1 >= group.rx
             after == IF full THEN Emptied(kept) ELSE kept
             pos == IF full THEN 0 ELSE rx.pos + 1
  <1>2. /\ rx' = [slot |-> after, parity |-> rx.parity, pos |-> pos]
        /\ seen' = [seen EXCEPT !.back = k] /\ group.rx # 0
        /\ next' = next /\ tx' = tx /\ wire' = wire /\ group' = group
        /\ recovered' = recovered
    BY DEF Answer
  <1>3. k \in Nat /\ k # 0 /\ pos \in Nat /\ rx.slot \in Buffers /\ rx.parity \in Parities
        /\ mine \in SUBSET Int
    BY <1>1 DEF Observations, Receivers
  <1>4. ASSUME NEW f \in Buffers
        PROVE  Emptied(f) \in Buffers
    <2>1. ASSUME NEW i \in SlotSet
          PROVE  Emptied(f)[i] \in [len : 0 .. 2, seq : Nat, bits : SUBSET Int]
      <3>1. f[i] \in [len : 0 .. 2, seq : Nat, bits : SUBSET Int]
        BY DEF Buffers
      <3> QED
        BY <3>1
    <2> QED
      BY <2>1 DEF Buffers
  <1>5. before \in Buffers
    BY <1>3, <1>4
  <1> HIDE DEF k, mine, before, full, pos, Emptied
  <1>6. kept \in Buffers
    <2> DEFINE new == [len |-> 1, seq |-> before[rx.pos].seq, bits |-> mine]
    <2>1. rx.pos \in SlotSet => new \in [len : 0 .. 2, seq : Nat, bits : SUBSET Int]
      BY <1>3, <1>5 DEF Buffers
    <2>2. kept = [before EXCEPT ![rx.pos] = new]
      BY <1>5 DEF Buffers
    <2> HIDE DEF new, kept
    <2> QED
      BY <1>5, <2>1, <2>2, Zenon DEF Buffers
  <1> HIDE DEF kept
  <1>7. after \in Buffers
    BY <1>4, <1>6
  <1> HIDE DEF after
  <1>8. rx' \in Receivers /\ rx'.parity = rx.parity /\ rx'.pos = pos
    BY <1>2, <1>3, <1>7 DEF Receivers
  <1>9. seen' = [first |-> seen.first, sent |-> seen.sent, gaps |-> seen.gaps, back |-> k,
                 lost |-> seen.lost, ordered |-> seen.ordered, abr |-> seen.abr]
    BY <1>1, <1>2, SeenUpdate, Zenon
  <1>10. seen' \in Observations
    BY <1>1, <1>3, <1>9 DEF Observations
  <1> QED
    BY <1>2, <1>3, <1>8, <1>9, <1>10 DEF pos, full

(***************************************************************************)
(* Every step keeps the shape of the state.                                *)
(***************************************************************************)
LEMMA FecShapeInvariant ==
    /\ FecInit => FecShape
    /\ FecShape /\ [FecNext]_fvars => FecShape'
  <1>1. FecInit => FecShape
    <2> SUFFICES ASSUME FecInit PROVE FecShape
      OBVIOUS
    <2>1. next \in Nat /\ tx \in Senders /\ wire \in Seq(Datagrams)
      BY FecAssumption DEF FecInit, Senders
    <2>2. rx.slot \in Buffers /\ rx.parity \in Parities /\ rx.pos \in Nat
      BY DEF FecInit, Buffers, Parities, NoPacket, NoParity
    <2>3. rx \in Receivers
      BY <2>2 DEF FecInit, Receivers
    <2>4. group \in [tx : Nat, rx : Nat]
      BY FecAssumption DEF FecInit
    <2>5. seen \in Observations
      BY <2>1 DEF FecInit, Observations
    <2>6. recovered = [last |-> recovered.last, seqs |-> recovered.seqs]
      BY DEF FecInit
    <2> QED
      BY <2>1, <2>3, <2>4, <2>5, <2>6 DEF FecShape
  <1>2. ASSUME FecShape, [FecNext]_fvars
        PROVE  FecShape'
    <2>0. /\ next \in Nat /\ tx \in Senders /\ wire \in Seq(Datagrams) /\ rx \in Receivers
          /\ group \in [tx : Nat, rx : Nat] /\ seen \in Observations
          /\ recovered = [last |-> recovered.last, seqs |-> recovered.seqs]
      BY <1>2 DEF FecShape
    <2>1. CASE SendPacket
      <3>1. Accumulated(next) \in Senders
        BY <1>2, AccumulatedSum
      <3>2. tx' \in Senders /\ wire' \in Seq(Datagrams) /\ seen' \in Observations
        BY <1>2, <2>0, <2>1, <3>1, SendEffect
      <3>3. next' = next + 1 /\ rx' = rx /\ group' = group /\ recovered' = recovered
        BY <1>2, <2>1, SendEffect
      <3> QED
        BY <2>0, <3>2, <3>3 DEF FecShape
    <2>2. CASE Gap
      BY <1>2, <2>0, <2>2, GapEffect DEF FecShape
    <2>3. CASE Answer
      BY <1>2, <2>0, <2>3, AnswerEffect DEF FecShape
    <2>4. ASSUME NEW i \in 1 .. Len(wire), Deliver(i)
          PROVE  FecShape'
      <3>1. /\ wire' \in Seq(Datagrams) /\ next' = next /\ tx' = tx /\ group' = group
            /\ seen' \in Observations /\ rx' \in Receivers
        BY <1>2, <2>4, DeliverEffect
      <3>2. \/ recovered' = recovered
            \/ \E r : TryRebuild(r)
        BY <2>4 DEF Deliver
      <3>3. \/ recovered' = recovered
            \/ \E a, b : recovered' = [last |-> a, seqs |-> b]
        BY <3>2 DEF TryRebuild
      <3>4. recovered' = [last |-> recovered'.last, seqs |-> recovered'.seqs]
        BY <2>0, <3>3
      <3> QED
        BY <2>0, <3>1, <3>4 DEF FecShape
    <2>5. ASSUME NEW i \in 1 .. Len(wire), LosePacket(i)
          PROVE  FecShape'
      BY <1>2, <2>0, <2>5, LoseEffect DEF FecShape
    <2>6. ASSUME NEW e \in {"tx", "rx"}, AbrUpdate(e)
          PROVE  FecShape'
      BY <1>2, <2>0, <2>6, AbrEffect, Zenon DEF FecShape
    <2>7. CASE UNCHANGED fvars
      BY <2>0, <2>7 DEF FecShape, fvars
    <2> QED
      BY <1>2, <2>1, <2>2, <2>3, <2>4, <2>5, <2>6, <2>7 DEF FecNext
  <1> QED
    BY <1>1, <1>2

(***************************************************************************)
(* Delivery takes the parity from the packet or leaves it, clears it, and  *)
(* never moves the receiver's own group position.                          *)
(***************************************************************************)
LEMMA DeliverParity ==
    ASSUME FecShape, NEW i \in 1 .. Len(wire), Deliver(i)
    PROVE  /\ rx'.pos = rx.pos
           /\ \/ rx'.parity = rx.parity
              \/ rx'.parity.have = FALSE /\ rx'.parity.size = 0
              \/ /\ wire[i].op = "PARITY"
                 /\ rx'.parity = [have |-> TRUE, start |-> wire[i].start, size |-> wire[i].size,
                                  bits |-> wire[i].bits, len |-> wire[i].len]
  <1> DEFINE m == wire[i]
  <1>1. rx \in Receivers /\ group.rx \in Nat /\ m \in Datagrams
    BY DEF FecShape
  <1>2. IF m.op = "PARITY" THEN TryRebuild(StoreParity(rx, m))
        ELSE IF group.rx = 0 THEN UNCHANGED <<rx, recovered>>
        ELSE TryRebuild(Track(rx, m.seq))
    BY DEF Deliver
  <1> HIDE DEF m
  <1>3. CASE m.op = "PARITY"
    <2> DEFINE r == StoreParity(rx, m)
    <2>1. /\ r \in Receivers /\ r.pos = rx.pos
          /\ r.parity = [have |-> TRUE, start |-> m.start, size |-> m.size,
                         bits |-> m.bits, len |-> m.len]
      BY <1>1, <1>3, StoreParityKeeps
    <2>2. TryRebuild(r)
      BY <1>2, <1>3
    <2> HIDE DEF r
    <2>3. rx' = r \/ rx' = ClearGroup(r)
      BY <2>1, <2>2, TryRebuildOutcome
    <2>4. CASE rx' = r
      BY <1>3, <2>1, <2>4 DEF m
    <2>5. CASE rx' = ClearGroup(r)
      BY <2>1, <2>5, ClearGroupEmpties, Zenon
    <2> QED
      BY <2>3, <2>4, <2>5, Zenon
  <1>4. CASE m.op # "PARITY" /\ group.rx = 0
    BY <1>2, <1>4
  <1>5. CASE m.op # "PARITY" /\ group.rx # 0
    <2> DEFINE r == Track(rx, m.seq)
    <2>0. m.seq \in Nat
      BY <1>1, <1>5, PacketKinds
    <2>1. r \in Receivers /\ r.pos = rx.pos /\ r.parity = rx.parity
      BY <1>1, <2>0, TrackFills, Zenon
    <2>2. TryRebuild(r)
      BY <1>2, <1>5
    <2> HIDE DEF r
    <2>3. rx' = r \/ rx' = ClearGroup(r)
      BY <2>1, <2>2, TryRebuildOutcome
    <2>4. CASE rx' = r
      BY <2>1, <2>4
    <2>5. CASE rx' = ClearGroup(r)
      BY <2>1, <2>5, ClearGroupEmpties, ZenonT(30)
    <2> QED
      BY <2>3, <2>4, <2>5, Zenon
  <1> QED
    BY <1>3, <1>4, <1>5, Zenon

(***************************************************************************)
(* Group sizes that fit the buffers keep every position, index and parity  *)
(* size within them.                                                       *)
(***************************************************************************)
LEMMA FecBoundsInvariant ==
    /\ FecInit => FecBounds
    /\ FecShape /\ FecBounds /\ [FecNext]_fvars => FecBounds'
  <1>0. Slots \in Nat /\ Slots > 1
    BY FecAssumption
  <1>1. FecInit => FecBounds
    BY <1>0 DEF FecInit, FecBounds, NoParity
  <1>2. ASSUME FecShape, FecBounds, [FecNext]_fvars, Fits'
        PROVE  /\ group'.tx <= Slots /\ group'.rx <= Slots
               /\ tx'.pos < Slots /\ rx'.pos < Slots /\ rx'.parity.size <= Slots
               /\ \A i \in 1 .. Len(wire') : wire'[i].op = "PARITY" => wire'[i].size <= Slots
    <2>0. /\ tx \in Senders /\ wire \in Seq(Datagrams) /\ rx \in Receivers
          /\ group \in [tx : Nat, rx : Nat] /\ seen \in Observations
      BY <1>2 DEF FecShape
    <2>1. seen.abr => seen'.abr
      <3>1. CASE UNCHANGED fvars
        BY <3>1 DEF fvars
      <3> QED
        BY <1>2, <3>1, SendEffect, GapEffect, AnswerEffect, DeliverEffect, LoseEffect, AbrEffect, Zenon
           DEF FecNext
    <2>2. Fits
      BY <1>2, <2>1 DEF Fits
    <2>3. /\ group.tx <= Slots /\ group.rx <= Slots
          /\ tx.pos < Slots /\ rx.pos < Slots /\ rx.parity.size <= Slots
          /\ \A i \in 1 .. Len(wire) : wire[i].op = "PARITY" => wire[i].size <= Slots
      BY <1>2, <2>2 DEF FecBounds
    <2>4. CASE SendPacket
      <3> DEFINE t == Accumulated(next)
                 complete == group.tx # 0 /\ t.pos >= group.tx
                 n == Len(wire)
      <3>1. /\ rx' = rx /\ group' = group
            /\ group.tx = 0 => tx' = tx
            /\ group.tx # 0 /\ ~ complete => tx' = t
            /\ complete => tx'.pos = 0
            /\ Len(wire') = IF complete THEN n + 2 ELSE n + 1
            /\ \A k \in 1 .. n : wire'[k] = wire[k]
            /\ wire'[n + 1] = DataPacket(next)
            /\ complete => wire'[n + 2] = ParityPacket(t)
        BY <1>2, <2>4, SendEffect
      <3>2. t \in Senders
        BY <1>2, AccumulatedSum
      <3>3. t.pos \in Nat /\ group.tx \in Nat /\ n \in Nat
        BY <2>0, <3>2 DEF Senders
      <3>4. wire'[n + 1].op # "PARITY" /\ (complete => wire'[n + 2].size = group.tx)
        BY <3>1 DEF DataPacket, ParityPacket
      <3> HIDE DEF t, n
      <3>5. tx'.pos < Slots
        BY <1>0, <2>3, <3>1, <3>3
      <3> HIDE DEF complete
      <3>6. ASSUME NEW i \in 1 .. Len(wire'), wire'[i].op = "PARITY"
            PROVE  wire'[i].size <= Slots
        <4>1. i \in 1 .. n \/ i = n + 1 \/ (complete /\ i = n + 2)
          BY <3>1, <3>3
        <4> QED
          BY <2>3, <3>1, <3>4, <3>6, <4>1 DEF n
      <3> QED
        BY <2>3, <3>1, <3>5, <3>6
    <2>5. CASE Gap
      BY <1>2, <2>3, <2>5, GapEffect
    <2>6. CASE Answer
      <3>1. /\ rx'.parity = rx.parity /\ tx' = tx /\ wire' = wire /\ group' = group
            /\ rx'.pos = IF rx.pos + 1 >= group.rx THEN 0 ELSE rx.pos + 1
        BY <1>2, <2>6, AnswerEffect
      <3>2. rx'.pos < Slots
        BY <1>0, <2>0, <2>3, <3>1 DEF Receivers
      <3> QED
        BY <2>3, <3>1, <3>2
    <2>7. ASSUME NEW i \in 1 .. Len(wire), Deliver(i) \/ LosePacket(i)
          PROVE  \A j \in 1 .. Len(wire') : wire'[j].op = "PARITY" => wire'[j].size <= Slots
      <3>1. wire' = Without(wire, i)
        BY <1>2, <2>7, DeliverEffect, LoseEffect
      <3>2. \A j \in 1 .. Len(Without(wire, i)) :
              \E k \in 1 .. Len(wire) : Without(wire, i)[j] = wire[k]
        BY <2>0, WithoutKeeps, ZenonT(30)
      <3> QED
        BY <2>3, <3>1, <3>2
    <2>8. ASSUME NEW i \in 1 .. Len(wire), Deliver(i)
          PROVE  /\ group'.tx <= Slots /\ group'.rx <= Slots
                 /\ tx'.pos < Slots /\ rx'.pos < Slots /\ rx'.parity.size <= Slots
      <3>1. tx' = tx /\ group' = group
        BY <1>2, <2>8, DeliverEffect
      <3>2. /\ rx'.pos = rx.pos
            /\ \/ rx'.parity = rx.parity
               \/ rx'.parity.have = FALSE /\ rx'.parity.size = 0
               \/ /\ wire[i].op = "PARITY"
                  /\ rx'.parity = [have |-> TRUE, start |-> wire[i].start, size |-> wire[i].size,
                                   bits |-> wire[i].bits, len |-> wire[i].len]
        BY <1>2, <2>8, DeliverParity, Zenon
      <3>3. \/ rx'.parity = rx.parity
            \/ rx'.parity.size = 0
            \/ wire[i].op = "PARITY" /\ rx'.parity.size = wire[i].size
        BY <3>2
      <3> QED
        BY <1>0, <2>3, <3>1, <3>2, <3>3
    <2>9. ASSUME NEW i \in 1 .. Len(wire), LosePacket(i)
          PROVE  /\ group'.tx <= Slots /\ group'.rx <= Slots
                 /\ tx'.pos < Slots /\ rx'.pos < Slots /\ rx'.parity.size <= Slots
      BY <1>2, <2>3, <2>9, LoseEffect
    <2>10. ASSUME NEW e \in {"tx", "rx"}, AbrUpdate(e)
           PROVE  /\ group'.tx <= Slots /\ group'.rx <= Slots
                  /\ tx' = tx /\ rx' = rx /\ wire' = wire
      <3>1. PICK loss \in LossRates :
              /\ group'.tx = IF e = "tx" THEN AbrGroup(loss) ELSE group.tx
              /\ group'.rx = IF e = "rx" THEN AbrGroup(loss) ELSE group.rx
        BY <1>2, <2>10, AbrEffect, Zenon
      <3>2. seen'.abr /\ tx' = tx /\ rx' = rx /\ wire' = wire
        BY <1>2, <2>10, AbrEffect, Zenon
      <3>3. AbrGroup(loss) <= Slots
        BY <1>2, <3>2 DEF Fits
      <3> QED
        BY <2>3, <3>1, <3>2, <3>3
    <2>11. CASE UNCHANGED fvars
      BY <2>3, <2>11 DEF fvars
    <2> QED
      BY <1>2, <2>3, <2>4, <2>5, <2>6, <2>7, <2>8, <2>9, <2>10, <2>11 DEF FecNext
  <1> QED
    BY <1>1, <1>2 DEF FecBounds

(***************************************************************************)
(* With any loss rates for which abr_update asks for groups of at most     *)
(* RESILIENCE_FEC_GROUP packets, the group sizes, positions and buffer     *)
(* lengths stay inside the buffers.                                        *)
(***************************************************************************)
THEOREM FecTypesSafe ==
    ASSUME \A loss \in LossRates : AbrGroup(loss) <= Slots
    PROVE  FecSpec => []FecTypeOK
  <1>1. FecShape /\ FecBounds => FecTypeOK
    <2> SUFFICES ASSUME FecShape, FecBounds PROVE FecTypeOK
      OBVIOUS
    <2>0. /\ tx \in Senders /\ rx \in Receivers /\ group \in [tx : Nat, rx : Nat]
          /\ Slots \in Nat
      BY FecAssumption DEF FecShape
    <2>1. /\ group.tx <= Slots /\ group.rx <= Slots
          /\ tx.pos < Slots /\ rx.pos < Slots /\ rx.parity.size <= Slots
      BY DEF FecBounds, Fits
    <2>2. group \in [{"tx", "rx"} -> 0 .. Slots]
      BY <2>0, <2>1
    <2>3. tx.pos \in 0 .. Slots - 1 /\ rx.pos \in 0 .. Slots - 1
      BY <2>0, <2>1 DEF Senders, Receivers
    <2>4. rx.parity.size \in 0 .. Slots
      BY <2>0, <2>1 DEF Receivers, Parities
    <2>5. \A i \in SlotSet : rx.slot[i].len \in 0 .. 2
      BY <2>0 DEF Receivers, Buffers
    <2> QED
      BY <2>2, <2>3, <2>4, <2>5 DEF FecTypeOK
  <1> QED
    BY <1>1, FecShapeInvariant, FecBoundsInvariant, PTL DEF FecSpec

(***************************************************************************)
(* There are RESILIENCE_FEC_GROUP buffers.                                 *)
(***************************************************************************)
LEMMA SlotsFinite == IsFiniteSet(SlotSet) /\ Cardinality(SlotSet) = Slots
  <1>1. Slots \in Nat /\ Slots > 1 /\ Slots - 1 \in Int
    BY FecAssumption
  <1> QED
    BY <1>1, FS_Interval DEF SlotSet

(***************************************************************************)
(* fec_rx_rebuild XORs the parity of a whole group with all of its packets *)
(* but one: what is left is that packet.                                   *)
(***************************************************************************)
LEMMA RebuiltIsTheGap ==
    ASSUME NEW r \in Receivers, WholeGroup(r.parity),
           Cardinality(Filled(r)) = r.parity.size - 1,
           \A i \in SlotSet : r.slot[i].len > 0 => r.slot[i].bits = {r.slot[i].seq}
    PROVE  \E g \in SlotSet :
             /\ Filled(r) = SlotSet \ {g}
             /\ Rebuilt(r) = [seq |-> r.parity.start + g, len |-> r.parity.len,
                              bits |-> {r.parity.start + g}]
  <1>0. Slots \in Nat /\ Slots > 1
    BY FecAssumption
  <1> DEFINE F == Filled(r)
             st == r.parity.start
             B == r.parity.bits
             Bits(i) == r.slot[i].bits
  <1>1. st \in Nat /\ r.parity.size = Slots /\ B = st .. st + Slots - 1
    BY DEF WholeGroup, Receivers, Parities
  <1>2. F \subseteq SlotSet /\ \A i \in F : Bits(i) = {st + i}
    <2>1. F = {i \in SlotSet : r.slot[i].len > 0 /\ r.slot[i].seq = st + i}
      BY <1>1 DEF Filled, SlotSet
    <2> QED
      BY <2>1
  <1>3. IsFiniteSet(SlotSet) /\ Cardinality(SlotSet) = Slots
    BY SlotsFinite
  <1>4. Cardinality(F) = Slots - 1
    BY <1>1
  <1>5. F # SlotSet
    BY <1>0, <1>3, <1>4
  <1>6. PICK g \in SlotSet : g \notin F
    BY <1>2, <1>5
  <1>7. F = SlotSet \ {g}
    <2>1. IsFiniteSet(SlotSet \ {g}) /\ Cardinality(SlotSet \ {g}) = Slots - 1
      BY <1>3, FS_RemoveElement, Zenon
    <2>2. F \in SUBSET (SlotSet \ {g})
      BY <1>2, <1>6
    <2> QED
      BY <1>4, <2>1, <2>2, FS_Subset
  <1> DEFINE Parts(x) == Cardinality({i \in F : x \in Bits(i)}) + (IF x \in B THEN 1 ELSE 0)
             whole == {x \in B \cup UNION {Bits(i) : i \in F} : Parts(x) % 2 = 1}
             gap == CHOOSE i \in 0 .. r.parity.size - 1 : i \notin F
  <1>8. Rebuilt(r) = [seq |-> st + gap, len |-> r.parity.len, bits |-> whole]
    BY DEF Rebuilt
  <1>9. gap = g
    <2>1. 0 .. r.parity.size - 1 = SlotSet
      BY <1>1 DEF SlotSet
    <2>2. \E i \in SlotSet : i \notin F
      BY <1>6
    <2>3. gap \in SlotSet /\ gap \notin F
      BY <2>1, <2>2, Zenon
    <2> QED
      BY <1>7, <2>3
  <1> HIDE DEF F, Bits, B, st
  <1>10. whole = {st + g}
    <2>1. \A i \in SlotSet : i \in Nat /\ st + i \in B
      BY <1>0, <1>1 DEF SlotSet
    <2>2. \A x \in B \cup UNION {Bits(i) : i \in F} : \E i \in SlotSet : x = st + i
      <3>1. ASSUME NEW x \in B PROVE \E i \in SlotSet : x = st + i
        <4>1. x - st \in SlotSet /\ x = st + (x - st)
          BY <1>0, <1>1, <3>1 DEF SlotSet
        <4> QED
          BY <4>1
      <3>2. ASSUME NEW i \in F, NEW x \in Bits(i) PROVE \E j \in SlotSet : x = st + j
        BY <1>2, <3>2
      <3> QED
        BY <3>1, <3>2
    <2>3. Parts(st + g) % 2 = 1
      <3>1. {i \in F : st + g \in Bits(i)} = {}
        BY <1>1, <1>2, <1>6, <2>1
      <3>2. Parts(st + g) = Cardinality({i \in F : st + g \in Bits(i)}) + 1
        BY <2>1, Zenon
      <3>3. Cardinality({}) = 0
        BY FS_EmptySet
      <3>4. Parts(st + g) = 0 + 1
        BY <3>1, <3>2, <3>3, Zenon
      <3> HIDE DEF Parts
      <3> QED
        BY <3>4
    <2>4. ASSUME NEW j \in SlotSet, j # g
          PROVE  Parts(st + j) % 2 # 1
      <3>1. {i \in F : st + j \in Bits(i)} = {j}
        <4>1. j \in F
          BY <1>7, <2>4
        <4>2. \A i \in F : st + j \in Bits(i) <=> i = j
          BY <1>1, <1>2, <2>1, <4>1
        <4> QED
          BY <4>1, <4>2
      <3>2. Cardinality({j}) = 1
        BY FS_Singleton, Zenon
      <3>3. Parts(st + j) = Cardinality({i \in F : st + j \in Bits(i)}) + 1
        BY <2>1, Zenon
      <3>4. Parts(st + j) = 1 + 1
        BY <3>1, <3>2, <3>3, Zenon
      <3> HIDE DEF Parts
      <3> QED
        BY <3>4
    <2> HIDE DEF Parts
    <2>5. st + g \in B
      BY <2>1
    <2> QED
      BY <2>2, <2>3, <2>4, <2>5
  <1> QED
    BY <1>7, <1>8, <1>9, <1>10, Zenon DEF F, st

----------------------------------------------------------------------------
(***************************************************************************)
(* The scopes of the invariants only ever shrink: a gap, an answer, a step *)
(* of the bitrate control or a delivery out of order is never forgotten.   *)
(***************************************************************************)
LEMMA ScopesShrink ==
    ASSUME FecShape, [FecNext]_fvars
    PROVE  /\ seen.abr => seen'.abr
           /\ seen'.gaps = 0 => seen.gaps = 0
           /\ seen'.back = 0 => seen.back = 0
           /\ Uniform' => Uniform /\ Fits
           /\ Aligned' => Aligned
  <1>0. Slots \in Nat /\ Slots > 1 /\ LossRates \subseteq Int
    BY FecAssumption
  <1>1. /\ seen.abr => seen'.abr
        /\ seen'.gaps = 0 => seen.gaps = 0
        /\ seen'.back = 0 => seen.back = 0
        /\ Aligned' => Aligned
    <2>1. CASE SendPacket
      <3>1. /\ seen'.gaps = seen.gaps /\ seen'.back = seen.back /\ seen'.first = seen.first
            /\ seen'.ordered = seen.ordered /\ seen'.abr = seen.abr
        BY <2>1, SendEffect
      <3> QED
        BY <3>1 DEF Aligned
    <2>2. CASE Gap
      <3>1. seen'.gaps # 0 /\ seen'.back = seen.back /\ seen'.abr = seen.abr
        BY <2>2, GapEffect
      <3> QED
        BY <3>1 DEF Aligned
    <2>3. CASE Answer
      <3>1. seen'.back # 0 /\ seen'.gaps = seen.gaps /\ seen'.abr = seen.abr
        BY <2>3, AnswerEffect
      <3> QED
        BY <3>1 DEF Aligned
    <2>4. ASSUME NEW i \in 1 .. Len(wire), Deliver(i)
          PROVE  /\ seen'.gaps = seen.gaps /\ seen'.back = seen.back /\ seen'.abr = seen.abr
                 /\ Aligned' => Aligned
      <3>1. /\ seen'.gaps = seen.gaps /\ seen'.back = seen.back /\ seen'.first = seen.first
            /\ seen'.ordered = (seen.ordered /\ i = 1) /\ seen'.abr = seen.abr
        BY <2>4, DeliverEffect
      <3> QED
        BY <3>1, Zenon DEF Aligned
    <2>5. ASSUME NEW i \in 1 .. Len(wire), LosePacket(i)
          PROVE  /\ seen'.gaps = seen.gaps /\ seen'.back = seen.back /\ seen'.abr = seen.abr
                 /\ Aligned' => Aligned
      <3>1. /\ seen'.gaps = seen.gaps /\ seen'.back = seen.back /\ seen'.first = seen.first
            /\ seen'.ordered = seen.ordered /\ seen'.abr = seen.abr
        BY <2>5, LoseEffect
      <3> QED
        BY <3>1 DEF Aligned
    <2>6. ASSUME NEW e \in {"tx", "rx"}, AbrUpdate(e)
          PROVE  /\ seen'.gaps = seen.gaps /\ seen'.back = seen.back /\ seen'.abr
                 /\ Aligned' => Aligned
      <3>1. seen'.gaps = seen.gaps /\ seen'.back = seen.back /\ seen'.abr = TRUE
        BY <2>6, AbrEffect, Zenon
      <3> QED
        BY <3>1 DEF Aligned
    <2>7. CASE UNCHANGED fvars
      BY <2>7 DEF fvars, Aligned
    <2> QED
      BY <2>1, <2>2, <2>3, <2>4, <2>5, <2>6, <2>7 DEF FecNext
  <1>2. Uniform' => Uniform
    BY <1>1 DEF Uniform
  <1>3. Uniform => Fits
    <2>1. \A loss \in LossRates : LossRates \subseteq 0 .. 2 => AbrGroup(loss) = 0
      BY <1>0 DEF AbrGroup
    <2> QED
      BY <1>0, <2>1 DEF Uniform, Fits
  <1> QED
    BY <1>1, <1>2, <1>3

(***************************************************************************)
(* A rebuild with a whole group's parity and whole packets in the buffers  *)
(* returns a whole packet and leaves the rest as whole as it was.          *)
(***************************************************************************)
LEMMA TryRebuildWhole ==
    ASSUME NEW r \in Receivers, TryRebuild(r)
    PROVE  LET parityWhole == r.parity.have => WholeGroup(r.parity)
               slotsWhole == \A i \in SlotSet :
                               r.slot[i].len > 0 => r.slot[i].bits = {r.slot[i].seq}
           IN  /\ parityWhole => (rx'.parity.have => WholeGroup(rx'.parity))
               /\ slotsWhole => \A i \in SlotSet :
                                  rx'.slot[i].len > 0 => rx'.slot[i].bits = {rx'.slot[i].seq}
               /\ parityWhole /\ slotsWhole =>
                    \/ recovered' = recovered
                    \/ recovered'.last.bits = {recovered'.last.seq}
  <1> DEFINE parityWhole == r.parity.have => WholeGroup(r.parity)
             slotsWhole == \A i \in SlotSet :
                             r.slot[i].len > 0 => r.slot[i].bits = {r.slot[i].seq}
  <1>1. rx' = r \/ rx' = ClearGroup(r)
    BY TryRebuildOutcome
  <1>2. parityWhole => (rx'.parity.have => WholeGroup(rx'.parity))
    BY <1>1, ClearGroupEmpties, Zenon
  <1>3. slotsWhole => \A i \in SlotSet :
                        rx'.slot[i].len > 0 => rx'.slot[i].bits = {rx'.slot[i].seq}
    <2>1. CASE rx' = r
      BY <2>1
    <2>2. CASE rx' = ClearGroup(r)
      <3>1. \A i \in SlotSet : rx'.slot[i].len = 0
        BY <2>2, ClearGroupEmpties, Zenon
      <3> QED
        BY <3>1
    <2> QED
      BY <1>1, <2>1, <2>2
  <1>4. ASSUME parityWhole, slotsWhole, Rebuilds(r)
        PROVE  recovered'.last.bits = {recovered'.last.seq}
    <2>1. WholeGroup(r.parity) /\ Cardinality(Filled(r)) = r.parity.size - 1
      BY <1>4 DEF Rebuilds
    <2>2. PICK g \in SlotSet :
            Rebuilt(r) = [seq |-> r.parity.start + g, len |-> r.parity.len,
                          bits |-> {r.parity.start + g}]
      BY <1>4, <2>1, RebuiltIsTheGap
    <2>3. recovered'.last = Rebuilt(r)
      BY <1>4 DEF TryRebuild
    <2> QED
      BY <2>2, <2>3
  <1>5. ~ Rebuilds(r) => recovered' = recovered
    BY DEF TryRebuild
  <1> QED
    BY <1>2, <1>3, <1>4, <1>5

(***************************************************************************)
(* With successive numbers, the group under way holds them all, and the    *)
(* parity that completes it is that of a whole group.                      *)
(***************************************************************************)
LEMMA AccumulatedWhole ==
    ASSUME FecShape, FecBounds, Fits, group.tx = Slots,
           tx.pos > 0 => /\ next = tx.start + tx.pos
                         /\ tx.bits = tx.start .. next - 1
                         /\ \A s \in tx.bits : LengthOf(s) <= tx.len
    PROVE  LET t == Accumulated(next)
           IN  /\ t.pos \in 1 .. Slots
               /\ next + 1 = t.start + t.pos
               /\ t.bits = t.start .. next
               /\ \A s \in t.bits : LengthOf(s) <= t.len
               /\ t.pos >= group.tx => WholeGroup(ParityPacket(t))
  <1> DEFINE t == Accumulated(next)
  <1>0. Slots \in Nat /\ Slots > 1
    BY FecAssumption
  <1>1. next \in Nat /\ tx \in Senders /\ tx.pos \in Nat /\ tx.pos < Slots
    BY DEF FecShape, FecBounds, Senders
  <1>2. \A s \in Nat : LengthOf(s) \in 1 .. 2
    BY DEF LengthOf
  <1>3. t \in Senders /\ t.pos = tx.pos + 1
    BY AccumulatedSum
  <1>4. /\ next + 1 = t.start + t.pos
        /\ t.bits = t.start .. next
        /\ \A s \in t.bits : LengthOf(s) <= t.len
    <2>1. CASE tx.pos = 0
      <3>1. t.start = next /\ t.bits = {next} /\ t.len = LengthOf(next)
        BY <2>1, AccumulatedSum
      <3> HIDE DEF t
      <3>2. {next} = next .. next
        BY <1>1
      <3> QED
        BY <1>1, <1>2, <1>3, <2>1, <3>1, <3>2
    <2>2. CASE tx.pos # 0
      <3>1. /\ t.start = tx.start /\ t.bits = Xor(tx.bits, {next})
            /\ t.len = Larger(tx.len, LengthOf(next))
        BY <2>2, AccumulatedSum
      <3>2. /\ tx.start \in Nat /\ next = tx.start + tx.pos /\ tx.bits = tx.start .. next - 1
            /\ tx.len \in Nat
            /\ \A s \in tx.bits : LengthOf(s) <= tx.len
        BY <1>1, <2>2 DEF Senders
      <3> HIDE DEF t
      <3>3. Xor(tx.bits, {next}) = tx.start .. next
        BY <1>1, <3>2 DEF Xor
      <3>4. ASSUME NEW s \in tx.start .. next
            PROVE  LengthOf(s) <= Larger(tx.len, LengthOf(next))
        <4>1. s \in Nat /\ LengthOf(s) \in 1 .. 2 /\ LengthOf(next) \in 1 .. 2
          BY <1>1, <1>2, <3>2
        <4>2. s = next \/ LengthOf(s) <= tx.len
          BY <1>1, <3>2
        <4> QED
          BY <3>2, <4>1, <4>2 DEF Larger
      <3>5. next + 1 = t.start + t.pos
        BY <1>1, <1>3, <3>1, <3>2
      <3> QED
        BY <3>1, <3>3, <3>4, <3>5, Zenon
    <2> QED
      BY <2>1, <2>2
  <1>5. t.pos \in 1 .. Slots
    BY <1>0, <1>1, <1>3
  <1>6. t.pos >= group.tx => WholeGroup(ParityPacket(t))
    <2> SUFFICES ASSUME t.pos >= group.tx PROVE WholeGroup(ParityPacket(t))
      OBVIOUS
    <2>1. t.start \in Nat
      BY <1>3 DEF Senders
    <2> HIDE DEF t
    <2>2. next = t.start + Slots - 1
      BY <1>0, <1>1, <1>4, <1>5, <2>1
    <2>3. /\ ParityPacket(t).size = Slots /\ ParityPacket(t).start = t.start
          /\ ParityPacket(t).bits = t.bits /\ ParityPacket(t).len = t.len
      BY DEF ParityPacket
    <2> QED
      BY <1>4, <2>2, <2>3 DEF WholeGroup
  <1> QED
    BY <1>4, <1>5, <1>6

(***************************************************************************)
(* Sending keeps every parity that of a whole group.                       *)
(***************************************************************************)
LEMMA SendKeepsRebuild ==
    ASSUME FecShape, FecBounds, RebuildInv, SendPacket
    PROVE  RebuildInv'
  <1> DEFINE t == Accumulated(next)
             complete == group.tx # 0 /\ t.pos >= group.tx
             n == Len(wire)
  <1>1. /\ next' = next + 1 /\ rx' = rx /\ group' = group /\ recovered' = recovered
        /\ seen'.gaps = seen.gaps /\ seen'.back = seen.back /\ seen'.abr = seen.abr
        /\ group.tx = 0 => tx' = tx
        /\ group.tx # 0 /\ ~ complete => tx' = t
        /\ complete => tx'.pos = 0
        /\ Len(wire') = IF complete THEN n + 2 ELSE n + 1
        /\ \A k \in 1 .. n : wire'[k] = wire[k]
        /\ wire'[n + 1] = DataPacket(next)
        /\ complete => wire'[n + 2] = ParityPacket(t)
    BY SendEffect
  <1>2. n \in Nat /\ next \in Nat /\ Slots \in Nat /\ Slots # 0
    BY FecAssumption DEF FecShape
  <1>3. RebuildRight' <=> RebuildRight
    BY <1>1 DEF RebuildRight
  <1> SUFFICES ASSUME Uniform'
               PROVE  /\ group'.tx \in {0, Slots} /\ group'.rx \in {0, Slots}
                      /\ seen'.gaps = 0 =>
                           /\ tx'.pos > 0 /\ group'.tx # 0 =>
                                /\ next' = tx'.start + tx'.pos
                                /\ tx'.bits = tx'.start .. next' - 1
                                /\ \A s \in tx'.bits : LengthOf(s) <= tx'.len
                           /\ \A i \in 1 .. Len(wire') :
                                wire'[i].op = "PARITY" => WholeGroup(wire'[i])
                           /\ rx'.parity.have => WholeGroup(rx'.parity)
                      /\ seen'.back = 0 =>
                           \A i \in SlotSet :
                             rx'.slot[i].len > 0 => rx'.slot[i].bits = {rx'.slot[i].seq}
                      /\ RebuildRight'
    BY DEF RebuildInv
  <1>4. Uniform /\ Fits
    BY ScopesShrink DEF FecNext
  <1>5. /\ group.tx \in {0, Slots} /\ group.rx \in {0, Slots}
        /\ seen.back = 0 =>
             \A i \in SlotSet : rx.slot[i].len > 0 => rx.slot[i].bits = {rx.slot[i].seq}
        /\ RebuildRight
    BY <1>4 DEF RebuildInv
  <1>6. ASSUME seen.gaps = 0
        PROVE  /\ tx'.pos > 0 /\ group.tx # 0 =>
                    /\ next' = tx'.start + tx'.pos
                    /\ tx'.bits = tx'.start .. next' - 1
                    /\ \A s \in tx'.bits : LengthOf(s) <= tx'.len
               /\ \A i \in 1 .. Len(wire') : wire'[i].op = "PARITY" => WholeGroup(wire'[i])
               /\ rx.parity.have => WholeGroup(rx.parity)
    <2>1. /\ tx.pos > 0 /\ group.tx # 0 =>
               /\ next = tx.start + tx.pos
               /\ tx.bits = tx.start .. next - 1
               /\ \A s \in tx.bits : LengthOf(s) <= tx.len
          /\ \A i \in 1 .. Len(wire) : wire[i].op = "PARITY" => WholeGroup(wire[i])
          /\ rx.parity.have => WholeGroup(rx.parity)
      BY <1>4, <1>6 DEF RebuildInv
    <2>2. wire'[n + 1].op # "PARITY"
      BY <1>1 DEF DataPacket
    <2>3. CASE group.tx = 0
      <3>1. \A i \in 1 .. Len(wire') : i \in 1 .. n \/ i = n + 1
        BY <1>1, <1>2, <2>3
      <3>2. \A i \in 1 .. Len(wire') : wire'[i].op = "PARITY" => WholeGroup(wire'[i])
        BY <1>1, <2>1, <2>2, <3>1
      <3> QED
        BY <2>1, <2>3, <3>2
    <2>4. CASE group.tx = Slots
      <3>1. /\ t.pos \in 1 .. Slots
            /\ next + 1 = t.start + t.pos
            /\ t.bits = t.start .. next
            /\ \A s \in t.bits : LengthOf(s) <= t.len
            /\ t.pos >= group.tx => WholeGroup(ParityPacket(t))
        BY <1>2, <1>4, <2>1, <2>4, AccumulatedWhole
      <3> HIDE DEF t
      <3>2. ASSUME tx'.pos > 0
            PROVE  /\ next' = tx'.start + tx'.pos
                   /\ tx'.bits = tx'.start .. next' - 1
                   /\ \A s \in tx'.bits : LengthOf(s) <= tx'.len
        <4>1. tx' = t
          BY <1>1, <1>2, <2>4, <3>2
        <4>2. next' - 1 = next
          BY <1>1, <1>2
        <4> QED
          BY <1>1, <3>1, <4>1, <4>2, Zenon
      <3>3. ASSUME NEW i \in 1 .. Len(wire'), wire'[i].op = "PARITY"
            PROVE  WholeGroup(wire'[i])
        <4>1. i \in 1 .. n \/ i = n + 1 \/ (complete /\ i = n + 2)
          BY <1>1, <1>2
        <4> QED
          BY <1>1, <2>1, <2>2, <3>1, <3>3, <4>1
      <3> QED
        BY <2>1, <3>2, <3>3
    <2> QED
      BY <1>5, <2>3, <2>4
  <1> HIDE DEF t, complete, n
  <1> QED
    BY <1>1, <1>3, <1>5, <1>6

(***************************************************************************)
(* Whatever is delivered, the parity and the packets kept are whole, and   *)
(* what is rebuilt from them is too.                                       *)
(***************************************************************************)
LEMMA DeliverKeepsRebuild ==
    ASSUME FecShape, RebuildInv, NEW i \in 1 .. Len(wire), Deliver(i)
    PROVE  RebuildInv'
  <1> DEFINE m == wire[i]
  <1>1. /\ wire' = Without(wire, i) /\ next' = next /\ tx' = tx /\ group' = group
        /\ m \in Datagrams /\ wire \in Seq(Datagrams) /\ rx \in Receivers /\ group.rx \in Nat
        /\ seen'.gaps = seen.gaps /\ seen'.back = seen.back /\ seen'.abr = seen.abr
    BY DeliverEffect DEF FecShape
  <1> SUFFICES ASSUME Uniform'
               PROVE  /\ group'.tx \in {0, Slots} /\ group'.rx \in {0, Slots}
                      /\ seen'.gaps = 0 =>
                           /\ tx'.pos > 0 /\ group'.tx # 0 =>
                                /\ next' = tx'.start + tx'.pos
                                /\ tx'.bits = tx'.start .. next' - 1
                                /\ \A s \in tx'.bits : LengthOf(s) <= tx'.len
                           /\ \A j \in 1 .. Len(wire') :
                                wire'[j].op = "PARITY" => WholeGroup(wire'[j])
                           /\ rx'.parity.have => WholeGroup(rx'.parity)
                      /\ seen'.back = 0 =>
                           \A j \in SlotSet :
                             rx'.slot[j].len > 0 => rx'.slot[j].bits = {rx'.slot[j].seq}
                      /\ RebuildRight'
    BY DEF RebuildInv
  <1>2. Uniform
    BY ScopesShrink DEF FecNext
  <1>3. /\ group.tx \in {0, Slots} /\ group.rx \in {0, Slots} /\ RebuildRight
        /\ seen.gaps = 0 =>
             /\ tx.pos > 0 /\ group.tx # 0 =>
                  /\ next = tx.start + tx.pos
                  /\ tx.bits = tx.start .. next - 1
                  /\ \A s \in tx.bits : LengthOf(s) <= tx.len
             /\ \A j \in 1 .. Len(wire) : wire[j].op = "PARITY" => WholeGroup(wire[j])
             /\ rx.parity.have => WholeGroup(rx.parity)
        /\ seen.back = 0 =>
             \A j \in SlotSet : rx.slot[j].len > 0 => rx.slot[j].bits = {rx.slot[j].seq}
    BY <1>2 DEF RebuildInv
  <1>4. seen.gaps = 0 =>
          \A j \in 1 .. Len(wire') : wire'[j].op = "PARITY" => WholeGroup(wire'[j])
    <2>1. \A j \in 1 .. Len(Without(wire, i)) :
            \E k \in 1 .. Len(wire) : Without(wire, i)[j] = wire[k]
      BY <1>1, WithoutKeeps, Zenon
    <2> QED
      BY <1>1, <1>3, <2>1
  <1>5. /\ seen.gaps = 0 => (rx'.parity.have => WholeGroup(rx'.parity))
        /\ seen.back = 0 =>
             \A j \in SlotSet : rx'.slot[j].len > 0 => rx'.slot[j].bits = {rx'.slot[j].seq}
        /\ seen.gaps = 0 /\ seen.back = 0 =>
             recovered' = recovered \/ recovered'.last.bits = {recovered'.last.seq}
    <2>1. ASSUME NEW r \in Receivers, TryRebuild(r),
                 seen.gaps = 0 => (r.parity.have => WholeGroup(r.parity)),
                 seen.back = 0 => \A j \in SlotSet :
                                    r.slot[j].len > 0 => r.slot[j].bits = {r.slot[j].seq}
          PROVE  /\ seen.gaps = 0 => (rx'.parity.have => WholeGroup(rx'.parity))
                 /\ seen.back = 0 =>
                      \A j \in SlotSet :
                        rx'.slot[j].len > 0 => rx'.slot[j].bits = {rx'.slot[j].seq}
                 /\ seen.gaps = 0 /\ seen.back = 0 =>
                      recovered' = recovered \/ recovered'.last.bits = {recovered'.last.seq}
      BY <2>1, TryRebuildWhole, Zenon
    <2>2. IF m.op = "PARITY" THEN TryRebuild(StoreParity(rx, m))
          ELSE IF group.rx = 0 THEN UNCHANGED <<rx, recovered>>
          ELSE TryRebuild(Track(rx, m.seq))
      BY DEF Deliver
    <2>3. seen.gaps = 0 /\ m.op = "PARITY" => WholeGroup(m)
      BY <1>3
    <2> HIDE DEF m
    <2>4. CASE m.op = "PARITY"
      <3> DEFINE r == StoreParity(rx, m)
      <3>1. /\ r \in Receivers /\ r.slot = rx.slot
            /\ r.parity = [have |-> TRUE, start |-> m.start, size |-> m.size,
                           bits |-> m.bits, len |-> m.len]
        BY <1>1, <2>4, StoreParityKeeps
      <3>2. TryRebuild(r)
        BY <2>2, <2>4
      <3> HIDE DEF r
      <3>3. seen.gaps = 0 => WholeGroup(r.parity)
        BY <2>3, <2>4, <3>1 DEF WholeGroup
      <3>4. seen.back = 0 => \A j \in SlotSet :
                               r.slot[j].len > 0 => r.slot[j].bits = {r.slot[j].seq}
        BY <1>3, <3>1
      <3> QED
        BY <2>1, <3>1, <3>2, <3>3, <3>4, Zenon
    <2>5. CASE m.op # "PARITY" /\ group.rx = 0
      BY <1>3, <2>2, <2>5
    <2>6. CASE m.op # "PARITY" /\ group.rx # 0
      <3> DEFINE r == Track(rx, m.seq)
                 new == [len |-> LengthOf(m.seq), seq |-> m.seq, bits |-> {m.seq}]
      <3>0. m.seq \in Nat
        BY <1>1, <2>6, PacketKinds
      <3>1. /\ r \in Receivers /\ r.parity = rx.parity
            /\ \A j \in SlotSet : r.slot[j] = IF j = m.seq % group.rx THEN new ELSE rx.slot[j]
        BY <1>1, <3>0, TrackFills, Zenon
      <3>2. TryRebuild(r)
        BY <2>2, <2>6
      <3>3. new.bits = {new.seq}
        OBVIOUS
      <3> HIDE DEF r, new
      <3>4. seen.back = 0 => \A j \in SlotSet :
                               r.slot[j].len > 0 => r.slot[j].bits = {r.slot[j].seq}
        BY <1>3, <3>1, <3>3
      <3>5. seen.gaps = 0 => (r.parity.have => WholeGroup(r.parity))
        BY <1>3, <3>1
      <3> QED
        BY <2>1, <3>1, <3>2, <3>4, <3>5, Zenon
    <2> QED
      BY <2>4, <2>5, <2>6
  <1>6. RebuildRight'
    BY <1>1, <1>3, <1>5 DEF RebuildRight
  <1> QED
    BY <1>1, <1>3, <1>4, <1>5, <1>6

(***************************************************************************)
(* RebuildInv is inductive.                                                *)
(***************************************************************************)
LEMMA RebuildInvariant ==
    /\ FecInit => RebuildInv
    /\ FecShape /\ FecBounds /\ RebuildInv /\ [FecNext]_fvars => RebuildInv'
  <1>1. ASSUME FecInit PROVE RebuildInv
    <2>1. /\ group.tx = Slots /\ group.rx = Slots /\ ~ (tx.pos > 0)
          /\ Len(wire) = 0 /\ recovered.last = Nothing
      BY <1>1 DEF FecInit
    <2>2. ~ rx.parity.have /\ \A i \in SlotSet : ~ (rx.slot[i].len > 0)
      BY <1>1 DEF FecInit, NoPacket, NoParity
    <2>3. 1 .. Len(wire) = {}
      BY <2>1
    <2>4. RebuildRight
      BY <2>1, Zenon DEF RebuildRight
    <2> QED
      BY <2>1, <2>2, <2>3, <2>4, Zenon DEF RebuildInv
  <1>2. ASSUME FecShape, FecBounds, RebuildInv, [FecNext]_fvars
        PROVE  RebuildInv'
    <2>1. CASE SendPacket
      BY <1>2, <2>1, SendKeepsRebuild
    <2>2. CASE Gap
      <3>1. /\ tx' = tx /\ wire' = wire /\ rx' = rx /\ group' = group
            /\ recovered' = recovered /\ seen'.gaps # 0 /\ seen'.back = seen.back
            /\ Uniform' => Uniform
        BY <1>2, <2>2, GapEffect, ScopesShrink
      <3> QED
        BY <1>2, <3>1 DEF RebuildInv, RebuildRight
    <2>3. CASE Answer
      <3>1. /\ next' = next /\ tx' = tx /\ wire' = wire /\ rx'.parity = rx.parity
            /\ group' = group /\ recovered' = recovered
            /\ seen'.back # 0 /\ seen'.gaps = seen.gaps
            /\ Uniform' => Uniform
        BY <1>2, <2>3, AnswerEffect, ScopesShrink
      <3> QED
        BY <1>2, <3>1 DEF RebuildInv, RebuildRight
    <2>4. ASSUME NEW i \in 1 .. Len(wire), Deliver(i)
          PROVE  RebuildInv'
      BY <1>2, <2>4, DeliverKeepsRebuild
    <2>5. ASSUME NEW i \in 1 .. Len(wire), LosePacket(i)
          PROVE  RebuildInv'
      <3>1. /\ wire' = Without(wire, i) /\ next' = next /\ tx' = tx /\ group' = group
            /\ rx' = rx /\ recovered' = recovered /\ wire \in Seq(Datagrams)
            /\ seen'.gaps = seen.gaps /\ seen'.back = seen.back
        BY <1>2, <2>5, LoseEffect DEF FecShape
      <3>2. Uniform' => Uniform
        BY <1>2, ScopesShrink
      <3>3. \A j \in 1 .. Len(Without(wire, i)) :
              \E k \in 1 .. Len(wire) : Without(wire, i)[j] = wire[k]
        BY <3>1, WithoutKeeps
      <3>4. (\A j \in 1 .. Len(wire) : wire[j].op = "PARITY" => WholeGroup(wire[j])) =>
              \A j \in 1 .. Len(wire') : wire'[j].op = "PARITY" => WholeGroup(wire'[j])
        BY <3>1, <3>3
      <3>5. RebuildRight' <=> RebuildRight
        BY <3>1 DEF RebuildRight
      <3> QED
        BY <1>2, <3>1, <3>2, <3>4, <3>5 DEF RebuildInv
    <2>6. ASSUME NEW e \in {"tx", "rx"}, AbrUpdate(e)
          PROVE  RebuildInv'
      <3>1. PICK loss \in LossRates :
              /\ group'.tx = IF e = "tx" THEN AbrGroup(loss) ELSE group.tx
              /\ group'.rx = IF e = "rx" THEN AbrGroup(loss) ELSE group.rx
        BY <1>2, <2>6, AbrEffect, ZenonT(30)
      <3>2. /\ next' = next /\ tx' = tx /\ wire' = wire /\ rx' = rx /\ recovered' = recovered
            /\ seen'.gaps = seen.gaps /\ seen'.back = seen.back /\ seen'.abr
            /\ Uniform' => Uniform
        BY <1>2, <2>6, AbrEffect, ScopesShrink, Zenon
      <3>3. Uniform' => AbrGroup(loss) = 0
        BY <3>2 DEF Uniform, AbrGroup
      <3>4. RebuildRight' <=> RebuildRight
        BY <3>2 DEF RebuildRight
      <3> QED
        BY <1>2, <3>1, <3>2, <3>3, <3>4 DEF RebuildInv
    <2>7. CASE UNCHANGED fvars
      BY <1>2, <2>7 DEF fvars, RebuildInv, RebuildRight, Uniform
    <2> QED
      BY <1>2, <2>1, <2>2, <2>3, <2>4, <2>5, <2>6, <2>7 DEF FecNext
  <1> QED
    BY <1>1, <1>2

(***************************************************************************)
(* As long as the loss rate stays below 3 percent (nothing in the program  *)
(* ever raises it), what fec_rx_rebuild returns is the packet whose number *)
(* it names: in any order of arrival, with any losses, across groups that  *)
(* the bitrate control cuts short.                                         *)
(***************************************************************************)
THEOREM RebuildSafe ==
    ASSUME LossRates \subseteq 0 .. 2
    PROVE  FecSpec => []RebuildRight
  <1>1. RebuildInv => RebuildRight
    BY DEF RebuildInv, Uniform
  <1> QED
    BY <1>1, FecShapeInvariant, FecBoundsInvariant, RebuildInvariant, PTL DEF FecSpec
============================================================================
