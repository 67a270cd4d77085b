------------------------- MODULE FecRecoveryProofs -------------------------
(***************************************************************************)
(* The proof that forward error correction does what it is for: in a       *)
(* stream of aligned groups that arrives in order, a packet that is lost   *)
(* is back as soon as the parity of its group has arrived, for every group *)
(* size and length of the stream.                                          *)
(***************************************************************************)
EXTENDS FecProofs

(***************************************************************************)
(* The order of the packets is one of numbers.                             *)
(***************************************************************************)
LEMMA PlaceOfPacket ==
    ASSUME NEW m \in Datagrams
    PROVE  /\ Place(m) \in Int /\ First(m) \in Nat
           /\ m.op = "DATA" => Place(m) = 2 * m.seq /\ First(m) = m.seq
           /\ m.op # "DATA" => Place(m) = 2 * (m.start + Slots) - 1 /\ First(m) = m.start
  <1>1. Slots \in Nat
    BY FecAssumption
  <1>2. CASE m.op = "DATA"
    <2>1. m.seq \in Nat
      BY <1>2, PacketKinds
    <2> QED
      BY <1>2, <2>1 DEF Place, First
  <1>3. CASE m.op # "DATA"
    <2>1. m.start \in Nat
      BY <1>3, PacketKinds
    <2> QED
      BY <1>1, <1>3, <2>1 DEF Place, First
  <1> QED
    BY <1>2, <1>3

(***************************************************************************)
(* Taking one packet out of an ordered network leaves the others, in       *)
(* order; when it was the first, they all come after it.                   *)
(***************************************************************************)
LEMMA WithoutOrdered ==
    ASSUME wire \in Seq(Datagrams), NEW i \in 1 .. Len(wire), wire' = Without(wire, i),
           \A a, b \in 1 .. Len(wire) : a < b => Place(wire[a]) < Place(wire[b])
    PROVE  /\ \A a, b \in 1 .. Len(wire') : a < b => Place(wire'[a]) < Place(wire'[b])
           /\ InTransit' = InTransit \ {wire[i]}
           /\ i = 1 => \A m \in InTransit' : Place(wire[1]) < Place(m)
           /\ wire[i] \in InTransit /\ InTransit \subseteq Datagrams
  <1> DEFINE n == Len(wire)
             w == Without(wire, i)
  <1>1. n \in Nat /\ i \in Nat /\ 1 <= i /\ i <= n
    OBVIOUS
  <1>2. /\ Len(w) = n - 1
        /\ \A k \in 1 .. n - 1 : w[k] = IF k < i THEN wire[k] ELSE wire[k + 1]
    BY WithoutOne, Zenon
  <1>3. \A k \in 1 .. n : wire[k] \in Datagrams /\ Place(wire[k]) \in Int
    BY PlaceOfPacket
  <1>4. /\ \A k \in 1 .. n : k # i => \E j \in 1 .. Len(w) : w[j] = wire[k]
        /\ \A j \in 1 .. Len(w) : \E k \in 1 .. n : k # i /\ k >= j /\ w[j] = wire[k]
    BY WithoutKeeps, Zenon
  <1> HIDE DEF w, n
  <1>5. \A a, b \in 1 .. n : a < b => Place(wire[a]) < Place(wire[b])
    BY DEF n
  <1>6. ASSUME NEW a \in 1 .. Len(w), NEW b \in 1 .. Len(w), a < b
        PROVE  Place(w[a]) < Place(w[b])
    <2>1. a \in 1 .. n - 1 /\ b \in 1 .. n - 1
      BY <1>2
    <2>2. w[a] = (IF a < i THEN wire[a] ELSE wire[a + 1])
          /\ w[b] = (IF b < i THEN wire[b] ELSE wire[b + 1])
      BY <1>2, <2>1
    <2>3. CASE b < i
      BY <1>1, <1>5, <1>6, <2>1, <2>2, <2>3
    <2>4. CASE a < i /\ ~ (b < i)
      <3>1. a \in 1 .. n /\ b + 1 \in 1 .. n /\ a < b + 1
        BY <1>1, <1>6, <2>1
      <3> QED
        BY <1>5, <2>2, <2>4, <3>1
    <2>5. CASE ~ (a < i) /\ ~ (b < i)
      <3>1. a + 1 \in 1 .. n /\ b + 1 \in 1 .. n /\ a + 1 < b + 1
        BY <1>1, <1>6, <2>1
      <3> QED
        BY <1>5, <2>2, <2>5, <3>1
    <2> QED
      BY <1>1, <1>6, <2>1, <2>3, <2>4, <2>5
  <1>7. \A k \in 1 .. n : k # i => wire[k] # wire[i]
    BY <1>1, <1>3, <1>5
  <1>8. InTransit = {wire[k] : k \in 1 .. n}
    BY DEF InTransit, n
  <1>9. InTransit' = {w[k] : k \in 1 .. Len(w)}
    BY DEF InTransit, w
  <1>10. InTransit' = InTransit \ {wire[i]}
    <2>1. ASSUME NEW m \in InTransit' PROVE m \in InTransit \ {wire[i]}
      <3>1. PICK j \in 1 .. Len(w) : m = w[j]
        BY <1>9
      <3>2. PICK k \in 1 .. n : k # i /\ w[j] = wire[k]
        BY <1>4
      <3> QED
        BY <1>7, <1>8, <3>1, <3>2
    <2>2. ASSUME NEW m \in InTransit \ {wire[i]} PROVE m \in InTransit'
      <3>1. PICK k \in 1 .. n : m = wire[k]
        BY <1>8
      <3>2. PICK j \in 1 .. Len(w) : w[j] = wire[k]
        BY <1>4, <2>2, <3>1
      <3> QED
        BY <1>9, <3>1, <3>2
    <2> QED
      BY <2>1, <2>2
  <1>11. ASSUME i = 1, NEW m \in InTransit'
         PROVE  Place(wire[1]) < Place(m)
    <2>1. PICK k \in 1 .. n : m = wire[k] /\ k # 1
      BY <1>8, <1>10, <1>11
    <2>2. 1 \in 1 .. n /\ 1 < k
      BY <1>1, <2>1
    <2> QED
      BY <1>5, <2>1, <2>2
  <1>12. wire[i] \in InTransit /\ InTransit \subseteq Datagrams
    BY <1>1, <1>3, <1>8
  <1> QED
    BY <1>6, <1>10, <1>11, <1>12 DEF w

(***************************************************************************)
(* In the aligned case a complete group runs from its start to the packet  *)
(* just sent, and its parity follows that packet.                          *)
(***************************************************************************)
LEMMA AlignedSend ==
    ASSUME FecShape, FecBounds, RebuildInv, SendingInv, SendPacket, Aligned
    PROVE  LET g == next - tx.pos
           IN  /\ g \in Nat /\ g % Slots = 0 /\ tx.pos \in 0 .. Slots - 1
               /\ InTransit \subseteq Datagrams /\ InTransit' \subseteq Datagrams
               /\ tx.pos + 1 < Slots =>
                    /\ InTransit' = InTransit \cup {DataPacket(next)}
                    /\ tx'.pos = tx.pos + 1
               /\ tx.pos + 1 = Slots =>
                    /\ tx'.pos = 0
                    /\ \E p \in Datagrams : /\ p.op = "PARITY" /\ p.start = g
                                          /\ InTransit' = InTransit \cup {DataPacket(next), p}
               /\ \A i, j \in 1 .. Len(wire') : i < j => Place(wire'[i]) < Place(wire'[j])
  <1> DEFINE t == Accumulated(next)
             complete == group.tx # 0 /\ t.pos >= group.tx
             n == Len(wire)
             d == DataPacket(next)
             p == ParityPacket(t)
             g == next - tx.pos
  <1>0. Slots \in Nat /\ Slots > 1
    BY FecAssumption
  <1>1. /\ group.tx = Slots /\ tx.pos <= next /\ g % Slots = 0
        /\ \A i, j \in 1 .. n : i < j => Place(wire[i]) < Place(wire[j])
        /\ \A m \in InTransit : IF m.op = "DATA" THEN m.seq < next
                                ELSE m.start % Slots = 0 /\ m.start + Slots <= next
    BY DEF SendingInv
  <1>2. Uniform /\ Fits /\ seen.gaps = 0
    BY DEF Aligned, Uniform, Fits
  <1>3. /\ next \in Nat /\ tx.pos \in Nat /\ tx.pos < Slots /\ wire \in Seq(Datagrams) /\ n \in Nat
    BY <1>2 DEF FecShape, FecBounds, Senders
  <1>4. /\ t.pos = tx.pos + 1 /\ next + 1 = t.start + t.pos /\ t \in Senders
    <2>1. tx.pos > 0 => /\ next = tx.start + tx.pos
                        /\ tx.bits = tx.start .. next - 1
                        /\ \A s \in tx.bits : LengthOf(s) <= tx.len
      BY <1>0, <1>1, <1>2 DEF RebuildInv
    <2>2. next + 1 = t.start + t.pos
      BY <1>1, <1>2, <2>1, AccumulatedWhole
    <2> QED
      BY <2>2, AccumulatedSum
  <1>5. t.start \in Nat /\ t.start = g /\ g \in Nat /\ tx.pos \in 0 .. Slots - 1
    <2>1. t.start \in Nat /\ t.pos = tx.pos + 1 /\ next + 1 = t.start + t.pos
      BY <1>4 DEF Senders
    <2>0. tx.pos <= next
      BY <1>1
    <2> HIDE DEF t
    <2>2. t.start = next - tx.pos /\ next - tx.pos \in Nat
      BY <1>3, <2>0, <2>1
    <2> QED
      BY <1>0, <1>3, <2>1, <2>2
  <1>6. /\ complete <=> tx.pos + 1 = Slots
        /\ ~ complete <=> tx.pos + 1 < Slots
    BY <1>0, <1>1, <1>3, <1>4
  <1>7. /\ ~ complete => tx' = t
        /\ complete => tx'.pos = 0
        /\ Len(wire') = IF complete THEN n + 2 ELSE n + 1
        /\ \A k \in 1 .. n : wire'[k] = wire[k]
        /\ wire'[n + 1] = d
        /\ complete => wire'[n + 2] = p
        /\ p \in Datagrams
    BY <1>0, <1>1, SendEffect
  <1>8. p.op = "PARITY" /\ p.start = g
    BY <1>5 DEF ParityPacket
  <1>9. d \in Datagrams /\ d.op = "DATA" /\ d.seq = next
    BY <1>3 DEF DataPacket, Datagrams
  <1>10. InTransit = {wire[k] : k \in 1 .. n} /\ InTransit \subseteq Datagrams
    BY <1>3 DEF InTransit
  <1>11. InTransit' = {wire'[k] : k \in 1 .. Len(wire')}
    BY DEF InTransit
  <1> HIDE DEF complete, n, d, p, t
  <1>12. ~ complete => InTransit' = InTransit \cup {d}
    <2> SUFFICES ASSUME ~ complete PROVE InTransit' = InTransit \cup {d}
      OBVIOUS
    <2>1. \A k : k \in 1 .. Len(wire') <=> k \in 1 .. n \/ k = n + 1
      BY <1>3, <1>7
    <2> QED
      BY <1>7, <1>10, <1>11, <2>1
  <1>13. complete => InTransit' = InTransit \cup {d, p}
    <2> SUFFICES ASSUME complete PROVE InTransit' = InTransit \cup {d, p}
      OBVIOUS
    <2>1. \A k : k \in 1 .. Len(wire') <=> k \in 1 .. n \/ k = n + 1 \/ k = n + 2
      BY <1>3, <1>7
    <2> QED
      BY <1>7, <1>10, <1>11, <2>1
  <1>14. Place(d) = 2 * next /\ Place(p) = 2 * (g + Slots) - 1
    BY <1>7, <1>8, <1>9, PlaceOfPacket
  <1>15. \A k \in 1 .. n : Place(wire[k]) \in Int /\ Place(wire[k]) < Place(d)
    <2> TAKE k \in 1 .. n
    <2> DEFINE m == wire[k]
    <2>1. m \in Datagrams /\ m \in InTransit
      BY <1>10
    <2> HIDE DEF m
    <2>2. CASE m.op = "DATA"
      <3>1. m.seq \in Nat /\ m.seq < next /\ Place(m) = 2 * m.seq
        BY <1>1, <2>1, <2>2, PlaceOfPacket, PacketKinds
      <3> QED
        BY <1>3, <1>14, <3>1 DEF m
    <2>3. CASE m.op # "DATA"
      <3>1. m.start \in Nat /\ m.start + Slots <= next /\ Place(m) = 2 * (m.start + Slots) - 1
        BY <1>1, <2>1, <2>3, PlaceOfPacket, PacketKinds
      <3>2. Place(m) \in Int /\ Place(m) < 2 * next
        BY <1>0, <1>3, <3>1
      <3> QED
        BY <1>3, <1>14, <3>2 DEF m
    <2> QED
      BY <2>2, <2>3
  <1>16. complete => Place(d) < Place(p)
    <2> SUFFICES ASSUME complete PROVE Place(d) < Place(p)
      OBVIOUS
    <2>1. g + Slots = next + 1
      BY <1>0, <1>3, <1>6
    <2> QED
      BY <1>3, <1>14, <2>1
  <1>17. ASSUME NEW i \in 1 .. Len(wire'), NEW j \in 1 .. Len(wire'), i < j
         PROVE  Place(wire'[i]) < Place(wire'[j])
    <2>1. \A k \in 1 .. Len(wire') : k \in 1 .. n \/ k = n + 1 \/ (complete /\ k = n + 2)
      BY <1>3, <1>7
    <2>2. \/ i \in 1 .. n /\ j \in 1 .. n
          \/ i \in 1 .. n /\ j = n + 1
          \/ i \in 1 .. n /\ complete /\ j = n + 2
          \/ i = n + 1 /\ complete /\ j = n + 2
      BY <1>3, <1>17, <2>1
    <2>3. Place(d) \in Int /\ (complete => Place(p) \in Int)
      BY <1>7, <1>9, PlaceOfPacket
    <2>4. CASE i \in 1 .. n /\ j \in 1 .. n
      BY <1>1, <1>7, <1>17, <2>4 DEF n
    <2>5. CASE i \in 1 .. n /\ j = n + 1
      BY <1>7, <1>15, <2>5
    <2>6. CASE i \in 1 .. n /\ complete /\ j = n + 2
      BY <1>7, <1>15, <1>16, <2>3, <2>6
    <2>7. CASE i = n + 1 /\ complete /\ j = n + 2
      BY <1>7, <1>16, <2>7
    <2> QED
      BY <2>2, <2>4, <2>5, <2>6, <2>7
  <1>18. tx.pos + 1 < Slots =>
           /\ InTransit' = InTransit \cup {DataPacket(next)}
           /\ tx'.pos = tx.pos + 1
    BY <1>4, <1>6, <1>7, <1>12 DEF d
  <1>19. tx.pos + 1 = Slots =>
           /\ tx'.pos = 0
           /\ p.op = "PARITY" /\ p.start = g /\ p \in Datagrams
           /\ InTransit' = InTransit \cup {DataPacket(next), p}
    BY <1>6, <1>7, <1>8, <1>13 DEF d
  <1>20. InTransit' \subseteq Datagrams
    BY <1>7, <1>9, <1>10, <1>12, <1>13
  <1> QED
    BY <1>1, <1>5, <1>10, <1>17, <1>18, <1>19, <1>20

(***************************************************************************)
(* SendingInv is inductive.                                                *)
(***************************************************************************)
LEMMA SendingInvariant ==
    /\ FecInit => SendingInv
    /\ FecShape /\ FecBounds /\ RebuildInv /\ SendingInv /\ [FecNext]_fvars => SendingInv'
  <1>0. Slots \in Nat /\ Slots > 1
    BY FecAssumption
  <1>1. FecInit => SendingInv
    <2> SUFFICES ASSUME FecInit, Aligned PROVE SendingInv
      BY DEF SendingInv
    <2>1. /\ next \in Nat /\ seen.first = next /\ tx.pos = 0 /\ wire = <<>> /\ seen.lost = {}
          /\ group.tx = Slots /\ group.rx = Slots
      BY FecAssumption DEF FecInit
    <2>2. next % Slots = 0
      BY <2>1 DEF Aligned
    <2>3. next - tx.pos = next /\ tx.pos <= next
      BY <2>1
    <2>4. InTransit = {}
      BY <2>1 DEF InTransit
    <2> QED
      BY <2>1, <2>2, <2>3, <2>4 DEF SendingInv
  <1>2. ASSUME FecShape, FecBounds, RebuildInv, SendingInv, [FecNext]_fvars, Aligned'
        PROVE  /\ group'.tx = Slots /\ group'.rx = Slots
               /\ tx'.pos <= next' /\ (next' - tx'.pos) % Slots = 0
               /\ \A i, j \in 1 .. Len(wire') : i < j => Place(wire'[i]) < Place(wire'[j])
               /\ \A m \in InTransit' :
                    IF m.op = "DATA" THEN m.seq < next'
                    ELSE m.start % Slots = 0 /\ m.start + Slots <= next'
               /\ \A m \in seen'.lost : m.op = "DATA" => m.seq < next' /\ m \notin InTransit'
    <2>1. Aligned
      BY <1>2, ScopesShrink
    <2>2. /\ group.tx = Slots /\ group.rx = Slots
          /\ tx.pos <= next /\ (next - tx.pos) % Slots = 0
          /\ \A i, j \in 1 .. Len(wire) : i < j => Place(wire[i]) < Place(wire[j])
          /\ \A m \in InTransit : IF m.op = "DATA" THEN m.seq < next
                                  ELSE m.start % Slots = 0 /\ m.start + Slots <= next
          /\ \A m \in seen.lost : m.op = "DATA" => m.seq < next /\ m \notin InTransit
      BY <1>2, <2>1 DEF SendingInv
    <2>3. next \in Nat /\ wire \in Seq(Datagrams) /\ seen.lost \subseteq Datagrams
      BY <1>2 DEF FecShape, Observations
    <2>4. CASE SendPacket
      <3> DEFINE g == next - tx.pos
      <3>1. /\ g \in Nat /\ g % Slots = 0 /\ tx.pos \in 0 .. Slots - 1
            /\ InTransit \subseteq Datagrams /\ InTransit' \subseteq Datagrams
            /\ tx.pos + 1 < Slots =>
                 /\ InTransit' = InTransit \cup {DataPacket(next)}
                 /\ tx'.pos = tx.pos + 1
            /\ tx.pos + 1 = Slots =>
                 /\ tx'.pos = 0
                 /\ \E p \in Datagrams : /\ p.op = "PARITY" /\ p.start = g
                                       /\ InTransit' = InTransit \cup {DataPacket(next), p}
            /\ \A i, j \in 1 .. Len(wire') : i < j => Place(wire'[i]) < Place(wire'[j])
        BY <1>2, <2>1, <2>4, AlignedSend
      <3>2. next' = next + 1 /\ group' = group /\ seen'.lost = seen.lost
        BY <1>2, <2>4, SendEffect
      <3>3. DataPacket(next).op = "DATA" /\ DataPacket(next).seq = next
        BY DEF DataPacket
      <3>4. CASE tx.pos + 1 < Slots
        <4>1. tx'.pos <= next' /\ next' - tx'.pos = g
          BY <2>2, <2>3, <3>1, <3>2, <3>4
        <4>2. ASSUME NEW m \in InTransit'
              PROVE  /\ IF m.op = "DATA" THEN m.seq < next'
                        ELSE m.start % Slots = 0 /\ m.start + Slots <= next'
                     /\ m \in InTransit \/ (m.op = "DATA" /\ m.seq = next)
          <5>1. m \in InTransit \/ m = DataPacket(next)
            BY <3>1, <3>4
          <5>2. CASE m \in InTransit
            <6>1. m \in Datagrams
              BY <3>1
            <6> QED
              BY <1>0, <2>2, <2>3, <3>2, <5>2, <6>1, PacketKinds
          <5>3. CASE m = DataPacket(next)
            BY <2>3, <3>2, <3>3, <5>3
          <5> QED
            BY <5>1, <5>2, <5>3
        <4>3. ASSUME NEW m \in seen.lost, m.op = "DATA"
              PROVE  m.seq < next' /\ m \notin InTransit'
          <5>1. m.seq \in Nat /\ m.seq < next /\ m \notin InTransit
            BY <2>2, <2>3, <4>3, PacketKinds
          <5> QED
            BY <2>3, <3>2, <4>2, <5>1
        <4> HIDE DEF g
        <4>4. (next' - tx'.pos) % Slots = 0
          BY <3>1, <4>1
        <4> QED
          BY <2>2, <3>1, <3>2, <4>1, <4>2, <4>3, <4>4
      <3>5. CASE tx.pos + 1 = Slots
        <4>1. PICK p \in Datagrams : /\ p.op = "PARITY" /\ p.start = g
                                   /\ InTransit' = InTransit \cup {DataPacket(next), p}
          BY <3>1, <3>5
        <4>2. tx'.pos = 0 /\ g + Slots = next + 1
          BY <1>0, <2>2, <2>3, <3>1, <3>5
        <4>3. (g + Slots) % Slots = 0
          BY <3>1, GroupStarts
        <4>4. tx'.pos <= next' /\ next' - tx'.pos = g + Slots
          BY <2>3, <3>2, <4>2
        <4> HIDE DEF g
        <4>5. ASSUME NEW m \in InTransit'
              PROVE  /\ IF m.op = "DATA" THEN m.seq < next'
                        ELSE m.start % Slots = 0 /\ m.start + Slots <= next'
                     /\ m \in InTransit \/ (m.op = "DATA" => m.seq = next)
          <5>1. m \in InTransit \/ m = DataPacket(next) \/ m = p
            BY <4>1
          <5>2. CASE m \in InTransit
            <6>1. m \in Datagrams
              BY <3>1
            <6> QED
              BY <1>0, <2>2, <2>3, <3>2, <5>2, <6>1, PacketKinds
          <5>3. CASE m = DataPacket(next)
            BY <2>3, <3>2, <3>3, <5>3
          <5>4. CASE m = p
            BY <1>0, <2>3, <3>1, <3>2, <4>1, <4>2, <5>4
          <5> QED
            BY <5>1, <5>2, <5>3, <5>4
        <4>6. ASSUME NEW m \in seen.lost, m.op = "DATA"
              PROVE  m.seq < next' /\ m \notin InTransit'
          <5>1. m.seq \in Nat /\ m.seq < next /\ m \notin InTransit
            BY <2>2, <2>3, <4>6, PacketKinds
          <5> QED
            BY <2>3, <3>2, <4>5, <4>6, <5>1
        <4>7. (next' - tx'.pos) % Slots = 0
          BY <4>3, <4>4
        <4> QED
          BY <2>2, <3>1, <3>2, <4>4, <4>5, <4>6, <4>7
      <3> QED
        BY <1>0, <3>1, <3>4, <3>5
    <2>5. ASSUME NEW i \in 1 .. Len(wire), Deliver(i)
          PROVE  /\ wire' = Without(wire, i) /\ seen'.lost = seen.lost
                 /\ next' = next /\ tx' = tx /\ group' = group
      BY <1>2, <2>5, DeliverEffect
    <2>6. ASSUME NEW i \in 1 .. Len(wire), LosePacket(i)
          PROVE  /\ wire' = Without(wire, i) /\ seen'.lost = seen.lost \cup {wire[i]}
                 /\ next' = next /\ tx' = tx /\ group' = group
      BY <1>2, <2>6, LoseEffect
    <2>7. ASSUME NEW i \in 1 .. Len(wire), Deliver(i) \/ LosePacket(i)
          PROVE  /\ group'.tx = Slots /\ group'.rx = Slots
                 /\ tx'.pos <= next' /\ (next' - tx'.pos) % Slots = 0
                 /\ \A a, b \in 1 .. Len(wire') : a < b => Place(wire'[a]) < Place(wire'[b])
                 /\ \A m \in InTransit' :
                      IF m.op = "DATA" THEN m.seq < next'
                      ELSE m.start % Slots = 0 /\ m.start + Slots <= next'
                 /\ \A m \in seen'.lost : m.op = "DATA" => m.seq < next' /\ m \notin InTransit'
      <3>1. /\ wire' = Without(wire, i) /\ seen'.lost \subseteq seen.lost \cup {wire[i]}
            /\ next' = next /\ tx' = tx /\ group' = group
        BY <2>5, <2>6, <2>7
      <3>2. /\ \A a, b \in 1 .. Len(wire') : a < b => Place(wire'[a]) < Place(wire'[b])
            /\ InTransit' = InTransit \ {wire[i]}
            /\ wire[i] \in InTransit
        BY <2>2, <2>3, <3>1, WithoutOrdered
      <3>3. \A m \in seen'.lost : m.op = "DATA" => m.seq < next /\ m \notin InTransit'
        BY <2>2, <3>1, <3>2
      <3> QED
        BY <2>2, <3>1, <3>2, <3>3
    <2>8. CASE UNCHANGED fvars
      <3>1. /\ next' = next /\ tx' = tx /\ wire' = wire /\ group' = group /\ seen' = seen
            /\ InTransit' = InTransit
        BY <2>8 DEF fvars, InTransit
      <3> QED
        BY <2>2, <3>1
    <2>9. ~ Gap /\ ~ Answer /\ ~ \E e \in {"tx", "rx"} : AbrUpdate(e)
      <3>1. seen'.gaps = 0 /\ seen'.back = 0 /\ ~ seen'.abr
        BY <1>2 DEF Aligned
      <3> QED
        BY <1>2, <3>1, GapEffect, AnswerEffect, AbrEffect, Zenon
    <2> QED
      BY <1>2, <2>4, <2>7, <2>8, <2>9 DEF FecNext
  <1> QED
    BY <1>1, <1>2 DEF SendingInv

----------------------------------------------------------------------------
(***************************************************************************)
(* In the aligned case sending leaves the receiver at its group.           *)
(***************************************************************************)
LEMMA SendKeepsReceiving ==
    ASSUME FecShape, FecBounds, RebuildInv, SendingInv, SendPacket, Aligned,
           NEW b \in 0 .. next, ReceivingGroup(b)
    PROVE  ReceivingGroup(b)'
  <1>0. Slots \in Nat /\ Slots > 1
    BY FecAssumption
  <1> DEFINE c == next - tx.pos
  <1>1. /\ next \in Nat /\ b \in Nat /\ b <= next /\ seen.lost \subseteq Datagrams
    BY DEF FecShape, Observations
  <1>2. /\ b % Slots = 0
        /\ \A m \in InTransit : First(m) >= b
        /\ \A g \in b .. next : g % Slots = 0 /\ g + Slots <= next =>
             \E m \in InTransit : m.op = "PARITY" /\ m.start = g
        /\ \A s \in b .. next - 1 :
             \/ DataPacket(s) \in InTransit \cup seen.lost
             \/ s < b + Slots /\ rx.slot[s - b].len > 0
        /\ \A i \in SlotSet : rx.slot[i].len > 0 =>
             /\ rx.slot[i].seq = b + i /\ b + i < next
             /\ DataPacket(b + i) \notin InTransit \cup seen.lost
        /\ \A m \in seen.lost : LengthOf(m.seq) = 2 /\ m.seq < b => m.seq \in recovered.seqs
    BY DEF ReceivingGroup
  <1>3. /\ c \in Nat /\ c % Slots = 0 /\ tx.pos \in 0 .. Slots - 1
        /\ InTransit' \subseteq Datagrams
        /\ tx.pos + 1 < Slots => InTransit' = InTransit \cup {DataPacket(next)}
        /\ tx.pos + 1 = Slots =>
             \E p \in Datagrams : /\ p.op = "PARITY" /\ p.start = c
                                /\ InTransit' = InTransit \cup {DataPacket(next), p}
    BY AlignedSend
  <1>4. /\ next' = next + 1 /\ rx' = rx /\ recovered' = recovered /\ seen'.lost = seen.lost
    BY SendEffect
  <1>5. /\ InTransit \subseteq InTransit' /\ DataPacket(next) \in InTransit'
        /\ \A m \in InTransit' \ InTransit :
             m = DataPacket(next) \/ (m.op = "PARITY" /\ m.start = c /\ tx.pos + 1 = Slots)
        /\ tx.pos + 1 = Slots => \E m \in InTransit' : m.op = "PARITY" /\ m.start = c
    <2>1. CASE tx.pos + 1 < Slots
      BY <1>0, <1>3, <2>1
    <2>2. CASE tx.pos + 1 = Slots
      BY <1>3, <2>2
    <2> QED
      BY <1>0, <1>3, <2>1, <2>2
  <1>6. DataPacket(next).op = "DATA" /\ DataPacket(next).seq = next
    BY DEF DataPacket
  <1>7. tx.pos \in Nat /\ c = next - tx.pos /\ tx.pos < Slots
    BY <1>0, <1>3
  <1> HIDE DEF c
  <1>8. \A m \in InTransit' : First(m) >= b
    <2> SUFFICES ASSUME NEW m \in InTransit' \ InTransit PROVE First(m) >= b
      BY <1>2
    <2>1. CASE m = DataPacket(next)
      BY <1>1, <1>6, <2>1 DEF First
    <2>2. CASE m.op = "PARITY" /\ m.start = c /\ tx.pos + 1 = Slots
      <3>1. First(m) = c
        BY <2>2 DEF First
      <3>2. c + Slots = next + 1
        BY <1>0, <1>1, <1>7, <2>2
      <3>3. ~ (c < b)
        <4> SUFFICES ASSUME c < b PROVE FALSE
          OBVIOUS
        <4>1. c + Slots <= b
          BY <1>1, <1>2, <1>3, GroupStarts
        <4> QED
          BY <1>0, <1>1, <1>3, <3>2, <4>1
      <3> QED
        BY <1>1, <1>3, <3>1, <3>3
    <2> QED
      BY <1>5, <2>1, <2>2
  <1>9. ASSUME NEW g \in b .. next', g % Slots = 0, g + Slots <= next'
        PROVE  \E m \in InTransit' : m.op = "PARITY" /\ m.start = g
    <2>1. g \in Nat /\ g >= b
      BY <1>1, <1>4
    <2>2. CASE g + Slots <= next
      <3>1. g \in b .. next
        BY <1>0, <1>1, <2>1, <2>2
      <3>2. \E m \in InTransit : m.op = "PARITY" /\ m.start = g
        BY <1>2, <1>9, <2>2, <3>1
      <3> QED
        BY <1>5, <3>2
    <2>3. CASE g + Slots = next + 1
      <3>1. ~ (g < c)
        <4> SUFFICES ASSUME g < c PROVE FALSE
          OBVIOUS
        <4>1. g + Slots <= c
          BY <1>3, <1>9, <2>1, GroupStarts
        <4> QED
          BY <1>0, <1>1, <1>3, <1>7, <2>1, <2>3, <4>1
      <3>2. g = c /\ tx.pos + 1 = Slots
        BY <1>0, <1>1, <1>3, <1>7, <2>1, <2>3, <3>1
      <3> QED
        BY <1>5, <3>2
    <2> QED
      BY <1>0, <1>1, <1>4, <1>9, <2>1, <2>2, <2>3
  <1>10. ASSUME NEW s \in b .. next' - 1
         PROVE  \/ DataPacket(s) \in InTransit' \cup seen'.lost
                \/ s < b + Slots /\ rx'.slot[s - b].len > 0
    <2>1. s = next \/ s \in b .. next - 1
      BY <1>1, <1>4
    <2>2. CASE s = next
      BY <1>5, <2>2
    <2>3. CASE s \in b .. next - 1
      BY <1>2, <1>4, <1>5, <2>3
    <2> QED
      BY <2>1, <2>2, <2>3
  <1>11. ASSUME NEW i \in SlotSet, rx'.slot[i].len > 0
         PROVE  /\ rx'.slot[i].seq = b + i /\ b + i < next'
                /\ DataPacket(b + i) \notin InTransit' \cup seen'.lost
    <2>1. /\ rx.slot[i].seq = b + i /\ b + i < next
          /\ DataPacket(b + i) \notin InTransit \cup seen.lost
      BY <1>2, <1>4, <1>11
    <2>2. i \in Nat
      BY <1>0 DEF SlotSet
    <2>3. DataPacket(b + i).op = "DATA" /\ DataPacket(b + i).seq = b + i
      BY DEF DataPacket
    <2>4. DataPacket(b + i) # DataPacket(next)
      BY <1>1, <1>6, <2>1, <2>2, <2>3
    <2>5. DataPacket(b + i) \notin InTransit'
      BY <1>5, <2>1, <2>3, <2>4
    <2> QED
      BY <1>1, <1>4, <2>1, <2>2, <2>5
  <1> QED
    BY <1>2, <1>4, <1>8, <1>9, <1>10, <1>11 DEF ReceivingGroup

(***************************************************************************)
(* Losing a data packet leaves the receiver at its group.                  *)
(***************************************************************************)
LEMMA LoseKeepsReceiving ==
    ASSUME FecShape, SendingInv, Aligned, NEW i \in 1 .. Len(wire), LosePacket(i),
           wire[i].op = "DATA", NEW b \in 0 .. next, ReceivingGroup(b)
    PROVE  ReceivingGroup(b)'
  <1> DEFINE m == wire[i]
  <1>1. /\ b % Slots = 0
        /\ \A x \in InTransit : First(x) >= b
        /\ \A g \in b .. next : g % Slots = 0 /\ g + Slots <= next =>
             \E x \in InTransit : x.op = "PARITY" /\ x.start = g
        /\ \A s \in b .. next - 1 :
             \/ DataPacket(s) \in InTransit \cup seen.lost
             \/ s < b + Slots /\ rx.slot[s - b].len > 0
        /\ \A k \in SlotSet : rx.slot[k].len > 0 =>
             /\ rx.slot[k].seq = b + k /\ b + k < next
             /\ DataPacket(b + k) \notin InTransit \cup seen.lost
        /\ \A x \in seen.lost : LengthOf(x.seq) = 2 /\ x.seq < b => x.seq \in recovered.seqs
    BY DEF ReceivingGroup
  <1>2. /\ wire' = Without(wire, i) /\ next' = next /\ rx' = rx /\ recovered' = recovered
        /\ seen'.lost = seen.lost \cup {m} /\ m \in Datagrams
    BY LoseEffect
  <1>3. wire \in Seq(Datagrams) /\ next \in Nat
    BY DEF FecShape
  <1>4. InTransit' = InTransit \ {m} /\ m \in InTransit
    <2>1. \A j, k \in 1 .. Len(wire) : j < k => Place(wire[j]) < Place(wire[k])
      BY DEF SendingInv
    <2> QED
      BY <1>2, <1>3, <2>1, WithoutOrdered
  <1> HIDE DEF m
  <1>5. m.op = "DATA" /\ First(m) = m.seq /\ m.seq \in Nat
    BY <1>2, PacketKinds DEF First, m
  <1>6. \A x \in seen'.lost : LengthOf(x.seq) = 2 /\ x.seq < b => x.seq \in recovered'.seqs
    BY <1>1, <1>2, <1>3, <1>4, <1>5
  <1>7. \A g \in b .. next : g % Slots = 0 /\ g + Slots <= next =>
          \E x \in InTransit' : x.op = "PARITY" /\ x.start = g
    BY <1>1, <1>4, <1>5
  <1>8. \A s \in b .. next - 1 :
          \/ DataPacket(s) \in InTransit' \cup seen'.lost
          \/ s < b + Slots /\ rx'.slot[s - b].len > 0
    BY <1>1, <1>2, <1>4
  <1>9. \A k \in SlotSet : rx'.slot[k].len > 0 =>
          /\ rx'.slot[k].seq = b + k /\ b + k < next
          /\ DataPacket(b + k) \notin InTransit' \cup seen'.lost
    BY <1>1, <1>2, <1>4
  <1> QED
    BY <1>1, <1>2, <1>4, <1>6, <1>7, <1>8, <1>9 DEF ReceivingGroup

(***************************************************************************)
(* The first packet in transit is the next of the receiver's group, or the *)
(* parity of that group with none of its packets behind it.                *)
(***************************************************************************)
LEMMA HeadOfGroup ==
    ASSUME FecShape, SendingInv, Aligned, NEW b \in 0 .. next, ReceivingGroup(b),
           Len(wire) > 0
    PROVE  LET m == wire[1]
           IN  /\ m.op = "DATA" =>
                    m.seq \in Nat /\ m = DataPacket(m.seq) /\ m.seq \in b .. b + Slots - 1
               /\ m.op # "DATA" =>
                    /\ m.op = "PARITY" /\ m.start = b /\ b + Slots <= next
                    /\ \A s \in b .. b + Slots - 1 : DataPacket(s) \notin InTransit
                    /\ \A x \in InTransit \ {m} : First(x) >= b + Slots
  <1> DEFINE m == wire[1]
  <1>0. Slots \in Nat /\ Slots > 1
    BY FecAssumption
  <1>1. /\ b % Slots = 0
        /\ \A x \in InTransit : First(x) >= b
        /\ \A g \in b .. next : g % Slots = 0 /\ g + Slots <= next =>
             \E x \in InTransit : x.op = "PARITY" /\ x.start = g
    BY DEF ReceivingGroup
  <1>2. /\ \A i, j \in 1 .. Len(wire) : i < j => Place(wire[i]) < Place(wire[j])
        /\ \A x \in InTransit : IF x.op = "DATA" THEN x.seq < next
                                ELSE x.start % Slots = 0 /\ x.start + Slots <= next
    BY DEF SendingInv
  <1>3. wire \in Seq(Datagrams) /\ next \in Nat /\ b \in Nat /\ Len(wire) \in Nat
    BY DEF FecShape
  <1>4. InTransit = {wire[k] : k \in 1 .. Len(wire)}
    BY DEF InTransit
  <1>5. m \in InTransit /\ InTransit \subseteq Datagrams
    BY <1>3, <1>4
  <1>6. \A x \in InTransit \ {m} : Place(m) < Place(x)
    <2> SUFFICES ASSUME NEW k \in 1 .. Len(wire), wire[k] # m
                 PROVE  Place(m) < Place(wire[k])
      BY <1>4
    <2>1. k # 1 /\ 1 \in 1 .. Len(wire) /\ 1 < k
      BY <1>3
    <2> QED
      BY <1>2, <2>1
  <1> HIDE DEF m
  <1>7. b + Slots <= next => \E x \in InTransit : x.op = "PARITY" /\ x.start = b
    BY <1>0, <1>1, <1>3
  <1>8. CASE m.op = "DATA"
    <2>1. m.seq \in Nat /\ m = DataPacket(m.seq) /\ m.seq < next /\ m.seq >= b
          /\ Place(m) = 2 * m.seq
      BY <1>1, <1>2, <1>5, <1>8, PacketKinds, PlaceOfPacket
    <2>2. ~ (m.seq >= b + Slots)
      <3> SUFFICES ASSUME m.seq >= b + Slots PROVE FALSE
        OBVIOUS
      <3>1. PICK x \in InTransit : x.op = "PARITY" /\ x.start = b
        BY <1>0, <1>3, <1>7, <2>1
      <3>2. x # m /\ Place(x) = 2 * (b + Slots) - 1
        BY <1>5, <1>8, <3>1, PlaceOfPacket
      <3>3. 2 * m.seq < 2 * (b + Slots) - 1
        BY <1>6, <2>1, <3>2
      <3> QED
        BY <1>0, <1>3, <2>1, <3>3
    <2> QED
      BY <1>0, <1>3, <1>8, <2>1, <2>2 DEF m
  <1>9. CASE m.op # "DATA"
    <2>1. /\ m.op = "PARITY" /\ m.start \in Nat /\ m.start >= b /\ m.start % Slots = 0
          /\ m.start + Slots <= next /\ Place(m) = 2 * (m.start + Slots) - 1
      BY <1>1, <1>2, <1>5, <1>9, PacketKinds, PlaceOfPacket
    <2>2. ~ (b < m.start)
      <3> SUFFICES ASSUME b < m.start PROVE FALSE
        OBVIOUS
      <3>1. PICK x \in InTransit : x.op = "PARITY" /\ x.start = b
        BY <1>0, <1>3, <1>7, <2>1
      <3>2. x # m /\ Place(x) = 2 * (b + Slots) - 1
        BY <1>3, <1>5, <2>1, <3>1, PlaceOfPacket
      <3>3. 2 * (m.start + Slots) - 1 < 2 * (b + Slots) - 1
        BY <1>6, <2>1, <3>2
      <3> QED
        BY <1>0, <1>3, <2>1, <3>3
    <2>3. m.start = b
      BY <1>3, <2>1, <2>2
    <2>4. ASSUME NEW x \in InTransit \ {m}
          PROVE  First(x) >= b + Slots
      <3>1. 2 * (b + Slots) - 1 < Place(x) /\ x \in Datagrams
        BY <1>5, <1>6, <2>1, <2>3
      <3>2. CASE x.op = "DATA"
        <4>1. x.seq \in Nat /\ Place(x) = 2 * x.seq /\ First(x) = x.seq
          BY <3>1, <3>2, PacketKinds, PlaceOfPacket
        <4> QED
          BY <1>0, <1>3, <3>1, <4>1
      <3>3. CASE x.op # "DATA"
        <4>1. /\ x.start \in Nat /\ Place(x) = 2 * (x.start + Slots) - 1 /\ First(x) = x.start
              /\ x.start % Slots = 0
          BY <1>2, <3>1, <3>3, PacketKinds, PlaceOfPacket
        <4>2. b < x.start
          BY <1>0, <1>3, <3>1, <4>1
        <4> QED
          BY <1>1, <1>3, <4>1, <4>2, GroupStarts
      <3> QED
        BY <3>2, <3>3
    <2>5. ASSUME NEW s \in b .. b + Slots - 1
          PROVE  DataPacket(s) \notin InTransit
      <3>1. DataPacket(s).op = "DATA" /\ First(DataPacket(s)) = s /\ s \in Nat
        BY <1>0, <1>3 DEF DataPacket, First
      <3>2. DataPacket(s) # m /\ ~ (s >= b + Slots)
        BY <1>0, <1>3, <1>9, <3>1
      <3> QED
        BY <2>4, <3>1, <3>2
    <2> QED
      BY <1>9, <2>1, <2>3, <2>4, <2>5 DEF m
  <1> QED
    BY <1>8, <1>9 DEF m

----------------------------------------------------------------------------
(***************************************************************************)
(* A data packet that arrives in order goes to its slot of the group.      *)
(***************************************************************************)
LEMMA DataKeepsReceiving ==
    ASSUME FecShape, SendingInv, Aligned, ~ rx.parity.have, Len(wire) > 0, Deliver(1),
           wire[1].op = "DATA", NEW b \in 0 .. next, ReceivingGroup(b)
    PROVE  ~ rx'.parity.have /\ ReceivingGroup(b)'
  <1> DEFINE m == wire[1]
             s == m.seq
             j == s - b
             new == [len |-> LengthOf(s), seq |-> s, bits |-> {s}]
             r == Track(rx, s)
  <1>0. Slots \in Nat /\ Slots > 1
    BY FecAssumption
  <1>1. /\ next \in Nat /\ b \in Nat /\ wire \in Seq(Datagrams) /\ rx \in Receivers
        /\ seen.lost \subseteq Datagrams /\ 1 \in 1 .. Len(wire)
    BY DEF FecShape, Observations
  <1>2. s \in Nat /\ m = DataPacket(s) /\ s \in b .. b + Slots - 1
    BY HeadOfGroup
  <1>3. /\ b % Slots = 0
        /\ \A x \in InTransit : First(x) >= b
        /\ \A g \in b .. next : g % Slots = 0 /\ g + Slots <= next =>
             \E x \in InTransit : x.op = "PARITY" /\ x.start = g
        /\ \A q \in b .. next - 1 :
             \/ DataPacket(q) \in InTransit \cup seen.lost
             \/ q < b + Slots /\ rx.slot[q - b].len > 0
        /\ \A k \in SlotSet : rx.slot[k].len > 0 =>
             /\ rx.slot[k].seq = b + k /\ b + k < next
             /\ DataPacket(b + k) \notin InTransit \cup seen.lost
        /\ \A x \in seen.lost : LengthOf(x.seq) = 2 /\ x.seq < b => x.seq \in recovered.seqs
    BY DEF ReceivingGroup
  <1>4. /\ group.rx = Slots
        /\ \A i, k \in 1 .. Len(wire) : i < k => Place(wire[i]) < Place(wire[k])
        /\ \A x \in InTransit : x.op = "DATA" => x.seq < next
        /\ \A x \in seen.lost : x.op = "DATA" => x \notin InTransit
    BY DEF SendingInv
  <1>5. wire' = Without(wire, 1) /\ next' = next /\ seen'.lost = seen.lost
    BY <1>1, DeliverEffect
  <1>6. InTransit' = InTransit \ {m} /\ m \in InTransit
    BY <1>1, <1>4, <1>5, WithoutOrdered
  <1>7. TryRebuild(r)
    BY <1>0, <1>4 DEF Deliver
  <1> HIDE DEF m
  <1>8. m.op = "DATA" /\ s < next /\ m \notin seen.lost
    BY <1>4, <1>6 DEF m
  <1> HIDE DEF s
  <1>9. j \in SlotSet /\ b + j = s /\ s % Slots = j
    <2>1. j \in SlotSet /\ b + j = s
      BY <1>0, <1>1, <1>2 DEF SlotSet
    <2> QED
      BY <1>1, <1>3, <2>1, GroupStarts
  <1> HIDE DEF j, new
  <1>10. /\ r \in Receivers /\ r.parity = rx.parity
         /\ \A k \in SlotSet : r.slot[k] = IF k = j THEN new ELSE rx.slot[k]
    <2>1. group.rx = Slots /\ rx \in Receivers /\ s \in Nat
      BY <1>1, <1>2, <1>4
    <2>2. /\ r \in Receivers /\ r.parity = rx.parity
          /\ \A k \in SlotSet : r.slot[k] = IF k = s % Slots THEN new ELSE rx.slot[k]
      BY <1>0, <2>1, TrackFills, Zenon DEF new
    <2> QED
      BY <1>9, <2>2, Zenon
  <1> HIDE DEF r
  <1>11. rx' = r /\ recovered' = recovered
    BY <1>7, <1>10 DEF TryRebuild, Rebuilds
  <1>12. new.len > 0 /\ new.seq = s
    BY DEF new, LengthOf
  <1>13. \A k \in SlotSet : k \in Nat /\ (DataPacket(b + k) = m => k = j)
    <2> TAKE k \in SlotSet
    <2>1. k \in Nat /\ j \in Nat
      BY <1>0, <1>9 DEF SlotSet
    <2>2. DataPacket(b + k) = m => b + k = b + j
      BY <1>9 DEF DataPacket, s
    <2> QED
      BY <1>1, <2>1, <2>2
  <1>14. ASSUME NEW q \in b .. next - 1
         PROVE  \/ DataPacket(q) \in InTransit' \cup seen'.lost
                \/ q < b + Slots /\ rx'.slot[q - b].len > 0
    <2>1. CASE DataPacket(q) \in seen.lost
      BY <1>5, <2>1
    <2>2. CASE DataPacket(q) \in InTransit /\ DataPacket(q) # m
      BY <1>6, <2>2
    <2>3. CASE DataPacket(q) = m
      <3>1. q = s
        BY <1>2, <2>3 DEF DataPacket
      <3>2. q - b = j /\ q < b + Slots
        BY <1>0, <1>1, <1>2, <3>1 DEF j
      <3> QED
        BY <1>9, <1>10, <1>11, <1>12, <3>2
    <2>4. CASE q < b + Slots /\ rx.slot[q - b].len > 0
      <3>1. q - b \in SlotSet
        BY <1>0, <1>1, <2>4 DEF SlotSet
      <3> QED
        BY <1>10, <1>11, <1>12, <2>4, <3>1
    <2> QED
      BY <1>3, <2>1, <2>2, <2>3, <2>4
  <1>15. ASSUME NEW k \in SlotSet, rx'.slot[k].len > 0
         PROVE  /\ rx'.slot[k].seq = b + k /\ b + k < next
                /\ DataPacket(b + k) \notin InTransit' \cup seen'.lost
    <2>1. CASE k = j
      <3>1. DataPacket(b + k) = m
        BY <1>2, <1>9, <2>1
      <3> QED
        BY <1>5, <1>6, <1>8, <1>9, <1>10, <1>11, <1>12, <2>1, <3>1
    <2>2. CASE k # j
      BY <1>3, <1>5, <1>6, <1>10, <1>11, <1>15, <2>2
    <2> QED
      BY <2>1, <2>2
  <1>16. \A g \in b .. next : g % Slots = 0 /\ g + Slots <= next =>
           \E x \in InTransit' : x.op = "PARITY" /\ x.start = g
    BY <1>3, <1>6, <1>8
  <1>17. ReceivingGroup(b)'
    BY <1>3, <1>5, <1>6, <1>11, <1>14, <1>15, <1>16 DEF ReceivingGroup
  <1> QED
    BY <1>10, <1>11, <1>17

(***************************************************************************)
(* The parity that arrives in order settles the group: what was lost of it *)
(* is rebuilt, the buffers are cleared and the receiver moves on.          *)
(***************************************************************************)
LEMMA ParitySettlesGroup ==
    ASSUME FecShape, RebuildInv, SendingInv, Aligned, OneLost, Len(wire) > 0, Deliver(1),
           wire[1].op # "DATA", NEW b \in 0 .. next, ReceivingGroup(b)
    PROVE  /\ rx' = ClearGroup(StoreParity(rx, wire[1]))
           /\ recovered.seqs \subseteq recovered'.seqs
           /\ \A k \in SlotSet :
                DataPacket(b + k) \in seen.lost /\ LengthOf(b + k) = 2 => b + k \in recovered'.seqs
  <1> DEFINE m == wire[1]
             r == StoreParity(rx, m)
             F == Filled(r)
  <1>0. Slots \in Nat /\ Slots > 1
    BY FecAssumption
  <1>1. /\ next \in Nat /\ b \in Nat /\ wire \in Seq(Datagrams) /\ rx \in Receivers
        /\ 1 \in 1 .. Len(wire) /\ m \in Datagrams
    BY DEF FecShape
  <1>2. /\ m.op = "PARITY" /\ m.start = b /\ b + Slots <= next
        /\ \A s \in b .. b + Slots - 1 : DataPacket(s) \notin InTransit
    BY HeadOfGroup
  <1>3. WholeGroup(m) /\ (\A i \in SlotSet : rx.slot[i].len > 0 =>
                                               rx.slot[i].bits = {rx.slot[i].seq})
    BY <1>1, <1>2 DEF RebuildInv, Aligned, Uniform
  <1>4. TryRebuild(r)
    BY <1>2 DEF Deliver
  <1>5. /\ \A s \in b .. next - 1 :
             \/ DataPacket(s) \in InTransit \cup seen.lost
             \/ s < b + Slots /\ rx.slot[s - b].len > 0
        /\ \A k \in SlotSet : rx.slot[k].len > 0 =>
             rx.slot[k].seq = b + k /\ DataPacket(b + k) \notin seen.lost
    BY DEF ReceivingGroup
  <1> HIDE DEF m
  <1>6. /\ r \in Receivers /\ r.slot = rx.slot
        /\ r.parity = [have |-> TRUE, start |-> m.start, size |-> m.size,
                       bits |-> m.bits, len |-> m.len]
    BY <1>1, <1>2, StoreParityKeeps
  <1> HIDE DEF r
  <1>7. /\ r.parity.have /\ r.parity.start = b /\ r.parity.size = Slots
        /\ r.parity.len = m.len /\ WholeGroup(r.parity)
    BY <1>2, <1>3, <1>6 DEF WholeGroup
  <1>8. F = {i \in SlotSet : rx.slot[i].len > 0} /\ Foreign(r) = {}
    <2>1. 0 .. r.parity.size - 1 = SlotSet
      BY <1>7 DEF SlotSet
    <2>2. F = {i \in SlotSet : rx.slot[i].len > 0 /\ rx.slot[i].seq = b + i}
      BY <1>6, <1>7, <2>1, Zenon DEF Filled
    <2>3. Foreign(r) = {i \in SlotSet : rx.slot[i].len > 0} \ F
      BY <1>6, <2>1, Zenon DEF Foreign
    <2> HIDE DEF F
    <2> QED
      BY <1>5, <2>2, <2>3
  <1>9. \A k \in SlotSet : k \in F \/ DataPacket(b + k) \in seen.lost
    <2> TAKE k \in SlotSet
    <2>1. b + k \in b .. next - 1 /\ b + k \in b .. b + Slots - 1 /\ (b + k) - b = k
      BY <1>0, <1>1, <1>2 DEF SlotSet
    <2> HIDE DEF F
    <2> QED
      BY <1>2, <1>5, <1>8, <2>1
  <1>10. F \subseteq SlotSet /\ \A k \in SlotSet : DataPacket(b + k) \in seen.lost => k \notin F
    BY <1>5, <1>8
  <1>11. IsFiniteSet(SlotSet) /\ Cardinality(SlotSet) = Slots
    BY SlotsFinite
  <1>12. CASE \E k \in SlotSet : DataPacket(b + k) \in seen.lost
    <2>1. PICK k \in SlotSet : DataPacket(b + k) \in seen.lost
      BY <1>12
    <2>2. \A i \in SlotSet : DataPacket(b + i) \in seen.lost => i = k
      <3> TAKE i \in SlotSet
      <3>1. i \in Nat /\ k \in Nat
        BY <1>0 DEF SlotSet
      <3>2. DataPacket(b + i) = DataPacket(b + k) => b + i = b + k
        BY DEF DataPacket
      <3> QED
        BY <1>1, <2>1, <3>1, <3>2 DEF OneLost
    <2> HIDE DEF F
    <2>3. F = SlotSet \ {k}
      BY <1>9, <1>10, <2>1, <2>2
    <2>4. Cardinality(F) = Slots - 1
      BY <1>11, <2>3, FS_RemoveElement
    <2>5. Rebuilds(r)
      BY <1>0, <1>7, <1>8, <2>4 DEF Rebuilds, F
    <2>6. PICK g \in SlotSet :
            /\ F = SlotSet \ {g}
            /\ Rebuilt(r) = [seq |-> r.parity.start + g, len |-> r.parity.len,
                             bits |-> {r.parity.start + g}]
      BY <1>3, <1>6, <1>7, <2>4, RebuiltIsTheGap DEF F
    <2>7. g = k
      BY <2>3, <2>6
    <2>8. Rebuilt(r) = [seq |-> b + k, len |-> m.len, bits |-> {b + k}]
      BY <1>7, <2>6, <2>7
    <2>9. /\ rx' = ClearGroup(r)
          /\ recovered' = [last |-> Rebuilt(r), seqs |-> recovered.seqs \cup
               (IF Authentic(Rebuilt(r)) THEN {Rebuilt(r).seq} ELSE {})]
      BY <1>4, <2>5 DEF TryRebuild
    <2>10. LengthOf(b + k) = 2 => Authentic(Rebuilt(r))
      <3> SUFFICES ASSUME LengthOf(b + k) = 2 PROVE Authentic(Rebuilt(r))
        OBVIOUS
      <3>1. b + k \in m.bits
        BY <1>0, <1>1, <1>2, <1>3 DEF WholeGroup, SlotSet
      <3>2. 2 <= m.len /\ m.len \in 0 .. 2
        BY <1>1, <1>2, <1>3, <3>1, PacketKinds DEF WholeGroup
      <3>3. m.len = 2
        BY <3>2
      <3> QED
        BY <2>8, <3>3 DEF Authentic
    <2>11. recovered.seqs \subseteq recovered'.seqs
      BY <2>9
    <2>12. LengthOf(b + k) = 2 => b + k \in recovered'.seqs
      BY <2>8, <2>9, <2>10
    <2> QED
      BY <2>2, <2>9, <2>11, <2>12 DEF r, m
  <1>13. CASE ~ \E k \in SlotSet : DataPacket(b + k) \in seen.lost
    <2>1. F = SlotSet
      BY <1>9, <1>10, <1>13, Zenon
    <2>2. Cardinality(F) = r.parity.size /\ ~ Rebuilds(r)
      BY <1>0, <1>7, <1>11, <2>1 DEF Rebuilds
    <2>3. rx' = ClearGroup(r) /\ recovered' = recovered
      BY <1>4, <1>7, <2>2 DEF TryRebuild
    <2> QED
      BY <1>13, <2>3 DEF r, m
  <1> QED
    BY <1>12, <1>13

(***************************************************************************)
(* The receiver is then at the next group.                                 *)
(***************************************************************************)
LEMMA ParityMovesReceiving ==
    ASSUME FecShape, RebuildInv, SendingInv, Aligned, OneLost, Len(wire) > 0, Deliver(1),
           wire[1].op # "DATA", NEW b \in 0 .. next, ReceivingGroup(b)
    PROVE  ~ rx'.parity.have /\ b + Slots \in 0 .. next' /\ ReceivingGroup(b + Slots)'
  <1> DEFINE m == wire[1]
             c == b + Slots
  <1>0. Slots \in Nat /\ Slots > 1
    BY FecAssumption
  <1>1. /\ next \in Nat /\ b \in Nat /\ wire \in Seq(Datagrams) /\ rx \in Receivers
        /\ 1 \in 1 .. Len(wire) /\ m \in Datagrams /\ seen.lost \subseteq Datagrams
    BY DEF FecShape, Observations
  <1>2. /\ m.op = "PARITY" /\ m.start = b /\ b + Slots <= next
        /\ \A x \in InTransit \ {m} : First(x) >= b + Slots
    BY HeadOfGroup
  <1>3. wire' = Without(wire, 1) /\ next' = next /\ seen'.lost = seen.lost
    BY <1>1, DeliverEffect
  <1>4. InTransit' = InTransit \ {m}
    <2>1. \A i, k \in 1 .. Len(wire) : i < k => Place(wire[i]) < Place(wire[k])
      BY DEF SendingInv
    <2> QED
      BY <1>1, <1>3, <2>1, WithoutOrdered
  <1>5. /\ b % Slots = 0
        /\ \A g \in b .. next : g % Slots = 0 /\ g + Slots <= next =>
             \E x \in InTransit : x.op = "PARITY" /\ x.start = g
        /\ \A s \in b .. next - 1 :
             \/ DataPacket(s) \in InTransit \cup seen.lost
             \/ s < b + Slots /\ rx.slot[s - b].len > 0
        /\ \A x \in seen.lost : LengthOf(x.seq) = 2 /\ x.seq < b => x.seq \in recovered.seqs
    BY DEF ReceivingGroup
  <1>6. /\ rx' = ClearGroup(StoreParity(rx, m))
        /\ recovered.seqs \subseteq recovered'.seqs
        /\ \A k \in SlotSet :
             DataPacket(b + k) \in seen.lost /\ LengthOf(b + k) = 2 => b + k \in recovered'.seqs
    BY ParitySettlesGroup
  <1>7. rx'.parity.have = FALSE /\ \A i \in SlotSet : rx'.slot[i].len = 0
    BY <1>1, <1>2, <1>6, StoreParityKeeps, ClearGroupEmpties, Zenon
  <1>8. c % Slots = 0
    BY <1>1, <1>5, GroupStarts
  <1> HIDE DEF m
  <1>9. c \in Nat /\ c <= next /\ b < c /\ c = b + Slots
    BY <1>0, <1>1, <1>2
  <1> HIDE DEF c
  <1>10. ASSUME NEW g \in c .. next, g % Slots = 0, g + Slots <= next
         PROVE  \E x \in InTransit' : x.op = "PARITY" /\ x.start = g
    <2>1. g \in b .. next /\ g # b
      BY <1>1, <1>9
    <2>2. PICK x \in InTransit : x.op = "PARITY" /\ x.start = g
      BY <1>5, <1>10, <2>1
    <2> QED
      BY <1>2, <1>4, <2>1, <2>2
  <1>11. ASSUME NEW s \in c .. next - 1
         PROVE  DataPacket(s) \in InTransit' \cup seen'.lost
    <2>1. s \in b .. next - 1 /\ ~ (s < b + Slots)
      BY <1>1, <1>9
    <2>2. DataPacket(s).op = "DATA"
      BY DEF DataPacket
    <2> QED
      BY <1>2, <1>3, <1>4, <1>5, <2>1, <2>2
  <1>12. ASSUME NEW x \in seen.lost, LengthOf(x.seq) = 2, x.seq < c
         PROVE  x.seq \in recovered'.seqs
    <2>1. x.seq \in Nat /\ x = DataPacket(x.seq)
      BY <1>1, PacketKinds DEF OneLost
    <2>2. CASE x.seq < b
      BY <1>5, <1>6, <1>12, <2>2
    <2>3. CASE ~ (x.seq < b)
      <3>1. x.seq - b \in SlotSet /\ b + (x.seq - b) = x.seq
        BY <1>0, <1>1, <1>9, <1>12, <2>1, <2>3 DEF SlotSet
      <3> QED
        BY <1>6, <1>12, <2>1, <3>1
    <2> QED
      BY <2>2, <2>3
  <1>13. \A x \in InTransit' : First(x) >= c
    BY <1>2, <1>4, <1>9
  <1>14. ReceivingGroup(c)'
    BY <1>3, <1>7, <1>8, <1>10, <1>11, <1>12, <1>13 DEF ReceivingGroup
  <1> QED
    BY <1>3, <1>7, <1>9, <1>14

(***************************************************************************)
(* ReceivingInv is inductive.                                              *)
(***************************************************************************)
LEMMA ReceivingInvariant ==
    /\ FecInit => ReceivingInv
    /\ /\ FecShape /\ FecBounds /\ RebuildInv /\ SendingInv /\ ReceivingInv
       /\ [FecNext]_fvars
       => ReceivingInv'
  <1>0. Slots \in Nat /\ Slots > 1
    BY FecAssumption
  <1>1. ASSUME FecInit, Aligned
        PROVE  ~ rx.parity.have /\ \E b \in 0 .. next : ReceivingGroup(b)
    <2>1. /\ next \in Nat /\ seen.first = next /\ wire = <<>> /\ seen.lost = {}
          /\ \A i \in SlotSet : rx.slot[i].len = 0
          /\ rx.parity.have = FALSE
      BY <1>1, FecAssumption DEF FecInit, NoPacket, NoParity
    <2>2. InTransit = {}
      BY <2>1 DEF InTransit
    <2>3. next % Slots = 0
      BY <1>1, <2>1 DEF Aligned
    <2>4. \A g \in next .. next : ~ (g + Slots <= next)
      BY <1>0, <2>1
    <2>5. next .. next - 1 = {} /\ next \in 0 .. next
      BY <2>1
    <2>6. ReceivingGroup(next)
      BY <2>1, <2>2, <2>3, <2>4, <2>5 DEF ReceivingGroup
    <2> QED
      BY <2>1, <2>5, <2>6
  <1>2. ASSUME FecShape, FecBounds, RebuildInv, SendingInv, ReceivingInv, [FecNext]_fvars,
               Aligned', OneLost'
        PROVE  ~ rx'.parity.have /\ \E b \in 0 .. next' : ReceivingGroup(b)'
    <2>1. Aligned
      BY <1>2, ScopesShrink
    <2>2. ~ Gap /\ ~ Answer /\ ~ \E e \in {"tx", "rx"} : AbrUpdate(e)
      <3>1. seen'.gaps = 0 /\ seen'.back = 0 /\ ~ seen'.abr
        BY <1>2 DEF Aligned
      <3> QED
        BY <1>2, <3>1, GapEffect, AnswerEffect, AbrEffect, Zenon
    <2>3. next \in Nat
      BY <1>2 DEF FecShape
    <2>4. CASE SendPacket
      <3>1. next' = next + 1 /\ rx' = rx /\ seen'.lost = seen.lost
        BY <1>2, <2>4, SendEffect
      <3>2. ~ rx.parity.have /\ \E b \in 0 .. next : ReceivingGroup(b)
        BY <1>2, <2>1, <3>1 DEF ReceivingInv, OneLost
      <3>3. PICK b \in 0 .. next : ReceivingGroup(b)
        BY <3>2
      <3>4. ReceivingGroup(b)' /\ b \in 0 .. next'
        BY <1>2, <2>1, <2>3, <2>4, <3>1, <3>3, SendKeepsReceiving
      <3> QED
        BY <3>1, <3>2, <3>4
    <2>5. ASSUME NEW i \in 1 .. Len(wire), LosePacket(i)
          PROVE  ~ rx'.parity.have /\ \E b \in 0 .. next' : ReceivingGroup(b)'
      <3>1. next' = next /\ rx' = rx /\ seen'.lost = seen.lost \cup {wire[i]}
        BY <1>2, <2>5, LoseEffect
      <3>2. wire[i].op = "DATA" /\ OneLost
        BY <1>2, <3>1 DEF OneLost
      <3>3. ~ rx.parity.have /\ \E b \in 0 .. next : ReceivingGroup(b)
        BY <1>2, <2>1, <3>2 DEF ReceivingInv
      <3>4. PICK b \in 0 .. next : ReceivingGroup(b)
        BY <3>3
      <3>5. ReceivingGroup(b)'
        BY <1>2, <2>1, <2>5, <3>2, <3>4, LoseKeepsReceiving
      <3> QED
        BY <3>1, <3>3, <3>5
    <2>6. ASSUME NEW i \in 1 .. Len(wire), Deliver(i)
          PROVE  ~ rx'.parity.have /\ \E b \in 0 .. next' : ReceivingGroup(b)'
      <3>1. next' = next /\ seen'.lost = seen.lost /\ seen'.ordered = (seen.ordered /\ i = 1)
        BY <1>2, <2>6, DeliverEffect
      <3>2. i = 1 /\ OneLost /\ Len(wire) > 0
        <4>1. wire \in Seq(Datagrams) /\ Len(wire) \in Nat
          BY <1>2 DEF FecShape
        <4>2. i = 1
          BY <1>2, <3>1, Zenon DEF Aligned
        <4>3. OneLost
          BY <1>2, <3>1 DEF OneLost
        <4> QED
          BY <4>1, <4>2, <4>3
      <3>3. ~ rx.parity.have /\ \E b \in 0 .. next : ReceivingGroup(b)
        BY <1>2, <2>1, <3>2 DEF ReceivingInv
      <3>4. PICK b \in 0 .. next : ReceivingGroup(b)
        BY <3>3
      <3>5. Deliver(1)
        BY <2>6, <3>2
      <3>6. CASE wire[1].op = "DATA"
        <4>1. ~ rx'.parity.have /\ ReceivingGroup(b)'
          BY <1>2, <2>1, <3>2, <3>3, <3>4, <3>5, <3>6, DataKeepsReceiving
        <4> QED
          BY <3>1, <4>1
      <3>7. CASE wire[1].op # "DATA"
        <4>1. ~ rx'.parity.have /\ b + Slots \in 0 .. next' /\ ReceivingGroup(b + Slots)'
          BY <1>2, <2>1, <3>2, <3>4, <3>5, <3>7, ParityMovesReceiving
        <4> QED
          BY <4>1
      <3> QED
        BY <3>6, <3>7
    <2>7. CASE UNCHANGED fvars
      <3>1. /\ next' = next /\ wire' = wire /\ rx' = rx /\ recovered' = recovered
            /\ seen' = seen /\ InTransit' = InTransit
        BY <2>7 DEF fvars, InTransit
      <3>2. ~ rx.parity.have /\ \E b \in 0 .. next : ReceivingGroup(b)
        BY <1>2, <2>1, <3>1 DEF ReceivingInv, OneLost
      <3>3. PICK b \in 0 .. next : ReceivingGroup(b)
        BY <3>2
      <3>4. ReceivingGroup(b)'
        BY <3>1, <3>3 DEF ReceivingGroup
      <3> QED
        BY <3>1, <3>2, <3>4
    <2> QED
      BY <1>2, <2>2, <2>4, <2>5, <2>6, <2>7 DEF FecNext
  <1> QED
    BY <1>1, <1>2 DEF ReceivingInv

(***************************************************************************)
(* A packet whose group has arrived is of a group the receiver has left.   *)
(***************************************************************************)
LEMMA ArrivedIsBehind ==
    ASSUME FecShape, NEW b \in 0 .. next, ReceivingGroup(b),
           NEW s \in Nat, GroupArrived(s)
    PROVE  s < b
  <1>0. Slots \in Nat /\ Slots > 1
    BY FecAssumption
  <1> DEFINE o == s % Slots
             g == s - o
  <1>1. o \in SlotSet /\ g \in Nat /\ g % Slots = 0
    BY GroupOf
  <1>2. b \in Nat /\ next \in Nat /\ wire \in Seq(Datagrams)
    BY DEF FecShape
  <1>3. /\ b % Slots = 0
        /\ \A h \in b .. next : h % Slots = 0 /\ h + Slots <= next =>
             \E m \in InTransit : m.op = "PARITY" /\ m.start = h
    BY DEF ReceivingGroup
  <1>4. /\ next >= g + Slots
        /\ \A i \in 1 .. Len(wire) :
             (IF wire[i].op = "DATA" THEN wire[i].seq ELSE wire[i].start) >= g + Slots
    BY DEF GroupArrived
  <1> HIDE DEF o
  <1>5. o \in Nat /\ o < Slots /\ s = g + o
    BY <1>0, <1>1 DEF SlotSet
  <1> HIDE DEF g
  <1> SUFFICES ASSUME s >= b PROVE FALSE
    BY <1>2
  <1>6. ~ (g < b)
    <2> SUFFICES ASSUME g < b PROVE FALSE
      OBVIOUS
    <2>1. g + Slots <= b
      BY <1>1, <1>2, <1>3, GroupStarts
    <2> QED
      BY <1>0, <1>1, <1>2, <1>5, <2>1
  <1>7. g \in b .. next
    BY <1>0, <1>1, <1>2, <1>4, <1>6
  <1>8. PICK m \in InTransit : m.op = "PARITY" /\ m.start = g
    BY <1>1, <1>3, <1>4, <1>7
  <1>9. PICK i \in 1 .. Len(wire) : m = wire[i]
    BY <1>8 DEF InTransit
  <1>10. g >= g + Slots
    BY <1>4, <1>8, <1>9
  <1> QED
    BY <1>0, <1>1, <1>10

(***************************************************************************)
(* In order, with aligned groups and a single loss that is as long as any  *)
(* packet of its group, the lost packet is back once its parity has        *)
(* arrived: for every group size, length of the run and loss rates.        *)
(***************************************************************************)
THEOREM LossIsRecovered == FecSpec => []LossRecovered
  <1>1. ASSUME FecShape, SendingInv, ReceivingInv
        PROVE  LossRecovered
    <2> SUFFICES ASSUME Aligned, NEW m \in seen.lost, seen.lost = {m}, m.op = "DATA",
                        LengthOf(m.seq) = 2, GroupArrived(m.seq)
                 PROVE  m.seq \in recovered.seqs
      BY DEF LossRecovered
    <2>1. OneLost
      BY DEF OneLost
    <2>2. PICK b \in 0 .. next : ReceivingGroup(b)
      BY <1>1, <2>1 DEF ReceivingInv
    <2>3. m.seq \in Nat
      BY <1>1, PacketKinds DEF FecShape, Observations
    <2>4. m.seq < b
      BY <1>1, <2>2, <2>3, ArrivedIsBehind
    <2> QED
      BY <2>2, <2>4 DEF ReceivingGroup
  <1> QED
    BY <1>1, FecShapeInvariant, FecBoundsInvariant, RebuildInvariant, SendingInvariant,
       ReceivingInvariant, PTL DEF FecSpec
============================================================================
