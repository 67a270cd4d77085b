----------------------------- MODULE CoreProofs -----------------------------
(***************************************************************************)
(* Proofs about the two structures of lib/core that threads share.         *)
(*                                                                         *)
(* The ring of ring.h, for every ring size and every set of items: the     *)
(* inductive invariant RingInv, the absence of a data race on a slot, and  *)
(* the refinement of the bounded queue.                                    *)
(*                                                                         *)
(* The packet pool of pool.c, for every number of threads and every pool   *)
(* size: the stack is never indexed outside its bounds, and no buffer      *)
(* count is lost.                                                          *)
(***************************************************************************)
EXTENDS SpscRing, PacketPool, SequenceTheorems, FiniteSetTheorems, TLAPS

(***************************************************************************)
(* The masked increment of ring.h in linear form.                          *)
(***************************************************************************)
LEMMA NextIdxLinear ==
    ASSUME NEW i \in Index
    PROVE  /\ NextIdx(i) = IF i = RingSize - 1 THEN 0 ELSE i + 1
           /\ NextIdx(i) \in Index
  <1>1. RingSize \in Nat /\ RingSize >= 2
    BY RingSizeAssumption
  <1>2. CASE i = RingSize - 1
    <2>1. (i + 1) % RingSize = 0
      BY <1>1, <1>2, SMT
    <2> QED
      BY <1>1, <1>2, <2>1 DEF NextIdx, Index
  <1>3. CASE i # RingSize - 1
    <2>1. i \in Nat /\ i + 1 < RingSize
      BY <1>1, <1>3 DEF Index
    <2>2. (i + 1) % RingSize = i + 1
      BY <1>1, <2>1, SMT
    <2> QED
      BY <1>1, <1>3, <2>1, <2>2 DEF NextIdx, Index
  <1> QED
    BY <1>2, <1>3

(***************************************************************************)
(* ring_init establishes the invariant.                                    *)
(***************************************************************************)
LEMMA InitRingInv == Init => RingInv
  BY RingSizeAssumption
  DEF Init, RingInv, TypeOK, ProducerOK, ConsumerOK, ItemsOK, Count, SlotOf, Index

(***************************************************************************)
(* What the positions of the published items say about the free slot.      *)
(***************************************************************************)
LEMMA CountFacts ==
    ASSUME TypeOK
    PROVE  /\ Count \in 0 .. RingSize - 1
           /\ \A i \in 0 .. Count - 1 : SlotOf(i) \in Index /\ SlotOf(i) # write_idx
           /\ Count < RingSize - 1 <=> NextIdx(write_idx) # read_idx
           /\ Count > 0 <=> write_idx # read_idx
  <1>1. RingSize \in Nat /\ RingSize >= 2
    BY RingSizeAssumption
  <1>2. write_idx \in 0 .. RingSize - 1 /\ read_idx \in 0 .. RingSize - 1
    BY DEF TypeOK, Index
  <1>3. NextIdx(write_idx) = IF write_idx = RingSize - 1 THEN 0 ELSE write_idx + 1
    BY <1>2, NextIdxLinear DEF Index
  <1>4. Count \in 0 .. RingSize - 1
    BY <1>1, <1>2 DEF Count
  <1>5. ASSUME NEW i \in 0 .. Count - 1
        PROVE  SlotOf(i) \in Index /\ SlotOf(i) # write_idx
    BY <1>1, <1>2, <1>4, <1>5 DEF Count, SlotOf, Index
  <1>6. Count < RingSize - 1 <=> NextIdx(write_idx) # read_idx
    BY <1>1, <1>2, <1>3 DEF Count
  <1>7. Count > 0 <=> write_idx # read_idx
    BY <1>1, <1>2 DEF Count
  <1> QED
    BY <1>4, <1>5, <1>6, <1>7

(***************************************************************************)
(* Storing write_idx appends one item at the free slot.                    *)
(***************************************************************************)
LEMMA PublishCount ==
    ASSUME TypeOK, Count < RingSize - 1,
           write_idx' = NextIdx(write_idx), read_idx' = read_idx
    PROVE  /\ Count' = Count + 1
           /\ \A i \in 0 .. Count : SlotOf(i)' = SlotOf(i)
           /\ SlotOf(Count) = write_idx
  <1>1. RingSize \in Nat /\ RingSize >= 2
    BY RingSizeAssumption
  <1>2. write_idx \in 0 .. RingSize - 1 /\ read_idx \in 0 .. RingSize - 1
    BY DEF TypeOK, Index
  <1>3. write_idx' = IF write_idx = RingSize - 1 THEN 0 ELSE write_idx + 1
    BY <1>2, NextIdxLinear DEF Index
  <1>4. Count' = Count + 1
    BY <1>1, <1>2, <1>3 DEF Count
  <1>5. \A i \in 0 .. Count : SlotOf(i)' = SlotOf(i)
    BY DEF SlotOf
  <1>6. SlotOf(Count) = write_idx
    BY <1>1, <1>2 DEF Count, SlotOf
  <1> QED
    BY <1>4, <1>5, <1>6

(***************************************************************************)
(* Storing read_idx removes the oldest item and shifts the others.         *)
(***************************************************************************)
LEMMA TakeCount ==
    ASSUME TypeOK, Count > 0,
           read_idx' = NextIdx(read_idx), write_idx' = write_idx
    PROVE  /\ Count' = Count - 1
           /\ \A i \in 0 .. Count - 2 : SlotOf(i)' = SlotOf(i + 1)
           /\ SlotOf(0) = read_idx
  <1>1. RingSize \in Nat /\ RingSize >= 2
    BY RingSizeAssumption
  <1>2. write_idx \in 0 .. RingSize - 1 /\ read_idx \in 0 .. RingSize - 1
    BY DEF TypeOK, Index
  <1>3. read_idx' = IF read_idx = RingSize - 1 THEN 0 ELSE read_idx + 1
    BY <1>2, NextIdxLinear DEF Index
  <1>4. Count' = Count - 1
    BY <1>1, <1>2, <1>3 DEF Count
  <1>5. ASSUME NEW i \in 0 .. Count - 2
        PROVE  SlotOf(i)' = SlotOf(i + 1)
    <2>1. i \in Nat /\ i <= RingSize - 3
      BY <1>1, <1>2, <1>5 DEF Count
    <2> QED
      BY <1>1, <1>2, <1>3, <2>1 DEF SlotOf
  <1>6. SlotOf(0) = read_idx
    BY <1>1, <1>2 DEF SlotOf
  <1> QED
    BY <1>4, <1>5, <1>6

(***************************************************************************)
(* Every step of ring_push and ring_pop preserves the invariant.           *)
(***************************************************************************)
LEMMA NextRingInv == RingInv /\ [Next]_vars => RingInv'
  <1> SUFFICES ASSUME RingInv, [Next]_vars
               PROVE  RingInv'
    OBVIOUS
  <1> USE DEF RingInv
  <1>0. RingSize \in Nat /\ RingSize >= 2 /\ NoItem \notin Items
    BY RingSizeAssumption, NoItemAssumption
  <1>c. /\ Count \in 0 .. RingSize - 1
        /\ \A i \in 0 .. Count - 1 : SlotOf(i) \in Index /\ SlotOf(i) # write_idx
        /\ Count < RingSize - 1 <=> NextIdx(write_idx) # read_idx
        /\ Count > 0 <=> write_idx # read_idx
    BY CountFacts
  <1>1. ASSUME NEW item \in Items, PushBegin(item)
        PROVE  RingInv'
    BY <1>1 DEF PushBegin, TypeOK, ProducerOK, ConsumerOK, ItemsOK, Count, SlotOf
  <1>2. CASE PushFull
    BY <1>2, ZenonT(30) DEF PushFull, TypeOK, ProducerOK, ConsumerOK, ItemsOK, Count, SlotOf
  <1>3. CASE PushRoom
    <2>1. Count < RingSize - 1
      BY <1>3, <1>c DEF PushRoom, ProducerOK
    <2>2. Count' = Count /\ \A i : SlotOf(i)' = SlotOf(i)
      BY <1>3 DEF PushRoom, Count, SlotOf
    <2> QED
      BY <1>3, <2>1, <2>2 DEF PushRoom, TypeOK, ProducerOK, ConsumerOK, ItemsOK
  <1>4. CASE PushWrite
    <2>1. /\ push.w = write_idx /\ push.item \in Items
          /\ Count < RingSize - 1
      BY <1>4 DEF PushWrite, ProducerOK
    <2>2. Count' = Count /\ \A i : SlotOf(i)' = SlotOf(i)
      BY <1>4 DEF PushWrite, Count, SlotOf
    <2>3. TypeOK'
      BY <1>4, <2>1 DEF PushWrite, TypeOK
    <2>4. ProducerOK'
      BY <1>4, <2>1, <2>2 DEF PushWrite, ProducerOK, TypeOK
    <2>5. ConsumerOK'
      BY <1>4, <1>c, <2>1, <2>2 DEF PushWrite, ConsumerOK, TypeOK
    <2>6. ItemsOK'
      BY <1>4, <1>c, <2>1, <2>2 DEF PushWrite, ItemsOK, TypeOK
    <2> QED
      BY <2>3, <2>4, <2>5, <2>6
  <1>5. CASE PushPublish
    <2>1. /\ push.w = write_idx /\ push.item \in Items
          /\ Count < RingSize - 1 /\ slots[write_idx] = push.item
      BY <1>5 DEF PushPublish, ProducerOK
    <2>2. /\ Count' = Count + 1
          /\ \A i \in 0 .. Count : SlotOf(i)' = SlotOf(i)
          /\ SlotOf(Count) = write_idx
      BY <1>5, <2>1, PublishCount DEF PushPublish
    <2>3. TypeOK'
      <3>1. NextIdx(push.w) \in Index
        BY NextIdxLinear DEF TypeOK
      <3> QED
        BY <1>5, <3>1, Zenon DEF PushPublish, TypeOK
    <2>4. ProducerOK'
      BY <1>5 DEF PushPublish, ProducerOK, TypeOK
    <2>5. ConsumerOK'
      BY <1>5, <1>c, <2>2 DEF PushPublish, ConsumerOK
    <2>6. ItemsOK'
      BY <1>0, <1>5, <1>c, <2>1, <2>2 DEF PushPublish, ItemsOK
    <2> QED
      BY <2>3, <2>4, <2>5, <2>6
  <1>6. CASE PopBegin
    BY <1>6 DEF PopBegin, TypeOK, ProducerOK, ConsumerOK, ItemsOK, Count, SlotOf
  <1>7. CASE PopEmpty
    BY <1>7 DEF PopEmpty, TypeOK, ProducerOK, ConsumerOK, ItemsOK, Count, SlotOf
  <1>8. CASE PopReady
    <2>1. Count > 0
      BY <1>8, <1>c DEF PopReady, ConsumerOK
    <2>2. Count' = Count /\ \A i : SlotOf(i)' = SlotOf(i)
      BY <1>8 DEF PopReady, Count, SlotOf
    <2> QED
      BY <1>8, <2>1, <2>2 DEF PopReady, TypeOK, ProducerOK, ConsumerOK, ItemsOK
  <1>9. CASE PopRead
    <2>1. Count' = Count /\ \A i : SlotOf(i)' = SlotOf(i)
      BY <1>9 DEF PopRead, Count, SlotOf
    <2> QED
      BY <1>9, <2>1, Zenon DEF PopRead, TypeOK, ProducerOK, ConsumerOK, ItemsOK
  <1>10. CASE PopPublish
    <2>1. pop.rd = read_idx /\ Count > 0
      BY <1>10 DEF PopPublish, ConsumerOK
    <2>2. /\ Count' = Count - 1
          /\ \A i \in 0 .. Count - 2 : SlotOf(i)' = SlotOf(i + 1)
      BY <1>10, <2>1, TakeCount DEF PopPublish
    <2>3. TypeOK'
      <3>1. NextIdx(pop.rd) \in Index
        BY NextIdxLinear DEF TypeOK
      <3> QED
        BY <1>10, <3>1 DEF PopPublish, TypeOK
    <2>4. ProducerOK'
      BY <1>0, <1>10, <1>c, <2>2 DEF PopPublish, ProducerOK
    <2>5. ConsumerOK'
      BY <1>10 DEF PopPublish, ConsumerOK, TypeOK
    <2>6. ItemsOK'
      BY <1>0, <1>10, <1>c, <2>1, <2>2 DEF PopPublish, ItemsOK
    <2> QED
      BY <2>3, <2>4, <2>5, <2>6
  <1>11. CASE UNCHANGED vars
    BY <1>11 DEF vars, TypeOK, ProducerOK, ConsumerOK, ItemsOK, Count, SlotOf
  <1> QED
    BY <1>1, <1>2, <1>3, <1>4, <1>5, <1>6, <1>7, <1>8, <1>9, <1>10, <1>11
    DEF Next, Producer, Consumer

(***************************************************************************)
(* The invariant of the ring holds in every reachable state.               *)
(***************************************************************************)
THEOREM RingInvariant == Spec => []RingInv
  BY InitRingInv, NextRingInv, PTL DEF Spec

(***************************************************************************)
(* No data race on a slot: the producer's plain store slots[w] = item and  *)
(* the consumer's plain load slots[rd] never meet, for any ring size.      *)
(***************************************************************************)
THEOREM RaceFree == Spec => []SlotExclusive
  <1>1. RingInv => SlotExclusive
    <2> SUFFICES ASSUME RingInv, push.pc = "room", pop.pc = "ready", push.w = pop.rd
                 PROVE  FALSE
      BY DEF SlotExclusive
    <2>1. write_idx = read_idx /\ Count > 0
      BY DEF RingInv, ProducerOK, ConsumerOK
    <2> QED
      BY <2>1, CountFacts DEF RingInv
  <1> QED
    BY <1>1, RingInvariant, PTL

(***************************************************************************)
(* ring_push returns -1 only when RingSize - 1 items are waiting.          *)
(***************************************************************************)
THEOREM RefusalSound == Spec => RefusedOnlyWhenFull
  <1>1. RingInv /\ [Next]_vars
          => [push.pc = "loaded" /\ push'.pc = "idle" => Count = RingSize - 1]_vars
    <2> SUFFICES ASSUME RingInv, [Next]_vars, push.pc = "loaded", push'.pc = "idle"
                 PROVE  Count = RingSize - 1
      OBVIOUS
    <2>0. RingSize \in Nat /\ RingSize >= 2
      BY RingSizeAssumption
    <2>1. PushFull
      BY DEF Next, Producer, Consumer, vars, RingInv, TypeOK, PushBegin, PushRoom,
             PushWrite, PushPublish, PopBegin, PopEmpty, PopReady, PopRead, PopPublish
    <2>2. NextIdx(write_idx) = read_idx
      BY <2>1 DEF PushFull, RingInv, ProducerOK
    <2> QED
      BY <2>0, <2>2, CountFacts DEF RingInv
  <1> QED
    BY <1>1, RingInvariant, PTL DEF Spec, RefusedOnlyWhenFull

(***************************************************************************)
(* The mapped queue is a sequence of items of length Count.                *)
(***************************************************************************)
LEMMA FunctionIsSeq ==
    ASSUME NEW n \in Nat, NEW S, NEW f \in [1 .. n -> S]
    PROVE  f \in Seq(S) /\ Len(f) = n
  <1>1. f \in Seq(S)
    BY SeqDef
  <1>2. 1 .. Len(f) = 1 .. n /\ Len(f) \in Nat
    BY <1>1, LenProperties
  <1> QED
    BY <1>1, <1>2

QueueOK == Contents \in [1 .. Count -> Items] /\ Count \in Nat

LEMMA ContentsSeq == RingInv => QueueOK
  <1> SUFFICES ASSUME RingInv
               PROVE  QueueOK
    OBVIOUS
  <1>1. Count \in Nat
    BY CountFacts, RingSizeAssumption DEF RingInv
  <1>2. \A i \in 1 .. Count : slots[SlotOf(i - 1)] \in Items
    <2> SUFFICES ASSUME NEW i \in 1 .. Count
                 PROVE  slots[SlotOf(i - 1)] \in Items
      OBVIOUS
    <2>1. i - 1 \in 0 .. Count - 1
      BY <1>1
    <2> QED
      BY <2>1 DEF RingInv, ItemsOK
  <1> QED
    BY <1>1, <1>2 DEF Contents, QueueOK

(***************************************************************************)
(* A function on 1 .. n + 1 that agrees with f on 1 .. n is f with its     *)
(* last value appended; one that is f shifted by one is its tail.          *)
(***************************************************************************)
LEMMA AppendFunction ==
    ASSUME NEW n \in Nat, NEW S, NEW f \in [1 .. n -> S],
           NEW g \in [1 .. n + 1 -> S], \A i \in 1 .. n : g[i] = f[i]
    PROVE  g = Append(f, g[n + 1])
  <1>1. f \in Seq(S) /\ Len(f) = n
    BY FunctionIsSeq
  <1>2. g \in Seq(S) /\ Len(g) = n + 1 /\ g[n + 1] \in S
    BY FunctionIsSeq
  <1>3. /\ Append(f, g[n + 1]) \in Seq(S)
        /\ Len(Append(f, g[n + 1])) = n + 1
        /\ \A i \in 1 .. n : Append(f, g[n + 1])[i] = f[i]
        /\ Append(f, g[n + 1])[n + 1] = g[n + 1]
    BY <1>1, <1>2, AppendProperties
  <1>4. \A i \in 1 .. Len(g) : g[i] = Append(f, g[n + 1])[i]
    BY <1>2, <1>3
  <1> QED
    BY <1>2, <1>3, <1>4, SeqEqual

LEMMA TailFunction ==
    ASSUME NEW n \in Nat, NEW S, NEW f \in [1 .. n + 1 -> S],
           NEW g \in [1 .. n -> S], \A i \in 1 .. n : g[i] = f[i + 1]
    PROVE  g = Tail(f) /\ Head(f) = f[1]
  <1>1. f \in Seq(S) /\ Len(f) = n + 1
    BY FunctionIsSeq
  <1>2. g \in Seq(S) /\ Len(g) = n
    BY FunctionIsSeq
  <1>3. f # << >>
    BY <1>1, EmptySeq
  <1>4. /\ Tail(f) \in Seq(S)
        /\ Len(Tail(f)) = n
        /\ \A i \in 1 .. n : Tail(f)[i] = f[i + 1]
    BY <1>1, <1>3, HeadTailProperties
  <1>5. g = Tail(f)
    BY <1>2, <1>4, SeqEqual
  <1>6. Head(f) = f[1]
    BY <1>1
  <1> QED
    BY <1>5, <1>6

(***************************************************************************)
(* The producer's store of write_idx is the queue's Put, the consumer's    *)
(* store of read_idx its Take; every other step leaves the queue alone.    *)
(***************************************************************************)
LEMMA StepRefines ==
    ASSUME RingInv, QueueOK', [Next]_vars
    PROVE  [Fifo!Next]_(Fifo!vars)
  <1>0. RingSize \in Nat /\ RingSize >= 2
    BY RingSizeAssumption
  <1>1. /\ Contents \in [1 .. Count -> Items] /\ Count \in Nat
        /\ Contents' \in [1 .. Count' -> Items] /\ Count' \in Nat
    BY ContentsSeq DEF QueueOK
  <1>2. Contents \in Seq(Items) /\ Len(Contents) = Count
    BY <1>1, FunctionIsSeq
  <1>3. CASE PushWrite
    <2>1. push.w = write_idx /\ taken' = taken
      BY <1>3 DEF PushWrite, RingInv, ProducerOK
    <2>2. Count' = Count /\ \A i : SlotOf(i)' = SlotOf(i)
      BY <1>3 DEF PushWrite, Count, SlotOf
    <2>3. \A i \in 1 .. Count : Contents'[i] = Contents[i]
      <3> SUFFICES ASSUME NEW i \in 1 .. Count
                   PROVE  slots'[SlotOf(i - 1)'] = slots[SlotOf(i - 1)]
        BY <2>2 DEF Contents
      <3>1. i - 1 \in 0 .. Count - 1
        BY <1>1
      <3>2. SlotOf(i - 1) \in Index /\ SlotOf(i - 1) # push.w
        BY <2>1, <3>1, CountFacts DEF RingInv
      <3> QED
        BY <1>3, <2>2, <3>2 DEF PushWrite, RingInv, TypeOK
    <2>4. Contents' = Contents
      BY <1>1, <2>2, <2>3
    <2> QED
      BY <2>1, <2>4 DEF Fifo!vars
  <1>4. CASE PushPublish
    <2>1. push.w = write_idx /\ Count < RingSize - 1 /\ taken' = taken
      BY <1>4 DEF PushPublish, RingInv, ProducerOK
    <2>2. /\ Count' = Count + 1
          /\ \A i \in 0 .. Count : SlotOf(i)' = SlotOf(i)
      BY <1>4, <2>1, PublishCount DEF PushPublish, RingInv
    <2>3. \A i \in 1 .. Count : Contents'[i] = Contents[i]
      BY <1>1, <1>4, <2>2 DEF PushPublish, Contents
    <2>4. Contents' = Append(Contents, Contents'[Count + 1])
      BY <1>1, <2>2, <2>3, AppendFunction
    <2>5. Contents'[Count + 1] \in Items
      BY <1>1, <2>2
    <2>6. Fifo!Put(Contents'[Count + 1])
      BY <1>2, <2>1, <2>4 DEF Fifo!Put
    <2> QED
      BY <2>5, <2>6 DEF Fifo!Next
  <1>5. CASE PopPublish
    <2>1. pop.rd = read_idx /\ Count > 0 /\ pop.item = slots[read_idx]
      BY <1>5 DEF PopPublish, RingInv, ConsumerOK
    <2>2. /\ Count' = Count - 1
          /\ \A i \in 0 .. Count - 2 : SlotOf(i)' = SlotOf(i + 1)
          /\ SlotOf(0) = read_idx
      BY <1>5, <2>1, TakeCount DEF PopPublish, RingInv
    <2>3. \A i \in 1 .. Count' : Contents'[i] = Contents[i + 1]
      <3> SUFFICES ASSUME NEW i \in 1 .. Count'
                   PROVE  slots'[SlotOf(i - 1)'] = slots[SlotOf(i)]
        BY <1>1, <2>2 DEF Contents
      <3>1. i - 1 \in 0 .. Count - 2 /\ (i - 1) + 1 = i
        BY <1>1, <2>2
      <3> QED
        BY <1>5, <2>2, <3>1 DEF PopPublish
    <2>4. Contents' = Tail(Contents) /\ Head(Contents) = Contents[1]
      <3>1. Contents \in [1 .. Count' + 1 -> Items]
        BY <1>1, <2>2
      <3> QED
        BY <1>1, <2>3, <3>1, TailFunction
    <2>5. Contents[1] = slots[read_idx]
      BY <1>1, <2>1, <2>2 DEF Contents
    <2>6. Fifo!Take
      BY <1>2, <1>5, <2>1, <2>4, <2>5 DEF PopPublish, Fifo!Take
    <2> QED
      BY <2>6 DEF Fifo!Next
  <1>6. CASE UNCHANGED <<slots, write_idx, read_idx, taken>>
    BY <1>6 DEF Contents, Count, SlotOf, Fifo!vars
  <1> QED
    BY <1>3, <1>4, <1>5, <1>6
    DEF Next, Producer, Consumer, vars, PushBegin, PushFull, PushRoom, PopBegin,
        PopEmpty, PopReady, PopRead

(***************************************************************************)
(* The ring of lib/core/ring.h is a bounded queue for every ring size: no  *)
(* interleaving of ring_push and ring_pop loses, duplicates, reorders or   *)
(* overwrites an item.                                                     *)
(***************************************************************************)
THEOREM RingRefinesFifo == Spec => ImplementsFifo
  <1>1. Init => Fifo!Init
    BY RingSizeAssumption DEF Init, Fifo!Init, Contents, Count
  <1>2. RingInv /\ QueueOK' /\ [Next]_vars => [Fifo!Next]_(Fifo!vars)
    BY StepRefines
  <1> QED
    BY <1>1, <1>2, RingInvariant, ContentsSeq, PTL DEF Spec, ImplementsFifo, Fifo!Spec

(***************************************************************************)
(* The indices of the ring stay within its slots for every ring size: no   *)
(* interleaving of ring_push and ring_pop lets write_idx, read_idx or the  *)
(* index that a call has loaded leave 0 .. RING_SIZE - 1.                  *)
(***************************************************************************)
THEOREM RingTypes == Spec => []TypeOK
  BY RingInvariant, PTL DEF RingInv

-----------------------------------------------------------------------------
(***************************************************************************)
(* pool_init establishes PoolInv, and every step of every thread's call    *)
(* preserves it, surplus returns included.                                 *)
(***************************************************************************)
LEMMA InitPoolInv == PoolInit => PoolInv
  BY PoolSizeAssumption, MaxExtraAssumption
  DEF PoolInit, PoolInv, PoolTypeOK, CallOK, Calls, Buffers

(***************************************************************************)
(* A thread that goes on with sound local variables keeps all calls sound. *)
(***************************************************************************)
LEMMA GotoOK ==
    ASSUME PoolInv, NEW th \in Threads, NEW pc, NEW t, NEW idx,
           Goto(th, pc, t, idx),
           [pc |-> pc, t |-> t, idx |-> idx] \in Calls,
           CallOK([pc |-> pc, t |-> t, idx |-> idx])
    PROVE  call' \in [Threads -> Calls] /\ \A u \in Threads : CallOK(call'[u])
  BY DEF PoolInv, PoolTypeOK, Goto

LEMMA NextPoolInv == PoolInv /\ [PoolNext]_poolVars => PoolInv'
  <1> SUFFICES ASSUME PoolInv, [PoolNext]_poolVars
               PROVE  PoolInv'
    OBVIOUS
  <1>0. /\ PoolSize \in Nat \ {0} /\ MaxExtra \in Nat
        /\ free_stack \in [Buffers -> Buffers] /\ out \in [Buffers -> Nat]
        /\ top \in 0 .. PoolSize /\ extra \in 0 .. MaxExtra
        /\ 0 \in Buffers
    <2>1. 0 \in Buffers
      BY PoolSizeAssumption DEF Buffers
    <2> QED
      BY <2>1, PoolSizeAssumption, MaxExtraAssumption DEF PoolInv, PoolTypeOK
  <1>c. ASSUME NEW th \in Threads
        PROVE  /\ call[th].t \in 0 .. PoolSize /\ call[th].idx \in Buffers
               /\ CallOK(call[th])
    BY DEF PoolInv, PoolTypeOK, Calls
  <1>d. ASSUME NEW th \in Threads, Done(th)
        PROVE  call' \in [Threads -> Calls] /\ \A u \in Threads : CallOK(call'[u])
    BY <1>0, <1>d, GotoOK DEF Done, Calls, CallOK
  <1>1. ASSUME NEW th \in Threads, GetLoad(th)
        PROVE  PoolInv'
    <2>1. call' \in [Threads -> Calls] /\ \A u \in Threads : CallOK(call'[u])
      BY <1>0, <1>1, GotoOK DEF GetLoad, Calls, CallOK
    <2> QED
      BY <1>0, <1>1, <2>1 DEF GetLoad, PoolInv, PoolTypeOK
  <1>2. ASSUME NEW th \in Threads, GetEmpty(th)
        PROVE  PoolInv'
    BY <1>0, <1>2, <1>d DEF GetEmpty, PoolInv, PoolTypeOK
  <1>3. ASSUME NEW th \in Threads, GetCas(th)
        PROVE  PoolInv'
    <2>1. CASE top = call[th].t
      <3>1. call' \in [Threads -> Calls] /\ \A u \in Threads : CallOK(call'[u])
        BY <1>0, <1>3, <1>c, <2>1, GotoOK DEF GetCas, Calls, CallOK
      <3> QED
        BY <1>0, <1>3, <2>1, <3>1 DEF GetCas, PoolInv, PoolTypeOK
    <2>2. CASE top # call[th].t
      <3>1. call' \in [Threads -> Calls] /\ \A u \in Threads : CallOK(call'[u])
        BY <1>0, <1>3, <1>c, <2>2, GotoOK DEF GetCas, Calls, CallOK
      <3> QED
        BY <1>0, <1>3, <2>2, <3>1 DEF GetCas, PoolInv, PoolTypeOK
    <2> QED
      BY <2>1, <2>2
  <1>4. ASSUME NEW th \in Threads, GetRead(th)
        PROVE  PoolInv'
    <2>0. call[th].t - 1 \in Buffers
      <3>1. call[th].t \in 0 .. PoolSize /\ call[th].t >= 1
        BY <1>4, <1>c DEF GetRead, CallOK
      <3> QED
        BY PoolSizeAssumption, <3>1 DEF Buffers
    <2>1. free_stack[call[th].t - 1] \in Buffers
      BY <1>0, <2>0
    <2>2. out' \in [Buffers -> Nat]
      BY <1>0, <1>4, <2>1 DEF GetRead
    <2> QED
      BY <1>0, <1>4, <1>d, <2>2 DEF GetRead, PoolInv, PoolTypeOK
  <1>5. ASSUME NEW th \in Threads, NEW idx \in Buffers, ReturnCall(th, idx)
        PROVE  PoolInv'
    <2>1. call' \in [Threads -> Calls] /\ \A u \in Threads : CallOK(call'[u])
      BY <1>0, <1>5, GotoOK DEF ReturnCall, Calls, CallOK
    <2>2. out' \in [Buffers -> Nat]
      BY <1>0, <1>5 DEF ReturnCall
    <2> QED
      BY <1>0, <1>5, <2>1, <2>2 DEF ReturnCall, PoolInv, PoolTypeOK
  <1>6. ASSUME NEW th \in Threads, NEW idx \in Buffers, ReturnAgain(th, idx)
        PROVE  PoolInv'
    <2>1. call' \in [Threads -> Calls] /\ \A u \in Threads : CallOK(call'[u])
      BY <1>0, <1>6, GotoOK DEF ReturnAgain, Calls, CallOK
    <2> QED
      BY <1>0, <1>6, <2>1 DEF ReturnAgain, PoolInv, PoolTypeOK
  <1>7. ASSUME NEW th \in Threads, ReturnLoad(th)
        PROVE  PoolInv'
    <2>1. call' \in [Threads -> Calls] /\ \A u \in Threads : CallOK(call'[u])
      <3>1. CASE top >= PoolSize
        BY <1>7, <1>d, <3>1 DEF ReturnLoad
      <3>2. CASE ~ (top >= PoolSize)
        BY <1>0, <1>7, <1>c, <3>2, GotoOK DEF ReturnLoad, Calls, CallOK
      <3> QED
        BY <3>1, <3>2
    <2> QED
      BY <1>0, <1>7, <2>1 DEF ReturnLoad, PoolInv, PoolTypeOK
  <1>8. ASSUME NEW th \in Threads, ReturnWrite(th)
        PROVE  PoolInv'
    <2>1. call' \in [Threads -> Calls] /\ \A u \in Threads : CallOK(call'[u])
      BY <1>0, <1>8, <1>c, GotoOK DEF ReturnWrite, Calls, CallOK
    <2>2. free_stack' \in [Buffers -> Buffers]
      BY <1>0, <1>8, <1>c, ZenonT(30) DEF ReturnWrite
    <2> QED
      BY <1>0, <1>8, <2>1, <2>2 DEF ReturnWrite, PoolInv, PoolTypeOK
  <1>9. ASSUME NEW th \in Threads, ReturnCas(th)
        PROVE  PoolInv'
    <2>1. CASE top = call[th].t
      <3>1. top' \in 0 .. PoolSize
        BY <1>0, <1>9, <1>c, <2>1 DEF ReturnCas, CallOK
      <3> QED
        BY <1>0, <1>9, <1>d, <2>1, <3>1 DEF ReturnCas, PoolInv, PoolTypeOK
    <2>2. CASE top # call[th].t
      <3>1. call' \in [Threads -> Calls] /\ \A u \in Threads : CallOK(call'[u])
        BY <1>0, <1>9, <1>c, <2>2, GotoOK DEF ReturnCas, Calls, CallOK
      <3> QED
        BY <1>0, <1>9, <2>2, <3>1 DEF ReturnCas, PoolInv, PoolTypeOK
    <2> QED
      BY <2>1, <2>2
  <1>10. CASE UNCHANGED poolVars
    BY <1>10 DEF poolVars, PoolInv, PoolTypeOK
  <1> QED
    BY <1>1, <1>2, <1>3, <1>4, <1>5, <1>6, <1>7, <1>8, <1>9, <1>10
    DEF PoolNext, Step, Begin

(***************************************************************************)
(* The stack pointer stays within 0 .. PACKET_POOL_SIZE and free_stack is  *)
(* only indexed inside its bounds, however many threads call the pool and  *)
(* even if buffers are returned more often than they were taken.           *)
(***************************************************************************)
THEOREM PoolTypesSafe == PoolSpec => []PoolTypeOK
  <1>1. PoolSpec => []PoolInv
    BY InitPoolInv, NextPoolInv, PTL DEF PoolSpec
  <1>2. PoolInv => PoolTypeOK
    BY DEF PoolInv
  <1> QED
    BY <1>1, <1>2, PTL

-----------------------------------------------------------------------------
(***************************************************************************)
(* A new owner of idx adds one element to OwnerRefs; an owner that gives   *)
(* idx up removes one.                                                     *)
(***************************************************************************)
LEMMA OwnerAdded ==
    ASSUME NEW o \in [Buffers -> Nat], NEW p \in [Buffers -> Nat], NEW idx \in Buffers,
           p[idx] = o[idx] + 1, \A i \in Buffers \ {idx} : p[i] = o[i]
    PROVE  RefsOf(p) = RefsOf(o) \cup {<<idx, p[idx]>>} /\ <<idx, p[idx]>> \notin RefsOf(o)
  <1>1. p[idx] = o[idx] + 1 /\ o[idx] \in Nat
    OBVIOUS
  <1>2. 1 .. p[idx] = (1 .. o[idx]) \cup {p[idx]} /\ p[idx] \notin 1 .. o[idx]
    BY <1>1
  <1>3. \A i \in Buffers : i # idx => p[i] = o[i]
    OBVIOUS
  <1>4. \A x : x \in RefsOf(p) <=> \E i \in Buffers : \E k \in 1 .. p[i] : x = <<i, k>>
    BY SMT DEF RefsOf
  <1>5. \A x : x \in RefsOf(o) <=> \E i \in Buffers : \E k \in 1 .. o[i] : x = <<i, k>>
    BY SMT DEF RefsOf
  <1>6. <<idx, p[idx]>> \notin RefsOf(o)
    BY <1>2, <1>5
  <1>7. ASSUME NEW x
        PROVE  x \in RefsOf(p) <=> x \in RefsOf(o) \/ x = <<idx, p[idx]>>
    <2>1. ASSUME x \in RefsOf(p)
          PROVE  x \in RefsOf(o) \/ x = <<idx, p[idx]>>
      <3>1. PICK i \in Buffers : \E k \in 1 .. p[i] : x = <<i, k>>
        BY <1>4, <2>1
      <3>2. PICK k \in 1 .. p[i] : x = <<i, k>>
        BY <3>1
      <3>3. k \in 1 .. o[i] \/ (i = idx /\ k = p[idx])
        BY <1>2, <1>3
      <3> QED
        BY <1>5, <3>2, <3>3
    <2>2. ASSUME x \in RefsOf(o)
          PROVE  x \in RefsOf(p)
      <3>1. PICK i \in Buffers : \E k \in 1 .. o[i] : x = <<i, k>>
        BY <1>5, <2>2
      <3>2. PICK k \in 1 .. o[i] : x = <<i, k>>
        BY <3>1
      <3>3. k \in 1 .. p[i]
        BY <1>2, <1>3
      <3> QED
        BY <1>4, <3>2, <3>3
    <2>3. ASSUME x = <<idx, p[idx]>>
          PROVE  x \in RefsOf(p)
      BY <1>2, <1>4, <2>3, Zenon
    <2> QED
      BY <2>1, <2>2, <2>3
  <1>8. RefsOf(p) = RefsOf(o) \cup {<<idx, p[idx]>>}
    BY <1>7, Zenon
  <1> QED
    BY <1>6, <1>8

(* The terms of Total are natural numbers.             *)
LEMMA CountSets ==
    ASSUME PoolInv
    PROVE  /\ IsFiniteSet(Claiming) /\ Cardinality(Claiming) \in Nat
           /\ IsFiniteSet(Returning) /\ Cardinality(Returning) \in Nat
           /\ top \in Nat /\ PoolSize \in Nat
  <1>1. Claiming \in SUBSET Threads /\ Returning \in SUBSET Threads
    BY DEF Claiming, Returning
  <1>2. IsFiniteSet(Claiming) /\ IsFiniteSet(Returning)
    BY <1>1, ThreadsAssumption, FS_Subset
  <1> QED
    BY <1>2, FS_CardinalityType, PoolSizeAssumption DEF PoolInv, PoolTypeOK

(* What Goto does to the two sets of threads.                              *)
LEMMA GotoSets ==
    ASSUME PoolInv, NEW th \in Threads, NEW pc, NEW t, NEW idx,
           Goto(th, pc, t, idx)
    PROVE  /\ Claiming' = IF pc = "get_won" THEN Claiming \cup {th}
                                            ELSE Claiming \ {th}
           /\ Returning' = IF pc \in {"ret_retry", "ret_loaded", "ret_written"}
                           THEN Returning \cup {th} ELSE Returning \ {th}
  <1>1. /\ call'[th].pc = pc
        /\ \A u \in Threads : u # th => call'[u].pc = call[u].pc
    BY DEF PoolInv, PoolTypeOK, Goto
  <1>2. Claiming' = IF pc = "get_won" THEN Claiming \cup {th} ELSE Claiming \ {th}
    BY <1>1 DEF Claiming
  <1>3. Returning' = IF pc \in {"ret_retry", "ret_loaded", "ret_written"}
                     THEN Returning \cup {th} ELSE Returning \ {th}
    BY <1>1 DEF Returning
  <1> QED
    BY <1>2, <1>3

(***************************************************************************)
(* pool_init establishes CountInv.                                         *)
(***************************************************************************)
LEMMA InitCountInv == PoolInit => CountInv
  <1> SUFFICES ASSUME PoolInit
               PROVE  CountInv
    OBVIOUS
  <1>1. OwnerRefs = {}
    BY DEF PoolInit, OwnerRefs, RefsOf
  <1>2. Claiming = {} /\ Returning = {}
    BY DEF PoolInit, Claiming, Returning
  <1> QED
    BY <1>1, <1>2, FS_EmptySet, PoolSizeAssumption DEF PoolInit, CountInv, CountConserved, Total

(***************************************************************************)
(* Every step of a thread preserves CountInv: it moves one unit between    *)
(* the terms of Total, but for a surplus return, which adds one, and for a *)
(* return that finds the stack full, which gives one up.                   *)
(***************************************************************************)
LEMMA NextCountInv == PoolInv /\ CountInv /\ [PoolNext]_poolVars => CountInv'
  <1> SUFFICES ASSUME PoolInv, CountInv, [PoolNext]_poolVars
               PROVE  CountInv'
    OBVIOUS
  <1>0. /\ IsFiniteSet(Claiming) /\ Cardinality(Claiming) \in Nat
        /\ IsFiniteSet(Returning) /\ Cardinality(Returning) \in Nat
        /\ top \in Nat /\ PoolSize \in Nat
    BY CountSets
  <1>1. /\ IsFiniteSet(OwnerRefs) /\ Cardinality(OwnerRefs) \in Nat
        /\ PoolSize <= Total /\ Total <= PoolSize + extra /\ extra \in Nat
    BY FS_CardinalityType, MaxExtraAssumption DEF CountInv, CountConserved, PoolInv, PoolTypeOK
  <1>a. ASSUME NEW S, IsFiniteSet(S), NEW x, x \notin S
        PROVE  IsFiniteSet(S \cup {x}) /\ Cardinality(S \cup {x}) = Cardinality(S) + 1
    BY <1>a, FS_AddElement
  <1>r. ASSUME NEW S, IsFiniteSet(S), NEW x \in S
        PROVE  IsFiniteSet(S \ {x}) /\ Cardinality(S \ {x}) = Cardinality(S) - 1
    BY <1>r, FS_RemoveElement
  <1>2. ASSUME NEW th \in Threads, GetLoad(th) \/ GetEmpty(th)
        PROVE  CountInv'
    <2>1. th \notin Claiming /\ th \notin Returning
      BY <1>2 DEF GetLoad, GetEmpty, Claiming, Returning
    <2>2. Claiming' = Claiming \ {th} /\ Returning' = Returning \ {th}
      BY <1>2, GotoSets DEF GetLoad, GetEmpty, Done
    <2>3. Claiming' = Claiming /\ Returning' = Returning
      BY <2>1, <2>2
    <2> QED
      BY <1>1, <1>2, <2>3 DEF GetLoad, GetEmpty, CountInv, CountConserved, Total, OwnerRefs
  <1>3. ASSUME NEW th \in Threads, GetCas(th)
        PROVE  CountInv'
    <2>1. th \notin Claiming /\ th \notin Returning /\ OwnerRefs' = OwnerRefs /\ extra' = extra
      BY <1>3 DEF GetCas, Claiming, Returning, OwnerRefs
    <2>2. CASE top = call[th].t
      <3>1. Claiming' = Claiming \cup {th} /\ Returning' = Returning \ {th}
        BY <1>3, <2>2, GotoSets DEF GetCas
      <3>2. Cardinality(Claiming') = Cardinality(Claiming) + 1 /\ Returning' = Returning
        BY <1>0, <1>a, <2>1, <3>1
      <3>3. top' = top - 1
        BY <1>3, <2>2 DEF GetCas
      <3> QED
        BY <1>0, <1>1, <2>1, <3>2, <3>3 DEF CountInv, CountConserved, Total
    <2>3. CASE top # call[th].t
      <3>1. Claiming' = Claiming \ {th} /\ Returning' = Returning \ {th}
        BY <1>3, <2>3, GotoSets DEF GetCas
      <3>2. Claiming' = Claiming /\ Returning' = Returning /\ top' = top
        BY <1>3, <2>1, <2>3, <3>1 DEF GetCas
      <3> QED
        BY <1>1, <2>1, <3>2 DEF CountInv, CountConserved, Total
    <2> QED
      BY <2>2, <2>3
  <1>4. ASSUME NEW th \in Threads, GetRead(th)
        PROVE  CountInv'
    <2>1. th \in Claiming /\ th \notin Returning /\ top' = top /\ extra' = extra
      BY <1>4 DEF GetRead, Claiming, Returning
    <2>2. Claiming' = Claiming \ {th} /\ Returning' = Returning \ {th}
      BY <1>4, GotoSets DEF GetRead, Done
    <2>3. Cardinality(Claiming') = Cardinality(Claiming) - 1 /\ Returning' = Returning
      BY <1>0, <1>r, <2>1, <2>2
    <2>4. PICK idx \in Buffers : out' = [out EXCEPT ![idx] = @ + 1]
      <3>1. call[th].t \in 0 .. PoolSize /\ call[th].t >= 1
        BY <1>4 DEF GetRead, PoolInv, CallOK, PoolTypeOK, Calls
      <3>2. call[th].t - 1 \in Buffers
        BY PoolSizeAssumption, <3>1 DEF Buffers
      <3>3. free_stack[call[th].t - 1] \in Buffers
        BY <3>2 DEF PoolInv, PoolTypeOK
      <3> QED
        BY <1>4, <3>3, Zenon DEF GetRead
    <2>5. /\ out \in [Buffers -> Nat] /\ out' \in [Buffers -> Nat]
          /\ out'[idx] = out[idx] + 1 /\ \A i \in Buffers \ {idx} : out'[i] = out[i]
      BY <2>4 DEF PoolInv, PoolTypeOK
    <2>6. /\ OwnerRefs' = OwnerRefs \cup {<<idx, out'[idx]>>}
          /\ <<idx, out'[idx]>> \notin OwnerRefs
      <3>1. /\ RefsOf(out') = RefsOf(out) \cup {<<idx, out'[idx]>>}
            /\ <<idx, out'[idx]>> \notin RefsOf(out)
        BY <2>5, OwnerAdded
      <3> QED
        BY <3>1 DEF OwnerRefs, RefsOf
    <2>7. /\ IsFiniteSet(OwnerRefs')
          /\ Cardinality(OwnerRefs') = Cardinality(OwnerRefs) + 1
      BY <1>1, <1>a, <2>6
    <2> QED
      BY <1>0, <1>1, <2>1, <2>3, <2>7 DEF CountInv, CountConserved, Total
  <1>5. ASSUME NEW th \in Threads, NEW idx \in Buffers, ReturnCall(th, idx)
        PROVE  CountInv'
    <2>1. th \notin Claiming /\ th \notin Returning /\ top' = top /\ extra' = extra
      BY <1>5 DEF ReturnCall, Claiming, Returning
    <2>2. Claiming' = Claiming \ {th} /\ Returning' = Returning \cup {th}
      BY <1>5, GotoSets DEF ReturnCall
    <2>3. Cardinality(Returning') = Cardinality(Returning) + 1 /\ Claiming' = Claiming
      BY <1>0, <1>a, <2>1, <2>2
    <2>4. /\ out \in [Buffers -> Nat] /\ out' \in [Buffers -> Nat]
          /\ out[idx] = out'[idx] + 1 /\ \A i \in Buffers \ {idx} : out[i] = out'[i]
      BY <1>5 DEF PoolInv, PoolTypeOK, ReturnCall
    <2>5. /\ OwnerRefs = OwnerRefs' \cup {<<idx, out[idx]>>}
          /\ <<idx, out[idx]>> \notin OwnerRefs'
      <3>1. /\ RefsOf(out) = RefsOf(out') \cup {<<idx, out[idx]>>}
            /\ <<idx, out[idx]>> \notin RefsOf(out')
        BY <2>4, OwnerAdded
      <3> QED
        BY <3>1 DEF OwnerRefs, RefsOf
    <2>6. <<idx, out[idx]>> \in OwnerRefs /\ OwnerRefs' = OwnerRefs \ {<<idx, out[idx]>>}
      BY <2>5
    <2>7. /\ IsFiniteSet(OwnerRefs')
          /\ Cardinality(OwnerRefs') = Cardinality(OwnerRefs) - 1
      BY <1>1, <1>r, <2>6
    <2> QED
      BY <1>0, <1>1, <2>1, <2>3, <2>7 DEF CountInv, CountConserved, Total
  <1>6. ASSUME NEW th \in Threads, NEW idx \in Buffers, ReturnAgain(th, idx)
        PROVE  CountInv'
    <2>1. /\ th \notin Claiming /\ th \notin Returning
          /\ top' = top /\ OwnerRefs' = OwnerRefs /\ extra' = extra + 1
      BY <1>6 DEF ReturnAgain, Claiming, Returning, OwnerRefs
    <2>2. Claiming' = Claiming \ {th} /\ Returning' = Returning \cup {th}
      BY <1>6, GotoSets DEF ReturnAgain
    <2>3. Cardinality(Returning') = Cardinality(Returning) + 1 /\ Claiming' = Claiming
      BY <1>0, <1>a, <2>1, <2>2
    <2> QED
      BY <1>0, <1>1, <2>1, <2>3 DEF CountInv, CountConserved, Total
  <1>7. ASSUME NEW th \in Threads, ReturnLoad(th) \/ ReturnWrite(th)
        PROVE  CountInv'
    <2>1. /\ th \notin Claiming /\ th \in Returning
          /\ top' = top /\ OwnerRefs' = OwnerRefs /\ extra' = extra
      BY <1>7 DEF ReturnLoad, ReturnWrite, Claiming, Returning, OwnerRefs
    <2>2. CASE ReturnLoad(th) /\ top >= PoolSize
      <3>1. Claiming' = Claiming \ {th} /\ Returning' = Returning \ {th}
        BY <2>2, GotoSets DEF ReturnLoad, Done
      <3>2. Cardinality(Returning') = Cardinality(Returning) - 1 /\ Claiming' = Claiming
        BY <1>0, <1>r, <2>1, <3>1
      <3>3. Cardinality(Returning') \in Nat
        BY <1>0, <1>r, <2>1, <3>1, FS_CardinalityType
      <3> QED
        BY <1>0, <1>1, <2>1, <2>2, <3>2, <3>3 DEF CountInv, CountConserved, Total
    <2>3. CASE ~ (ReturnLoad(th) /\ top >= PoolSize)
      <3>1. Claiming' = Claiming \ {th} /\ Returning' = Returning \cup {th}
        BY <1>7, <2>3, GotoSets DEF ReturnLoad, ReturnWrite
      <3>2. Claiming' = Claiming /\ Returning' = Returning
        BY <2>1, <3>1
      <3> QED
        BY <1>1, <2>1, <3>2 DEF CountInv, CountConserved, Total
    <2> QED
      BY <2>2, <2>3
  <1>8. ASSUME NEW th \in Threads, ReturnCas(th)
        PROVE  CountInv'
    <2>1. th \notin Claiming /\ th \in Returning /\ OwnerRefs' = OwnerRefs /\ extra' = extra
      BY <1>8 DEF ReturnCas, Claiming, Returning, OwnerRefs
    <2>2. CASE top = call[th].t
      <3>1. Claiming' = Claiming \ {th} /\ Returning' = Returning \ {th}
        BY <1>8, <2>2, GotoSets DEF ReturnCas, Done
      <3>2. Cardinality(Returning') = Cardinality(Returning) - 1 /\ Claiming' = Claiming
        BY <1>0, <1>r, <2>1, <3>1
      <3>3. top' = top + 1
        BY <1>8, <2>2 DEF ReturnCas
      <3> QED
        BY <1>0, <1>1, <2>1, <3>2, <3>3 DEF CountInv, CountConserved, Total
    <2>3. CASE top # call[th].t
      <3>1. Claiming' = Claiming \ {th} /\ Returning' = Returning \cup {th}
        BY <1>8, <2>3, GotoSets DEF ReturnCas
      <3>2. Claiming' = Claiming /\ Returning' = Returning /\ top' = top
        BY <1>8, <2>1, <2>3, <3>1 DEF ReturnCas
      <3> QED
        BY <1>1, <2>1, <3>2 DEF CountInv, CountConserved, Total
    <2> QED
      BY <2>2, <2>3
  <1>9. CASE UNCHANGED poolVars
    BY <1>9 DEF poolVars, CountInv, CountConserved, Total, OwnerRefs, Claiming, Returning
  <1> QED
    BY <1>2, <1>3, <1>4, <1>5, <1>6, <1>7, <1>8, <1>9 DEF PoolNext, Step, Begin

(***************************************************************************)
(* Buffers are conserved: with any number of threads inside pool_get and   *)
(* pool_return, the free count plus the buffers that are out or on their   *)
(* way is PACKET_POOL_SIZE, give or take the surplus returns.              *)
(***************************************************************************)
THEOREM PoolCountConserved == PoolSpec => []CountConserved
  <1>1. PoolSpec => [](PoolInv /\ CountInv)
    BY InitPoolInv, NextPoolInv, InitCountInv, NextCountInv, PTL DEF PoolSpec
  <1>2. CountInv => CountConserved
    BY DEF CountInv
  <1> QED
    BY <1>1, <1>2, PTL
=============================================================================
