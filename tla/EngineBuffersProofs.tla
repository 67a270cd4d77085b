------------------------ MODULE EngineBuffersProofs ------------------------
(***************************************************************************)
(* Proofs about EngineBuffers, for any pool, any rings and any amount of   *)
(* traffic: the event ring never holds more than three events, every ring  *)
(* and the pool keep their capacity, and a buffer has one holder.          *)
(***************************************************************************)
EXTENDS EngineBuffers, SequenceTheorems, FiniteSetTheorems, TLAPS

EventTypes == {"chat", "null", "note", "locked", "connect", "file"}

NullAt(q, i) == i \in 1 .. Len(q) /\ q[i] = "null"

(* The ring before an event is taken, before a decrypted packet is         *)
(* handled, and before a received one is: only a decrypted packet leaves a *)
(* null entry, so that behind a null entry there is at most one event, and *)
(* a poll that skips the null entry goes on with at most that one.         *)
AtEvent(q) ==
    /\ q \in Seq(EventTypes) /\ Len(q) <= 3
    /\ \A i \in 1 .. Len(q) : NullAt(q, i) => i >= Len(q) - 1
    /\ NullAt(q, Len(q) - 1) => ~ NullAt(q, Len(q))
AtResult(q) ==
    /\ q \in Seq(EventTypes) /\ Len(q) <= 1
    /\ \A i \in 1 .. Len(q) : ~ NullAt(q, i)
AtRx(q) ==
    /\ q \in Seq(EventTypes) /\ Len(q) <= 2
    /\ \A i \in 1 .. Len(q) : NullAt(q, i) => i = Len(q)

EventInv ==
    /\ pc \in {"event", "result", "rx"}
    /\ pc = "event" => AtEvent(event_ring)
    /\ pc = "result" => AtResult(event_ring)
    /\ pc = "rx" => AtRx(event_ring)

(* What taking the first event leaves.                                     *)
LEMMA TakeFirst ==
    ASSUME NEW q, AtEvent(q), q # <<>>
    PROVE  /\ AtEvent(Tail(q))
           /\ Head(q) = "null" => AtResult(Tail(q))
<1>1. /\ q \in Seq(EventTypes) /\ Len(q) \in 1 .. 3 /\ Tail(q) \in Seq(EventTypes)
      /\ Len(Tail(q)) = Len(q) - 1 /\ Head(q) = q[1]
      /\ \A i \in 1 .. Len(q) - 1 : Tail(q)[i] = q[i + 1]
  <2>1. q \in Seq(EventTypes) /\ Len(q) <= 3 /\ Len(q) \in Nat
    BY LenProperties DEF AtEvent
  <2>2. /\ Tail(q) \in Seq(EventTypes) /\ Len(Tail(q)) = Len(q) - 1
        /\ \A i \in 1 .. Len(Tail(q)) : Tail(q)[i] = q[i + 1]
    BY <2>1, HeadTailProperties
  <2>3. Len(q) # 0 /\ Head(q) = q[1]
    BY <2>1
  <2> QED
    BY <2>1, <2>2, <2>3
<1>2. \A i \in 1 .. Len(q) - 1 : NullAt(Tail(q), i) <=> NullAt(q, i + 1)
  BY <1>1 DEF NullAt
<1>3. AtEvent(Tail(q))
  <2>1. \A i \in 1 .. Len(Tail(q)) : NullAt(Tail(q), i) => i >= Len(Tail(q)) - 1
    BY <1>1, <1>2 DEF AtEvent
  <2>2. NullAt(Tail(q), Len(Tail(q)) - 1) => ~ NullAt(Tail(q), Len(Tail(q)))
    <3>1. CASE Len(Tail(q)) - 1 \in 1 .. Len(Tail(q))
      BY <1>1, <1>2, <3>1 DEF AtEvent
    <3>2. CASE Len(Tail(q)) - 1 \notin 1 .. Len(Tail(q))
      BY <3>2 DEF NullAt
    <3> QED
      BY <3>1, <3>2
  <2> QED
    BY <1>1, <2>1, <2>2 DEF AtEvent
<1>4. ASSUME Head(q) = "null" PROVE AtResult(Tail(q))
  <2>1. NullAt(q, 1)
    BY <1>1, <1>4 DEF NullAt
  <2>2. Len(q) <= 2
    BY <1>1, <2>1 DEF AtEvent
  <2>3. \A i \in 1 .. Len(Tail(q)) : ~ NullAt(Tail(q), i)
    BY <1>1, <1>2, <2>1, <2>2 DEF AtEvent
  <2> QED
    BY <1>1, <2>2, <2>3 DEF AtResult
<1> QED
  BY <1>3, <1>4

(* What a decrypted packet adds.                                           *)
LEMMA AfterResult ==
    ASSUME NEW q, AtResult(q), NEW e \in EventTypes
    PROVE  AtRx(q) /\ AtRx(Append(q, e))
<1>1. AtRx(q)
  BY DEF AtResult, AtRx
<1>2. /\ Append(q, e) \in Seq(EventTypes) /\ Len(Append(q, e)) = Len(q) + 1
      /\ \A i \in 1 .. Len(q) : Append(q, e)[i] = q[i]
  <2>1. q \in Seq(EventTypes)
    BY DEF AtResult
  <2> QED
    BY <2>1, AppendProperties
<1>3. \A i \in 1 .. Len(q) : ~ NullAt(Append(q, e), i)
  BY <1>2 DEF AtResult, NullAt
<1> QED
  BY <1>1, <1>2, <1>3 DEF AtResult, AtRx

(* When the ring is full, the newest entry is overwritten.                 *)
LEMMA OverResult ==
    ASSUME NEW q, AtResult(q), NEW r, q # <<>>,
           r = [q EXCEPT ![Len(q)] = IF @ = "null" THEN @ ELSE "chat"]
    PROVE  AtRx(r)
<1>1. q \in Seq(EventTypes) /\ Len(q) = 1
  <2>1. q \in Seq(EventTypes) /\ Len(q) <= 1 /\ Len(q) \in Nat
    BY LenProperties DEF AtResult
  <2>2. Len(q) # 0
    BY <2>1
  <2>3. \A n \in Nat : n <= 1 /\ n # 0 => n = 1
    OBVIOUS
  <2> QED
    BY <2>1, <2>2, <2>3, Zenon
<1>2. r \in Seq(EventTypes) /\ Len(r) = 1
  <2> DEFINE e == IF q[1] = "null" THEN q[1] ELSE "chat"
  <2>1. e \in EventTypes /\ r = [q EXCEPT ![1] = e] /\ 1 \in 1 .. Len(q)
    BY <1>1 DEF EventTypes
  <2> HIDE DEF e
  <2> QED
    BY <1>1, <2>1, ExceptSeq
<1> QED
  BY <1>2 DEF AtRx

(* What a received packet or a tick adds is not null.                      *)
LEMMA AfterRx ==
    ASSUME NEW q, AtRx(q), NEW e \in EventTypes \ {"null"}
    PROVE  AtEvent(q) /\ AtEvent(Append(q, e))
<1>1. AtEvent(q)
  <2>1. NullAt(q, Len(q) - 1) => ~ NullAt(q, Len(q))
    <3>1. CASE Len(q) - 1 \in 1 .. Len(q)
      BY <3>1 DEF AtRx
    <3>2. CASE Len(q) - 1 \notin 1 .. Len(q)
      BY <3>2 DEF NullAt
    <3> QED
      BY <3>1, <3>2
  <2> QED
    BY <2>1 DEF AtRx, AtEvent
<1>2. /\ Append(q, e) \in Seq(EventTypes) /\ Len(Append(q, e)) = Len(q) + 1
      /\ \A i \in 1 .. Len(q) : Append(q, e)[i] = q[i]
      /\ Append(q, e)[Len(q) + 1] = e
  <2>1. q \in Seq(EventTypes)
    BY DEF AtRx
  <2> QED
    BY <2>1, AppendProperties
<1>3. \A i \in 1 .. Len(q) : NullAt(Append(q, e), i) => i = Len(q)
  BY <1>2 DEF AtRx, NullAt
<1>4. ~ NullAt(Append(q, e), Len(q) + 1)
  BY <1>2 DEF NullAt
<1>5. Len(q) \in 0 .. 2
  <2>1. q \in Seq(EventTypes) /\ Len(q) <= 2 /\ Len(q) \in Nat
    BY LenProperties DEF AtRx
  <2>2. \A n \in Nat : n <= 2 => n \in 0 .. 2
    OBVIOUS
  <2> QED
    BY <2>1, <2>2
<1>6. \A i \in 1 .. Len(Append(q, e)) : NullAt(Append(q, e), i) => i >= Len(Append(q, e)) - 1
  <2> SUFFICES ASSUME NEW i \in 1 .. Len(Append(q, e)), NullAt(Append(q, e), i)
               PROVE  i >= Len(Append(q, e)) - 1
    OBVIOUS
  <2>1. i \in 1 .. Len(q) \/ i = Len(q) + 1
    BY <1>2, <1>5
  <2> QED
    BY <1>2, <1>3, <1>4, <1>5, <2>1
<1>7. Len(Append(q, e)) <= 3 /\ ~ NullAt(Append(q, e), Len(Append(q, e)))
  <2>1. \A n \in 0 .. 2 : n + 1 <= 3
    OBVIOUS
  <2>2. Len(q) + 1 <= 3
    BY <1>5, <2>1, Zenon
  <2> QED
    BY <1>2, <1>4, <2>2
<1> QED
  BY <1>1, <1>2, <1>6, <1>7 DEF AtEvent

(* One handler reports one event at most, and only the chat path reports a *)
(* null one.                                                               *)
LEMMA ReportedIn ==
    ASSUME NEW q, NEW e, NEW r \in Reported(q, e)
    PROVE  r = q \/ r = Append(q, e)
BY DEF Reported

(* The chat path of the initiator, whose malloc may fail, reports one      *)
(* event at most: a null entry if it fails.                                *)
LEMMA ChatReportedIn ==
    ASSUME AtResult(event_ring), NEW r \in ChatReported(event_ring)
    PROVE  AtRx(r)
<1>1. CASE ~ role_initiator
  <2>1. r = event_ring \/ r = Append(event_ring, "chat")
    BY <1>1, ReportedIn DEF ChatReported
  <2> QED
    BY <2>1, AfterResult, Zenon DEF EventTypes
<1>2. CASE role_initiator /\ Len(event_ring) < EventCap
  <2>1. r = Append(event_ring, "chat") \/ r = Append(event_ring, "null")
    BY <1>2 DEF ChatReported
  <2> QED
    BY <2>1, AfterResult, Zenon DEF EventTypes
<1>3. CASE role_initiator /\ ~ Len(event_ring) < EventCap
  <2>1. r = [event_ring EXCEPT ![Len(event_ring)] = IF @ = "null" THEN @ ELSE "chat"]
    BY <1>3 DEF ChatReported
  <2>2. event_ring # <<>>
    BY <1>3, CapAssumption
  <2> QED
    BY <2>1, <2>2, OverResult, Zenon
<1> QED
  BY <1>1, <1>2, <1>3

(* The handler of a decrypted packet, and of a control packet received.    *)
LEMMA HandleResult ==
    ASSUME AtResult(event_ring), NEW s, NEW p, Handle(s, p)
    PROVE  AtRx(event_ring')
<1>1. AtRx(event_ring)
  BY AfterResult DEF EventTypes
<1>2. CASE HandleData(s, p)
  <2>1. event_ring' = event_ring \/ event_ring' \in ChatReported(event_ring)
    BY <1>2 DEF HandleData
  <2> QED
    BY <1>1, <2>1, ChatReportedIn
<1>3. CASE HandleControl(s, p)
  <2>1. event_ring' = event_ring \/ event_ring' = Append(event_ring, "note")
    BY <1>3, ReportedIn DEF HandleControl
  <2> QED
    BY <1>1, <2>1, AfterResult, Zenon DEF EventTypes
<1>4. CASE HandleHandshake(s, p)
  <2>1. event_ring' = event_ring \/ event_ring' = Append(event_ring, "locked")
    BY <1>4, ReportedIn DEF HandleHandshake
  <2> QED
    BY <1>1, <2>1, AfterResult, Zenon DEF EventTypes
<1>5. CASE HandleError(s, p)
  BY <1>1, <1>5 DEF HandleError
<1> QED
  BY <1>2, <1>3, <1>4, <1>5 DEF Handle

(* The handler of a control packet reports no null event.                  *)
LEMMA HandleReceived ==
    ASSUME AtRx(event_ring), NEW s, NEW p, data[p] \in Control, Handle(s, p)
    PROVE  AtEvent(event_ring')
<1>1. AtEvent(event_ring)
  BY AfterRx DEF EventTypes
<1>2. CASE HandleData(s, p)
  <2>1. event_ring' = event_ring
    BY <1>2 DEF HandleData
  <2> QED
    BY <1>1, <2>1
<1>3. CASE HandleControl(s, p)
  <2>1. event_ring' = event_ring \/ event_ring' = Append(event_ring, "note")
    BY <1>3, ReportedIn DEF HandleControl
  <2> QED
    BY <1>1, <2>1, AfterRx, Zenon DEF EventTypes
<1>4. CASE HandleHandshake(s, p)
  <2>1. event_ring' = event_ring \/ event_ring' = Append(event_ring, "locked")
    BY <1>4, ReportedIn DEF HandleHandshake
  <2> QED
    BY <1>1, <2>1, AfterRx, Zenon DEF EventTypes
<1>5. CASE HandleError(s, p)
  BY <1>1, <1>5 DEF HandleError
<1> QED
  BY <1>2, <1>3, <1>4, <1>5 DEF Handle

(* The three parts of a poll.                                              *)
LEMMA PollEventStep ==
    ASSUME EventInv, PollEvent
    PROVE  EventInv'
<1>1. pc = "event" /\ AtEvent(event_ring)
  BY DEF PollEvent, EventInv
<1>2. CASE event_ring = <<>>
  <2>1. pc' = "result" /\ event_ring' = <<>>
    BY <1>2 DEF PollEvent
  <2>2. AtResult(<<>>)
    BY DEF AtResult
  <2> QED
    BY <2>1, <2>2 DEF EventInv
<1>3. CASE event_ring # <<>>
  <2>1. event_ring' = Tail(event_ring)
    BY <1>3 DEF PollEvent
  <2>2. pc' = IF Head(event_ring) = "null" THEN "result" ELSE "event"
    BY <1>3 DEF PollEvent
  <2>3. AtEvent(event_ring') /\ (Head(event_ring) = "null" => AtResult(event_ring'))
    BY <1>1, <1>3, <2>1, TakeFirst
  <2> QED
    BY <2>2, <2>3 DEF EventInv
<1> QED
  BY <1>2, <1>3

(* A poll that handles a decrypted packet.                                 *)
LEMMA PollResultStep ==
    ASSUME EventInv, PollResult
    PROVE  EventInv'
<1>1. pc' = "rx" /\ AtResult(event_ring)
  BY DEF PollResult, EventInv
<1>2. AtRx(event_ring')
  <2>1. CASE m.result_ring = <<>>
    <3>1. event_ring' = event_ring
      BY <2>1 DEF PollResult
    <3> QED
      BY <1>1, <3>1, AfterResult DEF EventTypes
  <2>2. CASE m.result_ring # <<>>
    <3>1. Handle(ring_pop(m, "result_ring"), Head(m.result_ring))
      BY <2>2 DEF PollResult
    <3> QED
      BY <1>1, <3>1, HandleResult
  <2> QED
    BY <2>1, <2>2
<1> QED
  BY <1>1, <1>2 DEF EventInv

(* A poll that handles a received packet, or ticks.                        *)
LEMMA PollRestStep ==
    ASSUME EventInv, PollPacket \/ PollTick
    PROVE  EventInv'
<1>1. pc' = "event" /\ AtRx(event_ring)
  BY DEF PollPacket, PollTick, EventInv
<1>2. AtEvent(event_ring)
  BY <1>1, AfterRx DEF EventTypes
<1>3. AtEvent(event_ring')
  <2>1. CASE PollPacket
    <3> DEFINE p == Head(m.rx_ring)
    <3>1. CASE PollDrop(p)
      <4>1. event_ring' = event_ring \/ event_ring' = Append(event_ring, "connect")
        BY <3>1, ReportedIn DEF PollDrop
      <4> QED
        BY <1>1, <1>2, <4>1, AfterRx, Zenon DEF EventTypes
    <3>2. CASE PollParity(p) \/ PollEncrypted(p)
      BY <1>2, <3>2, Zenon DEF PollParity, PollEncrypted
    <3>3. CASE PollPlain(p)
      BY <1>1, <3>3, HandleReceived DEF PollPlain
    <3> QED
      BY <2>1, <3>1, <3>2, <3>3 DEF PollPacket
  <2>2. CASE PollTick
    <3>1. event_ring' = event_ring \/ event_ring' = Append(event_ring, "file")
      BY <2>2, ReportedIn DEF PollTick
    <3> QED
      BY <1>1, <1>2, <3>1, AfterRx, Zenon DEF EventTypes
  <2> QED
    BY <2>1, <2>2
<1> QED
  BY <1>1, <1>3 DEF EventInv

(* However packets, decryptions, ticks and calls follow one another, and   *)
(* whichever malloc fails, at most three events wait: the event ring of    *)
(* transport_engine_poll never fills up and loses none.                    *)
THEOREM EventsHaveRoom == Spec => []EventRoom
<1>1. Init => EventInv
  BY DEF Init, EventInv, AtEvent, NullAt
<1>2. EventInv /\ [Next]_vars => EventInv'
  <2> SUFFICES ASSUME EventInv, [Next]_vars PROVE EventInv'
    OBVIOUS
  <2>1. ASSUME UNCHANGED <<pc, event_ring>> PROVE EventInv'
    BY <2>1 DEF EventInv
  <2>2. CASE RxGet \/ RxNothing \/ RxPacket
    BY <2>1, <2>2 DEF RxGet, RxNothing, RxPacket, engine
  <2>3. CASE CryptoTake \/ CryptoDone
    BY <2>1, <2>3 DEF CryptoTake, CryptoDone, engine
  <2>4. CASE TxTake \/ TxSent
    BY <2>1, <2>4 DEF TxTake, TxSent, engine
  <2>5. CASE App
    BY <2>1, <2>5 DEF App, AppConnect, AppDisconnect, AppRole, AppRequest, AppControl, AppChat, Call
  <2>6. CASE Poll
    BY <2>6, PollEventStep, PollResultStep, PollRestStep DEF Poll
  <2>7. CASE UNCHANGED vars
    BY <2>1, <2>7 DEF vars
  <2> QED
    BY <2>2, <2>3, <2>4, <2>5, <2>6, <2>7 DEF Next
<1>3. EventInv => EventRoom
  BY DEF EventInv, AtEvent, AtResult, AtRx, EventRoom
<1> QED
  BY <1>1, <1>2, <1>3, PTL DEF Spec

-----------------------------------------------------------------------------
(* What the pool and the rings are at every moment of a step.              *)
Fields == {"free", "fec_recovered"} \cup Rings

Entries(s) == {e \in Buffers \X (1 .. PoolSize) : e[2] <= s.free[e[1]]}

StoreOK(s) ==
    /\ DOMAIN s = Fields
    /\ s.free \in [Buffers -> 0 .. PoolSize] /\ FreeCount(s) <= PoolSize
    /\ s.fec_recovered \in Buffers \cup {NULL}
    /\ \A q \in Rings : s[q] \in Seq(Buffers) /\ Len(s[q]) <= RingCap

(* Every buffer has one place, and is there once: loc says where.  A       *)
(* buffer that is neither in the pool nor in a ring is with a thread.      *)
Places == Rings \cup {"pool", "thread"}

Located(s, loc) ==
    /\ s.fec_recovered = NULL
    /\ \A b \in Buffers : s.free[b] = IF loc[b] = "pool" THEN 1 ELSE 0
    /\ \A q \in Rings :
          /\ \A i \in 1 .. Len(s[q]) : loc[s[q][i]] = q
          /\ \A i, j \in 1 .. Len(s[q]) : s[q][i] = s[q][j] => i = j
          /\ \A b \in Buffers : loc[b] = q => \E i \in 1 .. Len(s[q]) : s[q][i] = b

(* The threads hold the buffers of out, and no others.                     *)
Owned(s, out) ==
    \E loc \in [Buffers -> Places] :
        Located(s, loc) /\ out = {b \in Buffers : loc[b] = "thread"}

(* Parity from the peer (fec) breaks the ownership, and only that.         *)
Sound(s, out, fec) == StoreOK(s) /\ (~ fec => Owned(s, out))

(* The pool is finite, and so is the set of entries it can have.           *)
LEMMA PoolFinite ==
    /\ IsFiniteSet(Buffers) /\ PoolSize \in Nat
    /\ IsFiniteSet(Buffers \X (1 .. PoolSize))
    /\ \A s : FreeCount(s) = Cardinality(Entries(s)) /\ IsFiniteSet(Entries(s))
<1>1. IsFiniteSet(Buffers) /\ PoolSize \in Nat
  BY BuffersAssumption, FS_CardinalityType DEF PoolSize
<1>2. IsFiniteSet(1 .. PoolSize)
  BY <1>1, FS_Interval
<1>3. IsFiniteSet(Buffers \X (1 .. PoolSize))
  BY <1>1, <1>2, FS_Product
<1>4. \A s : Entries(s) \in SUBSET (Buffers \X (1 .. PoolSize))
  BY DEF Entries
<1>5. \A s : IsFiniteSet(Entries(s))
  BY <1>3, <1>4, FS_Subset
<1> QED
  BY <1>1, <1>3, <1>5, Zenon DEF FreeCount, Entries

(* pool_get takes an entry off the stack.                                  *)
LEMMA GetStore ==
    ASSUME NEW s, StoreOK(s), NEW b \in Free(s)
    PROVE  b \in Buffers /\ StoreOK(pool_get(s, b))
<1> DEFINE t == pool_get(s, b)
<1>1. b \in Buffers /\ s.free[b] \in 1 .. PoolSize /\ PoolSize \in Nat
  BY PoolFinite DEF Free, StoreOK
<1> DEFINE n == s.free[b] - 1
<1>2. t = [s EXCEPT !.free[b] = n] /\ n \in 0 .. PoolSize /\ n < s.free[b]
  BY <1>1 DEF pool_get
<1> HIDE DEF t, n
<1>3. /\ DOMAIN t = Fields /\ t.fec_recovered = s.fec_recovered
      /\ t.free = [s.free EXCEPT ![b] = n]
      /\ \A q \in Rings : t[q] = s[q]
  BY <1>1, <1>2 DEF StoreOK, Fields, Rings
<1>4. Entries(t) \in SUBSET Entries(s)
  BY <1>1, <1>2, <1>3 DEF Entries, StoreOK
<1>5. FreeCount(t) <= FreeCount(s) /\ FreeCount(t) \in Nat /\ FreeCount(s) \in Nat
  BY <1>4, PoolFinite, FS_Subset, FS_CardinalityType
<1>6. StoreOK(t)
  <2>1. t.free \in [Buffers -> 0 .. PoolSize]
    BY <1>1, <1>2, <1>3 DEF StoreOK
  <2>2. FreeCount(t) <= PoolSize
    BY <1>1, <1>5 DEF StoreOK
  <2> QED
    BY <1>3, <2>1, <2>2 DEF StoreOK
<1> QED
  BY <1>1, <1>6 DEF t

(* A buffer that is on the stack n times makes n entries.                  *)
LEMMA EntriesOf ==
    ASSUME NEW s, StoreOK(s), NEW b \in Buffers
    PROVE  s.free[b] <= FreeCount(s)
<1>1. s.free[b] \in 0 .. PoolSize /\ PoolSize \in Nat
  BY PoolFinite DEF StoreOK
<1> DEFINE n == s.free[b]
<1> DEFINE mine == {b} \X (1 .. n)
<1>2. IsFiniteSet(1 .. n) /\ Cardinality(1 .. n) = n
  <2>1. n \in Nat
    BY <1>1
  <2> HIDE DEF n
  <2>2. IsFiniteSet(1 .. n) /\ Cardinality(1 .. n) = IF 1 > n THEN 0 ELSE n - 1 + 1
    BY <2>1, FS_Interval
  <2> QED
    BY <2>1, <2>2
<1>3. Cardinality(mine) = 1 * n
  <2>1. IsFiniteSet({b}) /\ Cardinality({b}) = 1
    BY FS_Singleton, Zenon
  <2> HIDE DEF n
  <2>2. Cardinality({b} \X (1 .. n)) = Cardinality({b}) * Cardinality(1 .. n)
    BY <1>2, <2>1, FS_Product, Zenon
  <2> QED
    BY <1>2, <2>1, <2>2
<1>4. mine \in SUBSET Entries(s)
  BY <1>1 DEF Entries
<1> HIDE DEF mine
<1>5. Cardinality(mine) <= Cardinality(Entries(s))
  BY <1>4, PoolFinite, FS_Subset
<1> QED
  BY <1>1, <1>3, <1>5, PoolFinite

(* pool_return pushes an entry if the stack has room.                      *)
LEMMA ReturnStore ==
    ASSUME NEW s, StoreOK(s), NEW b \in Buffers
    PROVE  StoreOK(pool_return(s, b))
<1> DEFINE n == s.free[b] + 1
<1> DEFINE t == [s EXCEPT !.free[b] = n]
<1>1. /\ s.free[b] \in 0 .. PoolSize /\ PoolSize \in Nat /\ s.free[b] <= FreeCount(s)
      /\ FreeCount(s) \in Nat
  BY PoolFinite, EntriesOf, FS_CardinalityType, Zenon DEF StoreOK
<1>2. CASE FreeCount(s) < PoolSize
  <2>1. n \in 0 .. PoolSize
    BY <1>1, <1>2
  <2>2. pool_return(s, b) = t
    BY <1>2 DEF pool_return
  <2>3. /\ DOMAIN t = Fields /\ t.fec_recovered = s.fec_recovered
        /\ t.free = [s.free EXCEPT ![b] = n]
        /\ \A q \in Rings : t[q] = s[q]
    BY DEF StoreOK, Fields, Rings
  <2> HIDE DEF t
  <2> DEFINE e == <<b, s.free[b] + 1>>
  <2>4. Entries(t) \in SUBSET (Entries(s) \cup {e})
    <3> SUFFICES ASSUME NEW x \in Buffers, NEW i \in 1 .. PoolSize, i <= t.free[x],
                        ~ i <= s.free[x]
                 PROVE  x = b /\ i = s.free[b] + 1
      BY DEF Entries
    <3>1. x = b
      BY <2>3 DEF StoreOK
    <3> QED
      BY <1>1, <2>3, <3>1 DEF StoreOK
  <2> HIDE DEF e
  <2>5. /\ IsFiniteSet(Entries(s) \cup {e})
        /\ Cardinality(Entries(s) \cup {e}) <= Cardinality(Entries(s)) + 1
    <3>1. IsFiniteSet(Entries(s)) /\ Cardinality(Entries(s)) \in Nat
      BY <1>1, PoolFinite
    <3>2. /\ IsFiniteSet(Entries(s) \cup {e})
          /\ Cardinality(Entries(s) \cup {e}) =
               IF e \in Entries(s) THEN Cardinality(Entries(s)) ELSE Cardinality(Entries(s)) + 1
      BY <3>1, FS_AddElement
    <3> QED
      BY <3>1, <3>2
  <2>6. Cardinality(Entries(t)) <= Cardinality(Entries(s) \cup {e})
    BY <2>4, <2>5, FS_Subset
  <2>7. FreeCount(t) <= PoolSize
    <3>1. /\ Cardinality(Entries(t)) \in Nat /\ Cardinality(Entries(s) \cup {e}) \in Nat
          /\ FreeCount(t) = Cardinality(Entries(t)) /\ FreeCount(s) = Cardinality(Entries(s))
      BY <2>5, PoolFinite, FS_CardinalityType
    <3> QED
      BY <1>1, <1>2, <2>5, <2>6, <3>1
  <2>8. StoreOK(t)
    BY <2>1, <2>3, <2>7 DEF StoreOK
  <2> QED
    BY <2>2, <2>8
<1>3. CASE ~ FreeCount(s) < PoolSize
  BY <1>3 DEF pool_return
<1> QED
  BY <1>2, <1>3

(* A full ring refuses, and the packet goes back to the pool.              *)
LEMMA PushStore ==
    ASSUME NEW s, StoreOK(s), NEW q \in Rings, NEW b \in Buffers
    PROVE  StoreOK(ring_push(s, q, b))
<1>1. CASE Len(s[q]) < RingCap
  <2> DEFINE v == Append(s[q], b)
  <2> DEFINE t == [s EXCEPT ![q] = v]
  <2>1. ring_push(s, q, b) = t
    BY <1>1 DEF ring_push
  <2>2. s[q] \in Seq(Buffers) /\ Len(s[q]) \in Nat /\ RingCap \in Nat
    BY CapAssumption, LenProperties DEF StoreOK
  <2>3. Append(s[q], b) \in Seq(Buffers) /\ Len(Append(s[q], b)) = Len(s[q]) + 1
    BY <2>2, AppendProperties
  <2>4. /\ DOMAIN t = Fields /\ t.fec_recovered = s.fec_recovered /\ t.free = s.free
        /\ t[q] = Append(s[q], b) /\ \A r \in Rings : r # q => t[r] = s[r]
        /\ FreeCount(t) = FreeCount(s)
    <3>1. v = Append(s[q], b)
      OBVIOUS
    <3> HIDE DEF v
    <3> QED
      BY <3>1, Zenon DEF StoreOK, Fields, Rings, FreeCount
  <2> HIDE DEF t
  <2>5. Len(t[q]) <= RingCap
    BY <1>1, <2>2, <2>3, <2>4
  <2> QED
    BY <2>1, <2>3, <2>4, <2>5, Zenon DEF StoreOK
<1>2. CASE ~ Len(s[q]) < RingCap
  BY <1>2, ReturnStore DEF ring_push
<1> QED
  BY <1>1, <1>2

(* A pop gives the oldest packet.                                          *)
LEMMA PopStore ==
    ASSUME NEW s, StoreOK(s), NEW q \in Rings, s[q] # <<>>
    PROVE  /\ StoreOK(ring_pop(s, q)) /\ Head(s[q]) \in Buffers
<1> DEFINE v == Tail(s[q])
<1> DEFINE t == [s EXCEPT ![q] = v]
<1>1. ring_pop(s, q) = t
  BY DEF ring_pop
<1>2. s[q] \in Seq(Buffers) /\ Len(s[q]) \in Nat /\ RingCap \in Nat /\ Len(s[q]) <= RingCap
  BY CapAssumption, LenProperties DEF StoreOK
<1>3. Tail(s[q]) \in Seq(Buffers) /\ Len(Tail(s[q])) = Len(s[q]) - 1 /\ Head(s[q]) \in Buffers
  BY <1>2, HeadTailProperties
<1>4. /\ DOMAIN t = Fields /\ t.fec_recovered = s.fec_recovered /\ t.free = s.free
      /\ t[q] = Tail(s[q]) /\ \A r \in Rings : r # q => t[r] = s[r]
      /\ FreeCount(t) = FreeCount(s)
  <2>1. v = Tail(s[q])
    OBVIOUS
  <2> HIDE DEF v
  <2> QED
    BY <2>1, Zenon DEF StoreOK, Fields, Rings, FreeCount
<1> HIDE DEF t
<1>5. Len(t[q]) <= RingCap
  BY <1>2, <1>3, <1>4
<1> QED
  BY <1>1, <1>3, <1>4, <1>5, Zenon DEF StoreOK

(* pool_get: the buffer on the stack is with the thread that took it.      *)
LEMMA GetOwned ==
    ASSUME NEW s, StoreOK(s), NEW out, Owned(s, out), NEW b \in Free(s)
    PROVE  b \notin out /\ Owned(pool_get(s, b), out \cup {b})
<1> PICK loc \in [Buffers -> Places] :
           Located(s, loc) /\ out = {x \in Buffers : loc[x] = "thread"}
  BY DEF Owned
<1>1. b \in Buffers /\ s.free[b] = 1 /\ loc[b] = "pool"
  BY DEF Free, Located
<1> DEFINE t == pool_get(s, b)
<1>2. /\ t.fec_recovered = s.fec_recovered /\ t.free = [s.free EXCEPT ![b] = 0]
      /\ \A q \in Rings : t[q] = s[q]
  BY <1>1 DEF pool_get, StoreOK, Fields, Rings
<1> HIDE DEF t
<1> DEFINE there == [loc EXCEPT ![b] = "thread"]
<1>3. there \in [Buffers -> Places] /\ out \cup {b} = {x \in Buffers : there[x] = "thread"}
  BY <1>1 DEF Places
<1>4. \A x \in Buffers : t.free[x] = IF there[x] = "pool" THEN 1 ELSE 0
  BY <1>1, <1>2 DEF Located, StoreOK
<1>5. \A q \in Rings : \A i \in 1 .. Len(s[q]) : s[q][i] \in Buffers /\ s[q][i] # b
  BY <1>1, ElementOfSeq DEF Located, StoreOK, Rings
<1>6. \A q \in Rings : /\ \A i \in 1 .. Len(t[q]) : there[t[q][i]] = q
                       /\ \A i, j \in 1 .. Len(t[q]) : t[q][i] = t[q][j] => i = j
  BY <1>2, <1>5 DEF Located
<1>7. \A q \in Rings : \A x \in Buffers : there[x] = q => \E i \in 1 .. Len(t[q]) : t[q][i] = x
  BY <1>1, <1>2 DEF Located, Rings
<1>8. Located(t, there)
  BY <1>2, <1>4, <1>6, <1>7 DEF Located
<1>9. Owned(t, out \cup {b})
  BY <1>3, <1>8, Zenon DEF Owned
<1> QED
  BY <1>1, <1>9 DEF t

(* A buffer that a thread holds finds room in the pool: the other buffers  *)
(* cannot fill it.                                                         *)
LEMMA RoomForHeld ==
    ASSUME NEW s, NEW loc, Located(s, loc), NEW b \in Buffers, loc[b] = "thread"
    PROVE  FreeCount(s) < PoolSize
<1> DEFINE all == Buffers \X {1}
<1>1. IsFiniteSet(all) /\ Cardinality(all) = PoolSize
  <2>1. IsFiniteSet({1}) /\ Cardinality({1}) = 1
    BY FS_Singleton, Zenon
  <2>2. IsFiniteSet(all) /\ Cardinality(all) = Cardinality(Buffers) * Cardinality({1})
    BY <2>1, PoolFinite, FS_Product
  <2> QED
    BY <2>1, <2>2, PoolFinite DEF PoolSize
<1>2. <<b, 1>> \in all
  OBVIOUS
<1>3. Entries(s) \in SUBSET (all \ {<<b, 1>>})
  BY DEF Entries, Located
<1> HIDE DEF all
<1>4. /\ IsFiniteSet(all \ {<<b, 1>>})
      /\ Cardinality(all \ {<<b, 1>>}) = Cardinality(all) - 1
  BY <1>1, <1>2, FS_RemoveElement
<1>5. Cardinality(Entries(s)) <= Cardinality(all \ {<<b, 1>>})
  BY <1>3, <1>4, FS_Subset
<1>6. Cardinality(Entries(s)) \in Nat /\ FreeCount(s) = Cardinality(Entries(s)) /\ PoolSize \in Nat
  BY PoolFinite, FS_CardinalityType
<1> QED
  BY <1>1, <1>4, <1>5, <1>6

(* pool_return: the buffer leaves its thread for the stack.                *)
LEMMA ReturnOwned ==
    ASSUME NEW s, StoreOK(s), NEW out, Owned(s, out), NEW b \in out
    PROVE  b \in Buffers /\ Owned(pool_return(s, b), out \ {b})
<1> PICK loc \in [Buffers -> Places] :
           Located(s, loc) /\ out = {x \in Buffers : loc[x] = "thread"}
  BY DEF Owned
<1>1. b \in Buffers /\ s.free[b] = 0 /\ loc[b] = "thread"
  BY DEF Located
<1> DEFINE t == [s EXCEPT !.free[b] = s.free[b] + 1]
<1>2. pool_return(s, b) = t
  BY <1>1, RoomForHeld DEF pool_return
<1>3. /\ t.fec_recovered = s.fec_recovered /\ t.free = [s.free EXCEPT ![b] = 1]
      /\ \A q \in Rings : t[q] = s[q]
  BY <1>1 DEF StoreOK, Fields, Rings
<1> HIDE DEF t
<1> DEFINE there == [loc EXCEPT ![b] = "pool"]
<1>4. there \in [Buffers -> Places] /\ out \ {b} = {x \in Buffers : there[x] = "thread"}
  BY <1>1 DEF Places
<1>5. \A x \in Buffers : t.free[x] = IF there[x] = "pool" THEN 1 ELSE 0
  BY <1>1, <1>3 DEF Located, StoreOK
<1>6. \A q \in Rings : \A i \in 1 .. Len(s[q]) : s[q][i] \in Buffers /\ s[q][i] # b
  BY <1>1, ElementOfSeq DEF Located, StoreOK, Rings
<1>7. \A q \in Rings : /\ \A i \in 1 .. Len(t[q]) : there[t[q][i]] = q
                       /\ \A i, j \in 1 .. Len(t[q]) : t[q][i] = t[q][j] => i = j
  BY <1>3, <1>6 DEF Located
<1>8. \A q \in Rings : \A x \in Buffers : there[x] = q => \E i \in 1 .. Len(t[q]) : t[q][i] = x
  <2>1. \A q \in Rings : \A x \in Buffers : there[x] = q => loc[x] = q
    BY <1>1 DEF Rings
  <2> QED
    BY <1>3, <2>1 DEF Located
<1>9. Located(t, there)
  BY <1>3, <1>5, <1>7, <1>8 DEF Located
<1> QED
  BY <1>1, <1>2, <1>4, <1>9, Zenon DEF Owned

(* ring_push: the buffer leaves its thread for the ring, or for the pool   *)
(* when the ring is full.                                                  *)
LEMMA PushOwned ==
    ASSUME NEW s, StoreOK(s), NEW out, Owned(s, out), NEW b \in out, NEW q \in Rings
    PROVE  b \in Buffers /\ Owned(ring_push(s, q, b), out \ {b})
<1>1. CASE ~ Len(s[q]) < RingCap
  BY <1>1, ReturnOwned DEF ring_push
<1>2. CASE Len(s[q]) < RingCap
  <2> PICK loc \in [Buffers -> Places] :
             Located(s, loc) /\ out = {x \in Buffers : loc[x] = "thread"}
    BY DEF Owned
  <2>1. b \in Buffers /\ loc[b] = "thread" /\ s.free[b] = 0
    BY DEF Located
  <2> DEFINE v == Append(s[q], b)
  <2> DEFINE t == [s EXCEPT ![q] = v]
  <2>2. ring_push(s, q, b) = t
    BY <1>2 DEF ring_push
  <2>3. s[q] \in Seq(Buffers) /\ Len(s[q]) \in Nat
    BY LenProperties DEF StoreOK
  <2>4. /\ Len(v) = Len(s[q]) + 1 /\ v[Len(s[q]) + 1] = b
        /\ \A i \in 1 .. Len(s[q]) : v[i] = s[q][i]
    BY <2>1, <2>3, AppendProperties
  <2> HIDE DEF v
  <2>5. /\ t.fec_recovered = s.fec_recovered /\ t.free = s.free
        /\ t[q] = v /\ \A r \in Rings : r # q => t[r] = s[r]
    BY DEF StoreOK, Fields, Rings
  <2> HIDE DEF t
  <2> DEFINE there == [loc EXCEPT ![b] = q]
  <2>6. there \in [Buffers -> Places] /\ out \ {b} = {x \in Buffers : there[x] = "thread"}
    BY <2>1 DEF Places, Rings
  <2>7. \A x \in Buffers : t.free[x] = IF there[x] = "pool" THEN 1 ELSE 0
    BY <2>1, <2>5 DEF Located, Rings
  <2>8. \A r \in Rings : \A i \in 1 .. Len(s[r]) : s[r][i] \in Buffers /\ s[r][i] # b
    BY <2>1, ElementOfSeq DEF Located, StoreOK, Rings
  <2>9. ASSUME NEW r \in Rings, r # q
        PROVE  /\ \A i \in 1 .. Len(t[r]) : there[t[r][i]] = r
               /\ \A i, j \in 1 .. Len(t[r]) : t[r][i] = t[r][j] => i = j
               /\ \A x \in Buffers : there[x] = r => \E i \in 1 .. Len(t[r]) : t[r][i] = x
    BY <2>1, <2>5, <2>8, <2>9 DEF Located
  <2>10. /\ \A i \in 1 .. Len(v) : there[v[i]] = q
         /\ \A i, j \in 1 .. Len(v) : v[i] = v[j] => i = j
         /\ \A x \in Buffers : there[x] = q => \E i \in 1 .. Len(v) : v[i] = x
    <3>1. \A i \in 1 .. Len(v) : i \in 1 .. Len(s[q]) \/ i = Len(s[q]) + 1
      BY <2>3, <2>4
    <3>2. \A i \in 1 .. Len(s[q]) : i \in 1 .. Len(v)
      BY <2>3, <2>4
    <3>3. Len(s[q]) + 1 \in 1 .. Len(v)
      BY <2>3, <2>4
    <3>4. \A i \in 1 .. Len(v) : there[v[i]] = q
      BY <2>1, <2>4, <2>8, <3>1, SMTT(30) DEF Located
    <3>5. \A i, j \in 1 .. Len(v) : v[i] = v[j] => i = j
      BY <2>1, <2>4, <2>8, <3>1 DEF Located
    <3>6. \A x \in Buffers : there[x] = q => \E i \in 1 .. Len(v) : v[i] = x
      BY <2>1, <2>4, <3>2, <3>3 DEF Located
    <3> QED
      BY <3>4, <3>5, <3>6
  <2>11. Located(t, there)
    BY <2>5, <2>7, <2>9, <2>10 DEF Located
  <2> QED
    BY <2>1, <2>2, <2>6, <2>11, Zenon DEF Owned
<1> QED
  BY <1>1, <1>2

(* A pop: the oldest buffer of the ring is with the thread that popped it. *)
LEMMA PopOwned ==
    ASSUME NEW s, StoreOK(s), NEW out, Owned(s, out), NEW q \in Rings, s[q] # <<>>
    PROVE  Head(s[q]) \notin out /\ Owned(ring_pop(s, q), out \cup {Head(s[q])})
<1> PICK loc \in [Buffers -> Places] :
           Located(s, loc) /\ out = {x \in Buffers : loc[x] = "thread"}
  BY DEF Owned
<1> DEFINE b == Head(s[q])
<1> DEFINE v == Tail(s[q])
<1> DEFINE t == [s EXCEPT ![q] = v]
<1>1. ring_pop(s, q) = t
  BY DEF ring_pop
<1>2. s[q] \in Seq(Buffers) /\ Len(s[q]) \in Nat \ {0}
  BY LenProperties, EmptySeq DEF StoreOK
<1>3. b \in Buffers /\ b = s[q][1] /\ 1 \in 1 .. Len(s[q])
  BY <1>2, HeadTailProperties
<1>4. Len(v) = Len(s[q]) - 1 /\ \A i \in 1 .. Len(v) : v[i] = s[q][i + 1]
  BY <1>2, HeadTailProperties
<1>5. loc[b] = q
  BY <1>3 DEF Located
<1> HIDE DEF b, v
<1>6. /\ t.fec_recovered = s.fec_recovered /\ t.free = s.free
      /\ t[q] = v /\ \A r \in Rings : r # q => t[r] = s[r]
  BY DEF StoreOK, Fields, Rings
<1> HIDE DEF t
<1> DEFINE there == [loc EXCEPT ![b] = "thread"]
<1>7. there \in [Buffers -> Places] /\ out \cup {b} = {x \in Buffers : there[x] = "thread"}
  BY <1>3 DEF Places, Rings
<1>8. \A x \in Buffers : t.free[x] = IF there[x] = "pool" THEN 1 ELSE 0
  BY <1>3, <1>5, <1>6 DEF Located, Rings
<1>9. \A r \in Rings : \A i \in 1 .. Len(s[r]) : s[r][i] \in Buffers
  BY ElementOfSeq DEF StoreOK
<1>10. ASSUME NEW r \in Rings, r # q
       PROVE  /\ \A i \in 1 .. Len(t[r]) : there[t[r][i]] = r
              /\ \A i, j \in 1 .. Len(t[r]) : t[r][i] = t[r][j] => i = j
              /\ \A x \in Buffers : there[x] = r => \E i \in 1 .. Len(t[r]) : t[r][i] = x
  <2>1. \A x \in Buffers : there[x] = r <=> loc[x] = r
    BY <1>3, <1>5, <1>10 DEF Rings
  <2> QED
    BY <1>6, <1>9, <1>10, <2>1 DEF Located
<1>11. /\ \A i \in 1 .. Len(v) : there[v[i]] = q
       /\ \A i, j \in 1 .. Len(v) : v[i] = v[j] => i = j
       /\ \A x \in Buffers : there[x] = q => \E i \in 1 .. Len(v) : v[i] = x
  <2>1. \A i \in 1 .. Len(v) : i \in Int /\ i + 1 \in 1 .. Len(s[q]) /\ i + 1 # 1
    BY <1>2, <1>4
  <2>2. \A i \in 1 .. Len(s[q]) : i # 1 => i - 1 \in 1 .. Len(v) /\ (i - 1) + 1 = i
    BY <1>2, <1>4
  <2>3. \A i \in 1 .. Len(v) : v[i] \in Buffers /\ v[i] # b /\ loc[v[i]] = q
    BY <1>3, <1>4, <1>9, <2>1 DEF Located
  <2>4. \A i \in 1 .. Len(v) : there[v[i]] = q
    BY <2>3
  <2>5. \A i, j \in 1 .. Len(v) : v[i] = v[j] => i = j
    <3> SUFFICES ASSUME NEW i \in 1 .. Len(v), NEW j \in 1 .. Len(v), v[i] = v[j] PROVE i = j
      OBVIOUS
    <3>1. i + 1 = j + 1
      BY <1>4, <2>1 DEF Located
    <3> QED
      BY <2>1, <3>1
  <2>6. ASSUME NEW x \in Buffers, there[x] = q PROVE \E i \in 1 .. Len(v) : v[i] = x
    <3>1. x # b /\ loc[x] = q
      BY <1>3, <2>6 DEF Rings
    <3>2. PICK i \in 1 .. Len(s[q]) : s[q][i] = x
      BY <3>1, SMTT(30) DEF Located
    <3>3. i - 1 \in 1 .. Len(v) /\ v[i - 1] = x
      BY <1>3, <1>4, <2>2, <3>1, <3>2
    <3> QED
      BY <3>3
  <2> QED
    BY <2>4, <2>5, <2>6
<1>12. Located(t, there)
  BY <1>6, <1>8, <1>10, <1>11 DEF Located
<1>13. b \notin out
  BY <1>5 DEF Rings
<1>14. Owned(t, out \cup {b})
  BY <1>7, <1>12, Zenon DEF Owned
<1> QED
  BY <1>1, <1>13, <1>14 DEF b

-----------------------------------------------------------------------------
(* The same with and without the peer's parity.                            *)

(* pool_get.                                                               *)
LEMMA GetSound ==
    ASSUME NEW s, NEW out, NEW fec, Sound(s, out, fec), NEW b \in Free(s)
    PROVE  b \in Buffers /\ Sound(pool_get(s, b), out \cup {b}, fec) /\ (~ fec => b \notin out)
BY GetStore, GetOwned DEF Sound

(* pool_return.                                                            *)
LEMMA ReturnSound ==
    ASSUME NEW s, NEW out, NEW fec, Sound(s, out, fec), NEW b \in Buffers, ~ fec => b \in out
    PROVE  Sound(pool_return(s, b), out \ {b}, fec)
BY ReturnStore, ReturnOwned DEF Sound

(* ring_push, with the return of a packet that finds the ring full.        *)
LEMMA PushSound ==
    ASSUME NEW s, NEW out, NEW fec, Sound(s, out, fec), NEW b \in Buffers, ~ fec => b \in out,
           NEW q \in Rings
    PROVE  Sound(ring_push(s, q, b), out \ {b}, fec)
BY PushStore, PushOwned DEF Sound

(* A pop.                                                                  *)
LEMMA PopSound ==
    ASSUME NEW s, NEW out, NEW fec, Sound(s, out, fec), NEW q \in Rings, s[q] # <<>>
    PROVE  /\ Head(s[q]) \in Buffers /\ (~ fec => Head(s[q]) \notin out)
           /\ Sound(ring_pop(s, q), out \cup {Head(s[q])}, fec)
BY PopStore, PopOwned DEF Sound

(* Whoever sends takes a buffer and gives it to a ring: none stays behind. *)
LEMMA SendSound ==
    ASSUME NEW s, NEW out, NEW fec, Sound(s, out, fec), NEW q \in Rings, NEW t \in MaySend(s, q)
    PROVE  Sound(t, out, fec)
<1>1. CASE t = s
  BY <1>1
<1>2. CASE \E b \in Free(s) : t = ring_push(pool_get(s, b), q, b)
  <2> PICK b \in Free(s) : t = ring_push(pool_get(s, b), q, b)
    BY <1>2
  <2>1. b \in Buffers /\ Sound(pool_get(s, b), out \cup {b}, fec) /\ (~ fec => b \notin out)
    BY GetSound
  <2>2. Sound(t, (out \cup {b}) \ {b}, fec)
    BY <2>1, PushSound
  <2>3. ~ fec => (out \cup {b}) \ {b} = out
    BY <2>1
  <2> QED
    BY <2>2, <2>3 DEF Sound
<1> QED
  BY <1>1, <1>2 DEF MaySend, Send

(* And so do several senders in a row.                                     *)
LEMMA SendsSound ==
    ASSUME NEW S, NEW out, NEW fec, \A s \in S : Sound(s, out, fec), NEW q \in Rings, NEW called
    PROVE  \A t \in MaySendIf(called, S, q) : Sound(t, out, fec)
<1> SUFFICES ASSUME NEW t \in MaySendIf(called, S, q) PROVE Sound(t, out, fec)
  OBVIOUS
<1>1. CASE called
  <2> PICK s \in S : t \in MaySend(s, q)
    BY <1>1 DEF MaySendIf
  <2> QED
    BY SendSound
<1>2. CASE ~ called
  BY <1>2 DEF MaySendIf
<1> QED
  BY <1>1, <1>2

(* session_reset and session_close drop what the session had rebuilt:      *)
(* without the peer's parity that is nothing.                              *)
LEMMA ForgetSound ==
    ASSUME NEW s, NEW out, NEW fec, Sound(s, out, fec)
    PROVE  Sound(Forget(s), out, fec)
<1> DEFINE t == Forget(s)
<1>1. /\ DOMAIN t = Fields /\ t.fec_recovered = NULL /\ t.free = s.free
      /\ \A q \in Rings : t[q] = s[q]
  BY DEF Sound, StoreOK, Fields, Rings, Forget
<1> HIDE DEF t
<1>2. FreeCount(t) = FreeCount(s)
  BY <1>1 DEF FreeCount
<1>3. StoreOK(t)
  BY <1>1, <1>2 DEF Sound, StoreOK
<1>4. \A loc : Located(s, loc) => Located(t, loc)
  BY <1>1 DEF Located
<1>5. Owned(s, out) => Owned(t, out)
  BY <1>4 DEF Owned
<1> QED
  BY <1>3, <1>5 DEF Sound, t

(* The two parts of a pair.                                                *)
LEMMA PairOf ==
    ASSUME NEW s, NEW parity, NEW other, NEW r, r = <<s, parity>> \/ r = <<s, other>>
    PROVE  r[1] = s /\ r[2] \in {parity, other}
OBVIOUS

(* What try_rebuild may leave: the buffers as they were, or one more taken. *)
LEMMA RebuiltParts ==
    ASSUME NEW s, NEW parity \in BOOLEAN, NEW r \in Rebuilt(s, parity)
    PROVE  /\ r[2] \in {parity, FALSE}
           /\ \/ r[1] = s
              \/ parity /\ \E b \in Free(s) : r[1] = [pool_get(s, b) EXCEPT !.fec_recovered = b]
<1>1. CASE r = <<s, parity>> \/ r = <<s, FALSE>>
  <2>1. r[1] = s /\ r[2] \in {parity, FALSE}
    BY <1>1, PairOf, Zenon
  <2> QED
    BY <2>1, Zenon
<1>2. CASE parity /\ \E b \in Free(s) : r = <<[pool_get(s, b) EXCEPT !.fec_recovered = b], FALSE>>
  <2> PICK b \in Free(s) : r = <<[pool_get(s, b) EXCEPT !.fec_recovered = b], FALSE>>
    BY <1>2
  <2> DEFINE t == [pool_get(s, b) EXCEPT !.fec_recovered = b]
  <2>1. r = <<t, FALSE>>
    OBVIOUS
  <2> HIDE DEF t
  <2>2. r[1] = t /\ r[2] \in {parity, FALSE}
    BY <2>1
  <2> QED
    BY <1>2, <2>2 DEF t
<1> QED
  BY <1>1, <1>2, Zenon DEF Rebuilt

(* try_rebuild takes a buffer that the session keeps; it needs parity.     *)
LEMMA RebuildSound ==
    ASSUME NEW s, NEW out, NEW fec, Sound(s, out, fec), NEW parity \in BOOLEAN, ~ fec => ~ parity,
           NEW r \in Rebuilt(s, parity)
    PROVE  Sound(r[1], out, fec)
<1>1. CASE r[1] = s
  BY <1>1
<1>2. CASE parity /\ \E b \in Free(s) : r[1] = [pool_get(s, b) EXCEPT !.fec_recovered = b]
  <2> PICK b \in Free(s) : r[1] = [pool_get(s, b) EXCEPT !.fec_recovered = b]
    BY <1>2
  <2> DEFINE g == pool_get(s, b)
  <2>1. b \in Buffers /\ StoreOK(g)
    BY GetStore DEF Sound
  <2> HIDE DEF g
  <2> DEFINE t == [g EXCEPT !.fec_recovered = b]
  <2>2. /\ DOMAIN t = Fields /\ t.fec_recovered = b /\ t.free = g.free
        /\ \A q \in Rings : t[q] = g[q]
    BY <2>1 DEF StoreOK, Fields, Rings
  <2>3. r[1] = t
    BY DEF g
  <2> HIDE DEF t
  <2>4. FreeCount(t) = FreeCount(g)
    BY <2>2 DEF FreeCount
  <2>5. StoreOK(t)
    BY <2>1, <2>2, <2>4 DEF StoreOK
  <2> QED
    BY <1>2, <2>3, <2>5 DEF Sound
<1> QED
  BY <1>1, <1>2, RebuiltParts, Zenon

(* The control handlers give the packet back whatever they make of it.     *)
LEMMA HandleSound ==
    ASSUME NEW s, NEW out, Sound(s, out, peer_fec), NEW p \in Buffers, ~ peer_fec => p \in out,
           Handle(s, p)
    PROVE  Sound(m', out \ {p}, peer_fec)
<1>1. \A t : Sound(t, out, peer_fec) => Sound(pool_return(t, p), out \ {p}, peer_fec)
  BY ReturnSound
<1>2. \A q \in Rings : \A t \in MaySend(s, q) \cup Send(s, q) \cup {s} : Sound(t, out, peer_fec)
  BY SendSound DEF MaySend
<1>3. "control" \in Rings /\ "chat" \in Rings
  BY DEF Rings
<1>4. CASE HandleData(s, p)
  <2>1. \E t \in MaySend(s, "control") \cup MaySend(s, "chat") \cup {s} : m' = pool_return(t, p)
    BY <1>4 DEF HandleData, MaySend
  <2> QED
    BY <1>1, <1>2, <1>3, <2>1
<1>5. CASE HandleControl(s, p)
  <2>1. \E t \in Send(s, "control") \cup {s} : m' = pool_return(t, p)
    BY <1>5 DEF HandleControl
  <2> QED
    BY <1>1, <1>2, <1>3, <2>1
<1>6. CASE HandleHandshake(s, p)
  <2>1. \E t \in MaySend(s, "control") : m' = pool_return(t, p)
    BY <1>6 DEF HandleHandshake
  <2> QED
    BY <1>1, <1>2, <1>3, <2>1, Zenon
<1>7. CASE HandleError(s, p)
  <2>1. m' = pool_return(Forget(s), p)
    BY <1>7 DEF HandleError, Forget
  <2> QED
    BY <1>1, <2>1, ForgetSound
<1> QED
  BY <1>4, <1>5, <1>6, <1>7 DEF Handle

-----------------------------------------------------------------------------
(* The invariant.  The threads' own buffers are the ones that neither the  *)
(* pool nor a ring has, and two threads never have the same one.           *)
Out == {rx, job, tx} \ {NULL}

HoldInv ==
    /\ Sound(m, Out, peer_fec)
    /\ {rx, job, tx} \subseteq Buffers \cup {NULL}
    /\ ~ peer_fec =>
          /\ rx # NULL => rx # job /\ rx # tx
          /\ job # NULL => job # tx

DataInv ==
    /\ data \in [Buffers -> Kinds]
    /\ pc \in {"event", "result", "rx"} /\ state \in States
    /\ role_initiator \in BOOLEAN /\ session_is_locked \in BOOLEAN
    /\ have_parity \in BOOLEAN /\ peer_fec \in BOOLEAN
    /\ ~ peer_fec => have_parity = FALSE
    /\ traffic \in 0 .. MaxTraffic

(* udp_rx_once: a buffer is taken, given back, or queued.                  *)
LEMMA RxHold ==
    ASSUME HoldInv, RxGet \/ RxNothing \/ RxPacket
    PROVE  HoldInv'
<1>1. peer_fec' = peer_fec /\ job' = job /\ tx' = tx /\ NULL \notin Buffers
  BY BuffersAssumption DEF RxGet, RxNothing, RxPacket
<1>2. CASE RxGet
  <2> PICK b \in Free(m) : rx' = b /\ m' = pool_get(m, b)
    BY <1>2 DEF RxGet
  <2>1. /\ b \in Buffers /\ Sound(m', Out \cup {b}, peer_fec)
        /\ ~ peer_fec => b \notin Out
    BY GetSound DEF HoldInv
  <2>2. Out' = Out \cup {b} /\ rx = NULL
    BY <1>1, <1>2, <2>1 DEF Out, RxGet
  <2> QED
    BY <1>1, <2>1, <2>2 DEF HoldInv, Out
<1>3. CASE RxNothing \/ RxPacket
  <2>1. rx \in Buffers /\ rx \in Out /\ rx' = NULL
    BY <1>3 DEF HoldInv, Out, RxNothing, RxPacket
  <2>2. Sound(m', Out \ {rx}, peer_fec)
    <3>1. "rx_ring" \in Rings
      BY DEF Rings
    <3> QED
      BY <1>3, <2>1, <3>1, ReturnSound, PushSound DEF HoldInv, RxNothing, RxPacket
  <2>3. ~ peer_fec => Out' = Out \ {rx}
    BY <1>1, <2>1 DEF Out, HoldInv
  <2>4. Sound(m', Out', peer_fec)
    BY <2>2, <2>3, SMTT(30) DEF Sound
  <2> QED
    BY <1>1, <2>1, <2>4 DEF HoldInv
<1> QED
  BY <1>2, <1>3

(* crypto_loop: a packet is popped, then queued as a result or given back. *)
LEMMA CryptoHold ==
    ASSUME HoldInv, CryptoTake \/ CryptoDone
    PROVE  HoldInv'
<1>1. /\ peer_fec' = peer_fec /\ rx' = rx /\ tx' = tx /\ NULL \notin Buffers
      /\ "crypto_ring" \in Rings /\ "result_ring" \in Rings
  BY BuffersAssumption DEF CryptoTake, CryptoDone, Rings
<1>2. CASE CryptoTake
  <2> DEFINE b == Head(m["crypto_ring"])
  <2>1. job = NULL /\ m["crypto_ring"] # <<>> /\ job' = b /\ m' = ring_pop(m, "crypto_ring")
    BY <1>2 DEF CryptoTake
  <2>2. /\ b \in Buffers /\ Sound(m', Out \cup {b}, peer_fec)
        /\ ~ peer_fec => b \notin Out
    BY <1>1, <2>1, PopSound DEF HoldInv
  <2> HIDE DEF b
  <2>3. Out' = Out \cup {b}
    BY <1>1, <2>1, <2>2 DEF Out
  <2> QED
    BY <1>1, <2>1, <2>2, <2>3, Zenon DEF HoldInv, Out
<1>3. CASE CryptoDone
  <2>1. job \in Buffers /\ job \in Out /\ job' = NULL
    BY <1>3 DEF HoldInv, Out, CryptoDone
  <2>2. Sound(m', Out \ {job}, peer_fec)
    BY <1>1, <1>3, <2>1, ReturnSound, PushSound DEF HoldInv, CryptoDone
  <2>3. ~ peer_fec => Out' = Out \ {job}
    BY <1>1, <2>1 DEF Out, HoldInv
  <2>4. Sound(m', Out', peer_fec)
    BY <2>2, <2>3 DEF Sound
  <2> QED
    BY <1>1, <2>1, <2>4 DEF HoldInv
<1> QED
  BY <1>2, <1>3

(* tx_loop: a packet is popped, sent and given back.                       *)
LEMMA TxHold ==
    ASSUME HoldInv, TxTake \/ TxSent
    PROVE  HoldInv'
<1>1. peer_fec' = peer_fec /\ rx' = rx /\ job' = job /\ NULL \notin Buffers
  BY BuffersAssumption DEF TxTake, TxSent
<1>2. CASE TxTake
  <2> PICK q \in {"control", "chat"} :
             m[q] # <<>> /\ tx' = Head(m[q]) /\ m' = ring_pop(m, q)
    BY <1>2 DEF TxTake
  <2> DEFINE b == Head(m[q])
  <2>1. /\ b \in Buffers /\ Sound(m', Out \cup {b}, peer_fec)
        /\ ~ peer_fec => b \notin Out
    <3>1. q \in Rings
      BY DEF Rings
    <3> QED
      BY <3>1, PopSound DEF HoldInv
  <2>2. tx' = b /\ tx = NULL
    BY <1>2 DEF TxTake
  <2> HIDE DEF b
  <2>3. Out' = Out \cup {b}
    BY <1>1, <2>1, <2>2 DEF Out
  <2> QED
    BY <1>1, <2>1, <2>2, <2>3, Zenon DEF HoldInv, Out
<1>3. CASE TxSent
  <2>1. tx \in Buffers /\ tx \in Out /\ tx' = NULL
    BY <1>3 DEF HoldInv, Out, TxSent
  <2>2. Sound(m', Out \ {tx}, peer_fec)
    BY <1>3, <2>1, ReturnSound DEF HoldInv, TxSent
  <2>3. ~ peer_fec => Out' = Out \ {tx}
    BY <1>1, <2>1 DEF Out, HoldInv
  <2>4. Sound(m', Out', peer_fec)
    BY <2>2, <2>3 DEF Sound
  <2> QED
    BY <1>1, <2>1, <2>4 DEF HoldInv
<1> QED
  BY <1>2, <1>3

(* The application thread keeps no buffer from one step to the next.       *)
LEMMA SameHands ==
    ASSUME HoldInv, UNCHANGED <<rx, job, tx, peer_fec>>, Sound(m', Out, peer_fec)
    PROVE  HoldInv'
<1>1. Out' = Out
  BY DEF Out
<1> QED
  BY <1>1 DEF HoldInv

(* The packet that poll pops goes somewhere, or back to the pool.          *)
LEMMA PassedOn ==
    ASSUME NEW s, NEW out, NEW fec, NEW p, Sound(s, (out \cup {p}) \ {p}, fec), ~ fec => p \notin out
    PROVE  Sound(s, out, fec)
<1>1. ~ fec => (out \cup {p}) \ {p} = out
  OBVIOUS
<1> QED
  BY <1>1 DEF Sound

(* A poll that takes a decrypted packet gives it to the control handler.   *)
LEMMA ResultHold ==
    ASSUME HoldInv, PollResult
    PROVE  HoldInv'
<1>1. UNCHANGED <<rx, job, tx, peer_fec>> /\ "result_ring" \in Rings
  BY DEF PollResult, Rings
<1>2. CASE m["result_ring"] = <<>>
  <2>1. m' = m
    BY <1>2 DEF PollResult
  <2> QED
    BY <1>1, <2>1, SameHands DEF HoldInv
<1>3. CASE m["result_ring"] # <<>>
  <2> DEFINE p == Head(m["result_ring"])
             s == ring_pop(m, "result_ring")
  <2>1. Handle(s, p)
    BY <1>3 DEF PollResult
  <2>2. /\ p \in Buffers /\ Sound(s, Out \cup {p}, peer_fec)
        /\ ~ peer_fec => p \notin Out
    BY <1>1, <1>3, PopSound DEF HoldInv
  <2> HIDE DEF p, s
  <2>3. Sound(m', (Out \cup {p}) \ {p}, peer_fec)
    BY <2>1, <2>2, HandleSound
  <2> QED
    BY <1>1, <2>2, <2>3, PassedOn, SameHands, SMTT(30)
<1> QED
  BY <1>2, <1>3

(* A poll that takes a received packet drops it, uses it or passes it on.  *)
LEMMA PacketHold ==
    ASSUME HoldInv, DataInv, PollPacket
    PROVE  HoldInv'
<1>1. /\ UNCHANGED <<rx, job, tx, peer_fec>>
      /\ "rx_ring" \in Rings /\ "crypto_ring" \in Rings /\ m["rx_ring"] # <<>>
  BY SMTT(30) DEF PollPacket, Rings
<1> DEFINE p == Head(m["rx_ring"])
           s == ring_pop(m, "rx_ring")
<1>2. \/ PollDrop(p) /\ m' = pool_return(s, p)
      \/ PollParity(p) /\ \E r \in Rebuilt(s, TRUE) : m' = pool_return(pool_return(r[1], p), p)
      \/ PollEncrypted(p) /\ \E r \in Rebuilt(s, have_parity) :
                                 m' \in {ring_push(r[1], "crypto_ring", p), pool_return(r[1], p)}
      \/ PollPlain(p) /\ Handle(s, p)
  BY Zenon DEF PollPacket, PollDrop, PollParity, PollEncrypted, PollPlain
<1>3. /\ p \in Buffers /\ Sound(s, Out \cup {p}, peer_fec)
      /\ ~ peer_fec => p \notin Out
  BY <1>1, PopSound DEF HoldInv
<1> HIDE DEF p, s
<1>4. CASE PollDrop(p) /\ m' = pool_return(s, p)
  <2>1. Sound(m', (Out \cup {p}) \ {p}, peer_fec)
    BY <1>3, <1>4, ReturnSound
  <2> QED
    BY <1>1, <1>3, <2>1, PassedOn, SameHands
<1>5. CASE PollParity(p) /\ \E r \in Rebuilt(s, TRUE) : m' = pool_return(pool_return(r[1], p), p)
  <2> PICK r \in Rebuilt(s, TRUE) : m' = pool_return(pool_return(r[1], p), p)
    BY <1>5, Zenon
  <2>1. peer_fec
    BY <1>3, <1>5 DEF PollParity, DataInv, Kinds, Control, Encrypted
  <2>2. Sound(r[1], Out \cup {p}, peer_fec)
    BY <1>3, <2>1, RebuildSound, Zenon
  <2>3. StoreOK(m')
    BY <1>3, <2>2, ReturnStore DEF Sound
  <2>4. Sound(m', Out, peer_fec)
    BY <2>1, <2>3 DEF Sound
  <2> QED
    BY <1>1, <2>4, SameHands
<1>6. CASE PollEncrypted(p) /\ \E r \in Rebuilt(s, have_parity) :
                                   m' \in {ring_push(r[1], "crypto_ring", p), pool_return(r[1], p)}
  <2> PICK r \in Rebuilt(s, have_parity) :
             m' \in {ring_push(r[1], "crypto_ring", p), pool_return(r[1], p)}
    BY <1>6
  <2>1. have_parity \in BOOLEAN /\ (~ peer_fec => ~ have_parity)
    BY DEF DataInv
  <2>2. Sound(r[1], Out \cup {p}, peer_fec)
    BY <1>3, <2>1, RebuildSound
  <2>3. Sound(m', (Out \cup {p}) \ {p}, peer_fec)
    BY <1>1, <1>3, <2>2, PushSound, ReturnSound
  <2> QED
    BY <1>1, <1>3, <2>3, PassedOn, SameHands
<1>7. CASE PollPlain(p) /\ Handle(s, p)
  <2>1. Sound(m', (Out \cup {p}) \ {p}, peer_fec)
    BY <1>3, <1>7, HandleSound
  <2> QED
    BY <1>1, <1>3, <2>1, PassedOn, SameHands
<1> QED
  BY <1>2, <1>4, <1>5, <1>6, <1>7, Zenon

(* The ticks take buffers from the pool and queue them.                    *)
LEMMA TickHold ==
    ASSUME HoldInv, PollTick
    PROVE  HoldInv'
<1>1. UNCHANGED <<rx, job, tx, peer_fec>> /\ "control" \in Rings /\ "chat" \in Rings
  BY DEF PollTick, Rings
<1>2. m' = m \/ m' \in TickSends(state')
  BY DEF PollTick
<1>3. \A t \in TickSends(state') : Sound(t, Out, peer_fec)
  <2> DEFINE heartbeat == MaySendIf(state = "LOCKED", {m}, "control")
             reconnect == MaySendIf(state' = "LOCKED", heartbeat, "control")
             decoy == MaySendIf(session_is_locked, reconnect, "control")
             audio == MaySendIf(session_is_locked, decoy, "chat")
             video == MaySendIf(session_is_locked, audio, "chat")
             file == MaySendIf(session_is_locked, video, "chat")
  <2>1. TickSends(state') = file
    BY DEF TickSends
  <2>2. \A t \in {m} : Sound(t, Out, peer_fec)
    BY DEF HoldInv
  <2>3. \A t \in heartbeat : Sound(t, Out, peer_fec)
    BY <1>1, <2>2, SendsSound
  <2> HIDE DEF heartbeat
  <2>4. \A t \in reconnect : Sound(t, Out, peer_fec)
    BY <1>1, <2>3, SendsSound
  <2> HIDE DEF reconnect
  <2>5. \A t \in decoy : Sound(t, Out, peer_fec)
    BY <1>1, <2>4, SendsSound
  <2> HIDE DEF decoy
  <2>6. \A t \in audio : Sound(t, Out, peer_fec)
    BY <1>1, <2>5, SendsSound
  <2> HIDE DEF audio
  <2>7. \A t \in video : Sound(t, Out, peer_fec)
    BY <1>1, <2>6, SendsSound
  <2> HIDE DEF video
  <2>8. \A t \in file : Sound(t, Out, peer_fec)
    BY <1>1, <2>7, SendsSound
  <2> QED
    BY <2>1, <2>8
<1>4. Sound(m', Out, peer_fec)
  BY <1>2, <1>3 DEF HoldInv
<1> QED
  BY <1>1, <1>4, SameHands

(* A call of the application queues what it takes, or gives it back.       *)
LEMMA AppHold ==
    ASSUME HoldInv, App
    PROVE  HoldInv'
<1>1. /\ UNCHANGED <<rx, job, tx, peer_fec>>
      /\ "control" \in Rings /\ "chat" \in Rings
  BY DEF App, AppConnect, AppDisconnect, AppRole, AppRequest, AppControl, AppChat, Call, Rings
<1>2. Sound(m, Out, peer_fec) /\ Sound(Forget(m), Out, peer_fec)
  BY ForgetSound DEF HoldInv
<1>3. CASE AppConnect \/ AppDisconnect \/ AppRole \/ AppRequest \/ AppControl
  <2>1. \/ m' = m \/ m' = Forget(m)
        \/ m' \in MaySend(m, "control") \/ m' \in MaySend(Forget(m), "control")
    BY <1>3 DEF AppConnect, AppDisconnect, AppRole, AppRequest, AppControl, MaySend
  <2> HIDE DEF Forget
  <2>2. Sound(m', Out, peer_fec)
    BY <1>1, <1>2, <2>1, SendSound
  <2> QED
    BY <1>1, <2>2, SameHands
<1>4. CASE AppChat
  <2> PICK b \in Free(m) : \E t \in MaySend(pool_get(m, b), "control") :
             m' \in {pool_return(pool_get(m, b), b), ring_push(t, "chat", b)}
    BY <1>4 DEF AppChat
  <2> PICK t \in MaySend(pool_get(m, b), "control") :
             m' \in {pool_return(pool_get(m, b), b), ring_push(t, "chat", b)}
    OBVIOUS
  <2>1. /\ b \in Buffers /\ Sound(pool_get(m, b), Out \cup {b}, peer_fec)
        /\ ~ peer_fec => b \notin Out
    BY <1>2, GetSound
  <2>2. Sound(t, Out \cup {b}, peer_fec)
    BY <1>1, <2>1, SendSound
  <2>3. Sound(m', (Out \cup {b}) \ {b}, peer_fec)
    BY <1>1, <2>1, <2>2, ReturnSound, PushSound
  <2> QED
    BY <1>1, <2>1, <2>3, PassedOn, SameHands
<1> QED
  BY <1>3, <1>4 DEF App

(* Every step keeps the ownership.                                         *)
LEMMA HoldStep ==
    ASSUME HoldInv, DataInv, [Next]_vars
    PROVE  HoldInv'
<1>1. CASE PollEvent \/ UNCHANGED vars
  <2>1. UNCHANGED <<m, rx, job, tx, peer_fec>>
    BY <1>1 DEF PollEvent, vars
  <2> QED
    BY <2>1, SameHands DEF HoldInv
<1> QED
  BY <1>1, RxHold, CryptoHold, TxHold, ResultHold, PacketHold, TickHold, AppHold DEF Next, Poll

-----------------------------------------------------------------------------
(* The other variables.                                                    *)

(* What a handler may make of the session.                                 *)
LEMMA HandleTypes ==
    ASSUME NEW s, NEW p, Handle(s, p)
    PROVE  /\ state' = state \/ state' \in States
           /\ session_is_locked' = session_is_locked \/ session_is_locked' = TRUE
           /\ have_parity' = have_parity \/ have_parity' = FALSE
<1>1. CASE HandleData(s, p) \/ HandleControl(s, p)
  BY <1>1 DEF HandleData, HandleControl
<1>2. CASE HandleHandshake(s, p)
  BY <1>2 DEF HandleHandshake, States
<1>3. CASE HandleError(s, p)
  BY <1>3 DEF HandleError, States
<1> QED
  BY <1>1, <1>2, <1>3, Zenon DEF Handle

(* What a received packet may make of the session.                         *)
LEMMA PacketTypes ==
    ASSUME DataInv, HoldInv, PollPacket
    PROVE  /\ state' = state \/ state' \in States
           /\ session_is_locked' = session_is_locked \/ session_is_locked' = TRUE
           /\ have_parity' \in BOOLEAN
           /\ ~ peer_fec => have_parity' = have_parity \/ have_parity' = FALSE
<1> DEFINE p == Head(m["rx_ring"])
           s == ring_pop(m, "rx_ring")
<1>1. PollDrop(p) \/ PollParity(p) \/ PollEncrypted(p) \/ PollPlain(p)
  BY DEF PollPacket
<1>2. p \in Buffers
  BY PopStore DEF HoldInv, Sound, PollPacket, Rings
<1>3. have_parity \in BOOLEAN
  BY DEF DataInv
<1>4. CASE PollDrop(p)
  BY <1>3, <1>4 DEF PollDrop
<1>5. CASE PollParity(p)
  <2>1. peer_fec
    BY <1>2, <1>5 DEF PollParity, DataInv, Kinds, Control, Encrypted
  <2>2. PICK r \in Rebuilt(s, TRUE) : have_parity' = r[2]
    BY <1>5, Zenon DEF PollParity
  <2>3. r[2] \in {TRUE, FALSE}
    BY RebuiltParts, Zenon
  <2>4. have_parity' \in BOOLEAN
    BY <2>2, <2>3, Zenon
  <2> QED
    BY <1>5, <2>1, <2>4 DEF PollParity
<1>6. CASE PollEncrypted(p)
  <2>1. PICK r \in Rebuilt(s, have_parity) : have_parity' = r[2]
    BY <1>6 DEF PollEncrypted
  <2>2. r[2] \in {have_parity, FALSE}
    BY <1>3, RebuiltParts, Zenon
  <2>3. have_parity' = have_parity \/ have_parity' = FALSE
    BY <2>1, <2>2, Zenon
  <2> QED
    BY <1>3, <1>6, <2>3, Zenon DEF PollEncrypted
<1>7. CASE PollPlain(p)
  <2>1. Handle(s, p)
    BY <1>7 DEF PollPlain
  <2> HIDE DEF s, p
  <2> QED
    BY <1>3, <2>1, HandleTypes, ZenonT(30)
<1> QED
  BY <1>1, <1>4, <1>5, <1>6, <1>7, Zenon

(* Every step keeps the types.                                             *)
LEMMA DataStep ==
    ASSUME DataInv, HoldInv, [Next]_vars
    PROVE  DataInv'
<1>1. peer_fec' = peer_fec
  BY Zenon DEF Next, vars, RxGet, RxNothing, RxPacket, CryptoTake, CryptoDone, TxTake, TxSent, Poll, PollEvent,
     PollResult, PollPacket, PollTick, App, AppConnect, AppDisconnect, AppRole, AppRequest, AppControl,
     AppChat, Call
<1>2. Kinds' = Kinds
  BY <1>1 DEF Kinds
<1>3. ASSUME UNCHANGED <<data, traffic>> \/ (data' = data /\ traffic < MaxTraffic /\ traffic' = traffic + 1),
             pc' \in {"event", "result", "rx"},
             state' = state \/ state' \in States,
             role_initiator' = role_initiator \/ role_initiator' \in BOOLEAN,
             session_is_locked' = session_is_locked \/ session_is_locked' \in BOOLEAN,
             have_parity' \in BOOLEAN,
             ~ peer_fec => have_parity' = have_parity \/ have_parity' = FALSE
      PROVE  DataInv'
  <2>1. traffic' \in 0 .. MaxTraffic
    BY <1>3, TrafficAssumption DEF DataInv
  <2>2. role_initiator' \in BOOLEAN /\ session_is_locked' \in BOOLEAN
    BY <1>3 DEF DataInv
  <2>3. ~ peer_fec => have_parity' = FALSE
    BY <1>3 DEF DataInv
  <2> QED
    BY <1>1, <1>2, <1>3, <2>1, <2>2, <2>3 DEF DataInv
<1>4. have_parity \in BOOLEAN /\ pc \in {"event", "result", "rx"}
  BY SMTT(30) DEF DataInv
<1>5. CASE RxGet \/ RxNothing \/ CryptoTake \/ CryptoDone \/ TxTake \/ TxSent \/ UNCHANGED vars
  BY <1>3, <1>4, <1>5, ZenonT(30) DEF RxGet, RxNothing, CryptoTake, CryptoDone, TxTake, TxSent, vars, engine
<1>6. CASE RxPacket
  <2>1. data' \in [Buffers -> Kinds']
    BY <1>2, <1>6, Zenon DEF RxPacket, DataInv
  <2>2. traffic' \in 0 .. MaxTraffic
    BY <1>6, TrafficAssumption DEF RxPacket, DataInv
  <2> QED
    BY <1>1, <1>6, <2>1, <2>2 DEF RxPacket, DataInv, engine
<1>7. CASE PollEvent
  BY <1>3, <1>4, <1>7 DEF PollEvent
<1>8. CASE PollResult
  <2>1. /\ state' = state \/ state' \in States
        /\ session_is_locked' = session_is_locked \/ session_is_locked' = TRUE
        /\ have_parity' = have_parity \/ have_parity' = FALSE
    BY <1>8, HandleTypes, Zenon DEF PollResult
  <2> QED
    BY <1>3, <1>4, <1>8, <2>1, Zenon DEF PollResult
<1>9. CASE PollPacket
  BY <1>3, <1>9, PacketTypes, Zenon DEF PollPacket
<1>10. CASE PollTick
  <2>1. /\ state' = state \/ state' \in States
        /\ traffic' = traffic \/ (traffic < MaxTraffic /\ traffic' = traffic + 1)
    BY <1>10 DEF PollTick, States
  <2> QED
    BY <1>3, <1>4, <1>10, <2>1 DEF PollTick
<1>11. CASE App
  <2>1. /\ data' = data /\ traffic < MaxTraffic /\ traffic' = traffic + 1 /\ pc' = pc
    BY <1>11 DEF App, AppConnect, AppDisconnect, AppRole, AppRequest, AppControl, AppChat, Call
  <2>2. /\ state' = state \/ state' \in States
        /\ role_initiator' = role_initiator \/ role_initiator' \in BOOLEAN
        /\ session_is_locked' = session_is_locked \/ session_is_locked' = FALSE
        /\ have_parity' = have_parity \/ have_parity' = FALSE
    BY <1>11, Zenon DEF App, AppConnect, AppDisconnect, AppRole, AppRequest, AppControl, AppChat, NewSession, States
  <2> QED
    BY <1>3, <1>4, <2>1, <2>2, Zenon
<1> QED
  BY <1>5, <1>6, <1>7, <1>8, <1>9, <1>10, <1>11 DEF Next, Poll

(* The event ring as ring_init sized it.                                   *)
FitInv == event_ring \in Seq(EventTypes) /\ Len(event_ring) <= EventCap

(* Reporting an event, or overwriting the newest, keeps to the capacity.   *)
LEMMA ReportFits ==
    ASSUME FitInv
    PROVE  /\ \A e \in EventTypes : \A r \in Reported(event_ring, e) :
                 r \in Seq(EventTypes) /\ Len(r) <= EventCap
           /\ \A r \in ChatReported(event_ring) : r \in Seq(EventTypes) /\ Len(r) <= EventCap
<1> DEFINE ev == event_ring
<1>1. ev \in Seq(EventTypes) /\ Len(ev) \in Nat /\ Len(ev) <= EventCap /\ EventCap \in Nat \ {0}
  BY LenProperties, CapAssumption DEF FitInv
<1> HIDE DEF ev
<1>2. \A e \in EventTypes : Append(ev, e) \in Seq(EventTypes) /\ Len(Append(ev, e)) = Len(ev) + 1
  BY <1>1, AppendProperties
<1>3. \A e \in EventTypes : \A r \in Reported(ev, e) : r \in Seq(EventTypes) /\ Len(r) <= EventCap
  BY <1>1, <1>2 DEF Reported
<1>4. ASSUME NEW r \in ChatReported(ev) PROVE r \in Seq(EventTypes) /\ Len(r) <= EventCap
  <2>1. "chat" \in EventTypes /\ "null" \in EventTypes
    BY DEF EventTypes
  <2>2. CASE ~ role_initiator
    BY <1>3, <2>1, <2>2 DEF ChatReported
  <2>3. CASE role_initiator /\ Len(ev) < EventCap
    <3>1. r = Append(ev, "chat") \/ r = Append(ev, "null")
      BY <2>3 DEF ChatReported
    <3> QED
      BY <1>1, <1>2, <2>1, <2>3, <3>1
  <2>4. CASE role_initiator /\ ~ Len(ev) < EventCap
    <3> DEFINE v == IF ev[Len(ev)] = "null" THEN ev[Len(ev)] ELSE "chat"
    <3>1. r = [ev EXCEPT ![Len(ev)] = v]
      BY <2>4 DEF ChatReported
    <3>2. Len(ev) \in 1 .. Len(ev) /\ v \in EventTypes
      BY <1>1, <2>1, <2>4
    <3> HIDE DEF v
    <3>3. r \in Seq(EventTypes) /\ Len(r) = Len(ev)
      BY <1>1, <3>1, <3>2, ExceptSeq
    <3> QED
      BY <1>1, <3>3
  <2> QED
    BY <2>2, <2>3, <2>4
<1> QED
  BY <1>3, <1>4 DEF ev

(* Every step keeps the event ring to its capacity.                        *)
LEMMA FitStep ==
    ASSUME FitInv, [Next]_vars
    PROVE  FitInv'
<1>1. CASE event_ring' = event_ring
  BY <1>1 DEF FitInv
<1>2. CASE \E e \in EventTypes : event_ring' \in Reported(event_ring, e)
  BY <1>2, ReportFits DEF FitInv
<1>3. CASE event_ring' \in ChatReported(event_ring)
  BY <1>3, ReportFits DEF FitInv
<1>4. "note" \in EventTypes /\ "locked" \in EventTypes /\ "connect" \in EventTypes /\ "file" \in EventTypes
  BY DEF EventTypes
<1>5. ASSUME NEW s, NEW p, Handle(s, p) PROVE FitInv'
  BY <1>1, <1>2, <1>3, <1>4, <1>5 DEF Handle, HandleData, HandleControl, HandleHandshake, HandleError
<1>6. CASE PollEvent
  <2>1. CASE event_ring = <<>>
    BY <1>1, <1>6, <2>1 DEF PollEvent
  <2>2. CASE event_ring # <<>>
    <3>1. event_ring' = Tail(event_ring)
      BY <1>6, <2>2 DEF PollEvent
    <3>2. /\ Tail(event_ring) \in Seq(EventTypes) /\ Len(Tail(event_ring)) = Len(event_ring) - 1
          /\ Len(event_ring) \in Nat
      BY <2>2, HeadTailProperties, LenProperties DEF FitInv
    <3> QED
      BY <3>1, <3>2, CapAssumption DEF FitInv
  <2> QED
    BY <2>1, <2>2
<1>7. CASE PollResult
  BY <1>1, <1>5, <1>7, SMTT(30) DEF PollResult
<1>8. CASE PollPacket
  <2> DEFINE p == Head(m["rx_ring"])
  <2>1. CASE PollDrop(p)
    BY <1>1, <1>2, <1>4, <2>1 DEF PollDrop
  <2>2. CASE PollParity(p) \/ PollEncrypted(p)
    BY <1>1, <2>2, ZenonT(30) DEF PollParity, PollEncrypted
  <2>3. CASE PollPlain(p)
    BY <1>5, <2>3 DEF PollPlain
  <2> QED
    BY <1>8, <2>1, <2>2, <2>3 DEF PollPacket
<1>9. CASE PollTick
  BY <1>1, <1>2, <1>4, <1>9 DEF PollTick
<1>10. CASE App
  BY <1>1, <1>10 DEF App, AppConnect, AppDisconnect, AppRole, AppRequest, AppControl, AppChat, Call
<1>11. CASE RxGet \/ RxNothing \/ RxPacket \/ CryptoTake \/ CryptoDone \/ TxTake \/ TxSent \/ UNCHANGED vars
  BY <1>1, <1>11 DEF RxGet, RxNothing, RxPacket, CryptoTake, CryptoDone, TxTake, TxSent, vars, engine
<1> QED
  BY <1>6, <1>7, <1>8, <1>9, <1>10, <1>11 DEF Next, Poll

-----------------------------------------------------------------------------
(* Every buffer starts in the pool.                                        *)
LEMMA InitHold == Init => HoldInv /\ DataInv /\ FitInv
<1> SUFFICES ASSUME Init PROVE HoldInv /\ DataInv /\ FitInv
  OBVIOUS
<1>1. /\ DOMAIN m = Fields /\ m.fec_recovered = NULL /\ m.free = [b \in Buffers |-> 1]
      /\ \A q \in Rings : m[q] = <<>>
  <2>1. /\ m.rx_ring = <<>> /\ m.crypto_ring = <<>> /\ m.result_ring = <<>>
        /\ m.control = <<>> /\ m.chat = <<>>
        /\ m.fec_recovered = NULL /\ m.free = [b \in Buffers |-> 1]
    BY SMTT(30) DEF Init
  <2>2. DOMAIN m = Fields
    BY DEF Init, Fields, Rings
  <2> QED
    BY <2>1, <2>2 DEF Rings
<1> DEFINE loc == [b \in Buffers |-> "pool"]
<1>2. Located(m, loc) /\ loc \in [Buffers -> Places]
  <2>1. \A q \in Rings : 1 .. Len(m[q]) = {}
    BY <1>1
  <2>2. \A b \in Buffers : loc[b] = "pool" /\ m.free[b] = 1
    BY <1>1
  <2>3. loc \in [Buffers -> Places]
    BY DEF Places
  <2>4. \A b \in Buffers, q \in Rings : loc[b] # q
    BY DEF Rings
  <2> HIDE DEF loc
  <2> QED
    BY <1>1, <2>1, <2>2, <2>3, <2>4 DEF Located
<1>3. Out = {} /\ Out = {b \in Buffers : loc[b] = "thread"}
  BY DEF Init, Out
<1> HIDE DEF loc
<1>4. Owned(m, Out)
  BY <1>2, <1>3 DEF Owned
<1>5. FreeCount(m) <= PoolSize
  <2> DEFINE all == Buffers \X {1}
  <2>1. IsFiniteSet({1}) /\ Cardinality({1}) = 1
    BY FS_Singleton
  <2>2. IsFiniteSet(all) /\ Cardinality(all) = Cardinality(Buffers) * Cardinality({1})
    BY <2>1, PoolFinite, FS_Product
  <2>3. Entries(m) \in SUBSET all
    BY <1>1 DEF Entries
  <2> HIDE DEF all
  <2>4. Cardinality(Entries(m)) <= Cardinality(all)
    BY <2>2, <2>3, FS_Subset
  <2> QED
    BY <2>1, <2>2, <2>4, PoolFinite DEF PoolSize
<1>6. m.free \in [Buffers -> 0 .. PoolSize]
  <2>1. ASSUME NEW b \in Buffers PROVE 1 \in 0 .. PoolSize
    BY PoolFinite, FS_EmptySet DEF PoolSize
  <2> QED
    BY <1>1, <2>1
<1>7. \A q \in Rings : m[q] \in Seq(Buffers) /\ Len(m[q]) <= RingCap
  <2>1. <<>> \in Seq(Buffers) /\ Len(<<>>) = 0 /\ 0 <= RingCap
    BY CapAssumption
  <2> QED
    BY <1>1, <2>1, ZenonT(30)
<1>8. HoldInv
  BY <1>1, <1>4, <1>5, <1>6, <1>7 DEF HoldInv, Sound, StoreOK, Init
<1>9. DataInv
  <2>1. data \in [Buffers -> Kinds] /\ traffic \in 0 .. MaxTraffic
    BY TrafficAssumption DEF Init, Kinds
  <2> QED
    BY <2>1, FlagAssumption, Zenon DEF Init, DataInv, States
<1>10. FitInv
  BY CapAssumption, EmptySeq DEF Init, FitInv
<1> QED
  BY <1>8, <1>9, <1>10

(* The whole invariant.                                                    *)
BufferInv == HoldInv /\ DataInv /\ FitInv

(* It holds in every reachable state.                                      *)
LEMMA BufferInvariant == Spec => []BufferInv
<1>1. Init => BufferInv
  BY InitHold DEF BufferInv
<1>2. BufferInv /\ [Next]_vars => BufferInv'
  BY HoldStep, DataStep, FitStep, SMTT(30) DEF BufferInv
<1> QED
  BY <1>1, <1>2, PTL DEF Spec

(* Whatever the peer sends, parity included, and however full the pool and *)
(* the rings are, no ring grows beyond its capacity and the pool's stack   *)
(* never holds more entries than it has slots: pool_return's bound test is *)
(* enough even for a buffer that two owners give back.                     *)
THEOREM BufferTypes == Spec => []TypeOK
<1>1. BufferInv => TypeOK
  BY DEF BufferInv, HoldInv, Sound, StoreOK, DataInv, FitInv, TypeOK
<1> QED
  BY <1>1, BufferInvariant, PTL

(* Where a buffer is decides who refers to it.                             *)
LEMMA OnePlace ==
    ASSUME HoldInv, ~ peer_fec, NEW b \in Buffers
    PROVE  \E h : Holders(b) = {h}
<1> PICK loc \in [Buffers -> Places] :
           Located(m, loc) /\ Out = {x \in Buffers : loc[x] = "thread"}
  BY DEF HoldInv, Sound, Owned
<1> DEFINE inPool == {<<"pool", i>> : i \in 1 .. m.free[b]}
           inRing == {h \in Rings \X (1 .. RingCap) : h[2] \in DOMAIN m[h[1]] /\ m[h[1]][h[2]] = b}
           inHand == {<<h, 1>> : h \in {g \in DOMAIN Held : Held[g] = b}}
<1>1. Holders(b) = inPool \cup inRing \cup inHand
  BY DEF Holders
<1>2. loc[b] # "pool" => inPool = {}
  BY DEF Located
<1>3. \A q \in Rings : DOMAIN m[q] = 1 .. Len(m[q]) /\ Len(m[q]) \in Nat /\ Len(m[q]) <= RingCap
  BY LenProperties DEF HoldInv, Sound, StoreOK
<1>4. \A h \in inRing : loc[b] = h[1] /\ h[1] \in Rings
  BY <1>3, SMTT(30) DEF Located
<1>5. /\ DOMAIN Held = {"rx", "job", "tx", "fec_recovered"}
      /\ Held["rx"] = rx /\ Held["job"] = job /\ Held["tx"] = tx
      /\ Held["fec_recovered"] = NULL /\ b # NULL
  BY BuffersAssumption DEF Held, Located
<1>6. loc[b] # "thread" => inHand = {}
  BY <1>5 DEF Out
<1>7. CASE loc[b] = "pool"
  <2>1. inRing = {}
    BY <1>4, <1>7 DEF Rings
  <2>2. inPool = {<<"pool", 1>>}
    BY <1>7 DEF Located
  <2> QED
    BY <1>1, <1>6, <1>7, <2>1, <2>2, ZenonT(30)
<1>8. CASE loc[b] \in Rings
  <2> DEFINE q == loc[b]
  <2>1. PICK i \in 1 .. Len(m[q]) : m[q][i] = b
    BY <1>8 DEF Located
  <2>2. <<q, i>> \in inRing
    BY <1>3, <1>8, <2>1, CapAssumption
  <2>3. \A h \in inRing : h = <<q, i>>
    <3> SUFFICES ASSUME NEW h \in inRing PROVE h = <<q, i>>
      OBVIOUS
    <3>1. h = <<h[1], h[2]>> /\ h[1] = q
      BY <1>4
    <3>2. h[2] \in 1 .. Len(m[q]) /\ m[q][h[2]] = b
      BY <1>3, <1>8, <3>1
    <3>3. h[2] = i
      BY <1>8, <2>1, <3>2 DEF Located
    <3> QED
      BY <3>1, <3>3
  <2>4. inRing = {<<q, i>>}
    BY <2>2, <2>3
  <2>5. q # "pool" /\ q # "thread"
    BY <1>8 DEF Rings
  <2> HIDE DEF inPool, inRing, inHand, q
  <2> QED
    BY <1>1, <1>2, <1>6, <2>4, <2>5, ZenonT(30) DEF q
<1>9. CASE loc[b] = "thread"
  <2>1. inRing = {} /\ inPool = {}
    BY <1>2, <1>4, <1>9 DEF Rings
  <2>2. b \in {rx, job, tx}
    BY <1>9 DEF Out
  <2>3. \E g \in DOMAIN Held : {x \in DOMAIN Held : Held[x] = b} = {g}
    BY <1>5, <2>2 DEF HoldInv
  <2>4. PICK g \in DOMAIN Held : {x \in DOMAIN Held : Held[x] = b} = {g}
    BY <2>3
  <2>5. inHand = {<<g, 1>>}
    BY <2>4
  <2> QED
    BY <1>1, <2>1, <2>5, ZenonT(30)
<1> QED
  BY <1>7, <1>8, <1>9, Zenon DEF Places

(* As long as the peer sends no parity, every buffer has exactly one       *)
(* holder, whichever rings are full and whichever packets are dropped: no  *)
(* handler, worker or thread returns a buffer twice, queues it twice or    *)
(* forgets it.                                                             *)
THEOREM BuffersHaveOneHolder == Spec => []OneHolder
<1>1. BufferInv => OneHolder
  <2> SUFFICES ASSUME HoldInv, ~ peer_fec, NEW b \in Buffers PROVE Cardinality(Holders(b)) = 1
    BY DEF BufferInv, OneHolder
  <2>1. PICK h : Holders(b) = {h}
    BY OnePlace, Zenon
  <2> QED
    BY <2>1, FS_Singleton, Zenon
<1> QED
  BY <1>1, BufferInvariant, PTL
====
