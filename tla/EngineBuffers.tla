--------------------------- MODULE EngineBuffers ---------------------------
(* The life of a packet buffer inside one transport engine: which of the four
   threads (RX thread, application thread in transport_engine_poll, crypto
   worker, TX thread) and which ring holds it, from pool_get to pool_return.

   Threads interleave at the calls that hand a buffer over; what one thread
   does between two of them is one step.  The rings are FIFO queues (SpscRing
   shows they are), the pool is the multiset of its free entries (PacketPool
   has its steps).  A packet's bytes are abstracted to its Kind, kept per
   buffer because a buffer with two holders has one set of bytes.  The four
   TX queues below control are one queue; tx_queues[1] is not modelled.

   The session is eng->session: NULL, handshaking, locked, or idle.  The
   handshake itself is the module Handshake; here a handshake message may
   advance it, complete it or fail it. *)
EXTENDS Integers, Sequences, FiniteSets

CONSTANTS
    Buffers,    \* the pool's packet_buf_t objects
    RingCap,    \* capacity of a ring (RING_SIZE - 1)
    EventCap,   \* capacity of the event ring (RING_SIZE - 1)
    PeerFec,    \* the choices of fec_enabled at the peer, of which one is taken
    MaxTraffic, \* bound: packets received plus polls and calls that send
    NULL

ASSUME BuffersAssumption == IsFiniteSet(Buffers) /\ NULL \notin Buffers
ASSUME CapAssumption == RingCap \in Nat \ {0} /\ EventCap \in Nat \ {0}
ASSUME FlagAssumption == PeerFec \subseteq BOOLEAN
ASSUME TrafficAssumption == MaxTraffic \in Nat

VARIABLES
    m,                 \* the pool, the rings and sess->fec_recovered
    data,              \* the packet in each buffer
    rx, job, tx,       \* the buffer the RX, crypto and TX thread holds
    pc,                \* where transport_engine_poll is
    state,             \* eng->session->state
    role_initiator,    \* which of the two control handlers poll calls
    session_is_locked,
    have_parity,       \* resilience.fec_rx_have_parity
    event_ring,
    traffic,
    peer_fec           \* does the peer send FEC parity packets?

vars == <<m, data, rx, job, tx, pc, state, role_initiator, session_is_locked,
          have_parity, event_ring, traffic, peer_fec>>
engine == <<pc, state, role_initiator, session_is_locked, have_parity, event_ring>>

PoolSize == Cardinality(Buffers)

(* What the layers and handlers tell apart: a packet dropped before
   session_check; CONNECT_*; CTRL_FILE_META; handshake messages; a control
   the LOCKED handler answers (heartbeat, reconnect, port hop, rekey), one it
   notes (their acks), one it reports (typing, delivery and read acks);
   encrypted chat, relay data and other channels; FEC parity. *)
Control == {"connect", "file_meta", "handshake", "ask", "note", "tell"}
Encrypted == {"chat", "route", "media"}
Kinds == {"junk"} \cup Control \cup Encrypted \cup (IF peer_fec THEN {"parity"} ELSE {})

(* eng->session: NULL; SESSION_IDLE (just allocated, reset, or given up by
   reconnect_tick), which session_check lets nothing into unless the role is
   responder, a role no operation of the engine assigns; handshaking; locked. *)
States == {"NONE", "IDLE", "HANDSHAKE", "LOCKED"}

Rings == {"rx_ring", "crypto_ring", "result_ring", "control", "chat"}

Init ==
    /\ m = [free |-> [b \in Buffers |-> 1], fec_recovered |-> NULL,
            rx_ring |-> <<>>, crypto_ring |-> <<>>, result_ring |-> <<>>,
            control |-> <<>>, chat |-> <<>>]
    /\ data = [b \in Buffers |-> "junk"]
    /\ rx = NULL /\ job = NULL /\ tx = NULL
    /\ pc = "event"
    /\ state = "NONE"
    /\ role_initiator = FALSE
    /\ session_is_locked = FALSE
    /\ have_parity = FALSE
    /\ event_ring = <<>>
    /\ traffic = 0
    /\ peer_fec \in PeerFec

----------------------------------------------------------------------------
(* The pool and the rings, as functions on m. *)

Free(s) == {b \in Buffers : s.free[b] > 0}

pool_get(s, b) == [s EXCEPT !.free[b] = @ - 1]

\* The entries of the pool's stack, numbered per buffer.
FreeCount(s) == Cardinality({e \in Buffers \X (1 .. PoolSize) : e[2] <= s.free[e[1]]})

\* No bound test before the entry is pushed.
pool_return_NoBound(s, b) == [s EXCEPT !.free[b] = @ + 1]

pool_return(s, b) ==
    IF FreeCount(s) < PoolSize
    THEN [s EXCEPT !.free[b] = @ + 1] ELSE s

\* if (ring_push(ring, p) != 0) pool_return(p), without the return.
ring_push_Leak(s, q, b) ==
    IF Len(s[q]) < RingCap THEN [s EXCEPT ![q] = Append(@, b)] ELSE s

\* if (ring_push(ring, p) != 0) pool_return(p)
ring_push(s, q, b) ==
    IF Len(s[q]) < RingCap THEN [s EXCEPT ![q] = Append(@, b)] ELSE pool_return(s, b)

ring_pop(s, q) == [s EXCEPT ![q] = Tail(@)]

\* pool_get, build a packet, push it: what every sender of the engine does.
Send(s, q) ==
    IF Free(s) = {} THEN {s} ELSE {ring_push(pool_get(s, b), q, b) : b \in Free(s)}

\* A sender whose own conditions (clock, call active, encryption) may say no.
MaySend(s, q) == {s} \cup Send(s, q)

\* From any state of S, one such sender more if it is called at all.
MaySendIf(called, S, q) == IF called THEN UNION {MaySend(t, q) : t \in S} ELSE S

----------------------------------------------------------------------------
(* The RX thread: udp_rx_once. *)

RxGet ==
    /\ rx = NULL
    /\ \E b \in Free(m) : rx' = b /\ m' = pool_get(m, b)
    /\ UNCHANGED <<data, job, tx, engine, traffic, peer_fec>>

RxNothing ==
    /\ rx # NULL
    /\ m' = pool_return(m, rx)
    /\ rx' = NULL
    /\ UNCHANGED <<data, job, tx, engine, traffic, peer_fec>>

RxPacket ==
    /\ rx # NULL /\ traffic < MaxTraffic
    /\ \E k \in Kinds : data' = [data EXCEPT ![rx] = k]
    /\ m' = ring_push(m, "rx_ring", rx)
    /\ rx' = NULL
    /\ traffic' = traffic + 1
    /\ UNCHANGED <<job, tx, engine, peer_fec>>

(* The crypto worker: crypto_loop, whose decryption may fail. *)
CryptoTake ==
    /\ job = NULL /\ m.crypto_ring # <<>>
    /\ job' = Head(m.crypto_ring)
    /\ m' = ring_pop(m, "crypto_ring")
    /\ UNCHANGED <<data, rx, tx, engine, traffic, peer_fec>>

\* A decryption failure that forgets the buffer.
CryptoDone_Leak ==
    /\ job # NULL
    /\ m' \in {m, ring_push(m, "result_ring", job)}
    /\ job' = NULL
    /\ UNCHANGED <<data, rx, tx, engine, traffic, peer_fec>>

CryptoDone ==
    /\ job # NULL
    /\ m' \in {pool_return(m, job), ring_push(m, "result_ring", job)}
    /\ job' = NULL
    /\ UNCHANGED <<data, rx, tx, engine, traffic, peer_fec>>

(* The TX thread: scheduler_next, then send and return. *)
TxTake ==
    /\ tx = NULL
    /\ \E q \in {"control", "chat"} :
          /\ m[q] # <<>>
          /\ q = "chat" => m.control = <<>>
          /\ tx' = Head(m[q])
          /\ m' = ring_pop(m, q)
    /\ UNCHANGED <<data, rx, job, engine, traffic, peer_fec>>

TxSent ==
    /\ tx # NULL
    /\ m' = pool_return(m, tx)
    /\ tx' = NULL
    /\ UNCHANGED <<data, rx, job, engine, traffic, peer_fec>>

----------------------------------------------------------------------------
(* The application thread.  An event ring entry is its type; "null" is the
   entry the initiator's chat path pushes when malloc fails. *)

\* malloc an event, fill it and push it; lost when malloc fails or the ring is full.
Reported(ev, e) == {ev} \cup (IF Len(ev) < EventCap THEN {Append(ev, e)} ELSE {})

\* The initiator's chat path pushes the malloc result unseen and then writes
\* through the newest slot, so that a full ring loses its newest event.
ChatReported(ev) ==
    IF ~role_initiator THEN Reported(ev, "chat")
    ELSE IF Len(ev) < EventCap THEN {Append(ev, "chat"), Append(ev, "null")}
    ELSE {[ev EXCEPT ![Len(ev)] = IF @ = "null" THEN @ ELSE "chat"]}

(* engine_control_handler / engine_responder_handler on p, from buffers s. *)

\* No session, or not a control packet: chat is reported and acknowledged, relay data may be
\* forwarded, anything else is dropped.
HandleData(s, p) ==
    /\ data[p] \notin Control \/ state = "NONE"
    /\ LET chat == state = "LOCKED" /\ data[p] \in {"chat", "parity"}
           relayed == state = "LOCKED" /\ data[p] = "route" /\ ~role_initiator
       IN  /\ \E t \in (IF chat /\ session_is_locked THEN Send(s, "control")
                        ELSE IF relayed THEN MaySend(s, "chat") ELSE {s}) :
                 m' = pool_return(t, p)
           /\ event_ring' \in (IF chat THEN ChatReported(event_ring) ELSE {event_ring})
    /\ UNCHANGED <<state, session_is_locked, have_parity>>

\* A control that a LOCKED session's sub-handlers take.
HandleControl(s, p) ==
    /\ state = "LOCKED" /\ data[p] \in {"ask", "note", "tell"}
    /\ \E t \in (IF data[p] = "ask" THEN Send(s, "control") ELSE {s}) : m' = pool_return(t, p)
    /\ event_ring' \in (IF data[p] = "tell" THEN Reported(event_ring, "note") ELSE {event_ring})
    /\ UNCHANGED <<state, session_is_locked, have_parity>>

\* A handshake message in its place: the next message is built if a buffer is
\* to be had, and the session may be LOCKED now.
HandleHandshake(s, p) ==
    /\ state = "HANDSHAKE" /\ data[p] = "handshake"
    /\ \E t \in MaySend(s, "control") : m' = pool_return(t, p)
    /\ state' \in {"HANDSHAKE", "LOCKED"}
    /\ IF state' = "LOCKED" /\ ~session_is_locked
       THEN session_is_locked' = TRUE /\ event_ring' \in Reported(event_ring, "locked")
       ELSE UNCHANGED <<session_is_locked, event_ring>>
    /\ UNCHANGED have_parity

\* HS_ERROR and session_reset: every control that no sub-handler takes ends in
\* handshake_run_as_*; on a LOCKED session that is a CONNECT_*, a file offer, a
\* handshake message, a rekey of another epoch, a reconnect of another session,
\* a heartbeat or rekey that finds the pool empty.
HandleError(s, p) ==
    /\ data[p] \in Control /\ state # "NONE"
    /\ state = "LOCKED" => data[p] # "tell"
    /\ m' = pool_return([s EXCEPT !.fec_recovered = NULL], p)
    /\ state' = "IDLE"
    /\ have_parity' = FALSE
    /\ UNCHANGED <<session_is_locked, event_ring>>

Handle(s, p) == HandleData(s, p) \/ HandleControl(s, p) \/ HandleHandshake(s, p) \/ HandleError(s, p)

\* try_rebuild: the buffers and fec_rx_have_parity after fec_rx_rebuild found
\* the group incomplete, complete, or one short (and pool_get gave a buffer).
Rebuilt(s, parity) ==
    {<<s, parity>>} \cup
    (IF parity
     THEN {<<s, FALSE>>} \cup {<<[pool_get(s, b) EXCEPT !.fec_recovered = b], FALSE>> : b \in Free(s)}
     ELSE {})

\* A poll that leaves events for later and goes on to the packets.
PollEvent_Later ==
    /\ pc = "event"
    /\ \/ event_ring # <<>> /\ event_ring' = Tail(event_ring) /\ UNCHANGED pc
       \/ pc' = "result" /\ UNCHANGED event_ring
    /\ UNCHANGED <<m, data, rx, job, tx, state, role_initiator, session_is_locked, have_parity, traffic, peer_fec>>

PollEvent ==
    /\ pc = "event"
    /\ event_ring' = IF event_ring = <<>> THEN <<>> ELSE Tail(event_ring)
    /\ pc' = IF event_ring = <<>> \/ Head(event_ring) = "null" THEN "result" ELSE "event"
    /\ UNCHANGED <<m, data, rx, job, tx, state, role_initiator, session_is_locked, have_parity, traffic, peer_fec>>

PollResult ==
    /\ pc = "result"
    /\ pc' = "rx"
    /\ IF m.result_ring = <<>> THEN UNCHANGED <<m, state, session_is_locked, have_parity, event_ring>>
       ELSE Handle(ring_pop(m, "result_ring"), Head(m.result_ring))
    /\ UNCHANGED <<data, rx, job, tx, role_initiator, traffic, peer_fec>>

\* pipeline_inbound_pre_crypto up to session_check: which packets may pass.
Admitted(k) ==
    CASE k = "junk" -> {FALSE}
      [] k \in Control /\ state = "LOCKED" -> {TRUE}
      [] k = "handshake" /\ state = "HANDSHAKE" -> BOOLEAN
      [] OTHER -> {state = "LOCKED"}

\* The packet is dropped; a CONNECT_ACCEPT or _DECLINE is reported first.
PollDrop(p) ==
    /\ FALSE \in Admitted(data[p])
    /\ m' = pool_return(ring_pop(m, "rx_ring"), p)
    /\ event_ring' \in (IF data[p] = "connect" /\ role_initiator THEN Reported(event_ring, "connect") ELSE {event_ring})
    /\ UNCHANGED <<state, session_is_locked, have_parity>>

\* resilience_check keeps the parity, returns the buffer and says drop; the
\* caller returns the buffer of a dropped packet.
PollParity(p) ==
    /\ TRUE \in Admitted(data[p]) /\ data[p] = "parity"
    /\ \E r \in Rebuilt(ring_pop(m, "rx_ring"), TRUE) :
          /\ m' = pool_return(pool_return(r[1], p), p)
          /\ have_parity' = r[2]
    /\ UNCHANGED <<state, session_is_locked, event_ring>>

PollEncrypted(p) ==
    /\ TRUE \in Admitted(data[p]) /\ data[p] \in Encrypted
    /\ \E r \in Rebuilt(ring_pop(m, "rx_ring"), have_parity) :
          /\ m' \in {ring_push(r[1], "crypto_ring", p), pool_return(r[1], p)}
          /\ have_parity' = r[2]
    /\ UNCHANGED <<state, session_is_locked, event_ring>>

PollPlain(p) ==
    /\ TRUE \in Admitted(data[p]) /\ data[p] \in Control
    /\ Handle(ring_pop(m, "rx_ring"), p)

PollPacket ==
    /\ pc = "rx" /\ m.rx_ring # <<>>
    /\ LET p == Head(m.rx_ring)
       IN  PollDrop(p) \/ PollParity(p) \/ PollEncrypted(p) \/ PollPlain(p)
    /\ pc' = "event"
    /\ UNCHANGED <<data, rx, job, tx, role_initiator, traffic, peer_fec>>

(* What the ticks send: heartbeat_tick, then reconnect_tick, which sends or
   gives the session up; the decoy; an audio, a video and a file packet. *)
TickSends(st) ==
    LET heartbeat == MaySendIf(state = "LOCKED", {m}, "control")
        reconnect == MaySendIf(st = "LOCKED", heartbeat, "control")
        decoy == MaySendIf(session_is_locked, reconnect, "control")
        audio == MaySendIf(session_is_locked, decoy, "chat")
        video == MaySendIf(session_is_locked, audio, "chat")
    IN  MaySendIf(session_is_locked, video, "chat")

(* The ticks; a file may be complete.  The rx_queues that the media workers
   and the file receiver pop are never filled by this engine. *)
PollTick ==
    /\ pc = "rx" /\ m.rx_ring = <<>>
    /\ IF traffic < MaxTraffic /\ (state = "LOCKED" \/ session_is_locked)
       THEN /\ state' \in (IF state = "LOCKED" THEN {"LOCKED", "IDLE"} ELSE {state})
            /\ m' \in TickSends(state')
            /\ event_ring' \in {event_ring} \cup (IF session_is_locked THEN Reported(event_ring, "file") ELSE {})
            /\ traffic' = traffic + 1
       ELSE UNCHANGED <<m, state, event_ring, traffic>>
    /\ pc' = "event"
    /\ UNCHANGED <<data, rx, job, tx, role_initiator, session_is_locked, have_parity, peer_fec>>

(* The application's calls, made between two polls. *)
Call == pc = "event" /\ traffic < MaxTraffic /\ traffic' = traffic + 1
        /\ UNCHANGED <<data, rx, job, tx, pc, event_ring, peer_fec>>

\* eng->session becomes another session (or NULL) in state st; what the old
\* one kept for FEC is forgotten with it.
NewSession(st) ==
    /\ state' = st
    /\ session_is_locked' = FALSE
    /\ have_parity' = FALSE

Forget(s) == [s EXCEPT !.fec_recovered = NULL]

\* transport_engine_connect; without a session entry or a buffer for HELLO
\* only the role has changed.
AppConnect ==
    /\ Call /\ state = "NONE"
    /\ role_initiator' = TRUE
    /\ \/ NewSession("NONE") /\ UNCHANGED m
       \/ NewSession("HANDSHAKE") /\ Free(m) # {} /\ m' \in Send(m, "control")

AppDisconnect ==
    /\ Call /\ state # "NONE"
    /\ NewSession("NONE")
    /\ m' = Forget(m)
    /\ UNCHANGED role_initiator

\* transport_engine_start_listener; also what a connect request leaves behind when the
\* session table is full.
AppRole ==
    /\ Call
    /\ role_initiator' \in BOOLEAN
    /\ UNCHANGED <<m, state, session_is_locked, have_parity>>

\* transport_engine_send_connect_request and _accept_connection: a session that
\* no handshake_init_* has been called on.
AppRequest ==
    /\ Call
    /\ role_initiator' \in BOOLEAN
    /\ NewSession("IDLE")
    /\ m' \in Send(Forget(m), "control")

\* transport_engine_decline_connection, and on a locked session a typing, ack
\* or file control.
AppControl ==
    /\ Call
    /\ m' \in Send(m, "control")
    /\ UNCHANGED <<state, role_initiator, session_is_locked, have_parity>>

\* transport_engine_send_chat: the parity of a complete group goes first.
AppChat ==
    /\ Call /\ session_is_locked
    /\ \E b \in Free(m) : \E t \in MaySend(pool_get(m, b), "control") :
          m' \in {pool_return(pool_get(m, b), b), ring_push(t, "chat", b)}
    /\ UNCHANGED <<state, role_initiator, session_is_locked, have_parity>>

App == AppConnect \/ AppDisconnect \/ AppRole \/ AppRequest \/ AppControl \/ AppChat

Poll == PollEvent \/ PollResult \/ PollPacket \/ PollTick

Next ==
    \/ RxGet \/ RxNothing \/ RxPacket
    \/ CryptoTake \/ CryptoDone
    \/ TxTake \/ TxSent
    \/ Poll \/ App

Spec == Init /\ [][Next]_vars

\* Every thread loops for ever, and the application keeps polling.
FairSpec ==
    /\ Spec
    /\ WF_vars(RxNothing \/ RxPacket)
    /\ WF_vars(CryptoTake \/ CryptoDone)
    /\ WF_vars(TxTake \/ TxSent)
    /\ WF_vars(Poll)

----------------------------------------------------------------------------
(* Properties *)

\* Every variable has its type; the rings keep their capacity, and so does the
\* pool's stack, whatever is returned to it.
TypeOK ==
    /\ m.free \in [Buffers -> 0 .. PoolSize] /\ FreeCount(m) <= PoolSize
    /\ m.fec_recovered \in Buffers \cup {NULL}
    /\ \A q \in Rings : m[q] \in Seq(Buffers) /\ Len(m[q]) <= RingCap
    /\ data \in [Buffers -> Kinds]
    /\ {rx, job, tx} \subseteq Buffers \cup {NULL}
    /\ pc \in {"event", "result", "rx"}
    /\ state \in States
    /\ {role_initiator, session_is_locked, have_parity} \subseteq BOOLEAN
    /\ Len(event_ring) <= EventCap
    /\ traffic \in 0..MaxTraffic

\* The places that refer to b: entries of the pool, slots of the rings, the
\* threads and the session.
Held == [rx |-> rx, job |-> job, tx |-> tx, fec_recovered |-> m.fec_recovered]

Holders(b) ==
    {<<"pool", i>> : i \in 1 .. m.free[b]}
    \cup {h \in Rings \X (1 .. RingCap) : h[2] \in DOMAIN m[h[1]] /\ m[h[1]][h[2]] = b}
    \cup {<<h, 1>> : h \in {g \in DOMAIN Held : Held[g] = b}}

\* Across every path of poll, its handlers, the crypto worker and the RX and
\* TX threads, full rings and empty pools included, a buffer has exactly one
\* holder: it is never returned twice, never queued twice and never forgotten.
\* That is so as long as the peer sends no parity: a parity packet that lets a
\* packet be rebuilt is returned to the pool by two owners.
OneHolder == ~peer_fec => \A b \in Buffers : Cardinality(Holders(b)) = 1

\* poll hands out a queued event before it touches a packet, and one poll queues
\* at most two (one from a decrypted packet, one from a packet or a tick).  An
\* entry that is null lets a poll go on with events still queued, so that three
\* can be waiting and never more: the event ring is never full, no event is
\* lost, and the chat path's write through the newest slot hits its own entry.
EventRoom == Len(event_ring) <= 3

\* Once traffic stops, every buffer is back in the pool again and again: the
\* rings drain whatever they held and nothing keeps a buffer.
ComesHome == []<>(peer_fec \/ \A b \in Buffers : m.free[b] = 1)

=============================================================================
