------------------------------ MODULE Handshake ------------------------------
(***************************************************************************)
(* The session handshake of lib/handshake/handshake.c between an initiator *)
(* and a responder, over a network that may lose, duplicate, delay and     *)
(* reorder datagrams, and as the inbound pipeline lets it through: the     *)
(* static check, the session gate and, for the peers whose receive loop    *)
(* runs the whole pipeline, the replay check.                              *)
(*                                                                         *)
(*   initiator          HELLO            ->                                *)
(*                      <-               ACCEPT(session id)                *)
(*                      KEM_INIT(pk)     ->                                *)
(*                      <-               KEM_RESPONSE(ct)                  *)
(*                      IDENTITY(proof)  ->                                *)
(*                      <-               LOCKED(proof)                     *)
(*                                                                         *)
(* Cryptography is symbolic.  A hash, an HMAC, an AEAD tag and a derived   *)
(* key are injective, so each is the tuple of its inputs: the rolling      *)
(* transcript hash is the sequence of the payloads hashed, a session key   *)
(* the pair of a shared secret and a transcript.  Random values (session   *)
(* ids, key pairs, encapsulations) are numbered by the counter fresh.      *)
(***************************************************************************)
EXTENDS Naturals, Sequences

CONSTANTS
    Checked,      \* the peers whose receive loop runs seq_check
    MaxFresh,     \* bound: random values drawn
    MaxSeq,       \* bound: sequence numbers of a peer
    MaxRestarts,  \* bound: how often the initiator gives up and reconnects
    MaxPoolFails  \* bound: how often pool_get fails when a reply is built

ASSUME BoundsAssumption ==
    /\ {MaxFresh, MaxSeq, MaxRestarts, MaxPoolFails} \subseteq Nat
    /\ MaxFresh > 0 /\ MaxSeq > 0

Initiator == "initiator"
Responder == "responder"
Peers == {Initiator, Responder}

ASSUME CheckedAssumption == Checked \subseteq Peers

VARIABLES
    sess,         \* session_t of each peer
    seq_counter,  \* the sequence number of each peer's next packet
    net,          \* datagrams in transit
    fresh,        \* the next random value
    locked,       \* history: the [key, sid] with which each peer has locked
    restarts,     \* restarts of the initiator so far
    pool_fails,   \* failed allocations so far
    lost          \* history: the network has lost a datagram

vars == <<sess, seq_counter, net, fresh, locked, restarts, pool_fails, lost>>

None == <<>>
Other(p) == IF p = Initiator THEN Responder ELSE Initiator

Idle == "SESSION_IDLE"
Start == "SESSION_HANDSHAKE_START"
KemInitSent == "SESSION_PQ_KEM_INIT_SENT"
KemResponseSent == "SESSION_PQ_KEM_RESPONSE_SENT"
IdentitySent == "SESSION_IDENTITY_PROOF_SENT"
Locked == "SESSION_LOCKED"

Opcodes == {"HELLO", "ACCEPT", "KEM_INIT", "KEM_RESPONSE", "IDENTITY", "LOCKED"}

(* What handshake messages hash: the opcode and the body.                  *)
Payload(op, body) == <<op, body>>

-----------------------------------------------------------------------------
(* session_reset: all but the session id and the addresses is cleared.     *)
Reset(s) ==
    [role |-> "UNASSIGNED", state |-> Idle, session_id |-> s.session_id,
     transcript |-> <<>>, secret_key |-> None, peer_public_key |-> None,
     shared_secret |-> None, session_key |-> None, seen |-> {}]

(* handshake_init_initiator, with the random id sid, and the transcript    *)
(* after handshake_build_hello.                                            *)
InitInitiator(s, sid) ==
    [Reset(s) EXCEPT !.role = Initiator, !.state = Start, !.session_id = sid,
                     !.transcript = <<Payload("HELLO", None)>>]

(* handshake_init_responder.                                               *)
InitResponder(s) == [Reset(s) EXCEPT !.role = Responder, !.state = Start]

Datagram(to, op, seq, body) == [to |-> to, op |-> op, seq |-> seq, body |-> body]

(* Both sessions as the demo sets them up: HELLO is on its way before a    *)
(* receive thread runs.                                                    *)
Init ==
    LET blank == [session_id |-> 0]
    IN  /\ sess = [p \in Peers |-> IF p = Initiator THEN InitInitiator(blank, 1)
                                                    ELSE InitResponder(blank)]
        /\ seq_counter = [p \in Peers |-> IF p = Initiator THEN 2 ELSE 1]
        /\ net = {Datagram(Responder, "HELLO", 1, None)}
        /\ fresh = 2
        /\ locked = [p \in Peers |-> {}]
        /\ restarts = 0
        /\ pool_fails = 0
        /\ lost = FALSE

-----------------------------------------------------------------------------
(* External: ML-KEM.  Decapsulation with another key than the one that was *)
(* encapsulated to yields an unrelated secret instead of an error.         *)
Encapsulate(pk, rnd) == <<pk, rnd>>
Decapsulate(sk, ct) == IF ct[1] = sk THEN ct ELSE <<sk, ct>>

Proof(label, s) == <<label, s.shared_secret, s.transcript>>

(* Mutant: the responder in HANDSHAKE_START lets only HELLO through.       *)
SessionCheck_NoKemInit(s, op) ==
    \/ s.state = Locked
    \/ s.role = Responder /\ s.state \in {Idle, Start} /\ op = "HELLO"
    \/ /\ s.role = Initiator
       /\ <<s.state, op>> \in {<<Start, "ACCEPT">>, <<KemInitSent, "KEM_RESPONSE">>,
                               <<KemResponseSent, "IDENTITY">>, <<IdentitySent, "LOCKED">>}
    \/ /\ s.role = Responder
       /\ <<s.state, op>> \in {<<KemResponseSent, "IDENTITY">>, <<IdentitySent, "LOCKED">>}

(* session_check for a packet of the control channel.                      *)
SessionCheck(s, op) ==
    \/ s.state = Locked
    \/ /\ s.role = Responder /\ s.state \in {Idle, Start}
       /\ op \in {"HELLO", "KEM_INIT"}
    \/ /\ s.role = Initiator
       /\ <<s.state, op>> \in {<<Start, "ACCEPT">>, <<KemInitSent, "KEM_RESPONSE">>,
                               <<KemResponseSent, "IDENTITY">>, <<IdentitySent, "LOCKED">>}
    \/ /\ s.role = Responder
       /\ <<s.state, op>> \in {<<KemResponseSent, "IDENTITY">>, <<IdentitySent, "LOCKED">>}

(* verify_state_transition.                                                *)
VerifyStateTransition(s, op) ==
    IF s.role = Initiator
    THEN <<op, s.state>> \in {<<"ACCEPT", Start>>, <<"KEM_RESPONSE", KemInitSent>>,
                              <<"IDENTITY", KemResponseSent>>, <<"LOCKED", IdentitySent>>}
    ELSE <<op, s.state>> \in {<<"HELLO", Idle>>, <<"HELLO", Start>>, <<"KEM_INIT", Start>>,
                              <<"IDENTITY", KemResponseSent>>, <<"LOCKED", IdentitySent>>}

(* handshake_process_message returns no error: the order is right and a    *)
(* proof is the one made with this side's secret and transcript.           *)
Acceptable(s, m) ==
    /\ VerifyStateTransition(s, m.op)
    /\ m.op = "HELLO" => s.role = Responder
    /\ m.op = "IDENTITY" => m.body = Proof("id", s)
    /\ m.op = "LOCKED" => m.body = Proof("lock", s)

Hashed(s, op, body) == [s EXCEPT !.transcript = Append(@, Payload(op, body))]

(* Mutant: the shared secret is not wiped.                                 *)
Lock_NoWipe(s) ==
    [s EXCEPT !.session_key = <<s.shared_secret, s.transcript>>,
              !.secret_key = None, !.state = Locked]

(* derive_session_keys from the current transcript; the KEM secrets are    *)
(* wiped and the session is locked.                                        *)
Lock(s) ==
    [s EXCEPT !.session_key = <<s.shared_secret, s.transcript>>,
              !.secret_key = None, !.shared_secret = None, !.state = Locked]

(* The session after handshake_process_message took message m.             *)
Processed(s, m) ==
    LET h == Hashed(s, m.op, m.body)
    IN  CASE m.op = "ACCEPT" -> [h EXCEPT !.session_id = m.body]
          [] m.op = "KEM_INIT" -> [h EXCEPT !.peer_public_key = m.body]
          [] m.op = "KEM_RESPONSE" ->
                [h EXCEPT !.shared_secret = Decapsulate(h.secret_key, m.body)]
          [] m.op = "LOCKED" -> Lock(h)
          [] OTHER -> h

(* The reply that handshake_run_as_initiator and _responder build to an    *)
(* opcode, as the session after it and the message; rnd is a random value. *)
BuildAccept(s, rnd) ==
    [op |-> "ACCEPT", body |-> rnd,
     s |-> Hashed([s EXCEPT !.session_id = rnd], "ACCEPT", rnd)]

(* Mutant: the initiator moves to the state after the responder's answer.  *)
BuildKemInit_WrongState(s, rnd) ==
    [op |-> "KEM_INIT", body |-> rnd,
     s |-> Hashed([s EXCEPT !.secret_key = rnd, !.state = KemResponseSent], "KEM_INIT", rnd)]

BuildKemInit(s, rnd) ==
    [op |-> "KEM_INIT", body |-> rnd,
     s |-> Hashed([s EXCEPT !.secret_key = rnd, !.state = KemInitSent], "KEM_INIT", rnd)]

BuildKemResponse(s, rnd) ==
    LET ct == Encapsulate(s.peer_public_key, rnd)
    IN  [op |-> "KEM_RESPONSE", body |-> ct,
         s |-> Hashed([s EXCEPT !.session_key = <<ct, s.transcript>>, !.shared_secret = ct,
                                !.state = KemResponseSent], "KEM_RESPONSE", ct)]

BuildIdentity(s, rnd) ==
    LET proof == Proof("id", s)
    IN  [op |-> "IDENTITY", body |-> proof,
         s |-> Hashed([s EXCEPT !.state = IdentitySent], "IDENTITY", proof)]

(* Mutant: the key is derived before LOCKED is hashed into the transcript. *)
BuildLocked_EarlyKey(s, rnd) ==
    LET proof == Proof("lock", s)
    IN  [op |-> "LOCKED", body |-> proof, s |-> Hashed(Lock(s), "LOCKED", proof)]

BuildLocked(s, rnd) ==
    LET proof == Proof("lock", s)
    IN  [op |-> "LOCKED", body |-> proof, s |-> Lock(Hashed(s, "LOCKED", proof))]

Answers(p) == IF p = Initiator THEN {"ACCEPT", "KEM_RESPONSE"}
                               ELSE {"HELLO", "KEM_INIT", "IDENTITY"}

Reply(op, s, rnd) ==
    CASE op = "HELLO" -> BuildAccept(s, rnd)
      [] op = "ACCEPT" -> BuildKemInit(s, rnd)
      [] op = "KEM_INIT" -> BuildKemResponse(s, rnd)
      [] op = "KEM_RESPONSE" -> BuildIdentity(s, rnd)
      [] op = "IDENTITY" -> BuildLocked(s, rnd)

-----------------------------------------------------------------------------
(* What the network may hold once it has delivered m: it may keep a copy.  *)
Left(m) == {net, net \ {m}}

(* Mutant: nothing is checked against the replay window.                   *)
Admitted_NoReplay(m) == m.seq # 0 /\ SessionCheck(sess[m.to], m.op)

(* pipeline_inbound_process hands m to the control handler.                *)
Admitted(m) ==
    /\ m.seq # 0
    /\ SessionCheck(sess[m.to], m.op)
    /\ m.to \in Checked => m.seq \notin sess[m.to].seen

(* The receiver's session once seq_check has recorded m.                   *)
Seen(m) == IF m.to \in Checked THEN [sess[m.to] EXCEPT !.seen = @ \cup {m.seq}]
                               ELSE sess[m.to]

Record(p, s) ==
    IF s.state = Locked THEN [locked EXCEPT ![p] = @ \cup {[key |-> s.session_key, sid |-> s.session_id]}]
                        ELSE locked

(* A layer of the pipeline refuses m.                                      *)
Drop(m) ==
    /\ ~ Admitted(m)
    /\ net' \in Left(m)
    /\ UNCHANGED <<sess, seq_counter, fresh, locked, restarts, pool_fails, lost>>

(* The handler meets HS_ERROR and resets the session.                      *)
Fail(m) ==
    /\ Admitted(m) /\ ~ Acceptable(Seen(m), m)
    /\ sess' = [sess EXCEPT ![m.to] = Reset(@)]
    /\ net' \in Left(m)
    /\ UNCHANGED <<seq_counter, fresh, locked, restarts, pool_fails, lost>>

(* m needs no reply: the initiator has completed.                          *)
Complete(m) ==
    /\ Admitted(m) /\ Acceptable(Seen(m), m) /\ m.op \notin Answers(m.to)
    /\ LET s == Processed(Seen(m), m)
       IN  /\ sess' = [sess EXCEPT ![m.to] = s]
           /\ locked' = Record(m.to, s)
    /\ net' \in Left(m)
    /\ UNCHANGED <<seq_counter, fresh, restarts, pool_fails, lost>>

(* m is processed and the reply is queued to the peer.                     *)
Respond(m) ==
    /\ Admitted(m) /\ Acceptable(Seen(m), m) /\ m.op \in Answers(m.to)
    /\ fresh <= MaxFresh /\ seq_counter[m.to] <= MaxSeq
    /\ LET r == Reply(m.op, Processed(Seen(m), m), fresh)
       IN  /\ sess' = [sess EXCEPT ![m.to] = r.s]
           /\ locked' = Record(m.to, r.s)
           /\ \E rest \in Left(m) :
                 net' = rest \cup {Datagram(Other(m.to), r.op, seq_counter[m.to], r.body)}
    /\ fresh' = fresh + 1
    /\ seq_counter' = [seq_counter EXCEPT ![m.to] = @ + 1]
    /\ UNCHANGED <<restarts, pool_fails, lost>>

(* m is processed but pool_get has no buffer for the reply: nothing is     *)
(* sent and what was processed stays processed.                            *)
NoBuffer(m) ==
    /\ Admitted(m) /\ Acceptable(Seen(m), m) /\ m.op \in Answers(m.to)
    /\ pool_fails < MaxPoolFails
    /\ pool_fails' = pool_fails + 1
    /\ sess' = [sess EXCEPT ![m.to] = Processed(Seen(m), m)]
    /\ net' \in Left(m)
    /\ UNCHANGED <<seq_counter, fresh, locked, restarts, lost>>

Lose(m) ==
    /\ net' = net \ {m}
    /\ lost' = TRUE
    /\ UNCHANGED <<sess, seq_counter, fresh, locked, restarts, pool_fails>>

(* transport_engine_disconnect and then transport_engine_connect.  The     *)
(* former sets the counter to 0; the packets sent in between move it on.   *)
Reconnect ==
    /\ restarts < MaxRestarts /\ fresh <= MaxFresh
    /\ restarts' = restarts + 1
    /\ sess' = [sess EXCEPT ![Initiator] = InitInitiator(@, fresh)]
    /\ fresh' = fresh + 1
    /\ \E n \in 0 .. MaxSeq :
          /\ seq_counter' = [seq_counter EXCEPT ![Initiator] = n + 1]
          /\ net' = net \cup {Datagram(Responder, "HELLO", n, None)}
    /\ UNCHANGED <<locked, pool_fails, lost>>

Receive(m) == Drop(m) \/ Fail(m) \/ Complete(m) \/ Respond(m) \/ NoBuffer(m)

Next ==
    \/ \E m \in net : Receive(m) \/ Lose(m)
    \/ Reconnect

Spec == Init /\ [][Next]_vars

(* A datagram that the network does not lose is delivered in the end.      *)
FairSpec ==
    Spec /\ \A op \in Opcodes : WF_vars(\E m \in net : m.op = op /\ Receive(m))

-----------------------------------------------------------------------------
InitiatorStates == {Idle, Start, KemInitSent, IdentitySent, Locked}
ResponderStates == {Idle, Start, KemResponseSent, Locked}

(* Type correctness; neither side is ever in a state that only the other   *)
(* side's messages lead to.                                                *)
TypeOK ==
    /\ sess[Initiator].state \in InitiatorStates
    /\ sess[Responder].state \in ResponderStates
    /\ \A p \in Peers : /\ sess[p].role \in {p, "UNASSIGNED"}
                         /\ sess[p].role = "UNASSIGNED" <=> sess[p].state = Idle
                         /\ sess[p].session_id \in 0 .. MaxFresh
                         /\ sess[p].seen \subseteq 1 .. MaxSeq
    /\ seq_counter \in [Peers -> 1 .. MaxSeq + 1]
    /\ \A m \in net : m.to \in Peers /\ m.op \in Opcodes /\ m.seq \in 0 .. MaxSeq
    /\ fresh \in 1 .. MaxFresh + 1
    /\ restarts \in 0 .. MaxRestarts /\ pool_fails \in 0 .. MaxPoolFails /\ lost \in BOOLEAN

(* The initiator only ever locks with a session key and a session id with  *)
(* which the responder has locked too, whatever was lost, duplicated or    *)
(* left over from an earlier attempt (handshake_process_message).          *)
KeyAgreement == locked[Initiator] \subseteq locked[Responder]

(* A locked or reset session holds no KEM secret, and a reset one no       *)
(* session key, on every path of the handshake into and out of it          *)
(* (session_reset, handshake_build_locked, handshake_process_message).     *)
SecretsWiped ==
    \A p \in Peers :
        /\ sess[p].state \in {Idle, Locked} =>
               sess[p].secret_key = None /\ sess[p].shared_secret = None
        /\ sess[p].state = Idle => sess[p].session_key = None

(* No handshake datagram, late, repeated or out of order, makes a session  *)
(* that has locked leave SESSION_LOCKED or change its key.                 *)
LockedForGood ==
    [][\A p \in Peers : sess[p].state = Locked =>
          sess'[p].state = Locked /\ sess'[p].session_key = sess[p].session_key]_vars

(* Both sides reach SESSION_LOCKED, however the datagrams are reordered    *)
(* and repeated, unless one is lost or a reply finds the pool empty: the   *)
(* handshake sends nothing twice.                                          *)
BothLock == <>(lost \/ pool_fails > 0 \/ \A p \in Peers : sess[p].state = Locked)

-----------------------------------------------------------------------------
(* The inductive invariant behind KeyAgreement and SecretsWiped.           *)

Fields == {"role", "state", "session_id", "transcript", "secret_key", "peer_public_key",
           "shared_secret", "session_key", "seen"}

IsSeq(t) == t \in Seq({t[i] : i \in DOMAIN t})

(* Entry i is the last ACCEPT of transcript t.                             *)
LastAccept(t, i) ==
    /\ i \in 1 .. Len(t) /\ t[i][1] = "ACCEPT"
    /\ \A j \in 1 .. Len(t) : j > i => t[j][1] # "ACCEPT"

(* A transcript that holds an ACCEPT fixes the session id.                 *)
Fixes(t, sid) == \A i \in 1 .. Len(t) : LastAccept(t, i) => t[i][2] = sid

StatesOf(p) == IF p = Initiator THEN InitiatorStates ELSE ResponderStates

SessOK(p, s) ==
    /\ DOMAIN s = Fields
    /\ s.state \in StatesOf(p)
    /\ s.role = (IF s.state = Idle THEN "UNASSIGNED" ELSE p)
    /\ IsSeq(s.transcript)
    /\ Fixes(s.transcript, s.session_id)
    /\ s.state \in {KemInitSent, IdentitySent} =>
          \E i \in 1 .. Len(s.transcript) : LastAccept(s.transcript, i)
    /\ s.state \in {Idle, Locked} => s.secret_key = None /\ s.shared_secret = None
    /\ s.state = Idle => s.session_key = None

(* The key that the initiator derives when it takes a LOCKED message.      *)
KeyOf(m) == <<m.body[2], Append(m.body[3], Payload("LOCKED", m.body))>>

(* What the responder has locked with, and that it has before a LOCKED     *)
(* message is in transit.                                                  *)
LockMessageOK(m) ==
    /\ m.to \in Peers
    /\ m.op = "LOCKED" =>
          \E e \in locked[Responder] : e.key = KeyOf(m) /\ e = [key |-> e.key, sid |-> e.sid]

HandshakeInv ==
    /\ DOMAIN sess = Peers /\ DOMAIN locked = Peers
    /\ \A p \in Peers : SessOK(p, sess[p])
    /\ \A m \in net : LockMessageOK(m)
    /\ \A e \in locked[Responder] : Fixes(e.key[2], e.sid)
    /\ KeyAgreement

(* With it, the ranges: an ACCEPT in transit carries an id that was drawn. *)
RangeInv ==
    /\ \A p \in Peers : sess[p].session_id \in 0 .. MaxFresh /\ sess[p].seen \subseteq 1 .. MaxSeq
    /\ seq_counter \in [Peers -> 1 .. MaxSeq + 1]
    /\ \A m \in net : /\ m.to \in Peers /\ m.op \in Opcodes /\ m.seq \in 0 .. MaxSeq
                      /\ m.op = "ACCEPT" => m.body \in 0 .. MaxFresh
    /\ fresh \in 1 .. MaxFresh + 1
    /\ restarts \in 0 .. MaxRestarts /\ pool_fails \in 0 .. MaxPoolFails /\ lost \in BOOLEAN

(* The inductive invariant behind LockedForGood, when both peers check for *)
(* replays and nobody reconnects: the peers go in lockstep.  Each number   *)
(* is sent once, with the message of that step, and a peer has seen every  *)
(* message to it but the last one sent; a locked peer has seen them all.   *)
Numbered(m) ==
    <<m.to, m.op, m.seq>> \in
        {<<Responder, "HELLO", 1>>, <<Responder, "KEM_INIT", 2>>, <<Responder, "IDENTITY", 3>>,
         <<Initiator, "ACCEPT", 1>>, <<Initiator, "KEM_RESPONSE", 2>>, <<Initiator, "LOCKED", 3>>}

LockstepInv ==
    LET a == seq_counter[Initiator]
        b == seq_counter[Responder]
        i == sess[Initiator]
        r == sess[Responder]
    IN  /\ a \in 2 .. 4 /\ b \in 1 .. 4 /\ a \in {b, b + 1} /\ restarts = 0
        /\ \A m \in net : Numbered(m) /\ m.seq < seq_counter[Other(m.to)]
        /\ i.state # Idle =>
              /\ 1 .. a - 2 \subseteq i.seen
              /\ <<a, i.state>> \in {<<2, Start>>, <<3, KemInitSent>>, <<4, IdentitySent>>, <<4, Locked>>}
              /\ i.state = Locked => 1 .. 3 \subseteq i.seen
        /\ r.state # Idle =>
              /\ 1 .. b - 1 \subseteq r.seen
              /\ <<b, r.state>> \in {<<1, Start>>, <<2, Start>>, <<3, KemResponseSent>>, <<4, Locked>>}
====
