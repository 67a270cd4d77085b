--------------------------- MODULE HandshakeProofs ---------------------------
(***************************************************************************)
(* Proofs about Handshake: for all bounds, whichever peers check for       *)
(* replays and whatever the network does, the initiator locks only with a  *)
(* key and a session id with which the responder has locked, no session    *)
(* keeps its KEM secrets once it is locked or reset, and sessions,         *)
(* counters and messages keep their ranges.  Where both peers check and    *)
(* nobody starts anew, a locked session stays locked.                      *)
(***************************************************************************)
EXTENDS Handshake, SequenceTheorems, TLAPS

-----------------------------------------------------------------------------
(* Transcripts.                                                            *)

(* Hashing one more payload appends it and keeps the earlier ones          *)
(* (update_transcript).                                                    *)
LEMMA TranscriptAppend ==
    ASSUME NEW t, IsSeq(t), NEW e
    PROVE  /\ Len(t) \in Nat
           /\ IsSeq(Append(t, e))
           /\ Len(Append(t, e)) = Len(t) + 1
           /\ \A i \in 1 .. Len(t) : Append(t, e)[i] = t[i]
           /\ Append(t, e)[Len(t) + 1] = e
<1> DEFINE S == {t[i] : i \in DOMAIN t} \cup {e}
<1> DEFINE a == Append(t, e)
<1> DEFINE R == {a[i] : i \in DOMAIN a}
<1>1. t \in Seq(S)
  <2>1. {t[i] : i \in DOMAIN t} \subseteq S
    OBVIOUS
  <2>2. t \in Seq({t[i] : i \in DOMAIN t})
    BY DEF IsSeq
  <2> HIDE DEF S
  <2> QED BY <2>1, <2>2, SeqDef
<1>2. /\ a \in Seq(S)
      /\ Len(a) = Len(t) + 1
      /\ \A i \in 1 .. Len(t) : a[i] = t[i]
      /\ a[Len(t) + 1] = e
      /\ Len(t) \in Nat
  <2>1. e \in S
    OBVIOUS
  <2> HIDE DEF S
  <2> QED BY <1>1, <2>1, AppendProperties, LenProperties
<1>3. a \in Seq(R)
  <2>1. a \in [1 .. Len(a) -> S] /\ Len(a) \in Nat
    <3> HIDE DEF S, a
    <3> QED BY <1>2, LenProperties
  <2>2. a \in [1 .. Len(a) -> R]
    <3> HIDE DEF S, a
    <3> QED BY <2>1
  <2> HIDE DEF S, a, R
  <2> QED BY <2>1, <2>2, SeqDef
<1> QED
  BY <1>2, <1>3 DEF IsSeq

(* A payload other than ACCEPT leaves the last ACCEPT where it is.         *)
LEMMA OtherPayload ==
    ASSUME NEW t, IsSeq(t), NEW op, op # "ACCEPT", NEW body
    PROVE  LET a == Append(t, Payload(op, body))
           IN  /\ \A i \in 1 .. Len(a) : LastAccept(a, i) => LastAccept(t, i) /\ a[i] = t[i]
               /\ \A i \in 1 .. Len(t) : LastAccept(t, i) => LastAccept(a, i)
<1> DEFINE e == Payload(op, body)
<1> DEFINE a == Append(t, e)
<1>1. e[1] # "ACCEPT"
  BY DEF Payload
<1>2. /\ Len(t) \in Nat
      /\ Len(a) = Len(t) + 1
      /\ \A i \in 1 .. Len(t) : a[i] = t[i]
      /\ a[Len(t) + 1] = e
  BY TranscriptAppend
<1> HIDE DEF e, a
<1>3. \A i \in 1 .. Len(a) : LastAccept(a, i) => LastAccept(t, i) /\ a[i] = t[i]
  BY <1>1, <1>2 DEF LastAccept
<1>4. \A i \in 1 .. Len(t) : LastAccept(t, i) => LastAccept(a, i)
  BY <1>1, <1>2 DEF LastAccept
<1> QED
  BY <1>3, <1>4 DEF e, a

(* An ACCEPT is the last one, and carries the session id it fixes.         *)
LEMMA AcceptPayload ==
    ASSUME NEW t, IsSeq(t), NEW sid
    PROVE  LET a == Append(t, Payload("ACCEPT", sid))
           IN  Fixes(a, sid) /\ \E i \in 1 .. Len(a) : LastAccept(a, i)
<1> DEFINE e == Payload("ACCEPT", sid)
<1> DEFINE a == Append(t, e)
<1>1. e[1] = "ACCEPT" /\ e[2] = sid
  BY DEF Payload
<1>2. /\ Len(t) \in Nat
      /\ Len(a) = Len(t) + 1
      /\ \A i \in 1 .. Len(t) : a[i] = t[i]
      /\ a[Len(t) + 1] = e
  BY TranscriptAppend
<1> HIDE DEF e, a
<1>3. Fixes(a, sid)
  BY <1>1, <1>2 DEF Fixes, LastAccept
<1>4. LastAccept(a, Len(t) + 1)
  BY <1>1, <1>2 DEF LastAccept
<1>5. Len(t) + 1 \in 1 .. Len(a)
  BY <1>2
<1> QED
  BY <1>3, <1>4, <1>5 DEF e, a

-----------------------------------------------------------------------------
(* What the operations on a session preserve.                              *)

(* session_reset leaves a session that holds no secret.                    *)
LEMMA ResetOK ==
    ASSUME NEW p \in Peers, NEW s
    PROVE  SessOK(p, Reset(s))
<1> DEFINE r == Reset(s)
<1>1. /\ DOMAIN r = Fields
      /\ r.role = "UNASSIGNED" /\ r.state = Idle /\ r.transcript = <<>>
      /\ r.secret_key = None /\ r.shared_secret = None /\ r.session_key = None
  BY DEF Fields, Reset
<1>2. IsSeq(<<>>) /\ Len(<<>>) = 0
  BY EmptySeq DEF IsSeq
<1>3. Fixes(<<>>, r.session_id)
  BY <1>2 DEF Fixes
<1>4. Idle \in StatesOf(p)
  BY DEF StatesOf, InitiatorStates, ResponderStates
<1>5. Idle \notin {KemInitSent, IdentitySent}
  BY DEF Idle, KemInitSent, IdentitySent
<1> HIDE DEF r
<1>6. SessOK(p, r)
  BY <1>1, <1>2, <1>3, <1>4, <1>5 DEF SessOK
<1> QED
  BY <1>6 DEF r

(* Recording a sequence number in the replay window changes nothing else.  *)
LEMMA SeenOK ==
    ASSUME NEW m, m.to \in Peers, SessOK(m.to, sess[m.to])
    PROVE  /\ SessOK(m.to, Seen(m))
           /\ Seen(m).state = sess[m.to].state
           /\ Seen(m).role = sess[m.to].role
<1> DEFINE s == sess[m.to]
<1> DEFINE r == Seen(m)
<1>1. DOMAIN s = Fields
  BY DEF SessOK
<1>2. /\ DOMAIN r = Fields
      /\ r.role = s.role /\ r.state = s.state /\ r.transcript = s.transcript
      /\ r.session_id = s.session_id
      /\ r.secret_key = s.secret_key /\ r.shared_secret = s.shared_secret
      /\ r.session_key = s.session_key
  BY <1>1 DEF Seen, Fields
<1> HIDE DEF r
<1>3. SessOK(m.to, r)
  BY <1>2 DEF SessOK
<1> QED
  BY <1>2, <1>3 DEF r

(* Hashing a payload other than ACCEPT keeps what the transcript fixes.    *)
LEMMA FixesKept ==
    ASSUME NEW t, IsSeq(t), NEW sid, Fixes(t, sid), NEW op, op # "ACCEPT", NEW body
    PROVE  /\ IsSeq(Append(t, Payload(op, body)))
           /\ Fixes(Append(t, Payload(op, body)), sid)
           /\ (\E i \in 1 .. Len(t) : LastAccept(t, i)) =>
                 \E i \in 1 .. Len(Append(t, Payload(op, body))) :
                     LastAccept(Append(t, Payload(op, body)), i)
<1> DEFINE a == Append(t, Payload(op, body))
<1>1. IsSeq(a) /\ Len(t) \in Nat /\ Len(a) = Len(t) + 1
  BY TranscriptAppend
<1>2. /\ \A i \in 1 .. Len(a) : LastAccept(a, i) => LastAccept(t, i) /\ a[i] = t[i]
      /\ \A i \in 1 .. Len(t) : LastAccept(t, i) => LastAccept(a, i)
  BY OtherPayload
<1> HIDE DEF a
<1>3. Fixes(a, sid)
  <2> SUFFICES ASSUME NEW i \in 1 .. Len(a), LastAccept(a, i)
               PROVE  a[i][2] = sid
    BY DEF Fixes
  <2>1. LastAccept(t, i) /\ a[i] = t[i]
    BY <1>2
  <2>2. i \in 1 .. Len(t)
    BY <2>1 DEF LastAccept
  <2> QED
    BY <2>1, <2>2 DEF Fixes
<1>4. (\E i \in 1 .. Len(t) : LastAccept(t, i)) => \E i \in 1 .. Len(a) : LastAccept(a, i)
  BY <1>1, <1>2
<1> QED
  BY <1>1, <1>3, <1>4 DEF a

(* The opcodes that the handshake takes, and in which state.               *)
LEMMA Order ==
    ASSUME NEW p \in Peers, NEW s, SessOK(p, s), NEW m, Acceptable(s, m), s.state # Idle
    PROVE  \/ p = Initiator /\ m.op = "ACCEPT" /\ s.state = Start
           \/ p = Initiator /\ m.op = "KEM_RESPONSE" /\ s.state = KemInitSent
           \/ /\ p = Initiator /\ m.op = "LOCKED" /\ s.state = IdentitySent
              /\ m.body = Proof("lock", s)
           \/ p = Responder /\ m.op = "HELLO" /\ s.state = Start
           \/ p = Responder /\ m.op = "KEM_INIT" /\ s.state = Start
           \/ p = Responder /\ m.op = "IDENTITY" /\ s.state = KemResponseSent
  BY DEF Peers, Initiator, Responder, SessOK, Acceptable, VerifyStateTransition, StatesOf,
         InitiatorStates, ResponderStates, Idle, Start, KemInitSent, KemResponseSent,
         IdentitySent, Locked

(* Deriving the session key wipes the KEM secrets and locks the session.   *)
LEMMA LockOK ==
    ASSUME NEW p \in Peers, NEW s, SessOK(p, s), s.state # Idle,
           NEW r, r = Lock(s)
    PROVE  SessOK(p, r)
<1>1. DOMAIN s = Fields
  BY DEF SessOK
<1>2. /\ DOMAIN r = Fields
      /\ r.role = s.role /\ r.state = Locked /\ r.transcript = s.transcript
      /\ r.session_id = s.session_id
      /\ r.secret_key = None /\ r.shared_secret = None
      /\ r.session_key = <<s.shared_secret, s.transcript>>
  BY <1>1 DEF Lock, Fields
<1>3. Locked \in StatesOf(p) /\ Locked \notin {Idle, KemInitSent, IdentitySent}
  BY DEF StatesOf, InitiatorStates, ResponderStates, Locked, Idle, KemInitSent, IdentitySent
<1> QED
  BY <1>2, <1>3 DEF SessOK

(* Hashing a payload other than ACCEPT.                                    *)
LEMMA HashedOK ==
    ASSUME NEW p \in Peers, NEW s, SessOK(p, s), NEW op, op # "ACCEPT", NEW body,
           NEW r, r = Hashed(s, op, body)
    PROVE  SessOK(p, r)
<1>1. DOMAIN s = Fields
  BY DEF SessOK
<1>2. /\ DOMAIN r = Fields
      /\ r.role = s.role /\ r.state = s.state
      /\ r.transcript = Append(s.transcript, Payload(op, body))
      /\ r.session_id = s.session_id
      /\ r.secret_key = s.secret_key /\ r.shared_secret = s.shared_secret
      /\ r.session_key = s.session_key
  BY <1>1 DEF Hashed, Fields
<1>3. /\ IsSeq(r.transcript) /\ Fixes(r.transcript, s.session_id)
      /\ (\E i \in 1 .. Len(s.transcript) : LastAccept(s.transcript, i)) =>
             \E i \in 1 .. Len(r.transcript) : LastAccept(r.transcript, i)
  <2>1. IsSeq(s.transcript) /\ Fixes(s.transcript, s.session_id)
    BY DEF SessOK
  <2> QED
    BY <1>2, <2>1, FixesKept
<1> QED
  BY <1>2, <1>3 DEF SessOK

(* A session in one of the states of the handshake keeps SessOK when the   *)
(* KEM material changes and the state moves on.                            *)
LEMMA MoveOK ==
    ASSUME NEW p \in Peers, NEW s, SessOK(p, s), s.state # Idle, NEW r, DOMAIN r = Fields,
           r.role = s.role, r.transcript = s.transcript, r.session_id = s.session_id,
           r.state \in StatesOf(p) \ {Idle, Locked},
           r.state \in {KemInitSent, IdentitySent} =>
               \E i \in 1 .. Len(s.transcript) : LastAccept(s.transcript, i)
    PROVE  SessOK(p, r)
  BY DEF SessOK

(* handshake_process_message keeps SessOK, and leaves the state as it is   *)
(* unless it completes the handshake.                                      *)
LEMMA ProcessedOK ==
    ASSUME NEW p \in Peers, NEW s, SessOK(p, s), NEW m, Acceptable(s, m), s.state # Idle
    PROVE  /\ SessOK(p, Processed(s, m))
           /\ m.op # "LOCKED" => Processed(s, m).state = s.state
           /\ m.op = "ACCEPT" =>
                 \E i \in 1 .. Len(Processed(s, m).transcript) :
                     LastAccept(Processed(s, m).transcript, i)
<1> DEFINE h == Hashed(s, m.op, m.body)
<1> DEFINE r == Processed(s, m)
<1>0. DOMAIN s = Fields /\ s.state \in StatesOf(p) /\ IsSeq(s.transcript)
  BY DEF SessOK
<1>1. CASE m.op = "ACCEPT"
  <2>1. s.state = Start
    BY <1>1, Order
  <2>2. r = [h EXCEPT !.session_id = m.body]
    BY <1>1 DEF Processed
  <2>3. /\ DOMAIN r = Fields /\ r.role = s.role /\ r.state = s.state
        /\ r.transcript = Append(s.transcript, Payload("ACCEPT", m.body))
        /\ r.session_id = m.body
    BY <1>0, <1>1, <2>2 DEF Hashed, Fields
  <2>4. /\ IsSeq(r.transcript) /\ Fixes(r.transcript, r.session_id)
        /\ \E i \in 1 .. Len(r.transcript) : LastAccept(r.transcript, i)
    BY <1>0, <2>3, TranscriptAppend, AcceptPayload
  <2>5. Start \notin {Idle, Locked}
    BY DEF Start, Idle, Locked
  <2> HIDE DEF r
  <2>6. SessOK(p, r)
    BY <2>1, <2>3, <2>4, <2>5 DEF SessOK
  <2> QED
    BY <1>1, <2>3, <2>4, <2>6 DEF r
<1>2. CASE m.op # "ACCEPT"
  <2>1. SessOK(p, h) /\ h.state = s.state /\ DOMAIN h = Fields
    <3>1. SessOK(p, h)
      BY <1>2, HashedOK
    <3>2. h.state = s.state /\ DOMAIN h = Fields
      BY <1>0 DEF Hashed, Fields
    <3> QED
      BY <3>1, <3>2
  <2>2. CASE m.op = "LOCKED"
    <3>1. r = Lock(h)
      BY <2>2 DEF Processed
    <3>2. SessOK(p, r)
      <4> HIDE DEF h, r
      <4> QED BY <2>1, <3>1, LockOK
    <3> QED
      BY <2>2, <3>2
  <2>3. CASE m.op \in {"KEM_INIT", "KEM_RESPONSE"}
    <3>1. \/ r = [h EXCEPT !.peer_public_key = m.body]
          \/ r = [h EXCEPT !.shared_secret = Decapsulate(h.secret_key, m.body)]
      BY <2>3 DEF Processed
    <3>2. s.state \in {Start, KemInitSent}
      BY <2>3, Order
    <3> HIDE DEF h, r
    <3>3. /\ DOMAIN r = Fields /\ r.role = h.role /\ r.state = h.state
          /\ r.transcript = h.transcript /\ r.session_id = h.session_id
      BY <2>1, <3>1 DEF Fields
    <3>4. Start \notin {Idle, Locked} /\ KemInitSent \notin {Idle, Locked}
      BY DEF Start, Idle, Locked, KemInitSent
    <3>5. SessOK(p, r)
      BY <1>0, <2>1, <3>2, <3>3, <3>4, MoveOK DEF SessOK
    <3>6. r.state = s.state
      BY <2>1, <3>3
    <3> QED
      BY <2>3, <3>5, <3>6 DEF r
  <2>4. CASE m.op \notin {"LOCKED", "KEM_INIT", "KEM_RESPONSE"}
    <3>1. r = h
      BY <1>2, <2>4 DEF Processed
    <3> HIDE DEF h
    <3> QED
      BY <1>2, <2>1, <3>1 DEF r
  <2> QED
    BY <2>2, <2>3, <2>4
<1> QED
  BY <1>1, <1>2

(* Where a reply is built: the receiver, the opcode and the state.         *)
Turn(p, op, q) ==
    \/ op = "HELLO" /\ p = Responder /\ q.state = Start
    \/ /\ op = "ACCEPT" /\ p = Initiator /\ q.state = Start
       /\ \E i \in 1 .. Len(q.transcript) : LastAccept(q.transcript, i)
    \/ op = "KEM_INIT" /\ p = Responder /\ q.state = Start
    \/ op = "KEM_RESPONSE" /\ p = Initiator /\ q.state = KemInitSent
    \/ op = "IDENTITY" /\ p = Responder /\ q.state = KemResponseSent

(* Building ACCEPT, KEM_INIT, KEM_RESPONSE or IDENTITY_PROOF keeps SessOK  *)
(* and does not lock.                                                      *)
LEMMA ReplyOK ==
    ASSUME NEW p \in Peers, NEW q, SessOK(p, q), NEW op, op # "IDENTITY", Turn(p, op, q),
           NEW rnd, NEW r, r = Reply(op, q, rnd)
    PROVE  SessOK(p, r.s) /\ r.s.state # Locked /\ r.op # "LOCKED"
<1>0. /\ DOMAIN q = Fields /\ q.state \in StatesOf(p) /\ IsSeq(q.transcript)
      /\ Fixes(q.transcript, q.session_id) /\ q.state # Idle
  BY DEF SessOK, Turn, Start, KemInitSent, KemResponseSent, Idle
<1>1. CASE op = "HELLO"
  <2> DEFINE u == [q EXCEPT !.session_id = rnd]
  <2> DEFINE s == Hashed(u, "ACCEPT", rnd)
  <2>1. r = [op |-> "ACCEPT", body |-> rnd, s |-> s]
    BY <1>1 DEF Reply, BuildAccept
  <2>2. /\ DOMAIN s = Fields /\ s.role = q.role /\ s.state = q.state
        /\ s.transcript = Append(q.transcript, Payload("ACCEPT", rnd))
        /\ s.session_id = rnd
    BY <1>0 DEF Hashed, Fields
  <2> HIDE DEF s
  <2>3. /\ IsSeq(s.transcript) /\ Fixes(s.transcript, s.session_id)
        /\ \E i \in 1 .. Len(s.transcript) : LastAccept(s.transcript, i)
    BY <1>0, <2>2, TranscriptAppend, AcceptPayload
  <2>4. q.state = Start /\ Start \notin {Idle, Locked}
    BY <1>1 DEF Turn, Start, Idle, Locked
  <2>5. SessOK(p, s)
    BY <2>2, <2>3, <2>4 DEF SessOK
  <2>6. r.s = s /\ r.op = "ACCEPT"
    BY <2>1
  <2> QED
    BY <2>2, <2>4, <2>5, <2>6
<1>2. CASE op = "ACCEPT"
  <2> DEFINE u == [q EXCEPT !.secret_key = rnd, !.state = KemInitSent]
  <2>1. r = [op |-> "KEM_INIT", body |-> rnd, s |-> Hashed(u, "KEM_INIT", rnd)]
    BY <1>2 DEF Reply, BuildKemInit
  <2>2. /\ DOMAIN u = Fields /\ u.role = q.role /\ u.state = KemInitSent
        /\ u.transcript = q.transcript /\ u.session_id = q.session_id
    BY <1>0 DEF Fields
  <2>3. /\ KemInitSent \in StatesOf(p) \ {Idle, Locked}
        /\ \E i \in 1 .. Len(q.transcript) : LastAccept(q.transcript, i)
    BY <1>2 DEF Turn, StatesOf, InitiatorStates, KemInitSent, Idle, Locked
  <2> HIDE DEF u
  <2>4. SessOK(p, u)
    BY <1>0, <2>2, <2>3, MoveOK
  <2>5. SessOK(p, Hashed(u, "KEM_INIT", rnd))
    BY <2>4, HashedOK
  <2>6. Hashed(u, "KEM_INIT", rnd).state = KemInitSent
    BY <2>2 DEF Hashed, Fields
  <2>7. r.s = Hashed(u, "KEM_INIT", rnd) /\ r.op = "KEM_INIT"
    BY <2>1
  <2> QED
    BY <2>3, <2>5, <2>6, <2>7
<1>3. CASE op = "KEM_INIT"
  <2> DEFINE ct == Encapsulate(q.peer_public_key, rnd)
  <2> DEFINE u == [q EXCEPT !.session_key = <<ct, q.transcript>>, !.shared_secret = ct,
                            !.state = KemResponseSent]
  <2>1. r = [op |-> "KEM_RESPONSE", body |-> ct, s |-> Hashed(u, "KEM_RESPONSE", ct)]
    BY <1>3 DEF Reply, BuildKemResponse
  <2> HIDE DEF ct
  <2>2. /\ DOMAIN u = Fields /\ u.role = q.role /\ u.state = KemResponseSent
        /\ u.transcript = q.transcript /\ u.session_id = q.session_id
    BY <1>0 DEF Fields
  <2>3. KemResponseSent \in StatesOf(p) \ {Idle, Locked, KemInitSent, IdentitySent}
    BY <1>3 DEF Turn, StatesOf, ResponderStates, KemResponseSent, KemInitSent, IdentitySent,
                Idle, Locked, Initiator, Responder
  <2> HIDE DEF u
  <2>4. SessOK(p, u)
    BY <1>0, <2>2, <2>3, MoveOK
  <2>5. SessOK(p, Hashed(u, "KEM_RESPONSE", ct))
    BY <2>4, HashedOK
  <2>6. Hashed(u, "KEM_RESPONSE", ct).state = KemResponseSent
    BY <2>2 DEF Hashed, Fields
  <2>7. r.s = Hashed(u, "KEM_RESPONSE", ct) /\ r.op = "KEM_RESPONSE"
    BY <2>1
  <2> QED
    BY <2>3, <2>5, <2>6, <2>7
<1>4. CASE op = "KEM_RESPONSE"
  <2> DEFINE pf == Proof("id", q)
  <2> DEFINE u == [q EXCEPT !.state = IdentitySent]
  <2>1. r = [op |-> "IDENTITY", body |-> pf, s |-> Hashed(u, "IDENTITY", pf)]
    BY <1>4 DEF Reply, BuildIdentity
  <2> HIDE DEF pf
  <2>2. /\ DOMAIN u = Fields /\ u.role = q.role /\ u.state = IdentitySent
        /\ u.transcript = q.transcript /\ u.session_id = q.session_id
    BY <1>0 DEF Fields
  <2>3. IdentitySent \in StatesOf(p) \ {Idle, Locked}
    BY <1>4 DEF Turn, StatesOf, InitiatorStates, IdentitySent, Idle, Locked
  <2>4. \E i \in 1 .. Len(q.transcript) : LastAccept(q.transcript, i)
    BY <1>4 DEF Turn, SessOK
  <2> HIDE DEF u
  <2>5. SessOK(p, u)
    BY <1>0, <2>2, <2>3, <2>4, MoveOK
  <2>6. SessOK(p, Hashed(u, "IDENTITY", pf))
    BY <2>5, HashedOK
  <2>7. Hashed(u, "IDENTITY", pf).state = IdentitySent
    BY <2>2 DEF Hashed, Fields
  <2>8. r.s = Hashed(u, "IDENTITY", pf) /\ r.op = "IDENTITY"
    BY <2>1
  <2> QED
    BY <2>3, <2>6, <2>7, <2>8
<1> QED
  BY <1>1, <1>2, <1>3, <1>4 DEF Turn

(* Building SESSION_LOCKED locks the responder with the key that the       *)
(* initiator derives from that message.                                    *)
LEMMA ReplyLocked ==
    ASSUME NEW p \in Peers, NEW q, SessOK(p, q), Turn(p, "IDENTITY", q),
           NEW rnd, NEW r, r = Reply("IDENTITY", q, rnd)
    PROVE  /\ SessOK(p, r.s) /\ r.s.state = Locked /\ r.op = "LOCKED"
           /\ r.s.session_key = <<r.body[2], Append(r.body[3], Payload("LOCKED", r.body))>>
           /\ Fixes(r.s.session_key[2], r.s.session_id)
<1> DEFINE pf == Proof("lock", q)
<1> DEFINE h == Hashed(q, "LOCKED", pf)
<1>0. DOMAIN q = Fields /\ q.state # Idle
  BY DEF SessOK, Turn, KemResponseSent, Idle
<1>1. r = [op |-> "LOCKED", body |-> pf, s |-> Lock(h)]
  BY DEF Reply, BuildLocked
<1>2. pf[2] = q.shared_secret /\ pf[3] = q.transcript
  BY DEF Proof
<1> HIDE DEF pf
<1>3. /\ h.transcript = Append(q.transcript, Payload("LOCKED", pf))
      /\ h.shared_secret = q.shared_secret /\ h.session_id = q.session_id
      /\ h.state = q.state /\ DOMAIN h = Fields
  BY <1>0 DEF Hashed, Fields
<1>4. SessOK(p, h)
  BY HashedOK
<1> HIDE DEF h
<1>5. SessOK(p, Lock(h))
  BY <1>0, <1>3, <1>4, LockOK
<1>6. /\ Lock(h).state = Locked /\ Lock(h).session_id = h.session_id
      /\ Lock(h).session_key = <<h.shared_secret, h.transcript>>
  BY <1>3 DEF Lock, Fields
<1>7. Fixes(h.transcript, h.session_id)
  BY <1>4 DEF SessOK
<1>8. r.s = Lock(h) /\ r.op = "LOCKED" /\ r.body = pf
  BY <1>1
<1>9. r.s.session_key = <<pf[2], Append(pf[3], Payload("LOCKED", pf))>>
  BY <1>2, <1>3, <1>6, <1>8
<1>10. Fixes(r.s.session_key[2], r.s.session_id)
  <2>1. r.s.session_key[2] = h.transcript
    BY <1>6, <1>8
  <2> QED
    BY <1>6, <1>7, <1>8, <2>1
<1> QED
  BY <1>5, <1>6, <1>8, <1>9, <1>10

-----------------------------------------------------------------------------
(* The initial sessions: HELLO hashed by the initiator, nothing by the     *)
(* responder.                                                              *)
LEMMA FreshSession ==
    ASSUME NEW s, NEW sid
    PROVE  SessOK(Initiator, InitInitiator(s, sid)) /\ SessOK(Responder, InitResponder(s))
<1> DEFINE a == InitInitiator(s, sid)
<1> DEFINE b == InitResponder(s)
<1> DEFINE hello == Payload("HELLO", None)
<1>1. /\ DOMAIN a = Fields /\ a.role = Initiator /\ a.state = Start /\ a.transcript = <<hello>>
      /\ DOMAIN b = Fields /\ b.role = Responder /\ b.state = Start /\ b.transcript = <<>>
  BY DEF InitInitiator, InitResponder, Reset, Fields
<1>2. IsSeq(<<>>) /\ Len(<<>>) = 0
  BY EmptySeq DEF IsSeq
<1>3. <<hello>> = Append(<<>>, hello)
  OBVIOUS
<1>4. Fixes(<<>>, b.session_id) /\ Fixes(<<>>, a.session_id)
  BY <1>2 DEF Fixes
<1>5. IsSeq(<<hello>>) /\ Fixes(<<hello>>, a.session_id)
  BY <1>2, <1>3, <1>4, FixesKept, Zenon
<1>6. /\ Start \in InitiatorStates /\ Start \in ResponderStates
      /\ Start \notin {Idle, Locked, KemInitSent, IdentitySent}
  BY DEF InitiatorStates, ResponderStates, Start, Idle, Locked, KemInitSent, IdentitySent
<1>7. Initiator # Responder
  BY DEF Initiator, Responder
<1> HIDE DEF a, b, hello
<1>8. SessOK(Initiator, a)
  BY <1>1, <1>5, <1>6 DEF SessOK, StatesOf
<1>9. SessOK(Responder, b)
  BY <1>1, <1>2, <1>4, <1>6, <1>7 DEF SessOK, StatesOf
<1> QED
  BY <1>8, <1>9 DEF a, b

(* The inductive invariant holds when the handshake starts.                *)
LEMMA InitHandshakeInv == Init => HandshakeInv
<1> SUFFICES ASSUME Init PROVE HandshakeInv
  OBVIOUS
<1> DEFINE blank == [session_id |-> 0]
<1>1. /\ DOMAIN sess = Peers
      /\ sess[Initiator] = InitInitiator(blank, 1) /\ sess[Responder] = InitResponder(blank)
  BY DEF Init, Peers, Initiator, Responder
<1>2. DOMAIN locked = Peers /\ locked[Initiator] = {} /\ locked[Responder] = {}
  BY DEF Init, Peers
<1> HIDE DEF blank
<1>3. \A p \in Peers : SessOK(p, sess[p])
  BY <1>1, FreshSession DEF Peers
<1>4. \A m \in net : m.to = Responder /\ m.op = "HELLO"
  BY DEF Init, Datagram
<1>5. \A m \in net : LockMessageOK(m)
  BY <1>4 DEF LockMessageOK, Peers
<1> QED
  BY <1>1, <1>2, <1>3, <1>5 DEF HandshakeInv, KeyAgreement

(* A step that locks nothing keeps the invariant: one session moves to     *)
(* another good one, and what is new in the network is no SESSION_LOCKED.  *)
LEMMA QuietStep ==
    ASSUME HandshakeInv, NEW p \in Peers, NEW s, SessOK(p, s),
           sess' = [sess EXCEPT ![p] = s], locked' = locked,
           \A m \in net' : m \in net \/ (m.to \in Peers /\ m.op # "LOCKED")
    PROVE  HandshakeInv'
<1>1. DOMAIN sess' = Peers /\ DOMAIN locked' = Peers
  BY DEF HandshakeInv
<1>2. \A q \in Peers : SessOK(q, sess'[q])
  BY DEF HandshakeInv
<1>3. ASSUME NEW m \in net'
      PROVE  LockMessageOK(m)'
  <2>1. CASE m \in net
    <3>1. LockMessageOK(m)
      BY <2>1 DEF HandshakeInv
    <3> QED
      BY <3>1 DEF LockMessageOK
  <2>2. CASE m.to \in Peers /\ m.op # "LOCKED"
    BY <2>2 DEF LockMessageOK
  <2> QED
    BY <1>3, <2>1, <2>2
<1>4. \A e \in locked'[Responder] : Fixes(e.key[2], e.sid)
  BY DEF HandshakeInv
<1>5. KeyAgreement'
  BY DEF HandshakeInv, KeyAgreement
<1> QED
  BY <1>1, <1>2, <1>3, <1>4, <1>5 DEF HandshakeInv

(* The session that a datagram is admitted to.                             *)
LEMMA AdmittedOK ==
    ASSUME HandshakeInv, NEW m \in net, Admitted(m)
    PROVE  /\ m.to \in Peers
           /\ SessOK(m.to, Seen(m))
           /\ Seen(m).state # Idle
<1>1. m.to \in Peers
  BY DEF HandshakeInv, LockMessageOK
<1>2. SessOK(m.to, sess[m.to])
  BY <1>1 DEF HandshakeInv
<1>3. SessOK(m.to, Seen(m)) /\ Seen(m).state = sess[m.to].state
  BY <1>1, <1>2, SeenOK
<1>4. sess[m.to].state # Idle
  BY <1>1, <1>2 DEF Admitted, SessionCheck, SessOK, Peers, Initiator, Responder, Idle, Locked
<1> QED
  BY <1>1, <1>3, <1>4

(* What remains in the network is from the network.                        *)
LEMMA LeftInNet ==
    ASSUME NEW m, NEW rest \in Left(m)
    PROVE  rest \subseteq net
  BY DEF Left

(* The initiator completes with a key and an id that the responder has     *)
(* locked with: the transcripts that the proof binds fix the session id.   *)
LEMMA CompleteAgrees ==
    ASSUME HandshakeInv, NEW m \in net, m.op = "LOCKED",
           NEW s, SessOK(Initiator, s), s.state = IdentitySent, m.body = Proof("lock", s)
    PROVE  [key |-> Processed(s, m).session_key, sid |-> Processed(s, m).session_id]
              \in locked[Responder]
<1> DEFINE h == Hashed(s, m.op, m.body)
<1> DEFINE T == Append(s.transcript, Payload("LOCKED", m.body))
<1>1. DOMAIN s = Fields /\ IsSeq(s.transcript) /\ Fixes(s.transcript, s.session_id)
  BY DEF SessOK
<1>2. /\ DOMAIN h = Fields /\ h.transcript = T /\ h.shared_secret = s.shared_secret
      /\ h.session_id = s.session_id
  BY <1>1 DEF Hashed, Fields
<1>3. Processed(s, m) = Lock(h)
  BY DEF Processed
<1>4. m.body[2] = s.shared_secret /\ m.body[3] = s.transcript
  BY DEF Proof
<1>5. KeyOf(m) = <<s.shared_secret, T>>
  BY <1>4 DEF KeyOf
<1> HIDE DEF h
<1>6. Lock(h).session_key = KeyOf(m) /\ Lock(h).session_id = s.session_id
  BY <1>2, <1>5 DEF Lock, Fields
<1>7. PICK e \in locked[Responder] : e.key = KeyOf(m) /\ e = [key |-> e.key, sid |-> e.sid]
  BY DEF HandshakeInv, LockMessageOK
<1>8. Fixes(T, e.sid)
  <2>1. e.key[2] = T
    BY <1>5, <1>7
  <2>2. Fixes(e.key[2], e.sid)
    BY <1>7 DEF HandshakeInv
  <2> QED
    BY <2>1, <2>2
<1>9. e.sid = s.session_id
  <2>1. IdentitySent \in {KemInitSent, IdentitySent}
    OBVIOUS
  <2>2. \E i \in 1 .. Len(s.transcript) : LastAccept(s.transcript, i)
    BY <2>1, SMTT(30) DEF SessOK
  <2>3. (\E i \in 1 .. Len(T) : LastAccept(T, i)) /\ Fixes(T, s.session_id)
    BY <1>1, <2>2, FixesKept
  <2> HIDE DEF T
  <2> QED
    BY <1>8, <2>3 DEF Fixes
<1> QED
  BY <1>3, <1>6, <1>7, <1>9

(* The initiator takes SESSION_LOCKED.                                     *)
LEMMA CompleteInv ==
    ASSUME HandshakeInv, NEW m \in net, Complete(m)
    PROVE  HandshakeInv'
<1> DEFINE q == Seen(m)
<1> DEFINE s == Processed(q, m)
<1> DEFINE e == [key |-> s.session_key, sid |-> s.session_id]
<1>1. /\ m.to \in Peers /\ SessOK(m.to, q) /\ q.state # Idle
      /\ Acceptable(q, m) /\ m.op \notin Answers(m.to)
  BY AdmittedOK DEF Complete
<1>2. /\ sess' = [sess EXCEPT ![m.to] = s] /\ locked' = Record(m.to, s)
      /\ \A n \in net' : n \in net
  BY DEF Complete, Left
<1> HIDE DEF q
<1>3. /\ m.to = Initiator /\ m.op = "LOCKED" /\ q.state = IdentitySent
      /\ m.body = Proof("lock", q)
  BY <1>1, Order DEF Answers, Initiator, Responder
<1>4. SessOK(Initiator, s)
  BY <1>1, <1>3, ProcessedOK
<1>5. e \in locked[Responder]
  BY <1>1, <1>3, CompleteAgrees
<1> HIDE DEF s
<1>6. /\ DOMAIN locked' = Peers /\ locked'[Responder] = locked[Responder]
      /\ locked'[Initiator] \subseteq locked[Initiator] \cup {e}
  BY <1>2, <1>3 DEF Record, HandshakeInv, Peers, Initiator, Responder
<1> HIDE DEF e
<1>7. DOMAIN sess' = Peers /\ \A p \in Peers : SessOK(p, sess'[p])
  BY <1>2, <1>3, <1>4 DEF HandshakeInv
<1>8. ASSUME NEW n \in net'
      PROVE  LockMessageOK(n)'
  <2>1. LockMessageOK(n)
    BY <1>2, <1>8 DEF HandshakeInv
  <2> QED
    BY <1>6, <2>1 DEF LockMessageOK
<1>9. \A f \in locked'[Responder] : Fixes(f.key[2], f.sid)
  BY <1>6 DEF HandshakeInv
<1>10. KeyAgreement'
  BY <1>5, <1>6 DEF HandshakeInv, KeyAgreement
<1> QED
  BY <1>6, <1>7, <1>8, <1>9, <1>10 DEF HandshakeInv

(* A message is answered.                                                  *)
LEMMA RespondInv ==
    ASSUME HandshakeInv, NEW m \in net, Respond(m)
    PROVE  HandshakeInv'
<1> DEFINE q == Seen(m)
<1> DEFINE u == Processed(q, m)
<1> DEFINE r == Reply(m.op, u, fresh)
<1> DEFINE d == Datagram(Other(m.to), r.op, seq_counter[m.to], r.body)
<1>1. /\ m.to \in Peers /\ SessOK(m.to, q) /\ q.state # Idle
      /\ Acceptable(q, m) /\ m.op \in Answers(m.to)
  BY AdmittedOK DEF Respond
<1>2. /\ sess' = [sess EXCEPT ![m.to] = r.s] /\ locked' = Record(m.to, r.s)
      /\ \A n \in net' : n \in net \/ n = d
  BY SMTT(30) DEF Respond, Left
<1>3. d.to \in Peers /\ d.op = r.op /\ d.body = r.body
  BY DEF Datagram, Other, Peers
<1> HIDE DEF q
<1>4. SessOK(m.to, u) /\ Turn(m.to, m.op, u)
  <2>1. SessOK(m.to, u)
    BY <1>1, ProcessedOK
  <2>2. m.op # "LOCKED"
    BY <1>1 DEF Answers
  <2>3. /\ u.state = q.state
        /\ m.op = "ACCEPT" => \E i \in 1 .. Len(u.transcript) : LastAccept(u.transcript, i)
    BY <1>1, <2>2, ProcessedOK
  <2> HIDE DEF u
  <2>4. Turn(m.to, m.op, u)
    BY <1>1, <2>2, <2>3, Order DEF Turn
  <2> QED
    BY <2>1, <2>4
<1> HIDE DEF u, d
<1>5. CASE m.op # "IDENTITY"
  <2>1. SessOK(m.to, r.s) /\ r.s.state # Locked /\ r.op # "LOCKED"
    BY <1>1, <1>4, <1>5, ReplyOK
  <2> HIDE DEF r
  <2>2. locked' = locked
    BY <1>2, <2>1 DEF Record
  <2>3. \A n \in net' : n \in net \/ (n.to \in Peers /\ n.op # "LOCKED")
    BY <1>2, <1>3, <2>1
  <2> QED
    BY <1>1, <1>2, <2>1, <2>2, <2>3, QuietStep, Zenon
<1>6. CASE m.op = "IDENTITY"
  <2> DEFINE e == [key |-> r.s.session_key, sid |-> r.s.session_id]
  <2>1. m.to = Responder
    BY <1>4, <1>6 DEF Turn
  <2>2. SessOK(m.to, r.s) /\ r.s.state = Locked /\ r.op = "LOCKED"
    BY <1>1, <1>4, <1>6, ReplyLocked
  <2>3. /\ r.s.session_key = <<r.body[2], Append(r.body[3], Payload("LOCKED", r.body))>>
        /\ Fixes(r.s.session_key[2], r.s.session_id)
    BY <1>1, <1>4, <1>6, ReplyLocked
  <2> HIDE DEF r
  <2>4. r.s.session_key = KeyOf(d)
    BY <1>3, <2>3 DEF KeyOf
  <2>5. e.key = KeyOf(d) /\ e = [key |-> e.key, sid |-> e.sid] /\ Fixes(e.key[2], e.sid)
    BY <2>3, <2>4, Zenon
  <2>6. /\ DOMAIN locked' = Peers /\ locked'[Initiator] = locked[Initiator]
        /\ locked'[Responder] = locked[Responder] \cup {e}
    BY <1>2, <2>1, <2>2 DEF Record, HandshakeInv, Peers, Initiator, Responder
  <2> HIDE DEF e
  <2>7. DOMAIN sess' = Peers /\ \A p \in Peers : SessOK(p, sess'[p])
    BY <1>1, <1>2, <2>2 DEF HandshakeInv
  <2>8. ASSUME NEW n \in net'
        PROVE  LockMessageOK(n)'
    <3>1. CASE n \in net
      <4>1. LockMessageOK(n)
        BY <3>1 DEF HandshakeInv
      <4> QED
        BY <2>6, <4>1 DEF LockMessageOK
    <3>2. CASE n = d
      BY <1>3, <2>5, <2>6, <3>2 DEF LockMessageOK
    <3> QED
      BY <1>2, <2>8, <3>1, <3>2
  <2>9. \A f \in locked'[Responder] : Fixes(f.key[2], f.sid)
    BY <2>5, <2>6 DEF HandshakeInv
  <2>10. KeyAgreement'
    BY <2>6 DEF HandshakeInv, KeyAgreement
  <2> QED
    BY <2>6, <2>7, <2>8, <2>9, <2>10 DEF HandshakeInv
<1> QED
  BY <1>5, <1>6

(* Every step keeps the inductive invariant.                               *)
LEMMA NextHandshakeInv == HandshakeInv /\ [Next]_vars => HandshakeInv'
<1> SUFFICES ASSUME HandshakeInv, [Next]_vars PROVE HandshakeInv'
  OBVIOUS
<1>0. DOMAIN sess = Peers /\ (\A p \in Peers : SessOK(p, sess[p])) /\ Initiator \in Peers
  BY DEF HandshakeInv, Peers
<1>1. ASSUME sess' = sess, locked' = locked, net' \subseteq net
      PROVE  HandshakeInv'
  <2>1. \A m \in net' : LockMessageOK(m)'
    <3> TAKE m \in net'
    <3>1. LockMessageOK(m)
      BY <1>1 DEF HandshakeInv
    <3> QED
      BY <1>1, <3>1 DEF LockMessageOK
  <2> QED
    BY <1>1, <2>1 DEF HandshakeInv, KeyAgreement
<1>2. ASSUME NEW m \in net, Drop(m) \/ Lose(m)
      PROVE  HandshakeInv'
  BY <1>1, <1>2 DEF Drop, Lose, Left
<1>3. ASSUME NEW m \in net, Fail(m)
      PROVE  HandshakeInv'
  <2>1. m.to \in Peers
    BY <1>3, AdmittedOK DEF Fail
  <2>2. SessOK(m.to, Reset(sess[m.to]))
    BY <2>1, ResetOK
  <2>3. sess' = [sess EXCEPT ![m.to] = Reset(sess[m.to])] /\ locked' = locked
    BY <1>3 DEF Fail
  <2>4. \A n \in net' : n \in net
    BY <1>3 DEF Fail, Left
  <2> QED
    BY <2>1, <2>2, <2>3, <2>4, QuietStep, Zenon
<1>4. ASSUME NEW m \in net, Complete(m)
      PROVE  HandshakeInv'
  BY <1>4, CompleteInv
<1>5. ASSUME NEW m \in net, Respond(m)
      PROVE  HandshakeInv'
  BY <1>5, RespondInv
<1>6. ASSUME NEW m \in net, NoBuffer(m)
      PROVE  HandshakeInv'
  <2>1. m.to \in Peers /\ SessOK(m.to, Seen(m)) /\ Seen(m).state # Idle /\ Acceptable(Seen(m), m)
    BY <1>6, AdmittedOK DEF NoBuffer
  <2>2. SessOK(m.to, Processed(Seen(m), m))
    BY <2>1, ProcessedOK
  <2>3. sess' = [sess EXCEPT ![m.to] = Processed(Seen(m), m)] /\ locked' = locked
    BY <1>6 DEF NoBuffer
  <2>4. \A n \in net' : n \in net
    BY <1>6 DEF NoBuffer, Left
  <2> QED
    BY <2>1, <2>2, <2>3, <2>4, QuietStep, Zenon
<1>7. ASSUME Reconnect
      PROVE  HandshakeInv'
  <2>1. SessOK(Initiator, InitInitiator(sess[Initiator], fresh))
    BY FreshSession
  <2>2. /\ sess' = [sess EXCEPT ![Initiator] = InitInitiator(sess[Initiator], fresh)]
        /\ locked' = locked
    BY <1>7 DEF Reconnect
  <2>3. \A n \in net' : n \in net \/ (n.to \in Peers /\ n.op # "LOCKED")
    BY <1>7 DEF Reconnect, Datagram, Peers
  <2> QED
    BY <1>0, <2>1, <2>2, <2>3, QuietStep, Zenon
<1>8. CASE UNCHANGED vars
  BY <1>1, <1>8 DEF vars
<1> QED
  BY <1>2, <1>3, <1>4, <1>5, <1>6, <1>7, <1>8 DEF Next, Receive

(* The inductive invariant holds in every reachable state.                 *)
THEOREM HandshakeInvariant == Spec => []HandshakeInv
  BY InitHandshakeInv, NextHandshakeInv, PTL DEF Spec

(* The initiator only locks with a key and a session id with which the     *)
(* responder has locked (handshake_process_message, CTRL_SESSION_LOCKED),  *)
(* for any loss, duplication, reordering, restart and failed allocation.   *)
THEOREM KeysAgree == Spec => []KeyAgreement
<1>1. HandshakeInv => KeyAgreement
  BY DEF HandshakeInv
<1> QED
  BY <1>1, HandshakeInvariant, PTL

(* No path through the handshake leaves a KEM secret in a locked or reset  *)
(* session, or a session key in a reset one.                               *)
THEOREM SecretsAreWiped == Spec => []SecretsWiped
<1>1. HandshakeInv => SecretsWiped
  BY DEF HandshakeInv, SessOK, SecretsWiped
<1> QED
  BY <1>1, HandshakeInvariant, PTL

-----------------------------------------------------------------------------
(* What a step of the handshake does to the other fields of a session.     *)

(* seq_check records the number of the packet.                             *)
LEMMA SeenFields ==
    ASSUME NEW m, DOMAIN sess[m.to] = Fields
    PROVE  /\ DOMAIN Seen(m) = Fields
           /\ Seen(m).state = sess[m.to].state /\ Seen(m).session_id = sess[m.to].session_id
           /\ m.to \in Checked => Seen(m).seen = sess[m.to].seen \cup {m.seq}
           /\ m.to \notin Checked => Seen(m).seen = sess[m.to].seen
  BY DEF Seen, Fields

(* Of handshake_process_message, only ACCEPT changes the session id.       *)
LEMMA ProcessedFields ==
    ASSUME NEW s, DOMAIN s = Fields, NEW m
    PROVE  /\ DOMAIN Processed(s, m) = Fields
           /\ Processed(s, m).seen = s.seen
           /\ m.op = "LOCKED" => Processed(s, m).state = Locked
           /\ m.op # "LOCKED" => Processed(s, m).state = s.state
           /\ m.op = "ACCEPT" => Processed(s, m).session_id = m.body
           /\ m.op # "ACCEPT" => Processed(s, m).session_id = s.session_id
<1> DEFINE h == Hashed(s, m.op, m.body)
           r == Processed(s, m)
<1>1. /\ DOMAIN h = Fields /\ h.seen = s.seen /\ h.session_id = s.session_id /\ h.state = s.state
  BY DEF Hashed, Fields
<1>2. CASE m.op = "ACCEPT"
  <2>1. r = [h EXCEPT !.session_id = m.body]
    BY <1>2 DEF Processed
  <2> HIDE DEF h, r
  <2>2. /\ DOMAIN r = Fields /\ r.seen = s.seen /\ r.session_id = m.body /\ r.state = s.state
    BY <1>1, <2>1 DEF Fields
  <2> QED
    BY <1>2, <2>2 DEF r
<1>3. CASE m.op = "LOCKED"
  <2>1. r = Lock(h)
    BY <1>3 DEF Processed
  <2> HIDE DEF h, r
  <2>2. /\ DOMAIN r = Fields /\ r.seen = s.seen /\ r.session_id = s.session_id /\ r.state = Locked
    BY <1>1, <2>1 DEF Fields, Lock
  <2> QED
    BY <1>3, <2>2 DEF r
<1>4. CASE m.op \notin {"ACCEPT", "LOCKED"}
  <2>1. \/ r = h
        \/ r = [h EXCEPT !.peer_public_key = m.body]
        \/ r = [h EXCEPT !.shared_secret = Decapsulate(h.secret_key, m.body)]
    BY <1>4 DEF Processed
  <2> HIDE DEF h, r
  <2>2. /\ DOMAIN r = Fields /\ r.seen = s.seen /\ r.session_id = s.session_id /\ r.state = s.state
    BY <1>1, <2>1 DEF Fields
  <2> QED
    BY <1>4, <2>2 DEF r
<1> QED
  BY <1>2, <1>3, <1>4

\* The answer r to the opcode op, from a session q.
AnswerTo(op, q, rnd, r) ==
    \/ op = "HELLO" /\ r.op = "ACCEPT" /\ r.body = rnd /\ r.s.session_id = rnd /\ r.s.state = q.state
    \/ op = "ACCEPT" /\ r.op = "KEM_INIT" /\ r.s.session_id = q.session_id /\ r.s.state = KemInitSent
    \/ op = "KEM_INIT" /\ r.op = "KEM_RESPONSE" /\ r.s.session_id = q.session_id /\ r.s.state = KemResponseSent
    \/ op = "KEM_RESPONSE" /\ r.op = "IDENTITY" /\ r.s.session_id = q.session_id /\ r.s.state = IdentitySent
    \/ op = "IDENTITY" /\ r.op = "LOCKED" /\ r.s.session_id = q.session_id /\ r.s.state = Locked

(* The order of the messages: which handshake_build_ function answers an   *)
(* opcode, and the state that it leaves.  None of them touches the window. *)
LEMMA ReplyFields ==
    ASSUME NEW q, DOMAIN q = Fields, NEW rnd,
           NEW op \in {"HELLO", "ACCEPT", "KEM_INIT", "KEM_RESPONSE", "IDENTITY"},
           NEW r, r = Reply(op, q, rnd)
    PROVE  DOMAIN r.s = Fields /\ r.s.seen = q.seen /\ AnswerTo(op, q, rnd, r)
<1>1. CASE op = "HELLO"
  <2> DEFINE s == Hashed([q EXCEPT !.session_id = rnd], "ACCEPT", rnd)
  <2>1. r = [op |-> "ACCEPT", body |-> rnd, s |-> s]
    BY <1>1 DEF Reply, BuildAccept
  <2>2. DOMAIN s = Fields /\ s.seen = q.seen /\ s.session_id = rnd /\ s.state = q.state
    BY DEF Hashed, Fields
  <2> HIDE DEF s
  <2>3. r.s = s /\ r.op = "ACCEPT" /\ r.body = rnd
    BY <2>1
  <2> QED
    BY <1>1, <2>2, <2>3 DEF AnswerTo
<1>2. CASE op = "ACCEPT"
  <2> DEFINE s == Hashed([q EXCEPT !.secret_key = rnd, !.state = KemInitSent], "KEM_INIT", rnd)
  <2>1. r = [op |-> "KEM_INIT", body |-> rnd, s |-> s]
    BY <1>2 DEF Reply, BuildKemInit
  <2>2. DOMAIN s = Fields /\ s.seen = q.seen /\ s.session_id = q.session_id /\ s.state = KemInitSent
    BY DEF Hashed, Fields
  <2> HIDE DEF s
  <2>3. r.s = s /\ r.op = "KEM_INIT"
    BY <2>1
  <2> QED
    BY <1>2, <2>2, <2>3 DEF AnswerTo
<1>3. CASE op = "KEM_INIT"
  <2> DEFINE ct == Encapsulate(q.peer_public_key, rnd)
  <2> DEFINE s == Hashed([q EXCEPT !.session_key = <<ct, q.transcript>>, !.shared_secret = ct,
                                   !.state = KemResponseSent], "KEM_RESPONSE", ct)
  <2>1. r = [op |-> "KEM_RESPONSE", body |-> ct, s |-> s]
    BY <1>3 DEF Reply, BuildKemResponse
  <2> HIDE DEF ct
  <2>2. DOMAIN s = Fields /\ s.seen = q.seen /\ s.session_id = q.session_id /\ s.state = KemResponseSent
    BY DEF Hashed, Fields
  <2> HIDE DEF s
  <2>3. r.s = s /\ r.op = "KEM_RESPONSE"
    BY <2>1
  <2> QED
    BY <1>3, <2>2, <2>3 DEF AnswerTo
<1>4. CASE op = "KEM_RESPONSE"
  <2> DEFINE pf == Proof("id", q)
  <2> DEFINE s == Hashed([q EXCEPT !.state = IdentitySent], "IDENTITY", pf)
  <2>1. r = [op |-> "IDENTITY", body |-> pf, s |-> s]
    BY <1>4 DEF Reply, BuildIdentity
  <2> HIDE DEF pf
  <2>2. DOMAIN s = Fields /\ s.seen = q.seen /\ s.session_id = q.session_id /\ s.state = IdentitySent
    BY DEF Hashed, Fields
  <2> HIDE DEF s
  <2>3. r.s = s /\ r.op = "IDENTITY"
    BY <2>1
  <2> QED
    BY <1>4, <2>2, <2>3 DEF AnswerTo
<1>5. CASE op = "IDENTITY"
  <2> DEFINE pf == Proof("lock", q)
  <2> DEFINE h == Hashed(q, "LOCKED", pf)
  <2>1. r = [op |-> "LOCKED", body |-> pf, s |-> Lock(h)]
    BY <1>5 DEF Reply, BuildLocked
  <2> HIDE DEF pf
  <2>2. DOMAIN h = Fields /\ h.seen = q.seen /\ h.session_id = q.session_id
    BY DEF Hashed, Fields
  <2> HIDE DEF h
  <2>3. DOMAIN Lock(h) = Fields /\ Lock(h).seen = q.seen /\ Lock(h).session_id = q.session_id
        /\ Lock(h).state = Locked
    BY <2>2 DEF Lock, Fields
  <2>4. r.s = Lock(h) /\ r.op = "LOCKED"
    BY <2>1
  <2> QED
    BY <1>5, <2>3, <2>4 DEF AnswerTo
<1> QED
  BY <1>1, <1>2, <1>3, <1>4, <1>5

-----------------------------------------------------------------------------
(* Ranges.                                                                 *)

GoodFields(s) == s.session_id \in 0 .. MaxFresh /\ s.seen \subseteq 1 .. MaxSeq

GoodDatagram(n) ==
    /\ n.to \in Peers /\ n.op \in Opcodes /\ n.seq \in 0 .. MaxSeq
    /\ n.op = "ACCEPT" => n.body \in 0 .. MaxFresh

(* The session of one peer changes; counters and datagrams stay in range.  *)
LEMMA RangeStep ==
    ASSUME RangeInv, HandshakeInv, NEW p \in Peers, NEW s, GoodFields(s), sess' = [sess EXCEPT ![p] = s],
           seq_counter' \in [Peers -> 1 .. MaxSeq + 1], \A n \in net' : n \in net \/ GoodDatagram(n),
           fresh' \in 1 .. MaxFresh + 1, restarts' \in 0 .. MaxRestarts,
           pool_fails' \in 0 .. MaxPoolFails, lost' \in BOOLEAN
    PROVE  RangeInv'
<1>1. \A q \in Peers : sess'[q] = IF q = p THEN s ELSE sess[q]
  BY DEF HandshakeInv
<1>2. \A q \in Peers : GoodFields(sess'[q])
  BY <1>1 DEF RangeInv, GoodFields
<1>3. \A n \in net' : GoodDatagram(n)
  BY DEF RangeInv, GoodDatagram
<1> QED
  BY <1>2, <1>3 DEF RangeInv, GoodFields, GoodDatagram

(* The session that takes a datagram: seq_check has recorded its number,   *)
(* which is not 0, and an ACCEPT has brought its id.                       *)
LEMMA TakenFields ==
    ASSUME RangeInv, HandshakeInv, NEW m \in net, Admitted(m)
    PROVE  /\ m.to \in Peers /\ DOMAIN Seen(m) = Fields /\ GoodFields(Seen(m))
           /\ DOMAIN Processed(Seen(m), m) = Fields /\ GoodFields(Processed(Seen(m), m))
<1> DEFINE q == Seen(m)
<1>1. m.to \in Peers /\ m.seq \in 1 .. MaxSeq /\ (m.op = "ACCEPT" => m.body \in 0 .. MaxFresh)
  BY BoundsAssumption DEF RangeInv, Admitted
<1>2. DOMAIN sess[m.to] = Fields
  BY <1>1 DEF HandshakeInv, SessOK
<1>3. DOMAIN q = Fields /\ GoodFields(q)
  BY <1>1, <1>2, SeenFields DEF GoodFields, RangeInv
<1> HIDE DEF q
<1>4. DOMAIN Processed(q, m) = Fields /\ GoodFields(Processed(q, m))
  BY <1>1, <1>3, ProcessedFields, Zenon DEF GoodFields
<1> QED
  BY <1>1, <1>3, <1>4 DEF q

(* The ranges hold when the handshake starts.                              *)
LEMMA InitRangeInv == Init => RangeInv
<1> SUFFICES ASSUME Init PROVE RangeInv
  OBVIOUS
<1> DEFINE blank == [session_id |-> 0]
<1>0. /\ MaxFresh \in Nat /\ MaxSeq \in Nat /\ MaxRestarts \in Nat /\ MaxPoolFails \in Nat
      /\ MaxFresh > 0 /\ MaxSeq > 0
  BY BoundsAssumption
<1>1. /\ sess[Initiator] = InitInitiator(blank, 1) /\ sess[Responder] = InitResponder(blank)
  BY DEF Init, Peers, Initiator, Responder
<1>2. /\ InitInitiator(blank, 1).session_id = 1 /\ InitInitiator(blank, 1).seen = {}
      /\ InitResponder(blank).session_id = 0 /\ InitResponder(blank).seen = {}
  BY DEF InitInitiator, InitResponder, Reset
<1> HIDE DEF blank
<1>3. \A p \in Peers : sess[p].session_id \in 0 .. MaxFresh /\ sess[p].seen \subseteq 1 .. MaxSeq
  BY <1>0, <1>1, <1>2 DEF Peers
<1>4. seq_counter \in [Peers -> 1 .. MaxSeq + 1]
  BY <1>0 DEF Init
<1>5. \A m \in net : m.to = Responder /\ m.op = "HELLO" /\ m.seq = 1
  BY DEF Init, Datagram
<1>6. \A m \in net : /\ m.to \in Peers /\ m.op \in Opcodes /\ m.seq \in 0 .. MaxSeq
                     /\ m.op = "ACCEPT" => m.body \in 0 .. MaxFresh
  BY <1>0, <1>5 DEF Peers, Opcodes
<1>7. /\ fresh \in 1 .. MaxFresh + 1 /\ restarts \in 0 .. MaxRestarts
      /\ pool_fails \in 0 .. MaxPoolFails /\ lost \in BOOLEAN
  <2>1. fresh = 2 /\ restarts = 0 /\ pool_fails = 0
    BY DEF Init
  <2>2. lost \in BOOLEAN
    BY Zenon DEF Init
  <2> QED
    BY <1>0, <2>1, <2>2
<1> QED
  BY <1>3, <1>4, <1>6, <1>7 DEF RangeInv

(* An answer takes the next random value and the next number.              *)
LEMMA RespondRange ==
    ASSUME RangeInv, HandshakeInv, NEW m \in net, Respond(m)
    PROVE  RangeInv'
<1> DEFINE u == Processed(Seen(m), m)
<1> DEFINE r == Reply(m.op, u, fresh)
<1> DEFINE d == Datagram(Other(m.to), r.op, seq_counter[m.to], r.body)
<1>0. MaxFresh \in Nat /\ MaxSeq \in Nat
  BY BoundsAssumption
<1>1. Admitted(m) /\ m.op \in Answers(m.to) /\ fresh <= MaxFresh /\ seq_counter[m.to] <= MaxSeq
  BY DEF Respond
<1>2. m.to \in Peers /\ DOMAIN u = Fields /\ GoodFields(u)
  BY <1>1, TakenFields
<1>3. /\ sess' = [sess EXCEPT ![m.to] = r.s] /\ \A n \in net' : n \in net \/ n = d
      /\ fresh' = fresh + 1 /\ seq_counter' = [seq_counter EXCEPT ![m.to] = @ + 1]
      /\ UNCHANGED <<restarts, pool_fails, lost>>
  BY DEF Respond, Left
<1>4. m.op \in {"HELLO", "ACCEPT", "KEM_INIT", "KEM_RESPONSE", "IDENTITY"}
  BY <1>1 DEF Answers
<1> HIDE DEF u
<1>5. r.s.seen = u.seen /\ AnswerTo(m.op, u, fresh, r)
  BY <1>2, <1>4, ReplyFields, SMTT(30)
<1>6. d.to = Other(m.to) /\ d.op = r.op /\ d.seq = seq_counter[m.to] /\ d.body = r.body
  BY DEF Datagram
<1> HIDE DEF r, d
<1>7. fresh \in 0 .. MaxFresh /\ fresh + 1 \in 1 .. MaxFresh + 1
  BY <1>0, <1>1 DEF RangeInv
<1>8. r.op \in Opcodes /\ (r.op = "ACCEPT" => r.body = fresh) /\ r.s.session_id \in {u.session_id, fresh}
  BY <1>5 DEF AnswerTo, Opcodes
<1>9. GoodFields(r.s)
  BY <1>2, <1>5, <1>7, <1>8 DEF GoodFields
<1>10. seq_counter[m.to] \in 1 .. MaxSeq
  BY <1>0, <1>1, <1>2, SMTT(30) DEF RangeInv
<1>11. GoodDatagram(d)
  BY <1>0, <1>6, <1>7, <1>8, <1>10 DEF GoodDatagram, Other, Peers
<1>12. seq_counter' \in [Peers -> 1 .. MaxSeq + 1]
  BY <1>0, <1>2, <1>3, <1>10 DEF RangeInv
<1>13. /\ \A n \in net' : n \in net \/ GoodDatagram(n)
       /\ fresh' \in 1 .. MaxFresh + 1 /\ restarts' \in 0 .. MaxRestarts
       /\ pool_fails' \in 0 .. MaxPoolFails /\ lost' \in BOOLEAN
  BY <1>3, <1>7, <1>11 DEF RangeInv
<1> QED
  BY <1>2, <1>3, <1>9, <1>12, <1>13, RangeStep, ZenonT(30)

(* Every step of the handshake stays in range.                             *)
LEMMA NextRangeInv == RangeInv /\ HandshakeInv /\ [Next]_vars => RangeInv'
<1> SUFFICES ASSUME RangeInv, HandshakeInv, [Next]_vars PROVE RangeInv'
  OBVIOUS
<1>0. /\ MaxFresh \in Nat /\ MaxSeq \in Nat /\ MaxRestarts \in Nat /\ MaxPoolFails \in Nat
  BY BoundsAssumption
<1>r. /\ seq_counter \in [Peers -> 1 .. MaxSeq + 1] /\ fresh \in 1 .. MaxFresh + 1
      /\ restarts \in 0 .. MaxRestarts /\ pool_fails \in 0 .. MaxPoolFails /\ lost \in BOOLEAN
  BY DEF RangeInv
<1>1. ASSUME UNCHANGED <<sess, seq_counter, fresh, restarts, pool_fails>>, net' \subseteq net, lost' \in BOOLEAN
      PROVE  RangeInv'
  BY <1>1 DEF RangeInv
<1>2. ASSUME NEW m \in net, Drop(m) \/ Lose(m)
      PROVE  RangeInv'
  <2>1. /\ UNCHANGED <<sess, seq_counter, fresh, restarts, pool_fails>> /\ net' \subseteq net
        /\ lost' = lost \/ lost' = TRUE
    BY <1>2 DEF Drop, Lose, Left
  <2> QED
    BY <1>1, <1>r, <2>1, Zenon
<1>3. ASSUME NEW m \in net, Fail(m)
      PROVE  RangeInv'
  <2>1. m.to \in Peers
    BY DEF RangeInv
  <2>2. Reset(sess[m.to]).session_id = sess[m.to].session_id /\ Reset(sess[m.to]).seen = {}
    BY DEF Reset
  <2>3. GoodFields(Reset(sess[m.to]))
    BY <2>1, <2>2 DEF GoodFields, RangeInv
  <2>4. /\ sess' = [sess EXCEPT ![m.to] = Reset(sess[m.to])] /\ \A n \in net' : n \in net
        /\ UNCHANGED <<seq_counter, fresh, restarts, pool_fails, lost>>
    BY <1>3 DEF Fail, Left
  <2> QED
    BY <1>r, <2>1, <2>3, <2>4, RangeStep, Zenon
<1>4. ASSUME NEW m \in net, Complete(m) \/ NoBuffer(m)
      PROVE  RangeInv'
  <2>1. m.to \in Peers /\ GoodFields(Processed(Seen(m), m))
    BY <1>4, TakenFields DEF Complete, NoBuffer
  <2>2. /\ sess' = [sess EXCEPT ![m.to] = Processed(Seen(m), m)] /\ \A n \in net' : n \in net
        /\ UNCHANGED <<seq_counter, fresh, restarts, lost>>
        /\ pool_fails' = pool_fails \/ (pool_fails < MaxPoolFails /\ pool_fails' = pool_fails + 1)
    BY <1>4 DEF Complete, NoBuffer, Left
  <2>3. pool_fails' \in 0 .. MaxPoolFails
    BY <1>0, <1>r, <2>2
  <2> QED
    BY <1>r, <2>1, <2>2, <2>3, RangeStep, Zenon
<1>5. ASSUME NEW m \in net, Respond(m)
      PROVE  RangeInv'
  BY <1>5, RespondRange
<1>6. ASSUME Reconnect
      PROVE  RangeInv'
  <2> DEFINE s == InitInitiator(sess[Initiator], fresh)
  <2>1. s.session_id = fresh /\ s.seen = {}
    BY DEF InitInitiator, Reset
  <2>2. /\ sess' = [sess EXCEPT ![Initiator] = s] /\ fresh <= MaxFresh /\ fresh' = fresh + 1
        /\ restarts < MaxRestarts /\ restarts' = restarts + 1 /\ UNCHANGED <<pool_fails, lost>>
    BY <1>6 DEF Reconnect
  <2>3. PICK n \in 0 .. MaxSeq : /\ seq_counter' = [seq_counter EXCEPT ![Initiator] = n + 1]
                                 /\ net' = net \cup {Datagram(Responder, "HELLO", n, None)}
    BY <1>6, Zenon DEF Reconnect
  <2> HIDE DEF s
  <2>4. GoodFields(s) /\ fresh' \in 1 .. MaxFresh + 1 /\ restarts' \in 0 .. MaxRestarts
    BY <1>0, <1>r, <2>1, <2>2 DEF GoodFields
  <2>5. GoodDatagram(Datagram(Responder, "HELLO", n, None))
    BY DEF GoodDatagram, Datagram, Peers, Opcodes
  <2>6. seq_counter' \in [Peers -> 1 .. MaxSeq + 1]
    <3>1. n + 1 \in 1 .. MaxSeq + 1
      BY <1>0
    <3> QED
      BY <1>r, <2>3, <3>1, Zenon
  <2> QED
    BY <1>r, <2>2, <2>3, <2>4, <2>5, <2>6, RangeStep, Zenon DEF Peers
<1>7. CASE UNCHANGED vars
  BY <1>1, <1>7, <1>r DEF vars
<1> QED
  BY <1>2, <1>3, <1>4, <1>5, <1>6, <1>7 DEF Next, Receive

(* The ranges hold in every reachable state.                               *)
LEMMA RangeInvariant == Spec => []RangeInv
  BY InitRangeInv, NextRangeInv, HandshakeInvariant, PTL DEF Spec

(* For all bounds, every field, counter and datagram keeps its range, and  *)
(* neither side is ever in a state that only the other side's messages     *)
(* lead to: session_check and verify_state_transition between them admit   *)
(* no message that would.                                                  *)
THEOREM HandshakeTypes == Spec => []TypeOK
<1>1. HandshakeInv /\ RangeInv => TypeOK
  <2> SUFFICES ASSUME HandshakeInv, RangeInv PROVE TypeOK
    OBVIOUS
  <2>1. Initiator \in Peers /\ Responder \in Peers /\ Initiator # Responder
    BY SMTT(30) DEF Peers, Initiator, Responder
  <2>2. sess[Initiator].state \in InitiatorStates /\ sess[Responder].state \in ResponderStates
    BY <2>1, SMTT(30) DEF HandshakeInv, SessOK, StatesOf
  <2>3. \A p \in Peers : /\ sess[p].role \in {p, "UNASSIGNED"}
                         /\ sess[p].role = "UNASSIGNED" <=> sess[p].state = Idle
    BY DEF HandshakeInv, SessOK, Peers, Initiator, Responder
  <2> QED
    BY <2>2, <2>3 DEF RangeInv, TypeOK
<1> QED
  BY <1>1, RangeInvariant, HandshakeInvariant, PTL

-----------------------------------------------------------------------------
(* A locked session stays locked.                                          *)

(* In lockstep, a datagram that seq_check lets through is the next one.    *)
LEMMA NextInLine ==
    ASSUME LockstepInv, Checked = Peers, NEW m \in net, Admitted(m), sess[m.to].state # Idle
    PROVE  \/ /\ m.to = Responder /\ sess[Responder].state # Locked
              /\ m.seq = seq_counter[Responder] /\ seq_counter[Initiator] = m.seq + 1
           \/ /\ m.to = Initiator /\ sess[Initiator].state # Locked
              /\ m.seq = seq_counter[Initiator] - 1 /\ seq_counter[Responder] = m.seq + 1
<1> DEFINE a == seq_counter[Initiator]
           b == seq_counter[Responder]
<1>0. a \in 2 .. 4 /\ b \in 1 .. 4 /\ a \in {b, b + 1}
  BY SMTT(30) DEF LockstepInv
<1>1. /\ m.to \in Peers /\ m.seq \in 1 .. 3 /\ m.seq \notin sess[m.to].seen
      /\ m.seq < seq_counter[Other(m.to)]
  BY DEF LockstepInv, Numbered, Peers, Admitted
<1>2. CASE m.to = Responder
  <2>1. m.seq < a /\ 1 .. b - 1 \subseteq sess[Responder].seen
    BY <1>1, <1>2 DEF Other, LockstepInv, Initiator, Responder
  <2>2. sess[Responder].state = Locked => b = 4
    BY <1>2 DEF LockstepInv, Locked, Start, KemResponseSent
  <2> HIDE DEF a, b
  <2>3. ~ (m.seq <= b - 1)
    BY <1>0, <1>1, <1>2, <2>1
  <2>4. m.seq = b /\ a = m.seq + 1 /\ b # 4
    BY <1>0, <1>1, <2>1, <2>3
  <2> QED
    BY <1>2, <2>2, <2>4 DEF a, b
<1>3. CASE m.to = Initiator
  <2>1. /\ m.seq < b /\ 1 .. a - 2 \subseteq sess[Initiator].seen
        /\ sess[Initiator].state = Locked => 1 .. 3 \subseteq sess[Initiator].seen
    BY <1>1, <1>3 DEF Other, LockstepInv
  <2> HIDE DEF a, b
  <2>2. ~ (m.seq <= a - 2) /\ sess[Initiator].state # Locked
    BY <1>0, <1>1, <1>3, <2>1, SMTT(30)
  <2>3. m.seq = a - 1 /\ b = m.seq + 1
    BY <1>0, <1>1, <2>1, <2>2, SMTT(30)
  <2> QED
    BY <1>3, <2>2, <2>3 DEF a, b
<1> QED
  BY <1>1, <1>2, <1>3, SMTT(30) DEF Peers

(* A step that sends nothing: the session has seen more, or is reset.      *)
LEMMA LockstepKept ==
    ASSUME LockstepInv, HandshakeInv, NEW p \in Peers, NEW s, sess' = [sess EXCEPT ![p] = s],
           s.state = Idle \/ (s.state = sess[p].state /\ sess[p].seen \subseteq s.seen),
           UNCHANGED <<seq_counter, restarts>>, net' \subseteq net
    PROVE  LockstepInv'
<1>1. \A q \in Peers : sess'[q] = IF q = p THEN s ELSE sess[q]
  BY DEF HandshakeInv
<1>2. \A q \in Peers : \/ sess'[q].state = Idle
                       \/ sess'[q].state = sess[q].state /\ sess[q].seen \subseteq sess'[q].seen
  BY <1>1
<1>3. Initiator \in Peers /\ Responder \in Peers
  BY DEF Peers
<1>4. \A m \in net' : Numbered(m) /\ m.seq < seq_counter'[Other(m.to)]
  BY DEF LockstepInv
<1> HIDE DEF Idle, Start, KemInitSent, KemResponseSent, IdentitySent, Locked
<1> QED
  BY <1>2, <1>3, <1>4 DEF LockstepInv

(* HELLO is on its way, and neither side has seen anything.                *)
LEMMA InitLockstep == Init => LockstepInv
<1> SUFFICES ASSUME Init PROVE LockstepInv
  OBVIOUS
<1> DEFINE blank == [session_id |-> 0]
<1>1. /\ sess[Initiator] = InitInitiator(blank, 1) /\ sess[Responder] = InitResponder(blank)
      /\ seq_counter[Initiator] = 2 /\ seq_counter[Responder] = 1 /\ restarts = 0
  BY DEF Init, Peers, Initiator, Responder
<1>2. InitInitiator(blank, 1).state = Start /\ InitResponder(blank).state = Start
  BY DEF InitInitiator, InitResponder, Reset
<1> HIDE DEF blank
<1>3. \A m \in net : m.to = Responder /\ m.op = "HELLO" /\ m.seq = 1
  BY DEF Init, Datagram
<1>4. Other(Responder) = Initiator
  BY DEF Other, Initiator, Responder
<1>5. \A m \in net : Numbered(m) /\ m.seq < seq_counter[Other(m.to)]
  BY <1>1, <1>3, <1>4 DEF Numbered
<1>6. Start # Locked
  BY DEF Start, Locked
<1> QED
  BY <1>1, <1>2, <1>5, <1>6 DEF LockstepInv

(* The initiator completes: it has seen the three messages to it.          *)
LEMMA CompleteLockstep ==
    ASSUME LockstepInv, HandshakeInv, Checked = Peers, NEW m \in net, Complete(m)
    PROVE  LockstepInv'
<1> DEFINE q == Seen(m)
           s == Processed(q, m)
<1>1. /\ m.to \in Peers /\ SessOK(m.to, q) /\ q.state # Idle
      /\ Acceptable(q, m) /\ m.op \notin Answers(m.to) /\ Admitted(m)
  BY AdmittedOK, SMTT(30) DEF Complete
<1>2. DOMAIN sess[m.to] = Fields
  BY <1>1, ZenonT(30) DEF HandshakeInv, SessOK
<1>3. /\ DOMAIN q = Fields /\ q.state = sess[m.to].state
      /\ q.seen = sess[m.to].seen \cup {m.seq}
  BY <1>1, <1>2, SeenFields
<1>4. /\ sess' = [sess EXCEPT ![m.to] = s] /\ net' \subseteq net
      /\ UNCHANGED <<seq_counter, restarts>>
  BY DEF Complete, Left
<1> HIDE DEF q
<1>5. m.to = Initiator /\ m.op = "LOCKED"
  BY <1>1, Order DEF Answers, Initiator, Responder
<1>6. s.state = Locked /\ s.seen = sess[Initiator].seen \cup {m.seq}
  <2>1. s.seen = q.seen /\ (m.op = "LOCKED" => s.state = Locked)
    BY <1>3, ProcessedFields, ZenonT(30)
  <2> QED
    BY <1>3, <1>5, <2>1
<1> HIDE DEF s
<1>7. m.seq = 3 /\ m.seq = seq_counter[Initiator] - 1
  <2>1. m.seq = 3
    BY <1>5 DEF LockstepInv, Numbered
  <2>2. m.seq = seq_counter[Initiator] - 1
    BY <1>1, <1>3, <1>5, NextInLine DEF Initiator, Responder
  <2> QED
    BY <2>1, <2>2, Zenon
<1>8. seq_counter[Initiator] = 4
  BY <1>7, SMTT(30) DEF LockstepInv
<1>9. 1 .. 2 \subseteq sess[Initiator].seen
  BY <1>1, <1>3, <1>5, <1>8 DEF LockstepInv
<1>10. 1 .. 3 \subseteq s.seen
  <2>1. 1 .. 3 \subseteq (1 .. 2) \cup {3}
    OBVIOUS
  <2> QED
    BY <1>6, <1>7, <1>9, <2>1
<1>11. sess'[Initiator] = s /\ sess'[Responder] = sess[Responder]
  BY <1>4, <1>5, SMTT(30) DEF HandshakeInv, Peers, Initiator, Responder
<1>12. \A n \in net' : Numbered(n) /\ n.seq < seq_counter'[Other(n.to)]
  BY <1>4 DEF LockstepInv
<1>13. 1 .. seq_counter[Initiator] - 2 \subseteq s.seen
  BY <1>8, <1>10
<1> HIDE DEF Idle, Start, KemInitSent, KemResponseSent, IdentitySent, Locked
<1> QED
  BY <1>4, <1>6, <1>8, <1>10, <1>11, <1>12, <1>13 DEF LockstepInv

(* An answer is the message of the next step, with the next number.        *)
LEMMA RespondLockstep ==
    ASSUME LockstepInv, HandshakeInv, RangeInv, Checked = Peers, NEW m \in net, Respond(m)
    PROVE  LockstepInv'
<1> DEFINE q == Seen(m)
           u == Processed(q, m)
           r == Reply(m.op, u, fresh)
           n == seq_counter[m.to]
           d == Datagram(Other(m.to), r.op, n, r.body)
           a == seq_counter[Initiator]
           b == seq_counter[Responder]
<1>1. /\ m.to \in Peers /\ SessOK(m.to, q) /\ q.state # Idle
      /\ Acceptable(q, m) /\ m.op \in Answers(m.to) /\ Admitted(m)
  BY AdmittedOK, SMTT(30) DEF Respond
<1>2. DOMAIN sess[m.to] = Fields
  BY <1>1, ZenonT(30) DEF HandshakeInv, SessOK
<1>3. /\ DOMAIN q = Fields /\ q.state = sess[m.to].state
      /\ q.seen = sess[m.to].seen \cup {m.seq}
  BY <1>1, <1>2, SeenFields
<1>4. /\ sess' = [sess EXCEPT ![m.to] = r.s] /\ \A x \in net' : x \in net \/ x = d
      /\ seq_counter' = [seq_counter EXCEPT ![m.to] = n + 1] /\ restarts' = restarts
  BY DEF Respond, Left
<1> HIDE DEF q
<1>5. m.op \in {"HELLO", "ACCEPT", "KEM_INIT", "KEM_RESPONSE", "IDENTITY"}
  BY <1>1 DEF Answers
<1>6. DOMAIN u = Fields /\ u.seen = q.seen /\ u.state = q.state
  BY <1>3, <1>5, ProcessedFields, Zenon
<1> HIDE DEF u
<1>7. r.s.seen = sess[m.to].seen \cup {m.seq} /\ AnswerTo(m.op, u, fresh, r)
  <2>1. r.s.seen = u.seen /\ AnswerTo(m.op, u, fresh, r)
    <3>1. r = Reply(m.op, u, fresh) /\ DOMAIN u = Fields
      BY <1>6, SMTT(30)
    <3> HIDE DEF r
    <3> QED
      BY <1>5, <3>1, ReplyFields, SMTT(30)
  <2> HIDE DEF r
  <2> QED
    BY <1>3, <1>6, <2>1, SMTT(30)
<1>8. d.to = Other(m.to) /\ d.op = r.op /\ d.seq = n
  BY DEF Datagram
<1> HIDE DEF r, d
<1>9. Initiator # Responder /\ Other(Initiator) = Responder /\ Other(Responder) = Initiator
  BY DEF Other, Initiator, Responder
<1>10. DOMAIN seq_counter = Peers /\ DOMAIN sess = Peers
  BY Zenon DEF RangeInv, HandshakeInv
<1>11. a \in 2 .. 4 /\ b \in 1 .. 4 /\ restarts = 0
  BY DEF LockstepInv
<1>12. Numbered(m) /\ \A x \in net : Numbered(x) /\ x.seq < seq_counter[Other(x.to)]
  BY DEF LockstepInv
<1>13. sess[Initiator].state # Idle =>
         /\ 1 .. a - 2 \subseteq sess[Initiator].seen
         /\ <<a, sess[Initiator].state>> \in {<<2, Start>>, <<3, KemInitSent>>, <<4, IdentitySent>>, <<4, Locked>>}
         /\ sess[Initiator].state = Locked => 1 .. 3 \subseteq sess[Initiator].seen
  BY Zenon DEF LockstepInv
<1>14. sess[Responder].state # Idle =>
         /\ 1 .. b - 1 \subseteq sess[Responder].seen
         /\ <<b, sess[Responder].state>> \in {<<1, Start>>, <<2, Start>>, <<3, KemResponseSent>>, <<4, Locked>>}
  BY Zenon DEF LockstepInv
<1>15. KemInitSent # Locked /\ IdentitySent # Locked
  BY SMTT(30) DEF KemInitSent, IdentitySent, Locked
<1> HIDE DEF Idle, Start, KemInitSent, KemResponseSent, IdentitySent, Locked
<1>16. CASE m.to = Responder
  <2>1. m.seq = b /\ a = b + 1
    BY <1>1, <1>3, <1>9, <1>16, NextInLine, Zenon
  <2>2. n = b
    BY <1>16
  <2> HIDE DEF a, b, n
  <2>3. /\ seq_counter'[Responder] = b + 1 /\ seq_counter'[Initiator] = seq_counter[Initiator]
        /\ sess'[Responder] = r.s /\ sess'[Initiator] = sess[Initiator]
    BY <1>4, <1>9, <1>10, <1>16, <2>2 DEF Peers
  <2>4. \/ m.op = "HELLO" /\ b = 1
        \/ m.op = "KEM_INIT" /\ b = 2
        \/ m.op = "IDENTITY" /\ b = 3
    BY <1>9, <1>12, <1>16, <2>1 DEF Numbered
  <2>5. /\ 1 .. b - 1 \subseteq sess[Responder].seen
        /\ <<b, sess[Responder].state>> \in {<<1, Start>>, <<2, Start>>, <<3, KemResponseSent>>, <<4, Locked>>}
    BY <1>1, <1>3, <1>14, <1>16, Zenon
  <2>6. r.s.state = sess[Responder].state \/ m.op # "HELLO"
    BY <1>3, <1>6, <1>7, <1>16, SMTT(30) DEF AnswerTo
  <2>7. \/ b = 1 /\ r.op = "ACCEPT" /\ r.s.state = Start
        \/ b = 2 /\ r.op = "KEM_RESPONSE" /\ r.s.state = KemResponseSent
        \/ b = 3 /\ r.op = "LOCKED" /\ r.s.state = Locked
    BY <1>7, <2>4, <2>5, <2>6 DEF AnswerTo
  <2>8. 1 .. (b + 1) - 1 \subseteq r.s.seen
    <3>1. \A k \in 1 .. (b + 1) - 1 : k \in 1 .. b - 1 \/ k = b
      BY <2>7
    <3> QED
      BY <1>7, <1>16, <2>1, <2>5, <3>1
  <2>9. <<b + 1, r.s.state>> \in {<<1, Start>>, <<2, Start>>, <<3, KemResponseSent>>, <<4, Locked>>}
    BY <2>7, SMTT(30)
  <2>10. Numbered(d) /\ d.seq < seq_counter'[Other(d.to)]
    <3>1. d.to = Initiator /\ d.op = r.op /\ d.seq = b
      BY <1>8, <1>9, <1>16, <2>2, SMTT(30)
    <3> QED
      BY <1>9, <2>3, <2>7, <3>1 DEF Numbered
  <2>11. \A x \in net : Numbered(x) /\ x.seq < seq_counter'[Other(x.to)]
    <3> SUFFICES ASSUME NEW x \in net PROVE Numbered(x) /\ x.seq < seq_counter'[Other(x.to)]
      OBVIOUS
    <3>1. x.to \in Peers /\ x.seq \in 1 .. 3 /\ x.seq < seq_counter[Other(x.to)] /\ Numbered(x)
      BY <1>12 DEF Numbered, Peers
    <3>2. seq_counter[Responder] = b
      BY DEF b
    <3> QED
      BY <1>9, <1>11, <2>3, <3>1, <3>2 DEF Peers
  <2>12. \A x \in net' : Numbered(x) /\ x.seq < seq_counter'[Other(x.to)]
    BY <1>4, <2>10, <2>11, Zenon
  <2>13. b + 1 \in 1 .. 4 /\ a \in {b + 1, (b + 1) + 1} /\ a \in 2 .. 4 /\ restarts' = 0
    BY <1>4, <1>11, <2>1, <2>7, SMTT(30)
  <2>14. seq_counter'[Initiator] = a
    BY <2>3, SMTT(30) DEF a
  <2> HIDE DEF Numbered
  <2> QED
    BY <1>13, <2>3, <2>8, <2>9, <2>12, <2>13, <2>14 DEF LockstepInv
<1>17. CASE m.to = Initiator
  <2>1. m.seq = a - 1 /\ b = m.seq + 1
    BY <1>1, <1>3, <1>9, <1>17, NextInLine, ZenonT(30)
  <2>2. n = a
    BY <1>17
  <2> HIDE DEF a, b, n
  <2>3. /\ seq_counter'[Initiator] = a + 1 /\ seq_counter'[Responder] = seq_counter[Responder]
        /\ sess'[Initiator] = r.s /\ sess'[Responder] = sess[Responder]
    BY <1>4, <1>9, <1>10, <1>17, <2>2 DEF Peers
  <2>4. \/ m.op = "ACCEPT" /\ a = 2
        \/ m.op = "KEM_RESPONSE" /\ a = 3
    <3>1. m.op \in {"ACCEPT", "KEM_RESPONSE"}
      BY <1>1, <1>17 DEF Answers
    <3>2. (m.op = "ACCEPT" => m.seq = 1) /\ (m.op = "KEM_RESPONSE" => m.seq = 2)
      BY <1>12 DEF Numbered
    <3> QED
      BY <1>11, <2>1, <3>1, <3>2
  <2>5. 1 .. a - 2 \subseteq sess[Initiator].seen
    BY <1>1, <1>3, <1>13, <1>17, Zenon
  <2>6. \/ a = 2 /\ r.op = "KEM_INIT" /\ r.s.state = KemInitSent
        \/ a = 3 /\ r.op = "IDENTITY" /\ r.s.state = IdentitySent
    BY <1>7, <2>4 DEF AnswerTo
  <2>7. 1 .. (a + 1) - 2 \subseteq r.s.seen
    <3>1. \A k \in 1 .. (a + 1) - 2 : k \in 1 .. a - 2 \/ k = a - 1
      BY <2>6
    <3> QED
      BY <1>7, <1>17, <2>1, <2>5, <3>1
  <2>8. /\ <<a + 1, r.s.state>> \in {<<2, Start>>, <<3, KemInitSent>>, <<4, IdentitySent>>, <<4, Locked>>}
        /\ r.s.state # Locked
    BY <1>15, <2>6
  <2>9. Numbered(d) /\ d.seq < seq_counter'[Other(d.to)]
    <3>1. d.to = Responder /\ d.op = r.op /\ d.seq = a
      BY <1>8, <1>9, <1>17, <2>2, SMTT(30)
    <3> QED
      BY <1>9, <2>3, <2>6, <3>1 DEF Numbered
  <2>10. \A x \in net : Numbered(x) /\ x.seq < seq_counter'[Other(x.to)]
    <3> SUFFICES ASSUME NEW x \in net PROVE Numbered(x) /\ x.seq < seq_counter'[Other(x.to)]
      OBVIOUS
    <3>1. x.to \in Peers /\ x.seq \in 1 .. 3 /\ x.seq < seq_counter[Other(x.to)] /\ Numbered(x)
      BY <1>12 DEF Numbered, Peers
    <3>2. seq_counter[Initiator] = a
      BY DEF a
    <3> QED
      BY <1>9, <1>11, <2>3, <3>1, <3>2 DEF Peers
  <2>11. \A x \in net' : Numbered(x) /\ x.seq < seq_counter'[Other(x.to)]
    BY <1>4, <2>9, <2>10, Zenon
  <2>12. b \in 1 .. 4 /\ a + 1 \in {b, b + 1} /\ a + 1 \in 2 .. 4 /\ restarts' = 0
    BY <1>4, <1>11, <2>1, <2>6
  <2>13. seq_counter'[Responder] = b
    BY <2>3 DEF b
  <2> HIDE DEF Numbered
  <2> QED
    BY <1>14, <2>3, <2>7, <2>8, <2>11, <2>12, <2>13, ZenonT(30) DEF LockstepInv
<1> QED
  BY <1>1, <1>16, <1>17, Zenon DEF Peers

(* Every step keeps the lockstep.                                          *)
LEMMA NextLockstep ==
    ASSUME Checked = Peers, MaxRestarts = 0, LockstepInv, HandshakeInv, RangeInv, [Next]_vars
    PROVE  LockstepInv'
<1>1. ASSUME UNCHANGED <<sess, seq_counter, restarts>>, net' \subseteq net
      PROVE  LockstepInv'
  BY <1>1 DEF LockstepInv
<1>2. ASSUME NEW m \in net, Drop(m) \/ Lose(m)
      PROVE  LockstepInv'
  BY <1>1, <1>2 DEF Drop, Lose, Left
<1>3. ASSUME NEW m \in net, Fail(m)
      PROVE  LockstepInv'
  <2>1. m.to \in Peers
    BY <1>3, AdmittedOK DEF Fail
  <2>2. Reset(sess[m.to]).state = Idle
    BY DEF Reset
  <2>3. /\ sess' = [sess EXCEPT ![m.to] = Reset(sess[m.to])] /\ net' \subseteq net
        /\ UNCHANGED <<seq_counter, restarts>>
    BY <1>3 DEF Fail, Left
  <2> QED
    BY <2>1, <2>2, <2>3, LockstepKept, Zenon
<1>4. ASSUME NEW m \in net, NoBuffer(m)
      PROVE  LockstepInv'
  <2> DEFINE q == Seen(m)
  <2>1. m.to \in Peers
    BY <1>4, AdmittedOK, SMTT(30) DEF NoBuffer
  <2>2. DOMAIN sess[m.to] = Fields
    BY <2>1 DEF HandshakeInv, SessOK
  <2>3. /\ DOMAIN q = Fields /\ q.state = sess[m.to].state
        /\ q.seen = sess[m.to].seen \cup {m.seq}
    BY <2>1, <2>2, SeenFields
  <2>4. /\ sess' = [sess EXCEPT ![m.to] = Processed(q, m)] /\ net' \subseteq net
        /\ UNCHANGED <<seq_counter, restarts>> /\ m.op # "LOCKED"
    BY <1>4 DEF NoBuffer, Left, Answers
  <2> HIDE DEF q
  <2>5. Processed(q, m).state = sess[m.to].state /\ sess[m.to].seen \subseteq Processed(q, m).seen
    <3>1. Processed(q, m).seen = q.seen /\ (m.op # "LOCKED" => Processed(q, m).state = q.state)
      BY <2>3, ProcessedFields, Zenon
    <3> QED
      BY <2>3, <2>4, <3>1, SMTT(30)
  <2> QED
    BY <2>1, <2>4, <2>5, LockstepKept, Zenon
<1>5. ~ Reconnect
  BY DEF Reconnect, LockstepInv
<1>6. CASE UNCHANGED vars
  BY <1>1, <1>6 DEF vars
<1> QED
  BY <1>2, <1>3, <1>4, <1>5, <1>6, CompleteLockstep, RespondLockstep, SMTT(30) DEF Next, Receive

(* Where both receive loops run seq_check on control packets and nobody    *)
(* reconnects, no handshake datagram, late, repeated or out of order,      *)
(* makes a locked session leave SESSION_LOCKED or change its key, for any  *)
(* number of losses, repetitions and failed allocations: the replay window *)
(* has every number that was sent to a locked session.                     *)
THEOREM LockedSessionsStay ==
    ASSUME Checked = Peers, MaxRestarts = 0
    PROVE  Spec => LockedForGood
<1> DEFINE Stays == \A p \in Peers : sess[p].state = Locked =>
                        sess'[p].state = Locked /\ sess'[p].session_key = sess[p].session_key
<1>1. ASSUME LockstepInv, HandshakeInv, [Next]_vars
      PROVE  [Stays]_vars
  <2> SUFFICES ASSUME NEW p \in Peers, sess[p].state = Locked
               PROVE  sess'[p] = sess[p]
    OBVIOUS
  <2>0. DOMAIN sess = Peers
    BY <1>1 DEF HandshakeInv
  <2>1. ASSUME NEW m \in net, Admitted(m)
        PROVE  m.to \in Peers /\ m.to # p
    <3>1. m.to \in Peers
      BY <2>1, <1>1 DEF HandshakeInv, LockMessageOK
    <3>2. ASSUME m.to = p PROVE FALSE
      <4>1. sess[m.to].state # Idle
        BY <3>2 DEF Locked, Idle
      <4> QED
        BY <1>1, <2>1, <3>2, <4>1, NextInLine
    <3> QED
      BY <3>1, <3>2
  <2>2. ASSUME NEW m \in net, Receive(m)
        PROVE  sess'[p] = sess[p]
    <3>1. sess' = sess \/ (Admitted(m) /\ \E s : sess' = [sess EXCEPT ![m.to] = s])
      BY <2>2 DEF Receive, Drop, Fail, Complete, Respond, NoBuffer
    <3> QED
      BY <2>0, <2>1, <3>1
  <2>3. ASSUME NEW m \in net, Lose(m)
        PROVE  sess'[p] = sess[p]
    BY <2>3 DEF Lose
  <2>4. ~ Reconnect
    BY <1>1 DEF Reconnect, LockstepInv
  <2>5. CASE UNCHANGED vars
    BY <2>5 DEF vars
  <2> QED
    BY <1>1, <2>2, <2>3, <2>4, <2>5 DEF Next
<1>2. Spec => []LockstepInv
  BY InitLockstep, NextLockstep, HandshakeInvariant, RangeInvariant, PTL DEF Spec
<1> QED
  BY <1>1, <1>2, HandshakeInvariant, PTL DEF Spec, LockedForGood
=============================================================================
