------------------------------- MODULE Rekey --------------------------------
(***************************************************************************)
(* Key rotation of a locked session (rekey.c), the packet encryption that  *)
(* uses the keys (session_enc.c) and the spinlock keys_guard (session.h)   *)
(* between the engine's thread, which installs keys, and the crypto        *)
(* worker, which decrypts with them (crypto_worker.c).                     *)
(*                                                                         *)
(* A secret is named by the key pair it was encapsulated for.  A key pair  *)
(* opens only its own ciphertexts; another gives a secret nobody else has  *)
(* (the implicit rejection of ML-KEM).  The network may lose, reorder and  *)
(* duplicate datagrams, as the constants allow.  A handshake after a reset *)
(* is left to module Handshake.                                            *)
(***************************************************************************)
EXTENDS Integers

CONSTANTS Peers,        \* the two ends of the session
          Starters,     \* the peers that call rekey_initiate
          Talkers,      \* the peers that send data
          MaxRekeys,    \* calls of rekey_initiate in a behaviour
          Unreliable    \* datagrams may be lost and duplicated

ASSUME RekeyAssumption ==
    /\ (\E p, q \in Peers : p # q /\ Peers = {p, q})
    /\ Starters \subseteq Peers /\ Talkers \subseteq Peers
    /\ MaxRekeys \in Nat /\ Unreliable \in BOOLEAN

VARIABLES
    locked,    \* session_t.state = SESSION_LOCKED
    keys,      \* session_t.keys: the epoch, the session key and the channel keys
    sk,        \* session_t.hs.kem_secret_key, by the number of its key pair
    net,       \* datagrams in transit
    rekeys,    \* key pairs made so far
    guard,     \* who holds session_t.keys_guard
    main,      \* what derive_rekey_keys is installing, on the engine's thread
    worker,    \* the job of crypto_loop
    orderly    \* one rekey at a time, no datagram lost or repeated, no buffer missing

vars == <<locked, keys, sk, net, rekeys, guard, main, worker, orderly>>

Other(p) == CHOOSE q \in Peers : q # p

Wiped == <<"wiped", 0>>
NoKeys == [epoch |-> 0, session |-> Wiped, channel |-> Wiped]
None == [pc |-> "none"]
Secret(pair) == <<"shared", pair>>
KeysOf(epoch, secret) == [epoch |-> epoch, session |-> secret, channel |-> secret]

Init ==
    /\ locked = [p \in Peers |-> TRUE]
    /\ keys = [p \in Peers |-> KeysOf(0, Secret(0))]
    /\ sk = [p \in Peers |-> 0]
    /\ net = {}
    /\ rekeys = 0
    /\ guard = [p \in Peers |-> "free"]
    /\ main = [p \in Peers |-> None]
    /\ worker = [p \in Peers |-> None]
    /\ orderly = TRUE

-----------------------------------------------------------------------------
RekeyTraffic == {m \in net : m.op # "DATA"}

(* A rekey is under way: a message of it is in transit or one peer has the *)
(* new keys and the other has not.                                         *)
UnderWay == RekeyTraffic # {} \/ (\E p \in Peers : main[p] # None)
                              \/ (\E p, q \in Peers : keys[p] # keys[q])

(* rekey_initiate.  The new secret key replaces the one of a rekey that is *)
(* still waiting for its confirmation.                                     *)
Initiate(p) ==
    /\ locked[p] /\ main[p] = None
    /\ rekeys < MaxRekeys
    /\ rekeys' = rekeys + 1
    /\ sk' = [sk EXCEPT ![p] = rekeys + 1]
    /\ net' = net \cup {[to |-> Other(p), op |-> "INIT", epoch |-> keys[p].epoch, pair |-> rekeys + 1]}
    /\ orderly' = (orderly /\ ~ UnderWay)
    /\ UNCHANGED <<locked, keys, guard, main, worker>>

(* Mutant: the lock stays taken.                                           *)
Unlock_Never(p) == UNCHANGED guard

(* session_unlock_keys.                                                    *)
Unlock(p) == guard' = [guard EXCEPT ![p] = "free"]

(* session_reset: it takes no lock, and its memset opens the one held.     *)
Reset(p) ==
    /\ locked' = [locked EXCEPT ![p] = FALSE]
    /\ keys' = [keys EXCEPT ![p] = NoKeys]
    /\ sk' = [sk EXCEPT ![p] = 0]
    /\ guard' = [guard EXCEPT ![p] = "free"]
    /\ main' = [main EXCEPT ![p] = None]

(* What the network keeps when m is taken from it: m once more, perhaps.   *)
Taken(m) == {net \ {m}} \cup (IF Unreliable THEN {net} ELSE {})

(* Mutant: any INIT is answered, whatever its epoch.                       *)
InitFits_Any(m) == m.op = "INIT"

(* The epochs that rekey_handle accepts.                                   *)
InitFits(m) == m.op = "INIT" /\ m.epoch = keys[m.to].epoch

ConfirmFits(m) == m.op = "CONFIRM" /\ m.epoch = keys[m.to].epoch + 1

(* Mutant: what was encapsulated is used as it is.                         *)
Agreed_Raw(m) == <<"raw", m.pair>>

(* kem_encapsulate and kem_decapsulate.                                    *)
Agreed(m) ==
    IF m.op = "INIT" \/ sk[m.to] = m.pair THEN Secret(m.pair) ELSE <<"rejected", m.to>>

(* Mutant: derive_rekey_keys does not take keys_guard.                     *)
TakeGuard_None(p) == UNCHANGED guard

(* session_lock_keys, on the engine's thread.                              *)
TakeGuard(p) == guard[p] = "free" /\ guard' = [guard EXCEPT ![p] = "main"]

(* rekey_handle up to the wipe in derive_rekey_keys, for a message that    *)
(* has the right epoch.                                                    *)
BeginRekey(m) ==
    /\ locked[m.to] /\ main[m.to] = None
    /\ InitFits(m) \/ ConfirmFits(m)
    /\ TakeGuard(m.to)
    /\ main' = [main EXCEPT ![m.to] = [pc |-> "wiped", op |-> m.op, pair |-> m.pair,
                                       epoch |-> keys[m.to].epoch + 1, secret |-> Agreed(m)]]
    /\ keys' = [keys EXCEPT ![m.to] = NoKeys]
    /\ \E rest \in Taken(m) : net' = rest /\ orderly' = (orderly /\ m \notin rest)
    /\ UNCHANGED <<locked, sk, rekeys, worker>>

(* The session key is copied, then the six channel keys and the epoch.     *)
InstallSession(p) ==
    /\ main[p].pc = "wiped"
    /\ keys' = [keys EXCEPT ![p].session = main[p].secret]
    /\ main' = [main EXCEPT ![p].pc = "session"]
    /\ UNCHANGED <<locked, sk, net, rekeys, guard, worker, orderly>>

(* Mutant: the confirmation names the epoch that has ended.                *)
Confirmation_Old(p) ==
    [to |-> Other(p), op |-> "CONFIRM", epoch |-> main[p].epoch - 1, pair |-> main[p].pair]

Confirmation(p) ==
    [to |-> Other(p), op |-> "CONFIRM", epoch |-> main[p].epoch, pair |-> main[p].pair]

(* The rest of derive_rekey_keys and of rekey_handle.  The initiator wipes *)
(* its secret key; the other side answers, and without a buffer for the    *)
(* answer ends with -1, which the control handler takes for a handshake    *)
(* message and resets the session.                                         *)
FinishRekey(p) ==
    /\ main[p].pc = "session"
    /\ \/ /\ keys' = [keys EXCEPT ![p] = KeysOf(main[p].epoch, main[p].secret)]
          /\ Unlock(p)
          /\ main' = [main EXCEPT ![p] = None]
          /\ sk' = IF main[p].op = "CONFIRM" THEN [sk EXCEPT ![p] = 0] ELSE sk
          /\ net' = IF main[p].op = "INIT" THEN net \cup {Confirmation(p)} ELSE net
          /\ UNCHANGED <<locked, orderly>>
       \/ /\ main[p].op = "INIT" /\ Unreliable
          /\ Reset(p)
          /\ orderly' = FALSE
          /\ UNCHANGED net
    /\ UNCHANGED <<rekeys, worker>>

(* rekey_handle returns 0 for any other epoch: the control handler passes  *)
(* the message to the handshake, whose error resets the session.           *)
Misfit(m) ==
    /\ locked[m.to] /\ main[m.to] = None
    /\ m.op \in {"INIT", "CONFIRM"} /\ ~ InitFits(m) /\ ~ ConfirmFits(m)
    /\ Reset(m.to)
    /\ \E rest \in Taken(m) : net' = rest /\ orderly' = (orderly /\ m \notin rest)
    /\ UNCHANGED <<rekeys, worker>>

(* session_check drops what reaches a session that is not locked.          *)
Refuse(m) ==
    /\ ~ locked[m.to]
    /\ net' = net \ {m}
    /\ UNCHANGED <<locked, keys, sk, rekeys, guard, main, worker, orderly>>

Lose(m) ==
    /\ Unreliable
    /\ net' = net \ {m}
    /\ orderly' = (orderly /\ m.op = "DATA")
    /\ UNCHANGED <<locked, keys, sk, rekeys, guard, main, worker>>

-----------------------------------------------------------------------------
(* encrypt_tx_packet and session_enc_apply, on the engine's thread.  One   *)
(* packet at a time is on its way to each end (a bound).                   *)
SendData(p) ==
    /\ locked[p] /\ main[p] = None
    /\ \A m \in net : m.to = p \/ m.op # "DATA"
    /\ net' = net \cup {[to |-> Other(p), op |-> "DATA", key |-> keys[p].session]}
    /\ UNCHANGED <<locked, keys, sk, rekeys, guard, main, worker, orderly>>

(* transport_engine_poll hands an encrypted packet to the worker.          *)
Enqueue(m) ==
    /\ m.op = "DATA" /\ locked[m.to] /\ main[m.to] = None /\ worker[m.to] = None
    /\ worker' = [worker EXCEPT ![m.to] = [pc |-> "queued", key |-> m.key]]
    /\ net' = net \ {m}
    /\ UNCHANGED <<locked, keys, sk, rekeys, guard, main, orderly>>

WorkerLock(p) ==
    /\ worker[p].pc = "queued"
    /\ guard[p] = "free"
    /\ guard' = [guard EXCEPT ![p] = "worker"]
    /\ worker' = [worker EXCEPT ![p].pc = "locked"]
    /\ UNCHANGED <<locked, keys, sk, net, rekeys, main, orderly>>

(* session_enc_check: a session that is no longer locked passes the packet *)
(* as it is; otherwise build_aad reads the channel key.                    *)
WorkerAad(p) ==
    /\ worker[p].pc = "locked"
    /\ IF locked[p]
       THEN /\ worker' = [worker EXCEPT ![p] = [pc |-> "aad", key |-> @.key, aad |-> keys[p].channel]]
            /\ UNCHANGED guard
       ELSE /\ worker' = [worker EXCEPT ![p] = None]
            /\ Unlock(p)
    /\ UNCHANGED <<locked, keys, sk, net, rekeys, main, orderly>>

(* aead_decrypt reads the session key; the packet passes if both are the   *)
(* sender's, and is dropped otherwise.                                     *)
WorkerDecrypt(p) ==
    /\ worker[p].pc = "aad"
    /\ worker' = [worker EXCEPT ![p] = None]
    /\ Unlock(p)
    /\ UNCHANGED <<locked, keys, sk, net, rekeys, main, orderly>>

-----------------------------------------------------------------------------
Handle(m) == BeginRekey(m) \/ Misfit(m) \/ Refuse(m)
Engine(p) == InstallSession(p) \/ FinishRekey(p)
Worker(p) == WorkerLock(p) \/ WorkerAad(p) \/ WorkerDecrypt(p)

Next ==
    \/ \E p \in Starters : Initiate(p)
    \/ \E p \in Talkers : SendData(p)
    \/ \E p \in Peers : Engine(p) \/ Worker(p)
    \/ \E m \in net : Handle(m) \/ Enqueue(m) \/ Lose(m)

Spec == Init /\ [][Next]_vars

(* The engine's thread and the worker keep running, and the engine polls   *)
(* until it has handled what has arrived.                                  *)
FairSpec ==
    /\ Spec
    /\ \A p \in Peers : /\ WF_vars(Engine(p))
                        /\ WF_vars(Worker(p))
                        /\ SF_vars(\E m \in net : m.to = p /\ Handle(m))

-----------------------------------------------------------------------------
Secrets == {Wiped} \cup {Secret(n) : n \in 0 .. MaxRekeys} \cup {<<"rejected", p>> : p \in Peers}

Messages ==
    [to : Peers, op : {"INIT", "CONFIRM"}, epoch : Nat, pair : 0 .. MaxRekeys]
        \cup [to : Peers, op : {"DATA"}, key : Secrets]

Installing ==
    [pc : {"wiped", "session"}, op : {"INIT", "CONFIRM"}, pair : 0 .. MaxRekeys,
     epoch : Nat, secret : Secrets]

Jobs ==
    [pc : {"queued", "locked"}, key : Secrets] \cup [pc : {"aad"}, key : Secrets, aad : Secrets]

(* The keys, the lock and the steps of both threads keep their ranges.     *)
TypeOK ==
    /\ locked \in [Peers -> BOOLEAN]
    /\ keys \in [Peers -> [epoch : Nat, session : Secrets, channel : Secrets]]
    /\ sk \in [Peers -> 0 .. MaxRekeys]
    /\ rekeys \in 0 .. MaxRekeys
    /\ guard \in [Peers -> {"free", "main", "worker"}]
    /\ net \subseteq Messages
    /\ main \in [Peers -> {None} \cup Installing]
    /\ worker \in [Peers -> {None} \cup Jobs]
    /\ orderly \in BOOLEAN

(* The epoch that a peer has, or is about to have.                         *)
Epoch(p) == IF main[p] = None THEN keys[p].epoch ELSE main[p].epoch

(* Whatever is lost, repeated, reordered or started at the same time, two  *)
(* live ends are never more than one rekey apart: rekey_handle accepts an  *)
(* INIT of its own epoch and a CONFIRM of the next, and nothing else.      *)
EpochGap ==
    \A p, q \in Peers : locked[p] /\ locked[q] => Epoch(p) <= Epoch(q) + 1

(* The crypto worker decrypts with one whole set of keys: between the      *)
(* channel key that build_aad reads and the session key that aead_decrypt  *)
(* reads, and while derive_rekey_keys wipes and copies, keys_guard keeps   *)
(* the two threads apart.                                                  *)
WholeKeys ==
    \A p \in Peers : locked[p] /\ worker[p].pc = "aad" =>
        worker[p].aad = keys[p].session /\ keys[p].channel = keys[p].session

(* With one rekey at a time and nothing lost, the session survives it and  *)
(* the two ends have the same keys, or one is about to get them: the       *)
(* secret of the other is in the confirmation and it holds the key to it.  *)
AgreeWhenOrderly ==
    orderly =>
        /\ \A p \in Peers : locked[p]
        /\ \/ \E p \in Peers : main[p] # None
           \/ \A p, q \in Peers : keys[p] = keys[q]
           \/ \E m \in net : /\ ConfirmFits(m)
                             /\ sk[m.to] = m.pair
                             /\ keys[Other(m.to)] = KeysOf(m.epoch, Secret(m.pair))

(* A rekey that is left alone ends, with the same keys at both ends.       *)
Settles == (orderly /\ UnderWay) ~> (~ orderly \/ ~ UnderWay)

-----------------------------------------------------------------------------
(* The inductive invariant behind EpochGap and WholeKeys: who holds        *)
(* keys_guard, and that no rekey message is ahead of a live sender.        *)
GuardOK(p) ==
    /\ main[p] # None => locked[p] /\ guard[p] = "main"
    /\ locked[p] /\ worker[p].pc \in {"locked", "aad"} => guard[p] = "worker"
    /\ locked[p] /\ main[p] = None => keys[p].channel = keys[p].session
    /\ locked[p] /\ worker[p].pc = "aad" => worker[p].aad = keys[p].session

GuardInv == \A p \in Peers : GuardOK(p)

InFlightInv ==
    \A m \in net : m.op # "DATA" /\ locked[Other(m.to)] => m.epoch <= Epoch(Other(m.to))

RekeyInv == TypeOK /\ GuardInv /\ InFlightInv /\ EpochGap

(* The inductive invariant behind AgreeWhenOrderly: as long as nothing     *)
(* goes wrong a rekey that p starts goes through four stages, and nobody   *)
(* but p and its partner has a message or an installation under way.       *)
Idle == \A p \in Peers : main[p] = None

Quiet == RekeyTraffic = {} /\ Idle /\ (\A p, q \in Peers : keys[p] = keys[q])

(* The INIT is in transit.                                                 *)
Asked(p) ==
    /\ RekeyTraffic = {[to |-> Other(p), op |-> "INIT", epoch |-> keys[p].epoch, pair |-> sk[p]]}
    /\ Idle
    /\ keys[Other(p)] = keys[p]

(* The partner installs the keys of the INIT.                              *)
Answering(p) ==
    /\ RekeyTraffic = {}
    /\ main[p] = None /\ main[Other(p)] # None
    /\ main[Other(p)].op = "INIT" /\ main[Other(p)].pair = sk[p]
    /\ main[Other(p)].epoch = keys[p].epoch + 1 /\ main[Other(p)].secret = Secret(sk[p])

(* The CONFIRM is in transit.                                              *)
Answered(p) ==
    /\ RekeyTraffic = {[to |-> p, op |-> "CONFIRM", epoch |-> keys[p].epoch + 1, pair |-> sk[p]]}
    /\ Idle
    /\ keys[Other(p)] = KeysOf(keys[p].epoch + 1, Secret(sk[p]))

(* p installs the keys of the CONFIRM.                                     *)
Confirming(p) ==
    /\ RekeyTraffic = {}
    /\ main[Other(p)] = None /\ main[p] # None
    /\ main[p].op = "CONFIRM"
    /\ keys[Other(p)] = KeysOf(main[p].epoch, main[p].secret)

StageInv ==
    orderly =>
        /\ \A p \in Peers : locked[p]
        /\ Quiet \/ \E p \in Peers : Asked(p) \/ Answering(p) \/ Answered(p) \/ Confirming(p)
====
