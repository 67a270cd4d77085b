---------------------------- MODULE LayerProofs ----------------------------
(***************************************************************************)
(* Proofs about what protects the packets of a locked session.             *)
(*                                                                         *)
(* The replay window of lib/layers/seq_check.c, for every window size,     *)
(* counter width and set of paths: the mask always says what was accepted, *)
(* so nothing is accepted twice and nothing is dropped without need.       *)
(*                                                                         *)
(* The rekeying of lib/engine/rekey.c, for any number of rekeys, whoever   *)
(* starts them and whatever the network does: live ends are at most one    *)
(* epoch apart, the crypto worker never decrypts with half-installed keys, *)
(* and ends that take turns agree.                                         *)
(***************************************************************************)
EXTENDS ReplayWindow, Rekey, TLAPS

WindowStates == [last_seq : Seqs, recv_bitmap : SUBSET (0 .. W - 1)]

(***************************************************************************)
(* What seq_check_bitmap accepts, it has not accepted before.              *)
(***************************************************************************)
LEMMA FreshIsNew ==
    ASSUME NEW v \in WindowStates, NEW seen \in [Seqs -> Nat], Exact(v, seen),
           NEW seq \in Seqs, Fresh(v, seq)
    PROVE  seen[seq] = 0
  <1>0. W \in Nat \ {0} /\ MaxSeq \in Nat \ {0}
    BY WindowAssumption
  <1>1. /\ v.last_seq \in Seqs /\ seen[seq] \in Nat /\ seq \in Nat /\ v.last_seq \in Nat
        /\ seen[seq] > 0 => seq # 0 /\ seq <= v.last_seq
        /\ seq <= v.last_seq /\ v.last_seq - seq < W =>
             (seen[seq] > 0 <=> v.last_seq - seq \in v.recv_bitmap)
    BY <1>0 DEF Exact, WindowStates, Seqs
  <1>2. v.recv_bitmap \subseteq Mask(v)
    BY DEF Mask
  <1> QED
    BY <1>0, <1>1, <1>2 DEF Fresh

(***************************************************************************)
(* Accepting a number keeps the window exact.                              *)
(***************************************************************************)
LEMMA RecordExact ==
    ASSUME NEW v \in WindowStates, NEW seen \in [Seqs -> Nat], Exact(v, seen),
           NEW seq \in Seqs, Fresh(v, seq)
    PROVE  /\ Record(v, seq) \in WindowStates
           /\ Exact(Record(v, seq), [seen EXCEPT ![seq] = @ + 1])
  <1> DEFINE after == [seen EXCEPT ![seq] = @ + 1]
  <1>0. /\ W \in Nat \ {0} /\ MaxSeq \in Nat \ {0}
        /\ seq \in 1 .. MaxSeq /\ v.last_seq \in 0 .. MaxSeq
        /\ v.recv_bitmap \subseteq 0 .. W - 1
    BY WindowAssumption DEF WindowStates, Seqs, Fresh
  <1>1. /\ after[seq] > 0
        /\ \A s \in Seqs : s # seq => after[s] = seen[s]
        /\ \A s \in Seqs : seen[s] \in Nat
    OBVIOUS
  <1> HIDE DEF after
  <1>2. CASE v.last_seq = 0
    <2>1. Record(v, seq) = [last_seq |-> seq, recv_bitmap |-> {0}]
      BY <1>2 DEF Record
    <2>2. \A s \in Seqs : seen[s] = 0
      BY <1>0, <1>1, <1>2 DEF Exact, Seqs
    <2>3. Exact([last_seq |-> seq, recv_bitmap |-> {0}], after)
      BY <1>0, <1>1, <2>2 DEF Exact, Seqs
    <2> QED
      BY <1>0, <2>1, <2>3 DEF WindowStates, Seqs, after
  <1>3. CASE v.last_seq # 0 /\ seq > v.last_seq
    <2> DEFINE mask == Shifted(v.recv_bitmap, seq - v.last_seq)
    <2>1. Record(v, seq) = [last_seq |-> seq, recv_bitmap |-> mask]
      BY <1>0, <1>3 DEF Record, Advance
    <2>2. mask \subseteq 0 .. W - 1
      BY <1>0 DEF Shifted
    <2>3. ASSUME NEW s \in Seqs, s <= seq, seq - s < W
          PROVE  after[s] > 0 <=> seq - s \in mask
      <3>0. s \in Nat /\ s <= MaxSeq
        BY <1>0 DEF Seqs
      <3>1. CASE s = seq
        BY <1>0, <1>1, <3>1 DEF Shifted
      <3>2. CASE s # seq
        <4>1. seq - s \in 0 .. W - 1 /\ seq - s # 0
          BY <1>0, <2>3, <3>0, <3>2
        <4>2. seq - s \in mask <=> v.last_seq - s \in v.recv_bitmap
          <5>1. (seq - s) - (seq - v.last_seq) = v.last_seq - s
            BY <1>0, <3>0
          <5> QED
            BY <4>1, <5>1 DEF Shifted
        <4>3. CASE s <= v.last_seq
          <5>1. v.last_seq - s < W
            BY <1>0, <1>3, <2>3, <3>0
          <5> QED
            BY <1>1, <3>2, <4>2, <4>3, <5>1 DEF Exact
        <4>4. CASE ~ (s <= v.last_seq)
          <5>1. seen[s] = 0
            BY <1>1, <4>4 DEF Exact
          <5>2. v.last_seq - s \notin v.recv_bitmap
            BY <1>0, <3>0, <4>4
          <5> QED
            BY <1>1, <3>2, <4>2, <5>1, <5>2
        <4> QED
          BY <4>3, <4>4
      <3> QED
        BY <3>1, <3>2
    <2>4. \A s \in Seqs : after[s] > 0 => s # 0 /\ s <= seq
      BY <1>0, <1>1, <1>3 DEF Exact, Seqs
    <2>5. Exact([last_seq |-> seq, recv_bitmap |-> mask], after)
      BY <1>1, <2>3, <2>4 DEF Exact
    <2> QED
      BY <1>0, <2>1, <2>2, <2>5 DEF WindowStates, Seqs, after
  <1>4. CASE v.last_seq # 0 /\ ~ (seq > v.last_seq)
    <2> DEFINE mask == v.recv_bitmap \cup {v.last_seq - seq}
    <2>1. 0 \in v.recv_bitmap
      BY <1>0, <1>4 DEF Exact, Seqs
    <2>2. Record(v, seq) = [last_seq |-> v.last_seq, recv_bitmap |-> mask]
      <3>1. Mask(v) = v.recv_bitmap
        BY <2>1 DEF Mask
      <3>2. Record(v, seq) = [v EXCEPT !.recv_bitmap = mask]
        BY <1>4, <3>1 DEF Record
      <3> QED
        BY <3>2 DEF WindowStates
    <2>3. v.last_seq - seq \in 0 .. W - 1
      BY <1>0, <1>4 DEF Fresh
    <2>4. ASSUME NEW s \in Seqs, s <= v.last_seq, v.last_seq - s < W
          PROVE  after[s] > 0 <=> v.last_seq - s \in mask
      <3>1. v.last_seq - s = v.last_seq - seq <=> s = seq
        BY <1>0 DEF Seqs
      <3> QED
        BY <1>1, <2>4, <3>1 DEF Exact
    <2>5. \A s \in Seqs : after[s] > 0 => s # 0 /\ s <= v.last_seq
      <3>1. seq # 0 /\ seq <= v.last_seq
        BY <1>0, <1>4
      <3>2. \A s \in Seqs : seen[s] > 0 => s # 0 /\ s <= v.last_seq
        BY DEF Exact
      <3> QED
        BY <1>1, <3>1, <3>2
    <2>6. after[v.last_seq] > 0
      BY <1>0, <1>1, <1>4, SMTT(30) DEF Exact, Seqs
    <2>7. Exact([last_seq |-> v.last_seq, recv_bitmap |-> mask], after)
      BY <2>4, <2>5, <2>6 DEF Exact
    <2> QED
      BY <1>0, <2>2, <2>3, <2>7 DEF WindowStates, Seqs, after
  <1> QED
    BY <1>2, <1>3, <1>4 DEF after

-----------------------------------------------------------------------------
(***************************************************************************)
(* The empty windows of session_init are exact.                            *)
(***************************************************************************)
LEMMA InitWindowInv == WindowInit => WindowInv
  <1> SUFFICES ASSUME WindowInit
               PROVE  WindowInv
    OBVIOUS
  <1>0. W \in Nat \ {0} /\ MaxSeq \in Nat \ {0}
    BY WindowAssumption
  <1>1. WindowTypeOK
    BY <1>0 DEF WindowInit, WindowTypeOK, Empty, Seqs, Windows, Packets
  <1>2. NoReplay
    BY DEF WindowInit, NoReplay
  <1>3. ASSUME NEW w \in Windows
        PROVE  Exact(window[w], count[w])
    BY <1>0 DEF WindowInit, Exact, Empty, Seqs
  <1> QED
    BY <1>1, <1>2, <1>3 DEF WindowInv

(* A packet that is sent, accepted or dropped leaves every window exact.   *)
LEMMA NextWindowInv == WindowInv /\ [WindowNext]_wvars => WindowInv'
  <1> SUFFICES ASSUME WindowInv, [WindowNext]_wvars
               PROVE  WindowInv'
    OBVIOUS
  <1>0. W \in Nat \ {0} /\ MaxSeq \in Nat \ {0}
    BY WindowAssumption
  <1>1. ASSUME NEW path \in Paths, Send(path)
        PROVE  WindowInv'
    <2>1. (tx_seq + 1) % (MaxSeq + 1) \in Seqs
      BY <1>0 DEF WindowInv, WindowTypeOK, Seqs
    <2>2. [seq |-> tx_seq, path |-> path] \in Packets
      BY DEF WindowInv, WindowTypeOK, Packets
    <2> QED
      BY <1>1, <2>1, <2>2 DEF Send, WindowInv, WindowTypeOK, NoReplay
  <1>2. ASSUME NEW p \in sent, Accept(p)
        PROVE  WindowInv'
    <2> DEFINE i == WindowOf(p)
    <2>1. p \in Packets /\ p.seq \in Seqs /\ i \in Windows
      BY PathsAssumption DEF WindowInv, WindowTypeOK, Packets, WindowOf, Windows
    <2>2. /\ window[i] \in WindowStates /\ count[i] \in [Seqs -> Nat]
          /\ Exact(window[i], count[i]) /\ Fresh(window[i], p.seq)
      BY <1>2, <2>1 DEF WindowInv, WindowTypeOK, WindowStates, Accept
    <2> DEFINE after == [count[i] EXCEPT ![p.seq] = @ + 1]
    <2>3. count[i][p.seq] = 0
      BY <2>1, <2>2, FreshIsNew
    <2>4. Record(window[i], p.seq) \in WindowStates /\ Exact(Record(window[i], p.seq), after)
      BY <2>1, <2>2, RecordExact
    <2>5. window' = [window EXCEPT ![i] = Record(window[i], p.seq)]
          /\ count' = [count EXCEPT ![i] = after]
      BY <1>2 DEF Accept
    <2>6. after \in [Seqs -> Nat] /\ \A s \in Seqs : after[s] <= 1
      BY <2>1, <2>2, <2>3 DEF WindowInv, NoReplay
    <2>7. result' \in [win : Windows, seq : Seqs, ok : BOOLEAN]
      BY <1>2, <2>1 DEF Accept
    <2> HIDE DEF i, after
    <2>8. /\ window' \in [Windows -> WindowStates]
          /\ count' \in [Windows -> [Seqs -> Nat]]
          /\ window'[i] = Record(window[i], p.seq) /\ count'[i] = after
          /\ \A w \in Windows : w # i => window'[w] = window[w] /\ count'[w] = count[w]
      BY <2>1, <2>4, <2>5, <2>6 DEF WindowInv, WindowTypeOK, WindowStates
    <2>9. WindowTypeOK'
      BY <1>2, <2>7, <2>8 DEF WindowInv, WindowTypeOK, WindowStates, Accept
    <2>10. NoReplay'
      BY <2>6, <2>8 DEF WindowInv, NoReplay
    <2>11. \A w \in Windows : Exact(window'[w], count'[w])
      BY <2>4, <2>8 DEF WindowInv
    <2> QED
      BY <2>9, <2>10, <2>11 DEF WindowInv
  <1>3. ASSUME NEW p \in sent, Reject(p)
        PROVE  WindowInv'
    <2>1. p.seq \in Seqs /\ WindowOf(p) \in Windows
      BY PathsAssumption DEF WindowInv, WindowTypeOK, Packets, WindowOf, Windows
    <2> QED
      BY <1>3, <2>1 DEF Reject, WindowInv, WindowTypeOK, NoReplay
  <1>4. CASE UNCHANGED wvars
    BY <1>4 DEF wvars, WindowInv, WindowTypeOK, NoReplay
  <1> QED
    BY <1>1, <1>2, <1>3, <1>4 DEF WindowNext

(***************************************************************************)
(* The window is exact in every reachable state: last_seq is the highest   *)
(* number accepted and the mask names the accepted numbers in the window.  *)
(***************************************************************************)
THEOREM WindowExact == WindowSpec => []WindowInv
  BY InitWindowInv, NextWindowInv, PTL DEF WindowSpec

(***************************************************************************)
(* No window of seq_check accepts a sequence number twice, whatever the    *)
(* network repeats, delays or reorders, for every window size.             *)
(***************************************************************************)
THEOREM ReplayFree == WindowSpec => []NoReplay
  <1>1. WindowInv => NoReplay
    BY DEF WindowInv
  <1> QED
    BY <1>1, WindowExact, PTL

(***************************************************************************)
(* seq_check drops a packet only if its number is 0, was accepted before,  *)
(* or is at least the window size below an accepted one.                   *)
(***************************************************************************)
THEOREM DropsSound == WindowSpec => DropsOnlyStale
  <1>1. ASSUME WindowInv, [WindowNext]_wvars, ~ result'.ok, result' # result
        PROVE  LET seen == count[result'.win] IN
               \/ result'.seq = 0
               \/ seen[result'.seq] > 0
               \/ \E s \in Seqs : seen[s] > 0 /\ result'.seq + W <= s
    <2>1. PICK p \in sent : Reject(p)
      BY <1>1 DEF WindowNext, Send, Accept, wvars
    <2> DEFINE i == WindowOf(p)
               v == window[i]
    <2>2. p.seq \in Seqs /\ i \in Windows
      BY <1>1, PathsAssumption DEF WindowInv, WindowTypeOK, Packets, WindowOf, Windows
    <2>3. /\ result'.win = i /\ result'.seq = p.seq
          /\ Exact(v, count[i]) /\ v \in WindowStates /\ ~ Fresh(v, p.seq)
      BY <1>1, <2>1, <2>2 DEF Reject, WindowInv, WindowTypeOK, WindowStates
    <2>4. /\ W \in Nat \ {0} /\ MaxSeq \in Nat \ {0}
          /\ p.seq \in 0 .. MaxSeq /\ v.last_seq \in 0 .. MaxSeq
      BY <2>2, <2>3, WindowAssumption DEF WindowStates, Seqs
    <2> HIDE DEF i, v
    <2>5. CASE p.seq # 0
      <3>1. /\ v.last_seq # 0 /\ p.seq <= v.last_seq
            /\ v.last_seq - p.seq >= W \/ v.last_seq - p.seq \in Mask(v)
        BY <2>3, <2>4, <2>5 DEF Fresh
      <3>2. v.last_seq \in Seqs /\ count[i][v.last_seq] > 0
        BY <2>3, <2>4, <3>1 DEF Exact, Seqs
      <3>3. CASE v.last_seq - p.seq >= W
        <4>1. p.seq + W <= v.last_seq
          BY <2>4, <3>3
        <4> QED
          BY <2>3, <3>2, <4>1
      <3>4. CASE ~ (v.last_seq - p.seq >= W)
        <4>1. 0 \in v.recv_bitmap
          BY <2>3, <2>4, <3>1, <3>2 DEF Exact, Seqs
        <4>2. v.last_seq - p.seq \in v.recv_bitmap
          BY <3>1, <3>4, <4>1 DEF Mask
        <4>3. count[i][p.seq] > 0
          BY <2>2, <2>3, <2>4, <3>1, <3>4, <4>2 DEF Exact
        <4> QED
          BY <2>3, <4>3
      <3> QED
        BY <3>3, <3>4
    <2> QED
      BY <2>3, <2>5
  <1>2. WindowInv /\ [WindowNext]_wvars =>
          [~ result'.ok /\ result' # result =>
             LET seen == count[result'.win] IN
             \/ result'.seq = 0
             \/ seen[result'.seq] > 0
             \/ \E s \in Seqs : seen[s] > 0 /\ result'.seq + W <= s]_wvars
    BY <1>1
  <1> QED
    BY <1>2, WindowExact, PTL DEF WindowSpec, DropsOnlyStale

(***************************************************************************)
(* The window that seq_accept keeps stays a window of W bits below the     *)
(* highest number, for every width and every order of packets.             *)
(***************************************************************************)
THEOREM WindowTypes == WindowSpec => []WindowTypeOK
  BY WindowExact, PTL DEF WindowInv

-----------------------------------------------------------------------------
(* A session has two ends.                                                 *)
LEMMA OtherEnd ==
    ASSUME NEW p \in Peers
    PROVE  /\ Other(p) \in Peers /\ Other(p) # p
           /\ \A q \in Peers : q # p => q = Other(p)
           /\ Other(Other(p)) = p
<1>1. PICK a \in Peers, b \in Peers : a # b /\ Peers = {a, b}
  BY RekeyAssumption
<1>2. Other(p) \in Peers /\ Other(p) # p
  BY <1>1 DEF Other
<1>3. Other(Other(p)) \in Peers /\ Other(Other(p)) # Other(p)
  BY <1>1, <1>2 DEF Other
<1> QED
  BY <1>1, <1>2, <1>3

(* Every secret that rekey_handle can agree on is one of Secrets.          *)
LEMMA AgreedType ==
    ASSUME NEW m \in Messages, m.op # "DATA"
    PROVE  Agreed(m) \in Secrets /\ m.pair \in 0 .. MaxRekeys /\ m.to \in Peers
           /\ m.epoch \in Nat /\ m.op \in {"INIT", "CONFIRM"}
BY DEF Agreed, Secrets, Messages, Secret

(* What session_reset leaves is a state of no keys.                        *)
LEMMA WipedType == Wiped \in Secrets /\ NoKeys \in [epoch : Nat, session : Secrets, channel : Secrets]
BY DEF Secrets, NoKeys, Wiped

(* session_reset leaves every field in its range.                          *)
LEMMA ResetType ==
    ASSUME TypeOK, NEW p \in Peers, Reset(p)
    PROVE  /\ locked' \in [Peers -> BOOLEAN]
           /\ keys' \in [Peers -> [epoch : Nat, session : Secrets, channel : Secrets]]
           /\ sk' \in [Peers -> 0 .. MaxRekeys]
           /\ guard' \in [Peers -> {"free", "main", "worker"}]
           /\ main' \in [Peers -> {None} \cup Installing]
BY RekeyAssumption, WipedType DEF TypeOK, Reset

(* Type correctness: each step keeps the keys, the lock, the messages and  *)
(* the steps of both threads in their ranges.                              *)
LEMMA TypeStep ==
    ASSUME TypeOK, [Next]_vars
    PROVE  TypeOK'
<1> USE RekeyAssumption
<1>1. ASSUME NEW p \in Starters, Initiate(p) PROVE TypeOK'
  <2>1. p \in Peers /\ Other(p) \in Peers /\ rekeys + 1 \in 0 .. MaxRekeys
    BY <1>1, OtherEnd DEF Initiate, TypeOK
  <2>2. keys[p].epoch \in Nat
    BY <2>1 DEF TypeOK
  <2>3. net' \subseteq Messages
    BY <1>1, <2>1, <2>2 DEF Initiate, TypeOK, Messages
  <2>4. orderly' \in BOOLEAN
    BY <1>1 DEF Initiate
  <2> QED
    BY <1>1, <2>1, <2>3, <2>4 DEF Initiate, TypeOK
<1>2. ASSUME NEW p \in Talkers, SendData(p) PROVE TypeOK'
  <2>1. p \in Peers /\ Other(p) \in Peers /\ keys[p].session \in Secrets
    BY OtherEnd DEF TypeOK
  <2>2. net' \subseteq Messages
    BY <1>2, <2>1 DEF SendData, TypeOK, Messages
  <2> QED
    BY <1>2, <2>2 DEF SendData, TypeOK
<1>3. ASSUME NEW p \in Peers, InstallSession(p) PROVE TypeOK'
  <2>1. main[p] \in Installing /\ main[p].secret \in Secrets
    BY <1>3 DEF InstallSession, TypeOK, None, Installing
  <2>2. main' \in [Peers -> {None} \cup Installing]
    <3>1. [main[p] EXCEPT !.pc = "session"] \in Installing
      BY <2>1 DEF Installing
    <3> QED
      BY <1>3, <3>1 DEF InstallSession, TypeOK
  <2>3. keys' \in [Peers -> [epoch : Nat, session : Secrets, channel : Secrets]]
    BY <1>3, <2>1 DEF InstallSession, TypeOK
  <2> QED
    BY <1>3, <2>2, <2>3 DEF InstallSession, TypeOK
<1>4. ASSUME NEW p \in Peers, FinishRekey(p) PROVE TypeOK'
  <2>1. main[p] \in Installing /\ Other(p) \in Peers
    BY <1>4, OtherEnd DEF FinishRekey, TypeOK, None
  <2>2. CASE main[p].op = "INIT" /\ Unreliable /\ Reset(p) /\ orderly' = FALSE
             /\ UNCHANGED <<net, rekeys, worker>>
    BY <2>2, ResetType, Zenon DEF TypeOK
  <2>3. CASE /\ keys' = [keys EXCEPT ![p] = KeysOf(main[p].epoch, main[p].secret)]
             /\ Unlock(p)
             /\ main' = [main EXCEPT ![p] = None]
             /\ sk' = IF main[p].op = "CONFIRM" THEN [sk EXCEPT ![p] = 0] ELSE sk
             /\ net' = IF main[p].op = "INIT" THEN net \cup {Confirmation(p)} ELSE net
             /\ UNCHANGED <<locked, orderly, rekeys, worker>>
    <3>1. Confirmation(p) \in Messages
      BY <2>1 DEF Confirmation, Messages, Installing
    <3>2. KeysOf(main[p].epoch, main[p].secret) \in [epoch : Nat, session : Secrets, channel : Secrets]
      BY <2>1 DEF KeysOf, Installing
    <3>3. guard' \in [Peers -> {"free", "main", "worker"}]
      BY <2>3 DEF Unlock, TypeOK
    <3>4. sk' \in [Peers -> 0 .. MaxRekeys]
      BY <2>3 DEF TypeOK
    <3> QED
      BY <2>3, <3>1, <3>2, <3>3, <3>4 DEF TypeOK
  <2> QED
    BY <1>4, <2>2, <2>3, Zenon DEF FinishRekey
<1>5. ASSUME NEW p \in Peers, Worker(p) PROVE TypeOK'
  <2>1. worker[p] \in Jobs
    BY <1>5 DEF Worker, WorkerLock, WorkerAad, WorkerDecrypt, TypeOK, None
  <2>2. CASE WorkerLock(p)
    <3>1. [worker[p] EXCEPT !.pc = "locked"] \in Jobs
      BY <2>1, <2>2 DEF WorkerLock, Jobs
    <3> QED
      BY <2>2, <3>1 DEF WorkerLock, TypeOK
  <2>3. CASE WorkerAad(p)
    <3>1. [pc |-> "aad", key |-> worker[p].key, aad |-> keys[p].channel] \in Jobs
      BY <2>1 DEF Jobs, TypeOK
    <3> QED
      BY <2>3, <3>1 DEF WorkerAad, Unlock, TypeOK
  <2>4. CASE WorkerDecrypt(p)
    BY <2>4 DEF WorkerDecrypt, Unlock, TypeOK
  <2> QED
    BY <1>5, <2>2, <2>3, <2>4 DEF Worker
<1>6. ASSUME NEW m \in net, BeginRekey(m) PROVE TypeOK'
  <2>1. m \in Messages /\ m.op # "DATA"
    BY <1>6 DEF BeginRekey, InitFits, ConfirmFits, TypeOK
  <2>2. /\ m.to \in Peers /\ Agreed(m) \in Secrets
        /\ m.pair \in 0 .. MaxRekeys /\ m.op \in {"INIT", "CONFIRM"}
    BY <2>1, AgreedType
  <2>3. keys[m.to].epoch + 1 \in Nat
    BY <2>2 DEF TypeOK
  <2>4. [pc |-> "wiped", op |-> m.op, pair |-> m.pair, epoch |-> keys[m.to].epoch + 1,
         secret |-> Agreed(m)] \in Installing
    BY <2>2, <2>3 DEF Installing
  <2>5. net' \subseteq net /\ orderly' \in BOOLEAN
    BY <1>6 DEF BeginRekey, Taken
  <2> QED
    BY <1>6, <2>2, <2>4, <2>5, WipedType DEF BeginRekey, TakeGuard, TypeOK
<1>7. ASSUME NEW m \in net, Misfit(m) PROVE TypeOK'
  <2>1. m \in Messages /\ m.to \in Peers
    BY <1>7 DEF TypeOK, Messages
  <2>2. net' \subseteq net /\ orderly' \in BOOLEAN
    BY <1>7 DEF Misfit, Taken
  <2>3. Reset(m.to) /\ UNCHANGED <<rekeys, worker>>
    BY <1>7 DEF Misfit
  <2> QED
    BY <2>1, <2>2, <2>3, ResetType DEF TypeOK
<1>8. ASSUME NEW m \in net, Refuse(m) \/ Lose(m) PROVE TypeOK'
  BY <1>8, Zenon DEF Refuse, Lose, TypeOK
<1>9. ASSUME NEW m \in net, Enqueue(m) PROVE TypeOK'
  <2>1. m.to \in Peers /\ m.key \in Secrets
    BY <1>9 DEF Enqueue, TypeOK, Messages
  <2>2. [pc |-> "queued", key |-> m.key] \in Jobs
    BY <2>1 DEF Jobs
  <2> QED
    BY <1>9, <2>1, <2>2 DEF Enqueue, TypeOK
<1>10. CASE UNCHANGED vars
  BY <1>10, SMTT(30) DEF vars, TypeOK
<1> QED
  BY <1>1, <1>2, <1>3, <1>4, <1>5, <1>6, <1>7, <1>8, <1>9, <1>10 DEF Next, Engine, Handle

(* keys_guard keeps the engine's thread and the crypto worker apart: each  *)
(* step keeps what either of them relies on while it holds the lock.       *)
LEMMA GuardStep ==
    ASSUME TypeOK, GuardInv, [Next]_vars
    PROVE  GuardInv'
<1> SUFFICES ASSUME NEW r \in Peers PROVE GuardOK(r)'
  BY DEF GuardInv
<1>0. GuardOK(r) /\ \A p \in Peers : GuardOK(p)
  BY DEF GuardInv
<1>1. ASSUME NEW p \in Peers, InstallSession(p) PROVE GuardOK(r)'
  <2>1. main[p] \in Installing /\ main[p] # None
    BY <1>1 DEF InstallSession, TypeOK, None, Installing
  <2>2. main'[r] = None <=> main[r] = None
    BY <1>1, <2>1 DEF InstallSession, TypeOK, None, Installing
  <2>3. r # p => keys'[r] = keys[r]
    BY <1>1 DEF InstallSession, TypeOK
  <2>4. locked[p] /\ guard[p] = "main"
    BY <1>0, <2>1 DEF GuardOK
  <2>5. UNCHANGED <<locked, guard, worker>>
    BY <1>1 DEF InstallSession
  <2> QED
    BY <1>0, <2>1, <2>2, <2>3, <2>4, <2>5 DEF GuardOK
<1>2. ASSUME NEW p \in Peers, FinishRekey(p) PROVE GuardOK(r)'
  <2>1. main[p] # None
    BY <1>2 DEF FinishRekey, None
  <2>2. locked[p] /\ guard[p] = "main" /\ worker[p].pc \notin {"locked", "aad"}
    BY <1>0, <2>1 DEF GuardOK
  <2>3. worker' = worker
    BY <1>2 DEF FinishRekey
  <2>4. CASE r # p
    <3>1. /\ locked'[r] = locked[r] /\ keys'[r] = keys[r]
          /\ guard'[r] = guard[r] /\ main'[r] = main[r]
      BY <1>2, <2>4 DEF FinishRekey, Reset, Unlock, TypeOK
    <3> QED
      BY <1>0, <2>3, <3>1 DEF GuardOK
  <2>5. CASE r = p
    <3>1. main'[r] = None
      BY <1>2, <2>5 DEF FinishRekey, Reset, TypeOK
    <3>2. keys'[r].channel = keys'[r].session
      BY <1>2, <2>5 DEF FinishRekey, Reset, TypeOK, KeysOf, NoKeys
    <3> QED
      BY <2>2, <2>3, <2>5, <3>1, <3>2 DEF GuardOK
  <2> QED
    BY <2>4, <2>5
<1>3. ASSUME NEW p \in Peers, Worker(p) PROVE GuardOK(r)'
  <2>1. UNCHANGED <<locked, keys, main>>
    BY <1>3 DEF Worker, WorkerLock, WorkerAad, WorkerDecrypt
  <2>2. CASE r # p
    <3>1. guard'[r] = guard[r] /\ worker'[r] = worker[r]
      BY <1>3, <2>2 DEF Worker, WorkerLock, WorkerAad, WorkerDecrypt, Unlock, TypeOK
    <3> QED
      BY <1>0, <2>1, <3>1 DEF GuardOK
  <2>3. CASE r = p /\ WorkerLock(p)
    <3>1. worker[p] \in Jobs
      BY <2>3 DEF WorkerLock, TypeOK, None
    <3>2. worker'[r].pc = "locked" /\ guard'[r] = "worker" /\ guard[r] = "free"
      BY <2>3, <3>1 DEF WorkerLock, TypeOK, Jobs
    <3> QED
      BY <1>0, <2>1, <3>2 DEF GuardOK
  <2>4. CASE r = p /\ WorkerAad(p) /\ locked[p]
    <3>1. worker'[r].pc = "aad" /\ worker'[r].aad = keys[r].channel /\ guard' = guard
      BY <2>4 DEF WorkerAad, TypeOK
    <3>2. guard[r] = "worker"
      BY <1>0, <2>4 DEF GuardOK, WorkerAad
    <3> QED
      BY <1>0, <2>1, <3>1, <3>2 DEF GuardOK
  <2>5. CASE r = p /\ (WorkerDecrypt(p) \/ (WorkerAad(p) /\ ~ locked[p]))
    <3>1. worker'[r].pc = "none"
      BY <2>5 DEF WorkerAad, WorkerDecrypt, TypeOK, None
    <3>2. locked[r] => guard[r] = "worker"
      BY <1>0, <2>5 DEF WorkerAad, WorkerDecrypt, GuardOK
    <3>3. main[r] = None
      BY <1>0, <3>2 DEF GuardOK
    <3> QED
      BY <1>0, <2>1, <3>1, <3>3 DEF GuardOK
  <2> QED
    BY <1>3, <2>2, <2>3, <2>4, <2>5 DEF Worker
<1>4. ASSUME NEW m \in net, BeginRekey(m) PROVE GuardOK(r)'
  <2>1. m.to \in Peers
    BY <1>4 DEF TypeOK, Messages
  <2>2. UNCHANGED <<locked, worker>> /\ locked[m.to] /\ guard[m.to] = "free"
    BY <1>4 DEF BeginRekey, TakeGuard
  <2>3. worker[m.to].pc \notin {"locked", "aad"}
    BY <1>0, <2>1, <2>2 DEF GuardOK
  <2>4. CASE r = m.to
    <3>1. guard'[r] = "main" /\ main'[r].pc = "wiped"
      BY <1>4, <2>4 DEF BeginRekey, TakeGuard, TypeOK
    <3>2. main'[r] # None
      BY <3>1 DEF None
    <3> QED
      BY <2>2, <2>3, <2>4, <3>1, <3>2 DEF GuardOK
  <2>5. CASE r # m.to
    <3>1. keys'[r] = keys[r] /\ guard'[r] = guard[r] /\ main'[r] = main[r]
      BY <1>4, <2>1, <2>5 DEF BeginRekey, TakeGuard, TypeOK
    <3> QED
      BY <1>0, <2>2, <3>1, SMTT(30) DEF GuardOK
  <2> QED
    BY <2>4, <2>5
<1>5. ASSUME NEW m \in net, Misfit(m) PROVE GuardOK(r)'
  <2>1. m.to \in Peers /\ Reset(m.to) /\ worker' = worker
    BY <1>5 DEF TypeOK, Messages, Misfit
  <2>2. CASE r = m.to
    BY <2>1, <2>2 DEF Reset, TypeOK, GuardOK
  <2>3. CASE r # m.to
    BY <1>0, <2>1, <2>3, SMTT(30) DEF Reset, TypeOK, GuardOK
  <2> QED
    BY <2>2, <2>3
<1>6. ASSUME NEW m \in net, Enqueue(m) PROVE GuardOK(r)'
  <2>1. m.to \in Peers
    BY <1>6 DEF TypeOK, Messages
  <2>2. worker'[r] = worker[r] \/ worker'[r].pc = "queued"
    BY <1>6, <2>1 DEF Enqueue, TypeOK
  <2> QED
    BY <1>0, <1>6, <2>2, ZenonT(30) DEF Enqueue, GuardOK
<1>7. CASE UNCHANGED <<locked, keys, guard, main, worker>>
  BY <1>0, <1>7 DEF GuardOK
<1> QED
  BY <1>1, <1>2, <1>3, <1>4, <1>5, <1>6, <1>7, Zenon
     DEF Next, Engine, Handle, Initiate, SendData, Refuse, Lose, vars

(* A step leaves the epoch of a live session alone, unless it begins to    *)
(* install the keys of a message with the right epoch (rekey_handle).      *)
LEMMA EpochStep ==
    ASSUME TypeOK, [Next]_vars, NEW r \in Peers, locked'[r]
    PROVE  /\ locked[r] /\ Epoch(r) \in Nat
           /\ \/ Epoch(r)' = Epoch(r)
              \/ \E m \in net : BeginRekey(m) /\ m.to = r /\ Epoch(r)' = Epoch(r) + 1
<1>0. Epoch(r) \in Nat
  BY DEF TypeOK, Epoch, Installing
<1>1. ASSUME NEW p \in Peers, InstallSession(p) PROVE locked[r] /\ Epoch(r)' = Epoch(r)
  <2>1. main[p] \in Installing /\ main[p] # None
    BY <1>1 DEF InstallSession, TypeOK, None, Installing
  <2>2. /\ main'[r] = None <=> main[r] = None
        /\ main[r] # None => main'[r].epoch = main[r].epoch
    BY <1>1, <2>1 DEF InstallSession, TypeOK, None, Installing
  <2>3. r # p => keys'[r] = keys[r]
    BY <1>1 DEF InstallSession, TypeOK
  <2> QED
    BY <1>1, <2>1, <2>2, <2>3 DEF Epoch, InstallSession
<1>2. ASSUME NEW p \in Peers, FinishRekey(p) PROVE locked[r] /\ Epoch(r)' = Epoch(r)
  <2>1. main[p] # None
    BY <1>2 DEF FinishRekey, None
  <2>2. CASE r # p
    BY <1>2, <2>2 DEF FinishRekey, Reset, TypeOK, Epoch
  <2>3. CASE r = p
    <3>1. ~ Reset(p)
      BY <2>3 DEF Reset, TypeOK
    <3>2. keys'[r].epoch = main[r].epoch /\ main'[r] = None /\ locked' = locked
      BY <1>2, <2>3, <3>1 DEF FinishRekey, TypeOK, KeysOf
    <3> QED
      BY <2>1, <2>3, <3>2 DEF Epoch
  <2> QED
    BY <2>2, <2>3, SMTT(30)
<1>3. ASSUME NEW m \in net, BeginRekey(m)
      PROVE  locked[r] /\ Epoch(r)' = IF m.to = r THEN Epoch(r) + 1 ELSE Epoch(r)
  <2>1. m.to \in Peers
    BY <1>3 DEF TypeOK, Messages
  <2>2. CASE m.to = r
    <3>1. main[r] = None /\ main'[r].epoch = keys[r].epoch + 1 /\ main'[r].pc = "wiped"
      BY <1>3, <2>2 DEF BeginRekey, TypeOK
    <3>2. main'[r] # None
      BY <3>1 DEF None
    <3> QED
      BY <1>3, <2>2, <3>1, <3>2 DEF BeginRekey, Epoch
  <2>3. CASE m.to # r
    BY <1>3, <2>1, <2>3, SMTT(30) DEF BeginRekey, TypeOK, Epoch
  <2> QED
    BY <2>2, <2>3
<1>4. ASSUME NEW m \in net, Misfit(m) PROVE locked[r] /\ Epoch(r)' = Epoch(r)
  <2>1. m.to \in Peers /\ Reset(m.to)
    BY <1>4 DEF TypeOK, Messages, Misfit
  <2>2. m.to # r
    BY <2>1 DEF Reset, TypeOK
  <2> QED
    BY <2>1, <2>2 DEF Reset, TypeOK, Epoch
<1>5. CASE UNCHANGED <<locked, keys, main>>
  BY <1>0, <1>5 DEF Epoch
<1> QED
  BY <1>0, <1>1, <1>2, <1>3, <1>4, <1>5, Zenon
     DEF Next, Engine, Handle, Worker, Initiate, SendData, Refuse, Lose, Enqueue,
         WorkerLock, WorkerAad, WorkerDecrypt, vars

(* A rekey message that a step adds has the epoch that its sender has once *)
(* the step is done (rekey_initiate and the end of rekey_handle).          *)
LEMMA SentStep ==
    ASSUME TypeOK, [Next]_vars, NEW m \in net', m \notin net, m.op # "DATA",
           locked'[Other(m.to)]
    PROVE  m.epoch = Epoch(Other(m.to))'
<1>1. ASSUME NEW p \in Starters, Initiate(p) PROVE m.epoch = Epoch(Other(m.to))'
  <2>0. /\ m = [to |-> Other(p), op |-> "INIT", epoch |-> keys[p].epoch, pair |-> rekeys + 1]
        /\ main[p] = None
    BY <1>1, Zenon DEF Initiate
  <2>1. m.to = Other(p) /\ m.epoch = keys[p].epoch
    BY <2>0
  <2>2. Other(m.to) = p
    BY <2>1, OtherEnd, RekeyAssumption
  <2> QED
    BY <1>1, <2>1, <2>2 DEF Initiate, Epoch
<1>2. ASSUME NEW p \in Talkers, SendData(p) PROVE FALSE
  BY <1>2 DEF SendData
<1>3. ASSUME NEW p \in Peers, FinishRekey(p) PROVE m.epoch = Epoch(Other(m.to))'
  <2>1. m = Confirmation(p) /\ keys' = [keys EXCEPT ![p] = KeysOf(main[p].epoch, main[p].secret)]
        /\ main' = [main EXCEPT ![p] = None]
    BY <1>3 DEF FinishRekey
  <2>2. m.to = Other(p) /\ m.epoch = main[p].epoch
    BY <2>1 DEF Confirmation
  <2>3. Other(m.to) = p
    BY <2>2, OtherEnd
  <2>4. Epoch(p)' = main[p].epoch
    BY <2>1 DEF Epoch, TypeOK, KeysOf
  <2> QED
    BY <2>2, <2>3, <2>4, SMTT(30)
<1>4. net' \subseteq net \/ (\E p \in Starters : Initiate(p)) \/ (\E p \in Talkers : SendData(p))
      \/ (\E p \in Peers : FinishRekey(p))
  BY Zenon DEF Next, Engine, Handle, Worker, BeginRekey, Misfit, Taken, Refuse, Lose, Enqueue,
         InstallSession, WorkerLock, WorkerAad, WorkerDecrypt, vars
<1> QED
  BY <1>1, <1>2, <1>3, <1>4

(* Messages stay behind their live senders and live ends within one epoch  *)
(* of each other.                                                          *)
LEMMA GapStep ==
    ASSUME TypeOK, TypeOK', InFlightInv, EpochGap, [Next]_vars
    PROVE  InFlightInv' /\ EpochGap'
<1>1. InFlightInv'
  <2> SUFFICES ASSUME NEW m \in net', m.op # "DATA", locked'[Other(m.to)]
               PROVE  m.epoch <= Epoch(Other(m.to))'
    BY DEF InFlightInv
  <2>1. m.to \in Peers /\ m.epoch \in Nat
    BY DEF TypeOK, Messages
  <2>2. Other(m.to) \in Peers
    BY <2>1, OtherEnd
  <2>3. locked[Other(m.to)] /\ Epoch(Other(m.to)) \in Nat
        /\ Epoch(Other(m.to))' \in {Epoch(Other(m.to)), Epoch(Other(m.to)) + 1}
    BY <2>2, EpochStep
  <2>4. CASE m \in net
    <3>1. m.epoch <= Epoch(Other(m.to))
      BY <2>3, <2>4 DEF InFlightInv
    <3> QED
      BY <2>1, <2>3, <3>1
  <2>5. CASE m \notin net
    <3>1. m.epoch = Epoch(Other(m.to))'
      BY <2>5, SentStep
    <3> QED
      BY <2>1, <3>1
  <2> QED
    BY <2>4, <2>5
<1>2. EpochGap'
  <2> SUFFICES ASSUME NEW p \in Peers, NEW q \in Peers, locked'[p], locked'[q]
               PROVE  Epoch(p)' <= Epoch(q)' + 1
    BY DEF EpochGap
  <2>1. locked[p] /\ locked[q] /\ Epoch(p) \in Nat /\ Epoch(q) \in Nat
        /\ Epoch(q)' \in {Epoch(q), Epoch(q) + 1}
    BY EpochStep
  <2>2. Epoch(p) <= Epoch(q) + 1
    BY <2>1 DEF EpochGap
  <2>3. CASE Epoch(p)' = Epoch(p)
    BY <2>1, <2>2, <2>3
  <2>4. ASSUME NEW m \in net, BeginRekey(m), m.to = p, Epoch(p)' = Epoch(p) + 1
        PROVE  Epoch(p)' <= Epoch(q)' + 1
    <3>1. m.op # "DATA" /\ m.epoch \in {Epoch(p), Epoch(p) + 1}
      BY <2>4 DEF BeginRekey, InitFits, ConfirmFits, Epoch
    <3>2. CASE p = q
      BY <2>1, <3>2
    <3>3. CASE p # q
      <4>1. q = Other(m.to)
        BY <2>4, <3>3, OtherEnd
      <4>2. m.epoch <= Epoch(q)
        BY <2>1, <3>1, <4>1 DEF InFlightInv
      <4> QED
        BY <2>1, <2>4, <3>1, <4>2
    <3> QED
      BY <3>2, <3>3
  <2> QED
    BY <2>3, <2>4, EpochStep
<1> QED
  BY <1>1, <1>2

(* The inductive invariant holds in every reachable state.                 *)
LEMMA RekeyInvariant == Spec => []RekeyInv
<1>1. Init => RekeyInv
  <2> SUFFICES ASSUME Init PROVE RekeyInv
    OBVIOUS
  <2>1. Secret(0) \in Secrets
    BY RekeyAssumption DEF Secrets
  <2>2. KeysOf(0, Secret(0)) \in [epoch : Nat, session : Secrets, channel : Secrets]
    BY <2>1 DEF KeysOf
  <2>3. TypeOK
    BY <2>2, RekeyAssumption DEF Init, TypeOK
  <2>4. GuardInv
    BY DEF Init, GuardInv, GuardOK, KeysOf, None
  <2>5. InFlightInv /\ EpochGap
    BY DEF Init, InFlightInv, EpochGap, Epoch, KeysOf
  <2> QED
    BY <2>3, <2>4, <2>5 DEF RekeyInv
<1>2. RekeyInv /\ [Next]_vars => RekeyInv'
  BY TypeStep, GuardStep, GapStep DEF RekeyInv
<1> QED
  BY <1>1, <1>2, PTL DEF Spec

(* Type correctness of the rekey protocol and its two threads.             *)
THEOREM TypesKept == Spec => []TypeOK
BY RekeyInvariant, PTL DEF RekeyInv

(* Two live ends are never more than one rekey apart, for any number of    *)
(* rekeys, whoever starts them and however messages are lost, repeated or  *)
(* reordered: what rekey_handle's epoch test is for.                       *)
THEOREM NeverFarApart == Spec => []EpochGap
BY RekeyInvariant, PTL DEF RekeyInv

(* The crypto worker never mixes the keys of two epochs, nor decrypts with *)
(* wiped ones while the session is live: what session_lock_keys is for.    *)
THEOREM KeysReadWhole == Spec => []WholeKeys
<1>1. RekeyInv => WholeKeys
  <2> SUFFICES ASSUME RekeyInv, NEW p \in Peers, locked[p], worker[p].pc = "aad"
               PROVE  worker[p].aad = keys[p].session /\ keys[p].channel = keys[p].session
    BY SMTT(30) DEF WholeKeys
  <2>1. GuardOK(p)
    BY SMTT(30) DEF RekeyInv, GuardInv
  <2> QED
    BY <2>1 DEF GuardOK
<1> QED
  BY <1>1, RekeyInvariant, PTL

(* A step that touches neither a rekey message nor a key nor the engine's  *)
(* thread leaves the stage of a rekey as it is.                            *)
LEMMA SameStage ==
    ASSUME StageInv, UNCHANGED <<RekeyTraffic, main, keys, sk, locked>>, orderly' => orderly
    PROVE  StageInv'
BY ZenonT(30) DEF StageInv, Quiet, Idle, Asked, Answering, Answered, Confirming

(* rekey_initiate in an orderly run starts from agreeing, idle ends.       *)
LEMMA InitiateStage ==
    ASSUME TypeOK, StageInv, NEW p \in Peers, Initiate(p)
    PROVE  StageInv'
<1> SUFFICES ASSUME orderly' PROVE StageInv'
  BY SMTT(30) DEF StageInv
<1>1. orderly /\ RekeyTraffic = {} /\ Idle /\ (\A r, q \in Peers : keys[r] = keys[q])
  BY Zenon DEF Initiate, UnderWay, Idle
<1> DEFINE ask == [to |-> Other(p), op |-> "INIT", epoch |-> keys[p].epoch, pair |-> rekeys + 1]
<1>2. net' = net \cup {ask} /\ ask.op = "INIT" /\ UNCHANGED <<locked, keys, main>>
  BY DEF Initiate
<1>3. sk'[p] = rekeys + 1
  BY DEF Initiate, TypeOK
<1>4. RekeyTraffic' = {ask}
  <2> HIDE DEF ask
  <2> QED
    BY <1>1, <1>2 DEF RekeyTraffic
<1>5. Asked(p)'
  <2>1. Other(p)' = Other(p) /\ Other(p) \in Peers
    BY OtherEnd, SMTT(30) DEF Other
  <2> QED
    BY <1>1, <1>2, <1>3, <1>4, <2>1 DEF Asked, Idle
<1> QED
  BY <1>1, <1>2, <1>5, SMTT(30) DEF StageInv

(* The message taken is the only one, and fits: rekey_handle begins to     *)
(* install the secret that both ends can compute.                          *)
LEMMA BeginStage ==
    ASSUME TypeOK, StageInv, NEW m \in net, BeginRekey(m)
    PROVE  StageInv'
<1> SUFFICES ASSUME orderly' PROVE StageInv'
  BY DEF StageInv
<1>1. orderly /\ net' = net \ {m} /\ m.op # "DATA" /\ m \in RekeyTraffic
  BY Zenon DEF BeginRekey, Taken, InitFits, ConfirmFits, RekeyTraffic
<1>2. RekeyTraffic' = RekeyTraffic \ {m}
  BY <1>1 DEF RekeyTraffic
<1>3. m.to \in Peers /\ (\A q \in Peers : Other(q)' = Other(q))
  BY DEF TypeOK, Messages, Other
<1> DEFINE inst == [pc |-> "wiped", op |-> m.op, pair |-> m.pair,
                    epoch |-> keys[m.to].epoch + 1, secret |-> Agreed(m)]
<1>4. /\ main'[m.to] = inst /\ UNCHANGED <<locked, sk>>
      /\ \A q \in Peers : q # m.to => main'[q] = main[q] /\ keys'[q] = keys[q]
  BY <1>3, SMTT(30) DEF BeginRekey, TypeOK
<1>5. main'[m.to] # None /\ (\A q \in Peers : locked'[q])
  <2>1. main'[m.to].pc = "wiped"
    BY <1>4
  <2>2. \A q \in Peers : locked[q]
    BY <1>1 DEF StageInv
  <2> QED
    BY <1>4, <2>1, <2>2 DEF None
<1>t. /\ inst.op = m.op /\ inst.pair = m.pair /\ inst.epoch = keys[m.to].epoch + 1
      /\ inst.secret = Agreed(m)
  OBVIOUS
<1> HIDE DEF inst
<1>6. PICK p \in Peers : Asked(p) \/ Answered(p)
  BY <1>1 DEF StageInv, Quiet, Answering, Confirming
<1>7. Other(p) \in Peers /\ Other(p) # p /\ Other(Other(p)) = p
  BY OtherEnd
<1>8. CASE Asked(p)
  <2>1. /\ m = [to |-> Other(p), op |-> "INIT", epoch |-> keys[p].epoch, pair |-> sk[p]]
        /\ RekeyTraffic' = {} /\ Idle /\ keys[Other(p)] = keys[p]
    BY <1>1, <1>2, <1>8 DEF Asked
  <2>2. m.to = Other(p) /\ m.op = "INIT" /\ m.pair = sk[p] /\ Agreed(m) = Secret(sk[p])
    BY <2>1, SMTT(30) DEF Agreed
  <2>3. main'[p] = None /\ keys'[p] = keys[p]
    BY <1>4, <1>7, <2>1, <2>2, SMTT(30) DEF Idle
  <2>4. /\ main'[Other(p)] # None /\ main'[Other(p)].op = "INIT" /\ main'[Other(p)].pair = sk[p]
        /\ main'[Other(p)].epoch = keys[p].epoch + 1 /\ main'[Other(p)].secret = Secret(sk[p])
    BY <1>4, <1>5, <1>t, <2>1, <2>2, SMTT(30)
  <2>5. Other(p)' = Other(p) /\ sk' = sk
    BY <1>3, <1>4
  <2>6. Answering(p)'
    BY <2>1, <2>3, <2>4, <2>5 DEF Answering
  <2> QED
    BY <1>5, <2>6, ZenonT(30) DEF StageInv
<1>9. CASE Answered(p)
  <2>1. /\ m = [to |-> p, op |-> "CONFIRM", epoch |-> keys[p].epoch + 1, pair |-> sk[p]]
        /\ RekeyTraffic' = {} /\ Idle
        /\ keys[Other(p)] = KeysOf(keys[p].epoch + 1, Secret(sk[p]))
    BY <1>1, <1>2, <1>9, ZenonT(30) DEF Answered
  <2>2. m.to = p /\ m.op = "CONFIRM" /\ m.pair = sk[p] /\ Agreed(m) = Secret(sk[p])
    BY <2>1, SMTT(30) DEF Agreed
  <2>3. main'[Other(p)] = None /\ keys'[Other(p)] = keys[Other(p)]
    BY <1>4, <1>7, <2>1, <2>2 DEF Idle
  <2>4. /\ main'[p].op = "CONFIRM" /\ main'[p] # None
        /\ main'[p].epoch = keys[p].epoch + 1 /\ main'[p].secret = Secret(sk[p])
    BY <1>4, <1>5, <1>t, <2>2, SMTT(30)
  <2>5. keys'[Other(p)] = KeysOf(main'[p].epoch, main'[p].secret)
    BY <2>1, <2>3, <2>4
  <2>6. Confirming(p)'
    BY <1>3, <2>1, <2>3, <2>4, <2>5 DEF Confirming
  <2> QED
    BY <1>5, <2>6, ZenonT(30) DEF StageInv
<1> QED
  BY <1>6, <1>8, <1>9

(* A message that does not fit, which would reset the session, is not in   *)
(* transit in an orderly run; nor is one for a session that is not locked. *)
LEMMA NoMisfit ==
    ASSUME TypeOK, StageInv, orderly, NEW m \in net, Misfit(m) \/ (Refuse(m) /\ m.op # "DATA")
    PROVE  FALSE
<1>1. m.to \in Peers /\ locked[m.to]
  BY ZenonT(30) DEF TypeOK, Messages, StageInv
<1>2. Misfit(m) /\ m \in RekeyTraffic
  BY <1>1, Zenon DEF Refuse, Misfit, RekeyTraffic
<1>3. PICK p \in Peers : Asked(p) \/ Answered(p)
  BY <1>2 DEF StageInv, Quiet, Answering, Confirming
<1>4. CASE Asked(p)
  <2>0. /\ m = [to |-> Other(p), op |-> "INIT", epoch |-> keys[p].epoch, pair |-> sk[p]]
        /\ keys[Other(p)] = keys[p]
    BY <1>2, <1>4, Zenon DEF Asked
  <2>1. m.to = Other(p) /\ m.op = "INIT" /\ m.epoch = keys[p].epoch
    BY <2>0
  <2> QED
    BY <1>2, <2>0, <2>1, Zenon DEF Misfit, InitFits
<1>5. CASE Answered(p)
  <2>0. m = [to |-> p, op |-> "CONFIRM", epoch |-> keys[p].epoch + 1, pair |-> sk[p]]
    BY <1>2, <1>5, Zenon DEF Answered
  <2>1. m.to = p /\ m.op = "CONFIRM" /\ m.epoch = keys[p].epoch + 1
    BY <2>0, Zenon
  <2> QED
    BY <1>2, <2>1, Zenon DEF Misfit, ConfirmFits
<1> QED
  BY <1>3, <1>4, <1>5, SMTT(30)

(* The copy of the session key and the end of derive_rekey_keys, at the    *)
(* one end that is installing.                                             *)
LEMMA EngineStage ==
    ASSUME TypeOK, StageInv, NEW p \in Peers, Engine(p)
    PROVE  StageInv'
<1> SUFFICES ASSUME orderly' PROVE StageInv'
  BY DEF StageInv
<1>1. orderly /\ main[p] # None /\ UNCHANGED locked /\ ~ Reset(p)
  <2>1. orderly /\ main[p] # None
    <3>1. orderly /\ main[p].pc \in {"wiped", "session"}
      BY Zenon DEF Engine, InstallSession, FinishRekey
    <3> QED
      BY <3>1, SMTT(30) DEF None
  <2>2. locked[p]
    BY <2>1 DEF StageInv
  <2>3. UNCHANGED locked
    BY Zenon DEF Engine, InstallSession, FinishRekey
  <2> QED
    BY <2>1, <2>2, <2>3 DEF Reset, TypeOK
<1>2. /\ Other(p) \in Peers /\ Other(p) # p /\ Other(Other(p)) = p
      /\ \A q \in Peers : Other(q)' = Other(q) /\ (q # p => q = Other(p))
  BY OtherEnd DEF Other
<1>3. \A q \in Peers : locked'[q]
  BY <1>1 DEF StageInv
<1>4. PICK r \in Peers : Answering(r) \/ Confirming(r)
  BY <1>1, Zenon DEF StageInv, Quiet, Idle, Asked, Answered
<1>5. (Answering(r) /\ r = Other(p)) \/ (Confirming(r) /\ r = p)
  <2>1. Answering(r) => r # p
    BY <1>1 DEF Answering
  <2>2. Confirming(r) => r # Other(p)
    BY <1>1, <1>2 DEF Confirming
  <2> QED
    BY <1>2, <1>4, <2>1, <2>2
<1>6. main[p] \in Installing /\ RekeyTraffic = {}
  BY <1>1, <1>4 DEF TypeOK, Answering, Confirming
<1>7. CASE InstallSession(p)
  <2>1. /\ UNCHANGED <<RekeyTraffic, sk>> /\ main'[Other(p)] = main[Other(p)]
        /\ keys'[Other(p)] = keys[Other(p)]
    BY <1>2, <1>7 DEF InstallSession, RekeyTraffic, TypeOK
  <2>2. main'[p] = [main[p] EXCEPT !.pc = "session"]
    BY <1>7 DEF InstallSession, TypeOK
  <2>3. /\ main'[p].op = main[p].op /\ main'[p].pair = main[p].pair
        /\ main'[p].epoch = main[p].epoch /\ main'[p].secret = main[p].secret
        /\ main'[p].pc = "session"
    BY <1>6, <2>2, SMTT(30) DEF Installing
  <2>4. main'[p] # None
    <3>1. None.pc = "none" /\ "none" # "session"
      BY DEF None
    <3> QED
      BY <2>3, <3>1, Zenon
  <2>5. Answering(r)' \/ Confirming(r)'
    BY <1>2, <1>5, <2>1, <2>3, <2>4, ZenonT(30) DEF Answering, Confirming
  <2> QED
    BY <1>3, <2>5, Zenon DEF StageInv
<1>8. CASE FinishRekey(p)
  <2>1. /\ keys' = [keys EXCEPT ![p] = KeysOf(main[p].epoch, main[p].secret)]
        /\ main' = [main EXCEPT ![p] = None]
        /\ sk' = IF main[p].op = "CONFIRM" THEN [sk EXCEPT ![p] = 0] ELSE sk
        /\ net' = IF main[p].op = "INIT" THEN net \cup {Confirmation(p)} ELSE net
    BY <1>1, <1>8 DEF FinishRekey
  <2>2. /\ keys'[p] = KeysOf(main[p].epoch, main[p].secret) /\ main'[p] = None
        /\ keys'[Other(p)] = keys[Other(p)] /\ main'[Other(p)] = main[Other(p)]
    BY <1>2, <2>1 DEF TypeOK
  <2>3. CASE Answering(r) /\ r = Other(p)
    <3>1. main[p].op = "INIT" /\ main[r] = None /\ Other(r) = p
      BY <1>2, <2>3 DEF Answering
    <3>2. Idle'
      BY <1>2, <2>2, <2>3, <3>1 DEF Idle
    <3>3. Confirmation(p) = [to |-> r, op |-> "CONFIRM", epoch |-> keys[r].epoch + 1, pair |-> sk[r]]
      BY <2>3, <3>1 DEF Confirmation, Answering
    <3>4. RekeyTraffic' = {Confirmation(p)}
      BY <1>6, <2>1, <3>1, <3>3 DEF RekeyTraffic
    <3>5. sk' = sk /\ keys'[r] = keys[r]
      BY <2>1, <2>2, <2>3, <3>1
    <3>6. keys'[p] = KeysOf(keys[r].epoch + 1, Secret(sk[r]))
      BY <2>2, <2>3, <3>1 DEF Answering
    <3>7. Answered(r)'
      BY <1>2, <3>1, <3>2, <3>3, <3>4, <3>5, <3>6, ZenonT(30) DEF Answered
    <3> QED
      BY <1>3, <3>7, ZenonT(30) DEF StageInv
  <2>4. CASE Confirming(r) /\ r = p
    <3>1. main[p].op = "CONFIRM" /\ main[Other(p)] = None
          /\ keys[Other(p)] = KeysOf(main[p].epoch, main[p].secret)
      BY <2>4 DEF Confirming
    <3>2. Idle' /\ (\A a, b \in Peers : keys'[a] = keys'[b])
      BY <1>2, <2>2, <3>1 DEF Idle
    <3>3. RekeyTraffic' = {}
      BY <1>6, <2>1, <3>1 DEF RekeyTraffic
    <3>4. Quiet'
      BY <3>2, <3>3 DEF Quiet
    <3> QED
      BY <1>3, <3>4, ZenonT(30) DEF StageInv
  <2> QED
    BY <1>5, <2>3, <2>4, SMTT(30)
<1> QED
  BY <1>7, <1>8 DEF Engine

(* Each step takes a rekey to its next stage or leaves it where it is.     *)
LEMMA StageStep ==
    ASSUME TypeOK, StageInv, [Next]_vars
    PROVE  StageInv'
<1>1. ASSUME NEW p \in Starters, Initiate(p) PROVE StageInv'
  BY <1>1, InitiateStage, RekeyAssumption
<1>2. ASSUME NEW p \in Talkers, SendData(p) PROVE StageInv'
  <2>1. UNCHANGED <<RekeyTraffic, main, keys, sk, locked, orderly>>
    BY <1>2 DEF SendData, RekeyTraffic
  <2> QED
    BY <2>1, SameStage
<1>3. ASSUME NEW p \in Peers, Engine(p) PROVE StageInv'
  BY <1>3, EngineStage
<1>4. ASSUME NEW p \in Peers, Worker(p) PROVE StageInv'
  BY <1>4, SameStage DEF Worker, WorkerLock, WorkerAad, WorkerDecrypt, RekeyTraffic
<1>5. ASSUME NEW m \in net, BeginRekey(m) PROVE StageInv'
  BY <1>5, BeginStage
<1>6. ASSUME NEW m \in net, Misfit(m) PROVE StageInv'
  <2>1. ~ orderly
    BY <1>6, NoMisfit
  <2> QED
    BY <1>6, <2>1, Zenon DEF Misfit, StageInv
<1>7. ASSUME NEW m \in net, Refuse(m) PROVE StageInv'
  <2>1. CASE ~ orderly
    BY <1>7, <2>1 DEF Refuse, StageInv
  <2>2. CASE orderly
    <3>1. m.op = "DATA"
      BY <1>7, <2>2, NoMisfit
    <3> QED
      BY <1>7, <3>1, SameStage DEF Refuse, RekeyTraffic
  <2> QED
    BY <2>1, <2>2
<1>8. ASSUME NEW m \in net, Lose(m) PROVE StageInv'
  <2>1. CASE m.op = "DATA"
    BY <1>8, <2>1, SameStage, ZenonT(30) DEF Lose, RekeyTraffic
  <2>2. CASE m.op # "DATA"
    BY <1>8, <2>2, Zenon DEF Lose, StageInv
  <2> QED
    BY <2>1, <2>2
<1>9. ASSUME NEW m \in net, Enqueue(m) PROVE StageInv'
  BY <1>9, SameStage DEF Enqueue, RekeyTraffic
<1>10. CASE UNCHANGED vars
  BY <1>10, SameStage DEF vars, RekeyTraffic
<1> QED
  BY <1>1, <1>2, <1>3, <1>4, <1>5, <1>6, <1>7, <1>8, <1>9, <1>10 DEF Next, Handle

(* With one rekey at a time and no datagram lost or repeated, both         *)
(* sessions stay locked and the ends have the same keys, or the one that   *)
(* lacks them is installing them or has the confirmation on its way and    *)
(* the secret key that opens it: for any number of rekeys from either end. *)
THEOREM OrderlyEndsAgree == Spec => []AgreeWhenOrderly
<1>1. Init => StageInv
  BY DEF Init, StageInv, Quiet, Idle, RekeyTraffic
<1>2. RekeyInv /\ StageInv /\ [Next]_vars => StageInv'
  BY StageStep, SMTT(30) DEF RekeyInv
<1>3. RekeyInv /\ StageInv => AgreeWhenOrderly
  <2> SUFFICES ASSUME StageInv, orderly, Idle
               PROVE  \/ \A p, q \in Peers : keys[p] = keys[q]
                      \/ \E m \in net : /\ ConfirmFits(m)
                                        /\ sk[m.to] = m.pair
                                        /\ keys[Other(m.to)] = KeysOf(m.epoch, Secret(m.pair))
    BY DEF AgreeWhenOrderly, StageInv, Idle
  <2>1. CASE Quiet
    BY <2>1 DEF Quiet
  <2>2. ASSUME NEW p \in Peers, Asked(p) PROVE \A r, q \in Peers : keys[r] = keys[q]
    BY <2>2, OtherEnd, SMTT(30) DEF Asked
  <2>3. ASSUME NEW p \in Peers, Answered(p)
        PROVE  \E m \in net : /\ ConfirmFits(m)
                              /\ sk[m.to] = m.pair
                              /\ keys[Other(m.to)] = KeysOf(m.epoch, Secret(m.pair))
    <3> DEFINE m == [to |-> p, op |-> "CONFIRM", epoch |-> keys[p].epoch + 1, pair |-> sk[p]]
    <3>1. m \in net
      BY <2>3, ZenonT(30) DEF Answered, RekeyTraffic
    <3>2. m.to = p /\ m.op = "CONFIRM" /\ m.epoch = keys[p].epoch + 1 /\ m.pair = sk[p]
      OBVIOUS
    <3> HIDE DEF m
    <3> QED
      BY <2>3, <3>1, <3>2, SMTT(30) DEF Answered, ConfirmFits
  <2>4. ASSUME NEW p \in Peers, Answering(p) \/ Confirming(p) PROVE FALSE
    BY <2>4, OtherEnd DEF Answering, Confirming, Idle
  <2> QED
    BY <2>1, <2>2, <2>3, <2>4 DEF StageInv
<1> QED
  BY <1>1, <1>2, <1>3, RekeyInvariant, PTL DEF Spec
=============================================================================
