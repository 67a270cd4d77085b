---------------------------- MODULE ReplayWindow ----------------------------
(***************************************************************************)
(* The replay window of lib/layers/seq_check.c between a sender that       *)
(* numbers its packets with a 32-bit counter and a network that may lose,  *)
(* duplicate, delay and reorder them.  A window is the highest sequence    *)
(* number accepted (last_seq) and a bit mask of the REPLAY_WINDOW_SIZE     *)
(* numbers up to it; bit k stands for last_seq - k.  The mask is modelled  *)
(* as the set of its one bits.                                             *)
(***************************************************************************)
EXTENDS Integers

CONSTANTS
    W,          \* REPLAY_WINDOW_SIZE, the number of bits of recv_bitmap
    MaxSeq,     \* UINT32_MAX
    Paths,      \* the paths of the session
    Multipath,  \* resilience.multipath_enabled: one window per path
    Session     \* the window of the session itself

ASSUME WindowAssumption == W \in Nat \ {0} /\ MaxSeq \in Nat \ {0}
ASSUME PathsAssumption == Multipath \in BOOLEAN /\ Session \notin Paths

VARIABLES
    tx_seq,     \* the sender's *seq_counter
    sent,       \* the packets that were sent, which the network may deliver
    window,     \* [last_seq, recv_bitmap] of every window
    result,     \* the packet checked last, and whether it was accepted
    count       \* how often each number was accepted by each window

wvars == <<tx_seq, sent, window, result, count>>

Seqs == 0 .. MaxSeq
Windows == Paths \cup {Session}
Packets == [seq : Seqs, path : Paths]

(* The window that seq_check consults for a packet.                        *)
WindowOf(p) == IF Multipath THEN p.path ELSE Session

Empty == [last_seq |-> 0, recv_bitmap |-> {}]

-----------------------------------------------------------------------------
WindowInit ==
    /\ tx_seq \in {0, 1}
    /\ sent = {}
    /\ window = [w \in Windows |-> Empty]
    /\ result = [win |-> Session, seq |-> 0, ok |-> FALSE]
    /\ count = [w \in Windows |-> [s \in Seqs |-> 0]]

(* The header takes the counter, which is then incremented and may wrap.   *)
Send(path) ==
    /\ sent' = sent \cup {[seq |-> tx_seq, path |-> path]}
    /\ tx_seq' = (tx_seq + 1) % (MaxSeq + 1)
    /\ UNCHANGED <<window, result, count>>

(* Mutant: the bits that leave the window are kept.                        *)
Shifted_Wide(bitmap, diff) == {k + diff : k \in bitmap} \cup {0}

(* The mask shifted left by diff (0 if diff >= W), with bit 0 set.         *)
Shifted(bitmap, diff) == {k \in 0 .. W - 1 : k - diff \in bitmap} \cup {0}

(* The window after it accepted a number above last_seq.                   *)
Advance(w, seq) ==
    [last_seq |-> seq, recv_bitmap |-> Shifted(w.recv_bitmap, seq - w.last_seq)]

(* The mask against which a number up to last_seq is tested.               *)
Mask(w) == IF w.recv_bitmap = {} THEN {0} ELSE w.recv_bitmap

(* Mutant: the oldest number of the window is taken to be outside.         *)
Fresh_Narrow(w, seq) ==
    /\ seq # 0
    /\ \/ w.last_seq = 0
       \/ seq > w.last_seq
       \/ w.last_seq - seq < W - 1 /\ w.last_seq - seq \notin Mask(w)

(* Does seq_check_bitmap return 0?                                         *)
Fresh(w, seq) ==
    /\ seq # 0
    /\ \/ w.last_seq = 0
       \/ seq > w.last_seq
       \/ w.last_seq - seq < W /\ w.last_seq - seq \notin Mask(w)

(* Mutant: an older number is accepted and its bit is not set.             *)
Record_NoMark(w, seq) ==
    IF w.last_seq = 0 THEN [last_seq |-> seq, recv_bitmap |-> {0}]
    ELSE IF seq > w.last_seq THEN Advance(w, seq)
    ELSE [w EXCEPT !.recv_bitmap = Mask(w)]

(* The window that seq_check_bitmap leaves when it returns 0.              *)
Record(w, seq) ==
    IF w.last_seq = 0 THEN [last_seq |-> seq, recv_bitmap |-> {0}]
    ELSE IF seq > w.last_seq THEN Advance(w, seq)
    ELSE [w EXCEPT !.recv_bitmap = Mask(w) \cup {w.last_seq - seq}]

(* A packet arrives and seq_check accepts it.                              *)
Accept(p) ==
    LET i == WindowOf(p) IN
    /\ Fresh(window[i], p.seq)
    /\ window' = [window EXCEPT ![i] = Record(window[i], p.seq)]
    /\ result' = [win |-> i, seq |-> p.seq, ok |-> TRUE]
    /\ count' = [count EXCEPT ![i] = [count[i] EXCEPT ![p.seq] = @ + 1]]
    /\ UNCHANGED <<tx_seq, sent>>

(* A packet arrives and seq_check returns -1: it is dropped.               *)
Reject(p) ==
    LET i == WindowOf(p) IN
    /\ ~ Fresh(window[i], p.seq)
    /\ result' = [win |-> i, seq |-> p.seq, ok |-> FALSE]
    /\ UNCHANGED <<tx_seq, sent, window, count>>

WindowNext ==
    \/ \E path \in Paths : Send(path)
    \/ \E p \in sent : Accept(p) \/ Reject(p)

WindowSpec == WindowInit /\ [][WindowNext]_wvars

-----------------------------------------------------------------------------
(* Every variable has its type; no bit of the mask lies outside the window *)
(* whatever seq_check_bitmap shifts.                                       *)
WindowTypeOK ==
    /\ tx_seq \in Seqs
    /\ sent \subseteq Packets
    /\ window \in [Windows -> [last_seq : Seqs, recv_bitmap : SUBSET (0 .. W - 1)]]
    /\ result \in [win : Windows, seq : Seqs, ok : BOOLEAN]
    /\ count \in [Windows -> [Seqs -> Nat]]

(***************************************************************************)
(* A window accepts no sequence number twice, however the network repeats  *)
(* and reorders the packets, and even after the sender's counter wrapped.  *)
(***************************************************************************)
NoReplay == \A w \in Windows : \A s \in Seqs : count[w][s] <= 1

(***************************************************************************)
(* The window drops no more than it must: a dropped packet has the number  *)
(* 0, was accepted before, or is at least W older than an accepted one.    *)
(***************************************************************************)
DropsOnlyStale ==
    [][~ result'.ok /\ result' # result =>
         LET seen == count[result'.win] IN
         \/ result'.seq = 0
         \/ seen[result'.seq] > 0
         \/ \E s \in Seqs : seen[s] > 0 /\ result'.seq + W <= s]_wvars

(***************************************************************************)
(* The inductive invariant: last_seq is the highest number accepted, and   *)
(* within the window the mask says exactly which numbers were accepted.    *)
(***************************************************************************)
Exact(v, seen) ==
    /\ \A s \in Seqs : seen[s] > 0 => s # 0 /\ s <= v.last_seq
    /\ v.last_seq # 0 => seen[v.last_seq] > 0
    /\ \A s \in Seqs : s <= v.last_seq /\ v.last_seq - s < W =>
          (seen[s] > 0 <=> v.last_seq - s \in v.recv_bitmap)

WindowInv ==
    /\ WindowTypeOK
    /\ NoReplay
    /\ \A w \in Windows : Exact(window[w], count[w])
=============================================================================
