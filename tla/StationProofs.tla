--------------------------- MODULE StationProofs ---------------------------
(***************************************************************************)
(* Proofs about one station, for every set of peers and every size of its  *)
(* tables.                                                                 *)
(*                                                                         *)
(* First the engine under its API (Connection): the ranges of its state,   *)
(* and that session, send address and peer table name the same peer.       *)
(*                                                                         *)
(* Then the terminal front end on top of it (Console): it drives the       *)
(* engine only through steps of Connection, stays inside its arrays, and   *)
(* what it shows agrees with the engine.                                   *)
(***************************************************************************)
EXTENDS Console, TLAPS

----------------------------------------------------------------------------
(* The peer table.  Its entries are never removed or given to another peer: *)
(* an entry changes its state, and new ones are put at the end.             *)

PeerEntries == [addr : Peers, state : {"CONNECTING", "LOCKED", "DISCONNECTED"},
                online : BOOLEAN, age : Ages]

PeerTable(tab) == tab \in Seq(PeerEntries) /\ Len(tab) <= MaxPeers

Grows(tab, new) ==
    /\ PeerTable(new)
    /\ Len(tab) <= Len(new)
    /\ \A i \in 1..Len(tab) : new[i].addr = tab[i].addr

\* The peer has an entry, or none is left for it.
ListedOrFull(tab, p) == find_peer(tab, p) # {} \/ Len(tab) = MaxPeers

\* What each entry becomes when a function of the table leaves length and order.
LEMMA SameShape ==
    ASSUME NEW tab, PeerTable(tab), NEW new, DOMAIN new = DOMAIN tab, new = [i \in DOMAIN tab |-> new[i]],
           \A i \in DOMAIN tab : new[i] \in PeerEntries /\ new[i].addr = tab[i].addr
    PROVE  Grows(tab, new) /\ Len(new) = Len(tab)
<1>1. DOMAIN tab = 1..Len(tab) /\ Len(tab) \in Nat
  BY DEF PeerTable
<1>2. new \in [1..Len(tab) -> PeerEntries]
  BY <1>1
<1>3. new \in Seq(PeerEntries) /\ Len(new) = Len(tab)
  BY <1>1, <1>2
<1> QED
  BY <1>1, <1>3 DEF Grows, PeerTable

(* connection_manager_connect lists the peer, or the table is full.        *)
LEMMA ConnectTable ==
    ASSUME NEW tab, PeerTable(tab), NEW p \in Peers
    PROVE  /\ Grows(tab, connection_manager_connect(tab, p))
           /\ ListedOrFull(connection_manager_connect(tab, p), p)
           /\ \A i \in 1..Len(tab) :
                 tab[i].state = "CONNECTING" => connection_manager_connect(tab, p)[i].state = "CONNECTING"
           /\ \A i \in DOMAIN connection_manager_connect(tab, p) :
                 i > Len(tab) => connection_manager_connect(tab, p)[i].state = "CONNECTING"
<1> DEFINE new == connection_manager_connect(tab, p)
<1>0. /\ tab \in Seq(PeerEntries) /\ Len(tab) \in Nat /\ DOMAIN tab = 1..Len(tab)
      /\ \A i \in DOMAIN tab : tab[i] \in PeerEntries
  BY DEF PeerTable
<1>1. CASE find_peer(tab, p) # {}
  <2>1. new = [i \in DOMAIN tab |->
             IF tab[i].addr = p THEN [tab[i] EXCEPT !.state = "CONNECTING", !.online = TRUE] ELSE tab[i]]
    BY <1>1 DEF connection_manager_connect
  <2>2. \A i \in DOMAIN tab : /\ new[i] \in PeerEntries /\ new[i].addr = tab[i].addr
                              /\ tab[i].state = "CONNECTING" => new[i].state = "CONNECTING"
    BY <1>0, <2>1, ZenonT(30) DEF PeerEntries
  <2>3. DOMAIN new = DOMAIN tab /\ new = [i \in DOMAIN tab |-> new[i]]
    BY <2>1, Zenon
  <2> HIDE DEF new
  <2>4. Grows(tab, new) /\ Len(new) = Len(tab)
    BY <2>2, <2>3, SameShape
  <2>5. find_peer(new, p) # {}
    BY <1>1, <2>2, <2>3 DEF find_peer
  <2>6. /\ ListedOrFull(new, p)
        /\ \A i \in 1..Len(tab) : tab[i].state = "CONNECTING" => new[i].state = "CONNECTING"
    BY <1>0, <2>2, <2>5 DEF ListedOrFull
  <2>7. \A i \in DOMAIN new : ~ (i > Len(tab))
    BY <1>0, <2>3
  <2> QED
    BY <2>4, <2>6, <2>7 DEF new
<1>2. CASE find_peer(tab, p) = {} /\ Len(tab) < MaxPeers
  <2>1. new = Append(tab, NewPeer(p))
    BY <1>2 DEF connection_manager_connect
  <2>2. NewPeer(p) \in PeerEntries /\ NewPeer(p).addr = p /\ NewPeer(p).state = "CONNECTING"
    BY DEF NewPeer, PeerEntries, Ages
  <2> DEFINE e == NewPeer(p)
  <2> HIDE DEF e, new
  <2>3. e \in PeerEntries /\ e.addr = p /\ e.state = "CONNECTING" /\ new = Append(tab, e)
    BY <2>1, <2>2 DEF e
  <2>4. /\ new \in Seq(PeerEntries) /\ Len(new) = Len(tab) + 1 /\ new[Len(tab) + 1] = e
        /\ \A i \in 1..Len(tab) : new[i] = tab[i]
    BY <1>0, <2>3
  <2>5. Len(new) <= MaxPeers /\ DOMAIN new = 1..(Len(tab) + 1)
    BY <1>0, <1>2, <2>4, SizeAssumption
  <2>6. Grows(tab, new)
    BY <1>0, <2>4, <2>5 DEF Grows, PeerTable
  <2>7. ListedOrFull(new, p)
    BY <1>0, <2>3, <2>4, <2>5 DEF ListedOrFull, find_peer
  <2> QED
    BY <1>0, <2>3, <2>4, <2>5, <2>6, <2>7 DEF new
<1>3. CASE find_peer(tab, p) = {} /\ ~ (Len(tab) < MaxPeers)
  <2>1. new = tab
    BY <1>3 DEF connection_manager_connect
  <2>2. Len(tab) = MaxPeers
    BY <1>0, <1>3, SizeAssumption DEF PeerTable
  <2> HIDE DEF new
  <2> QED
    BY <1>0, <2>1, <2>2 DEF Grows, ListedOrFull, PeerTable, new
<1> QED
  BY <1>1, <1>2, <1>3

(* connection_manager_disconnect and connection_manager_update_state keep  *)
(* the entries, and the latter has its peer locked and online.             *)
LEMMA StateTables ==
    ASSUME NEW tab, PeerTable(tab), NEW p
    PROVE  /\ Grows(tab, connection_manager_disconnect(tab))
           /\ Grows(tab, connection_manager_update_state(tab, p))
           /\ \A i \in find_peer(connection_manager_update_state(tab, p), p) :
                 /\ connection_manager_update_state(tab, p)[i].state = "LOCKED"
                 /\ connection_manager_update_state(tab, p)[i].online
           /\ (\A i \in DOMAIN tab : tab[i].state = "CONNECTING")
                 => \A i \in DOMAIN connection_manager_disconnect(tab) :
                       connection_manager_disconnect(tab)[i].state = "CONNECTING"
<1>0. \A i \in DOMAIN tab : tab[i] \in PeerEntries
  BY DEF PeerTable
<1>1. /\ Grows(tab, connection_manager_disconnect(tab))
      /\ (\A i \in DOMAIN tab : tab[i].state = "CONNECTING")
            => \A i \in DOMAIN connection_manager_disconnect(tab) :
                  connection_manager_disconnect(tab)[i].state = "CONNECTING"
  <2> DEFINE new == connection_manager_disconnect(tab)
  <2>1. /\ DOMAIN new = DOMAIN tab /\ new = [i \in DOMAIN tab |-> new[i]]
        /\ \A i \in DOMAIN tab : new[i] =
              IF tab[i].state = "LOCKED" THEN [tab[i] EXCEPT !.state = "DISCONNECTED", !.online = FALSE]
              ELSE tab[i]
    BY DEF connection_manager_disconnect
  <2> HIDE DEF new
  <2>2. \A i \in DOMAIN tab : /\ new[i] \in PeerEntries /\ new[i].addr = tab[i].addr
                              /\ tab[i].state = "CONNECTING" => new[i].state = "CONNECTING"
    BY <1>0, <2>1, ZenonT(30) DEF PeerEntries
  <2> QED
    BY <2>1, <2>2, SameShape, ZenonT(30) DEF new
<1>2. /\ Grows(tab, connection_manager_update_state(tab, p))
      /\ \A i \in find_peer(connection_manager_update_state(tab, p), p) :
            /\ connection_manager_update_state(tab, p)[i].state = "LOCKED"
            /\ connection_manager_update_state(tab, p)[i].online
  <2> DEFINE new == connection_manager_update_state(tab, p)
  <2>1. /\ DOMAIN new = DOMAIN tab /\ new = [i \in DOMAIN tab |-> new[i]]
        /\ \A i \in DOMAIN tab : new[i] =
              IF tab[i].addr = p THEN [tab[i] EXCEPT !.state = "LOCKED", !.online = TRUE] ELSE tab[i]
    BY DEF connection_manager_update_state
  <2> HIDE DEF new
  <2>2. \A i \in DOMAIN tab : /\ new[i] \in PeerEntries /\ new[i].addr = tab[i].addr
                              /\ tab[i].addr = p => new[i].state = "LOCKED" /\ new[i].online = TRUE
    BY <1>0, <2>1, ZenonT(30) DEF PeerEntries
  <2>3. \A i \in find_peer(new, p) : new[i].state = "LOCKED" /\ new[i].online = TRUE
    BY <2>1, <2>2, Zenon DEF find_peer
  <2> QED
    BY <2>1, <2>2, <2>3, SameShape, ZenonT(30) DEF new
<1> QED
  BY <1>1, <1>2

(* The entries of a scan: those that were there keep their peer and state, *)
(* a locked one that was online still is, and the new ones are of peers    *)
(* that had none.                                                          *)
LEMMA ScanTable ==
    ASSUME NEW tab, PeerTable(tab), NEW heard \in SUBSET Peers,
           NEW seen \in try_recv_beacon(Older(tab), heard)
    PROVE  LET new == connection_manager_mark_stale(seen)
           IN  /\ Grows(tab, new)
               /\ \A i \in 1..Len(tab) :
                     /\ new[i].state = tab[i].state
                     /\ tab[i].state = "LOCKED" /\ tab[i].online => new[i].online
               /\ \A i \in DOMAIN new : i > Len(tab) =>
                     new[i].state = "CONNECTING" /\ find_peer(tab, new[i].addr) = {}
<1> DEFINE old == Older(tab)
           Shape(new) ==
               /\ PeerTable(new) /\ Len(tab) <= Len(new)
               /\ \A i \in 1..Len(tab) :
                     /\ new[i].addr = tab[i].addr /\ new[i].state = tab[i].state
                     /\ tab[i].state = "LOCKED" /\ tab[i].online => new[i].online
               /\ \A i \in DOMAIN new : i > Len(tab) =>
                     new[i].state = "CONNECTING" /\ find_peer(tab, new[i].addr) = {}
<1>0. /\ tab \in Seq(PeerEntries) /\ Len(tab) \in Nat /\ DOMAIN tab = 1..Len(tab)
      /\ \A i \in DOMAIN tab : tab[i] \in PeerEntries
      /\ MaxPeers \in Nat
  BY SizeAssumption DEF PeerTable
<1>1. Grows(tab, old) /\ Len(old) = Len(tab) /\ DOMAIN old = DOMAIN tab
      /\ \A i \in DOMAIN tab : old[i].state = tab[i].state /\ old[i].online = tab[i].online
  <2>1. /\ DOMAIN old = DOMAIN tab /\ old = [i \in DOMAIN tab |-> old[i]]
        /\ \A i \in DOMAIN tab : old[i] =
             [tab[i] EXCEPT !.age = IF tab[i].age \in 0..StaleAfter THEN tab[i].age + 1 ELSE tab[i].age]
    BY DEF Older
  <2> HIDE DEF old
  <2>2. \A i \in DOMAIN tab :
           (IF tab[i].age \in 0..StaleAfter THEN tab[i].age + 1 ELSE tab[i].age) \in Ages
    <3>1. \A i \in DOMAIN tab : tab[i].age \in Ages
      BY <1>0 DEF PeerEntries
    <3>2. \A a \in Ages : (IF a \in 0..StaleAfter THEN a + 1 ELSE a) \in Ages
      BY ScanAssumption DEF Ages, Never
    <3> QED
      BY <3>1, <3>2
  <2>3. \A i \in DOMAIN tab : /\ old[i] \in PeerEntries /\ old[i].addr = tab[i].addr
                              /\ old[i].state = tab[i].state /\ old[i].online = tab[i].online
    BY <1>0, <2>1, <2>2 DEF PeerEntries
  <2> QED
    BY <2>1, <2>3, SameShape
<1> HIDE DEF old
<1>2. PICK in \in Entered(old, heard) :
          seen = connection_manager_update_last_seen(old \o [i \in DOMAIN in |-> NewPeer(in[i])], heard)
  BY DEF try_recv_beacon, old
<1>3. /\ DOMAIN in \in {1..n : n \in Nat} /\ in \in Seq(Peers) /\ Len(old) + Len(in) <= MaxPeers
      /\ \A i \in 1..Len(in) : in[i] \in Peers /\ find_peer(old, in[i]) = {}
  <2> DEFINE room == MaxPeers - Len(old)
  <2>1. Unlisted(old, heard) \subseteq Peers
    BY DEF Unlisted
  <2>2. PICK n \in 0..room : in \in [1..n -> Unlisted(old, heard)]
    BY DEF Entered
  <2>3. n \in Nat /\ n <= room
    BY <1>0, <1>1 DEF Grows, PeerTable
  <2>4. Len(in) = n /\ in \in Seq(Peers) /\ DOMAIN in = 1..n
    BY <2>1, <2>2, <2>3
  <2>5. Len(old) + Len(in) <= MaxPeers
    BY <1>0, <1>1, <2>3, <2>4
  <2>6. \A i \in 1..n : in[i] \in Peers /\ find_peer(old, in[i]) = {}
    BY <2>1, <2>2 DEF Unlisted
  <2> QED
    BY <2>3, <2>4, <2>5, <2>6
<1> DEFINE fresh == [i \in DOMAIN in |-> NewPeer(in[i])]
           all == old \o fresh
<1>4. /\ fresh \in Seq(PeerEntries) /\ Len(fresh) = Len(in)
      /\ \A i \in 1..Len(in) : fresh[i].addr = in[i] /\ fresh[i].state = "CONNECTING"
  <2>1. \A p \in Peers : NewPeer(p) \in PeerEntries /\ NewPeer(p).addr = p /\ NewPeer(p).state = "CONNECTING"
    BY DEF NewPeer, PeerEntries, Ages
  <2>2. Len(in) \in Nat /\ DOMAIN in = 1..Len(in)
    BY <1>3
  <2>3. \A i \in 1..Len(in) : fresh[i] = NewPeer(in[i]) /\ in[i] \in Peers
    BY <1>3, <2>2, Zenon
  <2>4. fresh \in [1..Len(in) -> PeerEntries]
    BY <2>1, <2>2, <2>3
  <2> HIDE DEF fresh
  <2> QED
    BY <2>1, <2>2, <2>3, <2>4
<1> HIDE DEF fresh
<1>5. Shape(all)
  <2>1. /\ all \in Seq(PeerEntries) /\ Len(all) = Len(old) + Len(in)
        /\ \A i \in 1..Len(old) : all[i] = old[i]
        /\ \A i \in 1..Len(all) : i > Len(old) => i - Len(old) \in 1..Len(in) /\ all[i] = fresh[i - Len(old)]
    <3>1. /\ old \in Seq(PeerEntries) /\ Len(old) \in Nat /\ DOMAIN old = 1..Len(old)
          /\ fresh \in Seq(PeerEntries) /\ Len(fresh) \in Nat /\ DOMAIN fresh = 1..Len(fresh)
          /\ Len(fresh) = Len(in)
      BY <1>1, <1>4 DEF Grows, PeerTable
    <3>2. all \in Seq(PeerEntries) /\ Len(all) = Len(old) + Len(fresh)
      BY <3>1
    <3>3. \A i \in 1..Len(old) : all[i] = old[i]
      BY <3>1
    <3>4. \A i \in 1..(Len(old) + Len(fresh)) : i > Len(old) =>
             i - Len(old) \in 1..Len(fresh) /\ all[i] = fresh[i - Len(old)]
      BY <3>1
    <3> HIDE DEF all
    <3> QED
      BY <3>1, <3>2, <3>3, <3>4, Zenon
  <2>2. \A p : find_peer(old, p) = find_peer(tab, p)
    BY <1>0, <1>1 DEF find_peer, Grows
  <2> HIDE DEF all
  <2>3. PeerTable(all) /\ Len(tab) <= Len(all) /\ DOMAIN all = 1..Len(all)
    BY <1>0, <1>1, <1>3, <2>1 DEF PeerTable
  <2>4. ASSUME NEW i \in 1..Len(tab)
        PROVE  /\ all[i].addr = tab[i].addr /\ all[i].state = tab[i].state
               /\ tab[i].state = "LOCKED" /\ tab[i].online => all[i].online
    BY <1>0, <1>1, <2>1 DEF Grows
  <2>5. ASSUME NEW i \in DOMAIN all, i > Len(tab)
        PROVE  all[i].state = "CONNECTING" /\ find_peer(tab, all[i].addr) = {}
    <3>1. /\ i \in 1..Len(all) /\ i > Len(old) /\ i - Len(old) \in 1..Len(in)
          /\ all[i] = fresh[i - Len(old)]
      BY <1>1, <2>1, <2>3, <2>5
    <3>2. PICK j \in 1..Len(in) : all[i] = fresh[j]
      BY <3>1
    <3>3. fresh[j].addr = in[j] /\ fresh[j].state = "CONNECTING" /\ find_peer(old, in[j]) = {}
      BY <1>3, <1>4, Zenon
    <3> QED
      BY <2>2, <3>2, <3>3
  <2> QED
    BY <2>3, <2>4, <2>5, Zenon
<1> HIDE DEF all
<1>6. seen = connection_manager_update_last_seen(all, heard)
  BY <1>2 DEF all, fresh
<1>7. Shape(seen)
  <2>0. /\ all \in Seq(PeerEntries) /\ Len(all) \in Nat /\ DOMAIN all = 1..Len(all)
        /\ \A i \in DOMAIN all : all[i] \in PeerEntries
    BY <1>5 DEF PeerTable
  <2>1. /\ DOMAIN seen = DOMAIN all /\ seen = [i \in DOMAIN all |-> seen[i]]
        /\ \A i \in DOMAIN all : seen[i] =
              IF all[i].addr \in heard THEN [all[i] EXCEPT !.age = 0, !.online = TRUE] ELSE all[i]
    BY <1>6, Zenon DEF connection_manager_update_last_seen
  <2>2. 0 \in Ages
    BY ScanAssumption DEF Ages
  <2>3. \A i \in DOMAIN all : /\ seen[i] \in PeerEntries /\ seen[i].addr = all[i].addr
                              /\ seen[i].state = all[i].state
                              /\ all[i].online => seen[i].online
    <3> SUFFICES ASSUME NEW i \in DOMAIN all
                 PROVE  /\ seen[i] \in PeerEntries /\ seen[i].addr = all[i].addr
                        /\ seen[i].state = all[i].state
                        /\ all[i].online => seen[i].online
      OBVIOUS
    <3>1. CASE all[i].addr \in heard
      <4>1. seen[i] = [all[i] EXCEPT !.age = 0, !.online = TRUE]
        BY <2>1, <3>1, ZenonT(30)
      <4> QED
        BY <2>0, <2>2, <4>1, ZenonT(30) DEF PeerEntries
    <3>2. CASE all[i].addr \notin heard
      BY <2>0, <2>1, <3>2, ZenonT(30)
    <3> QED
      BY <3>1, <3>2
  <2>4. Grows(all, seen) /\ Len(seen) = Len(all)
    BY <1>5, <2>1, <2>3, SameShape, ZenonT(30)
  <2>5. PeerTable(seen) /\ Len(tab) <= Len(seen) /\ DOMAIN seen = DOMAIN all
    BY <1>5, <2>1, <2>4, Zenon DEF Grows
  <2>6. ASSUME NEW i \in 1..Len(tab)
        PROVE  /\ seen[i].addr = tab[i].addr /\ seen[i].state = tab[i].state
               /\ tab[i].state = "LOCKED" /\ tab[i].online => seen[i].online
    <3>1. i \in DOMAIN all
      BY <1>0, <1>5, <2>0
    <3> QED
      BY <1>5, <2>3, <3>1
  <2>7. ASSUME NEW i \in DOMAIN seen, i > Len(tab)
        PROVE  seen[i].state = "CONNECTING" /\ find_peer(tab, seen[i].addr) = {}
    <3>1. i \in DOMAIN all /\ seen[i].addr = all[i].addr /\ seen[i].state = all[i].state
      BY <2>1, <2>3, Zenon
    <3> QED
      BY <1>5, <2>7, <3>1, Zenon
  <2> QED
    BY <2>5, <2>6, <2>7
<1> DEFINE new == connection_manager_mark_stale(seen)
<1>8. Shape(new)
  <2>0. /\ seen \in Seq(PeerEntries) /\ Len(seen) \in Nat /\ DOMAIN seen = 1..Len(seen)
        /\ \A i \in DOMAIN seen : seen[i] \in PeerEntries
    BY <1>7 DEF PeerTable
  <2>1. /\ DOMAIN new = DOMAIN seen /\ new = [i \in DOMAIN seen |-> new[i]]
        /\ \A i \in DOMAIN seen : new[i] =
              IF seen[i].age > StaleAfter /\ seen[i].state # "LOCKED"
              THEN [seen[i] EXCEPT !.online = FALSE] ELSE seen[i]
    BY DEF connection_manager_mark_stale
  <2> HIDE DEF new
  <2>2. \A i \in DOMAIN seen : /\ new[i] \in PeerEntries /\ new[i].addr = seen[i].addr
                               /\ new[i].state = seen[i].state
                               /\ seen[i].state = "LOCKED" /\ seen[i].online => new[i].online
    BY <2>0, <2>1, ZenonT(30) DEF PeerEntries
  <2>3. Grows(seen, new) /\ Len(new) = Len(seen)
    BY <1>7, <2>1, <2>2, SameShape
  <2>5. PeerTable(new) /\ Len(tab) <= Len(new) /\ DOMAIN new = DOMAIN seen
    BY <1>7, <2>1, <2>3 DEF Grows
  <2>6. ASSUME NEW i \in 1..Len(tab)
        PROVE  /\ new[i].addr = tab[i].addr /\ new[i].state = tab[i].state
               /\ tab[i].state = "LOCKED" /\ tab[i].online => new[i].online
    <3>1. i \in DOMAIN seen
      BY <1>0, <1>7, <2>0
    <3> QED
      BY <1>7, <2>2, <3>1
  <2>7. ASSUME NEW i \in DOMAIN new, i > Len(tab)
        PROVE  new[i].state = "CONNECTING" /\ find_peer(tab, new[i].addr) = {}
    <3>1. i \in DOMAIN seen /\ new[i].addr = seen[i].addr /\ new[i].state = seen[i].state
      BY <2>1, <2>2
    <3> QED
      BY <1>7, <2>7, <3>1, Zenon
  <2> QED
    BY <2>5, <2>6, <2>7
<1> HIDE DEF new
<1> QED
  BY <1>8, Zenon DEF Grows, new

----------------------------------------------------------------------------
(* The session and the addresses. *)

(* RightPeer alone is inductive once a session is known to be a record     *)
(* with a peer and a state, which the steps that change only the state     *)
(* rely on.                                                                *)
Sessions == [peer : Peers \cup {NULL}, state : {"NONE", "IDLE", "HANDSHAKE", "LOCKED"}]
PeerInv == session \in Sessions /\ RightPeer

(* A step that changes only the state of the session keeps the peer.       *)
LEMMA SamePeer ==
    ASSUME PeerInv, session # NoSession, NEW st \in {"IDLE", "HANDSHAKE", "LOCKED"},
           session' = [session EXCEPT !.state = st],
           UNCHANGED <<peer_addr, connect_addr, refused>>
    PROVE  PeerInv'
<1>1. session' \in Sessions /\ session'.peer = session.peer
  BY DEF PeerInv, Sessions
<1> QED
  BY <1>1 DEF PeerInv, RightPeer

(* No call of the transport API parts the session from its addresses.      *)
LEMMA CallStep ==
    ASSUME PeerInv, Call
    PROVE  PeerInv'
<1>0. NoSession \in Sessions
  BY DEF NoSession, Sessions
<1>1. ASSUME Start \/ StartFails \/ Shutdown \/ Disconnect PROVE PeerInv'
  <2>1. session' = NoSession
    BY <1>1 DEF Start, StartFails, Shutdown, Disconnect
  <2>2. NoSession' = NoSession
    BY DEF NoSession
  <2> QED
    BY <1>0, <2>1, <2>2 DEF PeerInv, RightPeer
<1>2. ASSUME NEW p \in Peers, NEW hello \in BOOLEAN, Connect(p, hello) PROVE PeerInv'
  <2>1. CASE CanAlloc /\ hello
    <3>1. session' = [peer |-> p, state |-> "HANDSHAKE"] /\ peer_addr' = p /\ connect_addr' = p
      BY <1>2, <2>1 DEF Connect
    <3> QED
      BY <3>1 DEF PeerInv, RightPeer, Sessions
  <2>2. CASE ~ (CanAlloc /\ hello)
    <3>1. session' = NoSession
      BY <1>2, <2>2 DEF Connect
    <3> QED
      BY <1>0, <3>1 DEF PeerInv, RightPeer, NoSession
  <2> QED
    BY <2>1, <2>2
<1>3. ASSUME NEW p \in Peers, Request(p) PROVE PeerInv'
  <2>1. CASE CanAlloc
    <3>1. session' = [peer |-> p, state |-> "IDLE"] /\ peer_addr' = p /\ connect_addr' = p
      BY <1>3, <2>1 DEF Request
    <3> QED
      BY <3>1 DEF PeerInv, RightPeer, Sessions
  <2>2. CASE ~ CanAlloc
    <3>1. refused' = TRUE /\ session' = session
      BY <1>3, <2>2 DEF Request
    <3> QED
      BY <3>1 DEF PeerInv, RightPeer
  <2> QED
    BY <2>1, <2>2
<1>4. ASSUME NEW p \in Peers, Accept(p) PROVE PeerInv'
  <2>1. session' = [peer |-> p, state |-> "IDLE"] /\ peer_addr' = p /\ connect_addr' = p
    BY <1>4 DEF Accept
  <2> QED
    BY <2>1 DEF PeerInv, RightPeer, Sessions
<1>5. ASSUME NEW p \in Peers, Decline(p) PROVE PeerInv'
  BY <1>5 DEF Decline, PeerInv, RightPeer
<1>6. ASSUME NEW c \in Media, CallStart(c) \/ CallEnd(c) PROVE PeerInv'
  BY <1>6 DEF CallStart, CallEnd, PeerInv, RightPeer
<1> QED
  BY <1>1, <1>2, <1>3, <1>4, <1>5, <1>6 DEF Call

(* Nor does a poll, whatever packet it takes.                              *)
LEMMA PollStep ==
    ASSUME PeerInv, Poll
    PROVE  PeerInv'
<1>0. session.state # "NONE" => session # NoSession
  BY DEF NoSession
<1>1. CASE PollEvent
  BY <1>1 DEF PollEvent, PeerInv, RightPeer
<1>2. CASE PollTick
  <2>1. UNCHANGED <<peer_addr, connect_addr, refused>>
    BY <1>2 DEF PollTick
  <2>2. CASE session' = session
    BY <2>1, <2>2 DEF PeerInv, RightPeer
  <2>3. CASE session' # session
    <3>1. session.state = "LOCKED" /\ session' = [session EXCEPT !.state = "IDLE"]
      BY <1>2, <2>3 DEF PollTick
    <3> QED
      BY <1>0, <2>1, <3>1, SamePeer
  <2> QED
    BY <2>2, <2>3
<1>3. ASSUME NEW p \in Peers, NEW op \in Answers, PollConnect(p, op) PROVE PeerInv'
  <2>1. CASE PollDropped(p, op)
    BY <2>1 DEF PollDropped, PeerInv, RightPeer
  <2>2. CASE PollStray
    BY <1>0, <2>2, SamePeer DEF PollStray
  <2> QED
    BY <1>3, <2>1, <2>2 DEF PollConnect
<1>4. ASSUME NEW st \in {"HANDSHAKE", "LOCKED", "IDLE"}, PollHandshake(st) PROVE PeerInv'
  BY <1>0, <1>4, SamePeer DEF PollHandshake
<1> QED
  BY <1>1, <1>2, <1>3, <1>4 DEF Poll

----------------------------------------------------------------------------
(* Types.  The tables are sequences of what the code keeps in them.        *)

Events == [type : Answers \cup {"LOCKED"}, from : Peers \cup {NULL}]

TypeInv ==
    /\ initialized \in BOOLEAN /\ role_initiator \in BOOLEAN
    /\ session_is_locked \in BOOLEAN /\ refused \in BOOLEAN
    /\ g_session_count \in 0..MaxSessions
    /\ session \in Sessions
    /\ peer_addr \in Peers \cup {NULL} /\ connect_addr \in Peers \cup {NULL}
    /\ calls \subseteq Media /\ asked \subseteq Peers
    /\ g_conn_requests \in Seq(Peers) /\ Len(g_conn_requests) <= MaxPending
    /\ event_ring \in Seq(Events) /\ Len(event_ring) <= EventCap
    /\ PeerTable(g_peers)

(* ring_push on a full event ring drops the event.                         *)
LEMMA ReportedEvent ==
    ASSUME event_ring \in Seq(Events), Len(event_ring) <= EventCap, NEW e \in Events
    PROVE  Reported(e) \in Seq(Events) /\ Len(Reported(e)) <= EventCap
<1>1. CASE Len(event_ring) < EventCap
  <2>1. Append(event_ring, e) \in Seq(Events) /\ Len(Append(event_ring, e)) = Len(event_ring) + 1
    OBVIOUS
  <2>2. Len(event_ring) \in Nat /\ EventCap \in Nat
    BY SizeAssumption
  <2> QED
    BY <1>1, <2>1, <2>2 DEF Reported
<1>2. CASE ~ (Len(event_ring) < EventCap)
  BY <1>2 DEF Reported
<1> QED
  BY <1>1, <1>2

(* Every call of the transport API keeps the types.                        *)
LEMMA CallTypes ==
    ASSUME TypeInv, Call
    PROVE  TypeInv'
<1>0. /\ NoSession \in Sessions
      /\ \A p \in Peers, st \in {"IDLE", "HANDSHAKE"} : [peer |-> p, state |-> st] \in Sessions
      /\ <<>> \in Seq(Events) /\ Len(<<>>) <= EventCap
      /\ NoSession' = NoSession
  BY SizeAssumption DEF NoSession, Sessions
<1>a. CanAlloc => g_session_count + 1 \in 0..MaxSessions
  BY SizeAssumption DEF TypeInv, CanAlloc
<1>b. \A p \in Peers : PeerTable(connection_manager_connect(g_peers, p))
  BY ConnectTable DEF TypeInv, Grows
<1>1. CASE Start
  BY <1>0, <1>1, Zenon DEF Start, TypeInv
<1>2. CASE StartFails
  BY <1>0, <1>2, Zenon DEF StartFails, TypeInv
<1>3. CASE Shutdown
  BY <1>0, <1>3, Zenon DEF Shutdown, TypeInv
<1>4. CASE Disconnect
  <2>1. PeerTable(g_peers)'
    BY <1>4, StateTables DEF Disconnect, Grows, TypeInv
  <2> QED
    BY <1>0, <1>4, <2>1, Zenon DEF Disconnect, TypeInv
<1>5. ASSUME NEW p \in Peers, NEW hello \in BOOLEAN, Connect(p, hello) PROVE TypeInv'
  <2>1. PeerTable(g_peers)'
    BY <1>5, <1>b DEF Connect, TypeInv
  <2>2. session' \in Sessions /\ session_is_locked' \in BOOLEAN /\ connect_addr' \in Peers \cup {NULL}
    BY <1>5, <1>0, Zenon DEF Connect, TypeInv
  <2>3. g_session_count' \in 0..MaxSessions
    BY <1>5, <1>a DEF Connect, TypeInv
  <2> QED
    BY <1>5, <2>1, <2>2, <2>3 DEF Connect, TypeInv
<1>6. ASSUME NEW p \in Peers, Request(p) PROVE TypeInv'
  <2>1. session' \in Sessions /\ session_is_locked' \in BOOLEAN /\ refused' \in BOOLEAN /\ asked' \subseteq Peers
    BY <1>6, <1>0, Zenon DEF Request, TypeInv
  <2>2. g_session_count' \in 0..MaxSessions
    BY <1>6, <1>a DEF Request, TypeInv
  <2> QED
    BY <1>6, <2>1, <2>2 DEF Request, TypeInv
<1>7. ASSUME NEW p \in Peers, Accept(p) PROVE TypeInv'
  <2>1. PeerTable(g_peers)' /\ session' \in Sessions /\ g_session_count' \in 0..MaxSessions
    BY <1>7, <1>0, <1>a, <1>b, Zenon DEF Accept
  <2> QED
    BY <1>7, <2>1, Zenon DEF Accept, TypeInv
<1>8. ASSUME NEW p \in Peers, Decline(p) PROVE TypeInv'
  BY <1>8, <1>a DEF Decline, TypeInv
<1>9. ASSUME NEW c \in Media, CallStart(c) \/ CallEnd(c) PROVE TypeInv'
  BY <1>9 DEF CallStart, CallEnd, TypeInv
<1> QED
  BY <1>1, <1>2, <1>3, <1>4, <1>5, <1>6, <1>7, <1>8, <1>9 DEF Call

(* So does every poll: what it stores of a packet has a place.             *)
LEMMA PollTypes ==
    ASSUME TypeInv, Poll
    PROVE  TypeInv'
<1>0. \A st \in {"IDLE", "HANDSHAKE", "LOCKED"} : [session EXCEPT !.state = st] \in Sessions
  BY DEF TypeInv, Sessions
<1>1. CASE PollEvent
  <2>1. event_ring' \in Seq(Events) /\ Len(event_ring') = Len(event_ring) - 1
    BY <1>1 DEF PollEvent, TypeInv
  <2>2. Len(event_ring') <= EventCap
    BY <2>1, SizeAssumption DEF TypeInv
  <2> QED
    BY <1>1, <2>1, <2>2 DEF PollEvent, TypeInv
<1>2. CASE PollTick
  BY <1>0, <1>2 DEF PollTick, TypeInv
<1>3. ASSUME NEW p \in Peers, NEW op \in Answers, PollConnect(p, op) PROVE TypeInv'
  <2>1. CASE PollDropped(p, op)
    <3>1. g_conn_requests' = g_conn_requests
      BY <2>1 DEF PollDropped, conn_request_handle
    <3>2. [type |-> op, from |-> p] \in Events
      BY DEF Events
    <3>3. event_ring' \in {event_ring, Reported([type |-> op, from |-> p])}
      BY <2>1 DEF PollDropped
    <3>4. event_ring' \in Seq(Events) /\ Len(event_ring') <= EventCap
      BY <3>2, <3>3, ReportedEvent DEF TypeInv
    <3> QED
      BY <2>1, <3>1, <3>4, Zenon DEF PollDropped, TypeInv
  <2>2. CASE PollStray
    BY <1>0, <2>2 DEF PollStray, TypeInv
  <2> QED
    BY <1>3, <2>1, <2>2 DEF PollConnect
<1>4. ASSUME NEW st \in {"HANDSHAKE", "LOCKED", "IDLE"}, PollHandshake(st) PROVE TypeInv'
  <2>1. session' \in Sessions /\ session_is_locked' \in BOOLEAN
    BY <1>0, <1>4, Zenon DEF PollHandshake, TypeInv
  <2>2. PeerTable(g_peers)'
    BY <1>4, StateTables DEF PollHandshake, TypeInv, Grows
  <2>3. [type |-> "LOCKED", from |-> connect_addr] \in Events
    BY DEF Events, TypeInv
  <2>4. event_ring' \in {event_ring, Reported([type |-> "LOCKED", from |-> connect_addr])}
    BY <1>4 DEF PollHandshake
  <2>5. event_ring' \in Seq(Events) /\ Len(event_ring') <= EventCap
    BY <2>3, <2>4, ReportedEvent DEF TypeInv
  <2> QED
    BY <1>4, <2>1, <2>2, <2>5 DEF PollHandshake, TypeInv
<1> QED
  BY <1>1, <1>2, <1>3, <1>4 DEF Poll

----------------------------------------------------------------------------
(* The peer of a LOCKED session is listed as connected.  A handshake starts *)
(* with session_is_locked down, so that its end is reported, and with its  *)
(* peer in the table, if the table has room: a beacon of it, later on, adds *)
(* no second entry.                                                        *)

Underway == session.state \in {"HANDSHAKE", "LOCKED"}

LockInv ==
    /\ session.state = "HANDSHAKE" => ~session_is_locked
    /\ Underway => ListedOrFull(g_peers, session.peer)
    /\ ListedAsConnected

(* A table that has grown still lists the peer, or is still full.          *)
LEMMA StillListed ==
    ASSUME NEW tab, PeerTable(tab), NEW new, Grows(tab, new), NEW p, ListedOrFull(tab, p)
    PROVE  ListedOrFull(new, p)
<1>1. /\ Len(tab) \in Nat /\ DOMAIN tab = 1..Len(tab) /\ Len(new) \in Nat /\ DOMAIN new = 1..Len(new)
      /\ MaxPeers \in Nat /\ Len(new) <= MaxPeers /\ Len(tab) <= Len(new)
  BY SizeAssumption DEF PeerTable, Grows
<1>2. CASE Len(tab) = MaxPeers
  <2>0. \A a, b, m \in Nat : a <= b /\ b <= m /\ a = m => b = m
    OBVIOUS
  <2>1. Len(new) = MaxPeers
    BY <1>1, <1>2, <2>0, Zenon
  <2> QED
    BY <2>1 DEF ListedOrFull
<1>3. CASE find_peer(tab, p) # {}
  <2>1. PICK i \in 1..Len(tab) : tab[i].addr = p
    BY <1>1, <1>3 DEF find_peer
  <2>2. i \in DOMAIN new /\ new[i].addr = p
    BY <1>1, <2>1 DEF Grows
  <2> QED
    BY <2>2 DEF ListedOrFull, find_peer
<1> QED
  BY <1>2, <1>3 DEF ListedOrFull

(* A session that is idle or gone asks nothing of the table.               *)
LEMMA NothingUnderway ==
    ASSUME ~Underway'
    PROVE  LockInv'
<1>1. session'.state # "HANDSHAKE" /\ session'.state # "LOCKED"
  BY DEF Underway
<1> QED
  BY <1>1 DEF LockInv, ListedAsConnected, Underway

(* No call of the transport API does: those that end a session or replace  *)
(* it leave none under way.                                                *)
LEMMA CallListed ==
    ASSUME TypeInv, LockInv, Call
    PROVE  LockInv'
<1>1. CASE session' = NoSession
  BY <1>1, NothingUnderway DEF NoSession, Underway
<1>2. CASE UNCHANGED <<session, session_is_locked, g_peers>> /\ (refused' = refused \/ refused')
  BY <1>2 DEF LockInv, Underway, ListedAsConnected
<1>3. ASSUME NEW p \in Peers, session' = [peer |-> p, state |-> "IDLE"] PROVE LockInv'
  BY <1>3, NothingUnderway DEF Underway
<1>4. ASSUME NEW p \in Peers, session' = [peer |-> p, state |-> "HANDSHAKE"],
             session_is_locked' = FALSE, g_peers' = connection_manager_connect(g_peers, p)
      PROVE  LockInv'
  <2>1. session'.peer = p /\ session'.state = "HANDSHAKE"
    BY <1>4
  <2>2. ListedOrFull(g_peers, session.peer)'
    BY <1>4, <2>1, ConnectTable DEF TypeInv
  <2> QED
    BY <1>4, <2>1, <2>2 DEF LockInv, ListedAsConnected, Underway
<1>5. ASSUME Start \/ StartFails \/ Shutdown \/ Disconnect PROVE LockInv'
  BY <1>1, <1>5 DEF Start, StartFails, Shutdown, Disconnect
<1>6. ASSUME NEW p \in Peers, NEW hello \in BOOLEAN, Connect(p, hello) PROVE LockInv'
  <2>1. CASE CanAlloc /\ hello
    BY <1>4, <1>6, <2>1, Zenon DEF Connect
  <2>2. CASE ~ (CanAlloc /\ hello)
    BY <1>1, <1>6, <2>2 DEF Connect
  <2> QED
    BY <2>1, <2>2
<1>7. ASSUME NEW p \in Peers, Request(p) PROVE LockInv'
  <2>1. CASE CanAlloc
    BY <1>3, <1>7, <2>1 DEF Request
  <2>2. CASE ~CanAlloc
    BY <1>2, <1>7, <2>2 DEF Request
  <2> QED
    BY <2>1, <2>2
<1>8. ASSUME NEW p \in Peers, Accept(p) PROVE LockInv'
  BY <1>3, <1>8 DEF Accept
<1>9. ASSUME NEW p \in Peers, Decline(p) PROVE LockInv'
  BY <1>2, <1>9 DEF Decline
<1>10. ASSUME NEW c \in Media, CallStart(c) \/ CallEnd(c) PROVE LockInv'
  BY <1>2, <1>10 DEF CallStart, CallEnd
<1> QED
  BY <1>5, <1>6, <1>7, <1>8, <1>9, <1>10 DEF Call

(* A poll only locks a session whose handshake is under way, and marks the *)
(* entry of its peer then.                                                 *)
LEMMA PollListed ==
    ASSUME TypeInv, RightPeer, LockInv, Poll
    PROVE  LockInv'
<1>0. session \in Sessions
  BY DEF TypeInv
<1>1. CASE UNCHANGED <<session, session_is_locked, g_peers, refused>>
  BY <1>1 DEF LockInv, Underway, ListedAsConnected
<1>2. CASE session' = [session EXCEPT !.state = "IDLE"]
  BY <1>0, <1>2, NothingUnderway DEF Underway, Sessions
<1>3. CASE PollEvent \/ PollTick
  BY <1>1, <1>2, <1>3 DEF PollEvent, PollTick
<1>4. ASSUME NEW p \in Peers, NEW op \in Answers, PollConnect(p, op) PROVE LockInv'
  BY <1>1, <1>2, <1>4, Zenon DEF PollConnect, PollDropped, PollStray
<1>5. ASSUME NEW st \in {"HANDSHAKE", "LOCKED", "IDLE"}, PollHandshake(st) PROVE LockInv'
  <2>1. /\ session.state = "HANDSHAKE" /\ session' = [session EXCEPT !.state = st]
        /\ ~session_is_locked /\ Underway /\ refused' = refused
    BY <1>5 DEF PollHandshake, LockInv, Underway
  <2>2. session'.peer = session.peer /\ session'.state = st
    BY <1>0, <2>1 DEF Sessions
  <2>3. CASE st = "LOCKED"
    <3>1. g_peers' = connection_manager_update_state(g_peers, connect_addr)
      BY <1>5, <2>1, <2>3 DEF PollHandshake
    <3>2. Grows(g_peers, g_peers')
      BY <3>1, StateTables DEF TypeInv
    <3>3. ListedOrFull(g_peers', session.peer)
      BY <2>1, <3>2, StillListed DEF LockInv, TypeInv
    <3>4. ASSUME ~refused PROVE connect_addr = session.peer
      <4>1. session # NoSession
        BY <2>1 DEF NoSession
      <4> QED
        BY <3>4, <4>1 DEF RightPeer
    <3>5. ASSUME ~refused, NEW i \in find_peer(g_peers', session.peer)
          PROVE  g_peers'[i].state = "LOCKED" /\ g_peers'[i].online
      BY <3>1, <3>4, <3>5, StateTables DEF TypeInv
    <3> QED
      BY <2>1, <2>2, <2>3, <3>3, <3>5 DEF LockInv, ListedAsConnected, Underway
  <2>4. CASE st # "LOCKED"
    <3>1. UNCHANGED <<session_is_locked, g_peers>>
      BY <1>5, <2>4 DEF PollHandshake
    <3> QED
      BY <2>1, <2>2, <2>4, <3>1 DEF LockInv, ListedAsConnected, Underway
  <2> QED
    BY <2>3, <2>4
<1> QED
  BY <1>3, <1>4, <1>5 DEF Poll

(* A step of lan_discovery_scan, on the peer table as it stands.           *)
LEMMA ScanStep ==
    ASSUME PeerTable(g_peers), Discover
    PROVE  /\ Grows(g_peers, g_peers')
           /\ \A i \in 1..Len(g_peers) :
                 /\ g_peers'[i].state = g_peers[i].state
                 /\ g_peers[i].state = "LOCKED" /\ g_peers[i].online => g_peers'[i].online
           /\ \A i \in DOMAIN g_peers' : i > Len(g_peers) =>
                 g_peers'[i].state = "CONNECTING" /\ find_peer(g_peers, g_peers'[i].addr) = {}
<1>1. PICK heard \in SUBSET Peers : Scan(heard)
  BY DEF Discover, Beacons
<1>2. PICK seen \in try_recv_beacon(Older(g_peers), heard) :
          g_peers' = connection_manager_mark_stale(seen)
  BY <1>1 DEF Scan
<1> QED
  BY <1>2, ScanTable

(* A scan keeps the entry of a LOCKED session's peer, and enters no other. *)
LEMMA ScanListed ==
    ASSUME TypeInv, LockInv, Discover
    PROVE  PeerTable(g_peers') /\ LockInv'
<1>1. PICK heard \in SUBSET Peers : Scan(heard)
  BY DEF Discover, Beacons
<1>0. PeerTable(g_peers)
  BY DEF TypeInv
<1>3. /\ Grows(g_peers, g_peers')
      /\ \A i \in 1..Len(g_peers) :
            /\ g_peers'[i].state = g_peers[i].state
            /\ g_peers[i].state = "LOCKED" /\ g_peers[i].online => g_peers'[i].online
      /\ \A i \in DOMAIN g_peers' : i > Len(g_peers) =>
            g_peers'[i].state = "CONNECTING" /\ find_peer(g_peers, g_peers'[i].addr) = {}
  BY <1>0, ScanStep
<1>4. UNCHANGED <<session, session_is_locked, refused>>
  BY <1>1 DEF Scan, engine
<1>5. ASSUME Underway' PROVE ListedOrFull(g_peers', session.peer)
  BY <1>0, <1>3, <1>4, <1>5, StillListed DEF LockInv, Underway
<1>6. ASSUME session.state = "LOCKED", ~refused, NEW i \in find_peer(g_peers', session.peer)
      PROVE  g_peers'[i].state = "LOCKED" /\ g_peers'[i].online
  <2>1. /\ Len(g_peers) \in Nat /\ DOMAIN g_peers = 1..Len(g_peers)
        /\ Len(g_peers') \in Nat /\ DOMAIN g_peers' = 1..Len(g_peers')
        /\ Len(g_peers') <= MaxPeers /\ MaxPeers \in Nat
    BY <1>0, <1>3, SizeAssumption DEF PeerTable, Grows
  <2>2. i \in DOMAIN g_peers' /\ g_peers'[i].addr = session.peer
    BY <1>6 DEF find_peer
  <2>3. ListedOrFull(g_peers, session.peer)
    BY <1>6 DEF LockInv, Underway
  <2>4. CASE i > Len(g_peers)
    <3>1. find_peer(g_peers, session.peer) = {}
      BY <1>3, <2>2, <2>4
    <3>0. \A n, m, b \in Nat : \A j \in 1..n : j > b /\ n <= m => b # m
      OBVIOUS
    <3>2. Len(g_peers) # MaxPeers
      BY <2>1, <2>2, <2>4, <3>0, Zenon
    <3> QED
      BY <2>3, <3>1, <3>2 DEF ListedOrFull
  <2>5. CASE ~ (i > Len(g_peers))
    <3>1. i \in 1..Len(g_peers)
      BY <2>1, <2>2, <2>5
    <3>2. i \in find_peer(g_peers, session.peer)
      BY <1>3, <2>1, <2>2, <3>1 DEF find_peer, Grows
    <3>3. g_peers[i].state = "LOCKED" /\ g_peers[i].online
      BY <1>6, <3>2 DEF LockInv, ListedAsConnected
    <3> QED
      BY <1>3, <3>1, <3>3
  <2> QED
    BY <2>4, <2>5
<1> QED
  BY <1>3, <1>4, <1>5, <1>6 DEF LockInv, ListedAsConnected, Underway, Grows

----------------------------------------------------------------------------
(* The station. *)

StationInv == TypeInv /\ PeerInv /\ LockInv

(* A fresh engine, its tables empty.                                       *)
LEMMA StationInit ==
    ASSUME Init
    PROVE  StationInv
<1>1. NoSession \in Sessions /\ session.state = "NONE"
  BY DEF Init, NoSession, Sessions
<1>2. PeerTable(g_peers)
  <2>1. g_peers = <<>> /\ <<>> \in Seq(PeerEntries) /\ Len(<<>>) = 0
    BY DEF Init
  <2> QED
    BY <2>1, SizeAssumption DEF PeerTable
<1>3. /\ g_conn_requests \in Seq(Peers) /\ Len(g_conn_requests) <= MaxPending
      /\ event_ring \in Seq(Events) /\ Len(event_ring) <= EventCap
  BY SizeAssumption DEF Init
<1>4. g_session_count \in 0..MaxSessions
  BY SizeAssumption DEF Init
<1>5. TypeInv
  BY <1>1, <1>2, <1>3, <1>4, ZenonT(30) DEF Init, TypeInv
<1>6. PeerInv
  BY <1>1 DEF Init, PeerInv, RightPeer
<1>7. LockInv
  BY <1>1 DEF LockInv, Underway, ListedAsConnected
<1> QED
  BY <1>5, <1>6, <1>7 DEF StationInv

(* Every call, every packet that poll takes and every scan keeps it.       *)
LEMMA StationStep ==
    ASSUME StationInv, [Next]_cvars
    PROVE  StationInv'
<1> USE DEF StationInv
<1>1. CASE Call
  BY <1>1, CallStep, CallTypes, CallListed
<1>2. CASE Poll
  BY <1>2, PollStep, PollTypes, PollListed DEF PeerInv
<1>3. CASE Discover
  <2>1. PeerInv'
    BY <1>3 DEF Discover, Scan, engine, PeerInv, RightPeer
  <2>2. PeerTable(g_peers') /\ LockInv'
    BY <1>3, ScanListed
  <2>3. TypeInv'
    BY <1>3, <2>2 DEF Discover, Scan, engine, TypeInv
  <2> QED
    BY <2>1, <2>2, <2>3
<1>4. CASE UNCHANGED cvars
  BY <1>4 DEF cvars, engine, TypeInv, PeerInv, RightPeer, LockInv, Underway, ListedAsConnected
<1> QED
  BY <1>1, <1>2, <1>3, <1>4 DEF Next

(* The type invariant, as the runs check it, is part of this one.          *)
LEMMA StationTypeOK ==
    ASSUME StationInv
    PROVE  TypeOK
<1>1. Range(g_conn_requests) \subseteq Peers
  BY DEF StationInv, TypeInv, Range
<1>2. \A i \in DOMAIN g_peers :
          g_peers[i] \in [addr : Peers, state : {"CONNECTING", "LOCKED", "DISCONNECTED"},
                          online : BOOLEAN, age : Ages]
  <2>1. \A i \in DOMAIN g_peers : g_peers[i] \in PeerEntries
    BY DEF StationInv, TypeInv, PeerTable
  <2> QED
    BY <2>1 DEF PeerEntries
<1> QED
  BY <1>1, <1>2 DEF StationInv, TypeInv, TypeOK, Sessions, PeerTable

(* Whatever the calls, packets and scans, the session table, the peer      *)
(* table, the pending requests and the event ring stay within their        *)
(* arrays, and every variable has its type.                                *)
THEOREM StationTypes == Spec => []TypeOK
<1> QED
  BY StationInit, StationStep, StationTypeOK, PTL DEF Spec

(* Everything the engine sends goes to the peer that its session is with,  *)
(* and a lock marks that peer's entry: eng->session, eng->peer_addr and    *)
(* eng->connect_addr_str agree through any order of calls and packets,     *)
(* until transport_engine_send_connect_request finds the table full.       *)
THEOREM AddressesAgree == Spec => []RightPeer
<1>1. StationInv => RightPeer
  BY DEF StationInv, PeerInv
<1> QED
  BY <1>1, StationInit, StationStep, PTL DEF Spec

(* The peer of a LOCKED session is listed as connected and online for as   *)
(* long as the session stays LOCKED: neither connection_manager_mark_stale *)
(* nor a beacon of try_recv_beacon changes that, however full the table.   *)
THEOREM LockedPeerStaysListed == Spec => []ListedAsConnected
<1>1. StationInv => ListedAsConnected
  BY DEF StationInv, LockInv
<1> QED
  BY <1>1, StationInit, StationStep, PTL DEF Spec

----------------------------------------------------------------------------
----------------------------------------------------------------------------
(* The console.  First what the user sees: the handlers of keys and events *)
(* as functions on the tui_t.                                              *)

TuiFields ==
    {"running", "screen", "identity", "login_field", "username", "login_error", "input",
     "typing_flag", "typing_tick", "info", "peers", "selected", "partner", "unread", "chat",
     "popup", "popup_sel", "req", "call_popup", "call_sel", "active", "focus", "room_scroll",
     "current_room", "setting", "adv_tab", "adv_row", "paused", "space"}

ChatLines == [self : BOOLEAN, status : 0..2]
PeerLines == [addr : Peers, connected : {FALSE}]
Rooms == [name : RoomNames, msgs : 0..MaxMsgs]

\* No popup ever opens and no peer is ever shown as connected: see Quiet.
UiOK(u) ==
    /\ DOMAIN u = TuiFields
    /\ u.screen \in Screens /\ u.input \in Lines \cup {NoLine}
    /\ u.chat \in Seq(ChatLines) /\ Len(u.chat) <= MaxLines
    /\ u.peers \in Seq(PeerLines) /\ u.selected \in 1..(Len(u.peers) + 1)
    /\ u.popup = FALSE /\ u.call_popup = NULL /\ u.info # "LOCKED"

RoomsOK(rs) == rs \in Seq(Rooms) /\ Len(rs) <= MaxRooms

InRooms(u, rs) ==
    /\ u.room_scroll \in 1..(Len(rs) + 1)
    /\ u.current_room # NULL => group_find(rs, u.current_room) # {}

\* A handler's new tui_t, when it submits nothing or a command key.
CommandKeys == {0, -10, -20, -21, -22, -40, -41}

Handled(u, v) ==
    /\ UiOK(v) /\ InRooms(v, g_rooms)
    /\ v.partner = u.partner /\ v.peers = u.peers

(* What a line is: only a command to connect names a peer, and only one    *)
(* about rooms a room.                                                     *)
LEMMA LineKinds ==
    ASSUME NEW l \in Lines \cup {NoLine}
    PROVE  /\ l.len \in Nat
           /\ l.cmd \in {"text", "mykey", "connect", "room list", "room create", "room join", "room leave"}
           /\ l.cmd = "connect" => l.arg \in Peers
           /\ l.cmd \in {"room create", "room join", "room leave"} => l.arg \in RoomNames
<1> USE DEF Line
<1>1. CASE l = NoLine
  BY <1>1 DEF NoLine
<1>2. ASSUME NEW n \in {1, 2, 10}, l = Line(n, "text", NULL)
      PROVE  l.len \in Nat /\ l.cmd = "text"
  BY <1>2
<1>3. ASSUME l = Line(6, "mykey", NULL) PROVE l.len \in Nat /\ l.cmd = "mykey"
  BY <1>3
<1>6. ASSUME l = Line(10, "room list", NULL) PROVE l.len \in Nat /\ l.cmd = "room list"
  BY <1>6, Zenon
<1>4. ASSUME NEW p \in Peers, l = Line(22, "connect", p)
      PROVE  l.len \in Nat /\ l.cmd = "connect" /\ l.arg \in Peers
  BY <1>4
<1>5. ASSUME NEW c \in {"room create", "room join", "room leave"}, NEW r \in RoomNames, l = Line(14, c, r)
      PROVE  l.len \in Nat /\ l.cmd \in {"room create", "room join", "room leave"} /\ l.arg \in RoomNames
  BY <1>5, ZenonT(30)
<1> HIDE DEF Line
<1> QED
  <2>1. CASE \E n \in {1, 2, 10} : l = Line(n, "text", NULL)
    BY <2>1, <1>2, Zenon
  <2>2. CASE l = Line(6, "mykey", NULL) \/ l = Line(10, "room list", NULL)
    BY <2>2, <1>3, <1>6, Zenon
  <2>3. CASE \E p \in Peers : l = Line(22, "connect", p)
    BY <2>3, <1>4, Zenon
  <2>4. CASE \E c \in {"room create", "room join", "room leave"}, r \in RoomNames : l = Line(14, c, r)
    BY <2>4, <1>5, Zenon
  <2>5. CASE l \in Lines
    <3>1. \/ \E n \in {1, 2, 10} : l = Line(n, "text", NULL)
          \/ l = Line(6, "mykey", NULL) \/ l = Line(10, "room list", NULL)
          \/ \E p \in Peers : l = Line(22, "connect", p)
          \/ \E c \in {"room create", "room join", "room leave"}, r \in RoomNames : l = Line(14, c, r)
      BY <2>5, Zenon DEF Lines
    <3> QED
      BY <2>1, <2>2, <2>3, <2>4, <3>1, Zenon
  <2> QED
    BY <1>1, <2>5, Zenon

(* The two fields of what a handler returns.                               *)
LEMMA ThenFields ==
    ASSUME NEW v, NEW n
    PROVE  Then(v, n).t = v /\ Then(v, n).code = n
  BY DEF Then

(* handle_login_input, handle_settings_input and handle_advanced_input     *)
(* touch nothing that is indexed.                                          *)
LEMMA PlainKeys ==
    ASSUME NEW u, UiOK(u), InRooms(u, g_rooms), NEW k
    PROVE  /\ Handled(u, handle_login_input(u, k).t)
           /\ handle_login_input(u, k).code \in CommandKeys
           /\ Handled(u, handle_settings_input(u, k).t)
           /\ handle_settings_input(u, k).code \in CommandKeys
           /\ Handled(u, handle_advanced_input(u, k).t)
           /\ handle_advanced_input(u, k).code \in CommandKeys
<1> USE DEF Then, Handled, UiOK, TuiFields, InRooms, CommandKeys
<1>0. NoLine \in Lines \cup {NoLine} /\ {"LOGIN", "PEER_LIST", "SETTINGS", "ADVANCED"} \subseteq Screens
  BY DEF Screens
<1>1. Handled(u, handle_login_input(u, k).t) /\ handle_login_input(u, k).code \in CommandKeys
  BY <1>0 DEF handle_login_input
<1>2. Handled(u, handle_settings_input(u, k).t) /\ handle_settings_input(u, k).code \in CommandKeys
  BY <1>0 DEF handle_settings_input
<1>3. Handled(u, handle_advanced_input(u, k).t) /\ handle_advanced_input(u, k).code \in CommandKeys
  BY <1>0 DEF handle_advanced_input
<1> QED
  BY <1>1, <1>2, <1>3, ZenonT(30)

\* The code is that of a peer of the list.
ChosenPeer(h) == h.t.selected <= Len(h.t.peers) /\ h.code = 10 + h.t.selected - 1

(* handle_peer_list_input: the choice stays in the list, or one past it.   *)
LEMMA PeerListKey ==
    ASSUME NEW u, UiOK(u), InRooms(u, g_rooms), NEW k
    PROVE  LET h == handle_peer_list_input(u, k)
           IN  Handled(u, h.t) /\ (h.code \in CommandKeys \/ ChosenPeer(h))
<1> USE DEF Then, Handled, UiOK, TuiFields, InRooms, CommandKeys
<1>0. NoLine \in Lines \cup {NoLine} /\ {"LOGIN", "GROUP"} \subseteq Screens
  BY DEF Screens
<1> DEFINE h == handle_peer_list_input(u, k)
<1>1. CASE k = "DOWN" \/ k = "UP"
  <2> DEFINE n == IF k = "DOWN" THEN Down(u.selected, Len(u.peers)) ELSE Up(u.selected, 1)
  <2>1. n \in 1..(Len(u.peers) + 1)
    BY DEF Down, Up
  <2>2. h = Then([u EXCEPT !.selected = n], 0)
    BY <1>1, Zenon DEF handle_peer_list_input
  <2> HIDE DEF n
  <2> QED
    BY <2>1, <2>2
<1>2. CASE k = "RIGHT" /\ u.selected <= Len(u.peers)
  <2>1. h = Then(u, 10 + u.selected - 1)
    BY <1>2 DEF handle_peer_list_input
  <2> HIDE DEF h
  <2>2. h.t = u /\ h.code = 10 + u.selected - 1
    BY <2>1 DEF Then
  <2>3. Handled(u, h.t)
    BY <2>2
  <2>4. ChosenPeer(h)
    BY <1>2, <2>2 DEF ChosenPeer
  <2> QED
    BY <2>3, <2>4, Zenon DEF h
<1>3. CASE ~ (k = "DOWN" \/ k = "UP") /\ ~ (k = "RIGHT" /\ u.selected <= Len(u.peers))
  BY <1>0, <1>3 DEF handle_peer_list_input, GoTo
<1> QED
  BY <1>1, <1>2, <1>3, ZenonT(30)

\* The buffer is empty by the time the length of a line is handed on.
Submitted(h) == h.t.input = NoLine /\ h.code \in Nat

(* handle_chat_input *)
LEMMA ChatKey ==
    ASSUME NEW u, UiOK(u), InRooms(u, g_rooms), NEW k, NEW l \in Lines \cup {NoLine}
    PROVE  LET h == handle_chat_input(u, k, l)
           IN  Handled(u, h.t) /\ (h.code \in CommandKeys \/ Submitted(h))
<1> USE DEF Then, Handled, UiOK, TuiFields, InRooms, CommandKeys
<1>0. NoLine \in Lines \cup {NoLine} /\ "PEER_LIST" \in Screens /\ u.input.len \in Nat
  BY LineKinds, Zenon DEF Screens
<1> DEFINE h == handle_chat_input(u, k, l)
<1>1. CASE k = "ENTER"
  <2>1. h = Then([u EXCEPT !.input = NoLine], u.input.len)
    BY <1>1 DEF handle_chat_input
  <2> QED
    BY <1>0, <2>1 DEF Submitted
<1>2. CASE k # "ENTER"
  BY <1>0, <1>2 DEF handle_chat_input, GoTo, Typed
<1> QED
  BY <1>1, <1>2, ZenonT(30)

(* handle_group_input: the room that is opened is one of the list.         *)
LEMMA GroupKey ==
    ASSUME NEW u, UiOK(u), InRooms(u, g_rooms), RoomsOK(g_rooms), NEW k, NEW l \in Lines \cup {NoLine}
    PROVE  LET h == handle_group_input(u, k, l)
           IN  Handled(u, h.t) /\ (h.code \in CommandKeys \/ Submitted(h))
<1>0. NoLine \in Lines \cup {NoLine} /\ "PEER_LIST" \in Screens
  BY DEF Screens
<1>a. Len(g_rooms) \in Nat /\ DOMAIN g_rooms = 1..Len(g_rooms)
  BY DEF RoomsOK
<1> DEFINE h == handle_group_input(u, k, l)
           c == handle_chat_input(u, k, l)
<1>b. Handled(u, c.t) /\ (c.code \in CommandKeys \/ Submitted(c))
  BY ChatKey
<1> HIDE DEF c
<1>1. CASE u.focus = 0 /\ (k = "DOWN" \/ k = "UP")
  <2> DEFINE n == IF k = "DOWN" THEN Down(u.room_scroll, Len(g_rooms)) ELSE Up(u.room_scroll, 1)
  <2>1. n \in 1..(Len(g_rooms) + 1)
    BY <1>a DEF Down, Up, InRooms
  <2>2. h = Then([u EXCEPT !.room_scroll = n], 0)
    BY <1>1 DEF handle_group_input
  <2> HIDE DEF n, h
  <2>3. Handled(u, [u EXCEPT !.room_scroll = n])
    BY <2>1 DEF Handled, UiOK, TuiFields, InRooms
  <2> QED
    BY <2>2, <2>3, ThenFields DEF CommandKeys, h
<1>2. CASE u.focus = 0 /\ k = "RIGHT" /\ u.room_scroll <= Len(g_rooms)
  <2> DEFINE nm == g_rooms[u.room_scroll].name
  <2>1. u.room_scroll \in DOMAIN g_rooms
    BY <1>a, <1>2 DEF InRooms
  <2>2. group_find(g_rooms, nm) # {}
    BY <2>1 DEF group_find
  <2>3. h = Then([u EXCEPT !.current_room = nm, !.input = NoLine], 0)
    BY <1>2 DEF handle_group_input
  <2> HIDE DEF nm, h
  <2>4. Handled(u, [u EXCEPT !.current_room = nm, !.input = NoLine])
    BY <1>0, <2>2 DEF Handled, UiOK, TuiFields, InRooms
  <2> QED
    BY <2>3, <2>4, ThenFields DEF CommandKeys, h
<1>3. CASE ~ (u.focus = 0 /\ (k = "DOWN" \/ k = "UP")) /\ ~ (u.focus = 0 /\ k = "RIGHT" /\ u.room_scroll <= Len(g_rooms))
  <2>1. h \in {Then([u EXCEPT !.focus = (u.focus + 1) % 3], 0), Then(GoTo(u, "PEER_LIST"), 0),
               Then([u EXCEPT !.running = FALSE], 0), Then(u, 0), c}
    BY <1>3 DEF handle_group_input, c
  <2> HIDE DEF h
  <2>2. CASE h = c
    BY <1>b, <2>2 DEF h
  <2>3. CASE h # c
    <3>1. /\ Handled(u, [u EXCEPT !.focus = (u.focus + 1) % 3]) /\ Handled(u, GoTo(u, "PEER_LIST"))
          /\ Handled(u, [u EXCEPT !.running = FALSE]) /\ Handled(u, u)
      BY <1>0 DEF GoTo, Handled, UiOK, TuiFields, InRooms
    <3> QED
      BY <2>1, <2>3, <3>1, ThenFields DEF CommandKeys, h
  <2> QED
    BY <2>2, <2>3
<1> QED
  BY <1>1, <1>2, <1>3

(* tui_input_poll: whatever the key and the screen, the lists still point  *)
(* into their arrays, and the code that run_tui gets is a command key, the *)
(* length of a line that has left the buffer, or a peer of the list.       *)
LEMMA AnyKey ==
    ASSUME UiOK(t), InRooms(t, g_rooms), RoomsOK(g_rooms), NEW k, NEW l \in Lines \cup {NoLine}
    PROVE  LET h == tui_input_poll(k, l)
           IN  Handled(t, h.t) /\ (h.code \in CommandKeys \/ Submitted(h) \/ ChosenPeer(h))
<1> DEFINE h == tui_input_poll(k, l)
<1>0. /\ t.popup = FALSE /\ t.call_popup = NULL
      /\ t.screen \in {"LOGIN", "PEER_LIST", "CHAT", "GROUP", "SETTINGS", "ADVANCED"}
  BY DEF UiOK, Screens
<1>1. CASE k \in {"CTRL_C", "CTRL_Z", "NONE"}
  <2>1. h \in {Then([t EXCEPT !.running = FALSE], 0), Then(t, 0)}
    BY <1>1 DEF tui_input_poll
  <2>2. Handled(t, t) /\ Handled(t, [t EXCEPT !.running = FALSE])
    BY DEF Handled, UiOK, TuiFields, InRooms
  <2> HIDE DEF h
  <2> QED
    BY <2>1, <2>2, ThenFields DEF CommandKeys, h
<1>2. CASE k \notin {"CTRL_C", "CTRL_Z", "NONE"}
  <2>1. \/ t.screen = "LOGIN" /\ h = handle_login_input(t, k)
        \/ t.screen = "PEER_LIST" /\ h = handle_peer_list_input(t, k)
        \/ t.screen = "CHAT" /\ h = handle_chat_input(t, k, l)
        \/ t.screen = "GROUP" /\ h = handle_group_input(t, k, l)
        \/ t.screen = "SETTINGS" /\ h = handle_settings_input(t, k)
        \/ t.screen = "ADVANCED" /\ h = handle_advanced_input(t, k)
    BY <1>0, <1>2 DEF tui_input_poll
  <2> HIDE DEF h
  <2>2. CASE h \in {handle_login_input(t, k), handle_settings_input(t, k), handle_advanced_input(t, k)}
    BY <2>2, PlainKeys DEF h
  <2>3. CASE h = handle_peer_list_input(t, k)
    BY <2>3, PeerListKey DEF h
  <2>4. CASE h = handle_chat_input(t, k, l)
    BY <2>4, ChatKey DEF h
  <2>5. CASE h = handle_group_input(t, k, l)
    BY <2>5, GroupKey DEF h
  <2> QED
    BY <2>1, <2>2, <2>3, <2>4, <2>5
<1> QED
  BY <1>1, <1>2

\* The parts of the tui_t that tui_add_chat leaves alone and others look at.
SameView(u, v) ==
    /\ v.partner = u.partner /\ v.peers = u.peers
    /\ v.room_scroll = u.room_scroll /\ v.current_room = u.current_room

(* tui_add_chat: the oldest line makes room.                               *)
LEMMA AddChat ==
    ASSUME NEW u, UiOK(u), NEW self \in BOOLEAN
    PROVE  UiOK(tui_add_chat(u, self)) /\ SameView(u, tui_add_chat(u, self))
<1> DEFINE ln == [self |-> self, status |-> IF self THEN 0 ELSE 1]
           kept == IF Len(u.chat) >= MaxLines THEN Tail(u.chat) ELSE u.chat
           chat == Append(kept, ln)
<1>1. ln \in ChatLines
  BY DEF ChatLines
<1>2. u.chat \in Seq(ChatLines) /\ Len(u.chat) <= MaxLines /\ MaxLines \in Nat /\ MaxLines > 0
  BY ConsoleAssumption DEF UiOK
<1> HIDE DEF ln
<1>3. kept \in Seq(ChatLines) /\ Len(kept) < MaxLines
  <2>1. CASE Len(u.chat) >= MaxLines
    <3>1. u.chat # <<>>
      BY <1>2, <2>1
    <3>2. Tail(u.chat) \in Seq(ChatLines) /\ Len(Tail(u.chat)) = Len(u.chat) - 1
      BY <1>2, <3>1
    <3> QED
      BY <1>2, <2>1, <3>2
  <2>2. CASE ~ (Len(u.chat) >= MaxLines)
    BY <1>2, <2>2
  <2> QED
    BY <2>1, <2>2
<1> HIDE DEF kept
<1>4. chat \in Seq(ChatLines) /\ Len(chat) = Len(kept) + 1 /\ Len(kept) \in Nat
  BY <1>1, <1>3
<1>5. Len(chat) <= MaxLines
  BY <1>2, <1>3, <1>4
<1>6. tui_add_chat(u, self) = [u EXCEPT !.chat = chat]
  BY DEF tui_add_chat, kept, ln
<1> HIDE DEF chat
<1> QED
  BY <1>4, <1>5, <1>6 DEF UiOK, TuiFields, SameView

(* group_create: a room is added at the end, if there is a place for it.   *)
LEMMA CreateRoom ==
    ASSUME NEW rs, RoomsOK(rs), NEW name \in RoomNames
    PROVE  LET new == group_create(rs, name)
           IN  /\ RoomsOK(new) /\ Len(rs) <= Len(new)
               /\ \A x : group_find(rs, x) # {} => group_find(new, x) # {}
               /\ new # rs => group_find(new, name) # {}
<1> DEFINE new == group_create(rs, name)
           rm == [name |-> name, msgs |-> 0]
<1>0. rs \in Seq(Rooms) /\ Len(rs) \in Nat /\ DOMAIN rs = 1..Len(rs) /\ MaxRooms \in Nat
  BY ConsoleAssumption DEF RoomsOK
<1>1. CASE group_find(rs, name) = {} /\ Len(rs) < MaxRooms
  <2>1. rm \in Rooms /\ rm.name = name
    BY ConsoleAssumption DEF Rooms
  <2>2. new = Append(rs, rm)
    BY <1>1 DEF group_create
  <2> HIDE DEF rm, new
  <2>3. /\ new \in Seq(Rooms) /\ Len(new) = Len(rs) + 1 /\ new[Len(rs) + 1] = rm
        /\ \A i \in 1..Len(rs) : new[i] = rs[i]
    BY <1>0, <2>1, <2>2
  <2>4. DOMAIN new = 1..(Len(rs) + 1) /\ Len(new) <= MaxRooms /\ Len(rs) <= Len(new)
    BY <1>0, <1>1, <2>3
  <2>5. \A x : group_find(rs, x) # {} => group_find(new, x) # {}
    BY <1>0, <2>3, <2>4 DEF group_find
  <2>6. group_find(new, name) # {}
    BY <1>0, <2>1, <2>3, <2>4 DEF group_find
  <2> QED
    BY <2>3, <2>4, <2>5, <2>6 DEF RoomsOK, new
<1>2. CASE ~ (group_find(rs, name) = {} /\ Len(rs) < MaxRooms)
  <2>1. new = rs
    BY <1>2 DEF group_create
  <2> HIDE DEF new
  <2> QED
    BY <1>0, <2>1 DEF new
<1> QED
  BY <1>1, <1>2

(* group_add_message: the count stops at the end of the array.             *)
LEMMA RoomMessage ==
    ASSUME NEW rs, RoomsOK(rs), NEW name
    PROVE  LET new == group_add_message(rs, name)
           IN  RoomsOK(new) /\ Len(new) = Len(rs) /\ \A x : group_find(new, x) = group_find(rs, x)
<1> DEFINE new == group_add_message(rs, name)
<1>0. /\ rs \in Seq(Rooms) /\ Len(rs) \in Nat /\ DOMAIN rs = 1..Len(rs)
      /\ \A i \in DOMAIN rs : rs[i] \in Rooms
  BY DEF RoomsOK
<1>1. /\ DOMAIN new = DOMAIN rs
      /\ \A i \in DOMAIN rs : new[i] =
            IF rs[i].name = name
            THEN [rs[i] EXCEPT !.msgs = IF rs[i].msgs >= MaxMsgs THEN MaxMsgs ELSE rs[i].msgs + 1]
            ELSE rs[i]
      /\ new = [i \in DOMAIN rs |-> new[i]]
  BY DEF group_add_message
<1> HIDE DEF new
<1>2. \A n \in 0..MaxMsgs : (IF n >= MaxMsgs THEN MaxMsgs ELSE n + 1) \in 0..MaxMsgs
  BY ConsoleAssumption
<1>3. \A i \in DOMAIN rs : new[i] \in Rooms /\ new[i].name = rs[i].name
  <2> SUFFICES ASSUME NEW i \in DOMAIN rs PROVE new[i] \in Rooms /\ new[i].name = rs[i].name
    OBVIOUS
  <2> DEFINE m == IF rs[i].msgs >= MaxMsgs THEN MaxMsgs ELSE rs[i].msgs + 1
  <2>1. rs[i] \in Rooms
    BY <1>0
  <2>2. m \in 0..MaxMsgs
    BY <1>2, <2>1 DEF Rooms
  <2>3. new[i] = IF rs[i].name = name THEN [rs[i] EXCEPT !.msgs = m] ELSE rs[i]
    BY <1>1
  <2> HIDE DEF m
  <2> QED
    BY <2>1, <2>2, <2>3 DEF Rooms
<1>4. new \in [1..Len(rs) -> Rooms]
  BY <1>0, <1>1, <1>3
<1>5. new \in Seq(Rooms) /\ Len(new) = Len(rs)
  BY <1>0, <1>4
<1>6. \A x : group_find(new, x) = group_find(rs, x)
  BY <1>1, <1>3 DEF group_find
<1> QED
  BY <1>5, <1>6 DEF RoomsOK, new

(* What a tui_t points at in the rooms is still there when the rooms have  *)
(* grown or counted a message.                                             *)
LEMMA StillInRooms ==
    ASSUME NEW u, NEW rs, RoomsOK(rs), InRooms(u, rs), NEW new, RoomsOK(new), Len(rs) <= Len(new),
           \A x : group_find(rs, x) # {} => group_find(new, x) # {}
    PROVE  InRooms(u, new)
<1>1. Len(rs) \in Nat /\ Len(new) \in Nat
  BY DEF RoomsOK
<1>2. u.room_scroll \in 1..(Len(new) + 1)
  BY <1>1 DEF InRooms
<1> QED
  BY <1>2 DEF InRooms

(* The events that the engine of this console raises, and the empty one    *)
(* that the loop may look at.                                              *)
QuietEvents == [type : {"CONNECT_ACCEPT", "CONNECT_DECLINE"}, from : Peers]
NoEvent == [type |-> "NONE", from |-> NULL]

(* handle_transport_events opens the chat of nobody in particular, or adds *)
(* a line.                                                                 *)
LEMMA EventShown ==
    ASSUME NEW u, UiOK(u), NEW rs, InRooms(u, rs), NEW e \in QuietEvents \cup {NoEvent}
    PROVE  LET v == HandleEvent(u, e)
           IN  UiOK(v) /\ InRooms(v, rs) /\ v.peers = u.peers /\ v.partner \in {u.partner, NULL}
<1> DEFINE v == HandleEvent(u, e)
           w == [u EXCEPT !.screen = "CHAT", !.partner = NULL]
<1>1. UiOK(w) /\ InRooms(w, rs) /\ w.peers = u.peers /\ w.partner = NULL
  BY DEF UiOK, InRooms, TuiFields, Screens
<1>2. e.type \in {"CONNECT_ACCEPT", "CONNECT_DECLINE", "NONE"}
  BY DEF QuietEvents, NoEvent
<1>3. v \in {tui_add_chat(w, FALSE), tui_add_chat(u, FALSE), u}
  BY <1>2, Zenon DEF HandleEvent
<1> HIDE DEF v, w
<1>4. CASE v = tui_add_chat(w, FALSE)
  BY <1>1, <1>4, AddChat, Zenon DEF SameView, InRooms, v
<1>5. CASE v = tui_add_chat(u, FALSE)
  BY <1>5, AddChat, Zenon DEF SameView, InRooms, v
<1>6. CASE v = u
  BY <1>6 DEF v
<1> QED
  BY <1>3, <1>4, <1>5, <1>6, Zenon

\* What a key leaves on the screen and in the rooms, and whom it may ask.
Shown(u) ==
    UiOK(t') /\ RoomsOK(g_rooms') /\ InRooms(t', g_rooms') /\ t'.peers = u.peers

Asks == \E p \in Peers : initialized /\ Request(p) /\ t'.partner = p

Outcome(u) ==
    /\ Shown(u)
    /\ Asks \/ (UNCHANGED cvars /\ t'.partner = u.partner)

(* The room commands keep the open room one of the rooms.                  *)
LEMMA RoomCommandShown ==
    ASSUME RoomsOK(g_rooms), NEW u, UiOK(u), InRooms(u, g_rooms), NEW l \in Lines,
           l.cmd \in {"room list", "room create", "room join", "room leave"},
           t' = RoomCommand(u, l)[1], g_rooms' = RoomCommand(u, l)[2]
    PROVE  Shown(u) /\ t'.partner = u.partner
<1> DEFINE said(v) == tui_add_chat(v, FALSE)
           entered == [u EXCEPT !.current_room = l.arg, !.screen = "GROUP", !.focus = 2]
           made == group_create(g_rooms, l.arg)
           left == [u EXCEPT !.current_room = NULL]
<1>0. UiOK(said(u)) /\ InRooms(said(u), g_rooms) /\ said(u).peers = u.peers /\ said(u).partner = u.partner
  BY AddChat, Zenon DEF SameView, InRooms
<1>1. UiOK(entered) /\ entered.peers = u.peers /\ entered.partner = u.partner
      /\ entered.room_scroll = u.room_scroll /\ entered.current_room = l.arg
  BY ZenonT(30) DEF UiOK, TuiFields, Screens
<1>2. UiOK(left) /\ left.peers = u.peers /\ left.partner = u.partner
      /\ left.room_scroll = u.room_scroll /\ left.current_room = NULL
  BY ZenonT(30) DEF UiOK, TuiFields
<1>m. ASSUME NEW rs, RoomsOK(rs), NEW v, InRooms(v, rs), NEW x
      PROVE  RoomsOK(group_add_message(rs, x)) /\ InRooms(v, group_add_message(rs, x))
  <2>1. /\ RoomsOK(group_add_message(rs, x)) /\ Len(group_add_message(rs, x)) = Len(rs)
        /\ \A y : group_find(group_add_message(rs, x), y) = group_find(rs, y)
    BY <1>m, RoomMessage, ZenonT(30)
  <2> QED
    BY <1>m, <2>1, ZenonT(30) DEF InRooms
<1> HIDE DEF said, entered, left
<1>3. CASE l.cmd = "room list"
  <2>1. \/ t' = u /\ g_rooms' = group_add_message(g_rooms, u.current_room)
        \/ t' = said(u) /\ g_rooms' = g_rooms
    BY <1>3, ZenonT(30) DEF RoomCommand, said
  <2> QED
    BY <1>0, <1>m, <2>1, ZenonT(30) DEF Shown
<1>4. CASE l.cmd = "room create"
  <2>1. \/ made # g_rooms /\ t' = entered /\ g_rooms' = group_add_message(made, l.arg)
        \/ t' = said(u) /\ g_rooms' = g_rooms
    BY <1>4, ZenonT(30) DEF RoomCommand, said, entered
  <2>2. CASE made # g_rooms /\ t' = entered /\ g_rooms' = group_add_message(made, l.arg)
    <3>1. l.arg \in RoomNames
      BY <1>4, LineKinds, Zenon
    <3>2. /\ RoomsOK(made) /\ Len(g_rooms) <= Len(made)
          /\ \A x : group_find(g_rooms, x) # {} => group_find(made, x) # {}
          /\ made # g_rooms => group_find(made, l.arg) # {}
      BY <3>1, CreateRoom, ZenonT(30)
    <3> HIDE DEF made
    <3>3. InRooms(u, made)
      BY <3>2, StillInRooms, ZenonT(30)
    <3>4. InRooms(entered, made)
      BY <1>1, <2>2, <3>2, <3>3, ZenonT(30) DEF InRooms
    <3> QED
      BY <1>1, <1>m, <2>2, <3>2, <3>4, ZenonT(30) DEF Shown
  <2> QED
    BY <1>0, <2>1, <2>2, ZenonT(30) DEF Shown
<1>5. CASE l.cmd = "room join"
  <2>1. \/ group_find(g_rooms, l.arg) # {} /\ t' = entered /\ g_rooms' = g_rooms
        \/ t' = said(u) /\ g_rooms' = g_rooms
    BY <1>5, ZenonT(30) DEF RoomCommand, said, entered
  <2>2. group_find(g_rooms, l.arg) # {} => InRooms(entered, g_rooms)
    BY <1>1, Zenon DEF InRooms
  <2> QED
    BY <1>0, <1>1, <2>1, <2>2, ZenonT(30) DEF Shown
<1>6. CASE l.cmd = "room leave"
  <2>1. t' \in {u, left} /\ g_rooms' = group_add_message(g_rooms, l.arg)
    BY <1>6, ZenonT(30) DEF RoomCommand, left
  <2>2. InRooms(left, g_rooms)
    BY <1>2, Zenon DEF InRooms
  <2> QED
    BY <1>2, <1>m, <2>1, <2>2, Zenon DEF Shown
<1> QED
  BY <1>3, <1>4, <1>5, <1>6, Zenon

(* A command of the buffer: the peer it connects to is the one on show.    *)
LEMMA CommandShown ==
    ASSUME RoomsOK(g_rooms), NEW h, UiOK(h.t), InRooms(h.t, g_rooms), h.t.input \in Lines,
           h.t.input.cmd # "text", initialized, Command(h)
    PROVE  Outcome(h.t)
<1> DEFINE l == h.t.input
           u == [h.t EXCEPT !.input = NoLine]
<1>1. UiOK(u) /\ InRooms(u, g_rooms) /\ u.peers = h.t.peers /\ u.partner = h.t.partner
  BY DEF UiOK, InRooms, TuiFields
<1>2. l \in Lines /\ l.cmd \in {"mykey", "connect", "room list", "room create", "room join", "room leave"}
      /\ (l.cmd = "connect" => l.arg \in Peers)
  BY LineKinds, ZenonT(30)
<1>3. CASE l.cmd = "connect"
  <2> DEFINE v == OpenChat(u, l.arg)
  <2>1. Request(l.arg) /\ t' = tui_add_chat(v, FALSE) /\ g_rooms' = g_rooms
    BY <1>3 DEF Command
  <2> HIDE DEF u
  <2>2. UiOK(v) /\ InRooms(v, g_rooms) /\ v.peers = u.peers /\ v.partner = l.arg
    BY <1>1 DEF OpenChat, UiOK, InRooms, TuiFields, Screens
  <2> HIDE DEF v
  <2>3. UiOK(t') /\ SameView(v, t')
    BY <2>1, <2>2, AddChat, ZenonT(30)
  <2>4. Shown(h.t) /\ t'.partner = l.arg
    BY <1>1, <2>1, <2>2, <2>3, ZenonT(30) DEF Shown, SameView, InRooms
  <2> QED
    BY <1>2, <1>3, <2>1, <2>4, ZenonT(30) DEF Outcome, Asks
<1>4. CASE l.cmd = "mykey"
  <2>1. t' = tui_add_chat(u, FALSE) /\ UNCHANGED <<cvars, g_rooms>>
    BY <1>4 DEF Command
  <2> HIDE DEF u
  <2>2. UiOK(t') /\ SameView(u, t')
    BY <1>1, <2>1, AddChat, ZenonT(30)
  <2> QED
    BY <1>1, <2>1, <2>2, ZenonT(30) DEF Outcome, Shown, SameView, InRooms
<1>5. CASE l.cmd \notin {"connect", "mykey"}
  <2>1. t' = RoomCommand(u, l)[1] /\ g_rooms' = RoomCommand(u, l)[2] /\ UNCHANGED cvars
    BY <1>5, Zenon DEF Command
  <2> HIDE DEF u, l
  <2>2. Shown(u) /\ t'.partner = u.partner
    BY <1>1, <1>2, <1>5, <2>1, RoomCommandShown, Zenon
  <2> QED
    BY <1>1, <2>1, <2>2 DEF Outcome, Shown
<1> QED
  BY <1>3, <1>4, <1>5

(* A line of text goes to the open room, or to nobody: no session is       *)
(* locked.                                                                 *)
LEMMA LineShown ==
    ASSUME RoomsOK(g_rooms), NEW u, UiOK(u), InRooms(u, g_rooms), NEW code,
           SubmitLine(u, code), UNCHANGED cvars
    PROVE  Outcome(u)
<1> DEFINE v == [u EXCEPT !.input = NoLine]
<1>1. UiOK(v) /\ InRooms(v, g_rooms) /\ v.peers = u.peers /\ v.partner = u.partner
  BY DEF UiOK, InRooms, TuiFields
<1>2. \/ t' = v /\ g_rooms' = group_add_message(g_rooms, u.current_room)
      \/ g_rooms' = g_rooms /\ (t' = u \/ \E self \in BOOLEAN : t' = tui_add_chat(v, self))
  BY ZenonT(30) DEF SubmitLine
<1> HIDE DEF v
<1>3. CASE t' = v /\ g_rooms' = group_add_message(g_rooms, u.current_room)
  <2>1. /\ RoomsOK(g_rooms') /\ Len(g_rooms') = Len(g_rooms)
        /\ \A x : group_find(g_rooms', x) = group_find(g_rooms, x)
    BY <1>3, RoomMessage
  <2> QED
    BY <1>1, <1>3, <2>1 DEF Outcome, Shown, InRooms
<1>4. CASE g_rooms' = g_rooms /\ t' = u
  BY <1>4 DEF Outcome, Shown
<1>5. ASSUME g_rooms' = g_rooms, NEW self \in BOOLEAN, t' = tui_add_chat(v, self) PROVE Outcome(u)
  <2>1. UiOK(t') /\ SameView(v, t')
    BY <1>1, <1>5, AddChat
  <2> QED
    BY <1>1, <1>5, <2>1 DEF Outcome, Shown, SameView, InRooms
<1> QED
  BY <1>2, <1>3, <1>4, <1>5

(* A peer of the list is asked, and its chat opened; a line of ten         *)
(* characters or more is taken for one.                                    *)
LEMMA PeerShown ==
    ASSUME RoomsOK(g_rooms), NEW u, UiOK(u), InRooms(u, g_rooms), u.peers # <<>> => initialized,
           NEW i \in Nat \ {0}, PickPeer(u, i), g_rooms' = g_rooms
    PROVE  Outcome(u)
<1>1. CASE i > Len(u.peers)
  BY <1>1, Zenon DEF PickPeer, Outcome, Shown
<1>2. CASE ~ (i > Len(u.peers))
  <2> DEFINE p == u.peers[i]
             w == OpenChat(u, p.addr)
             v == [w EXCEPT !.unread = 0]
  <2>1. i \in DOMAIN u.peers /\ u.peers # <<>>
    BY <1>2 DEF UiOK
  <2>2. p.addr \in Peers /\ p.connected = FALSE
    <3>1. u.peers[i] \in PeerLines
      BY <2>1 DEF UiOK
    <3> QED
      BY <3>1, Zenon DEF PeerLines
  <2>3. t' = tui_add_chat(v, FALSE) /\ initialized /\ Request(p.addr)
    BY <1>2, <2>1, <2>2, Zenon DEF PickPeer
  <2> HIDE DEF p
  <2>4. UiOK(w) /\ InRooms(w, g_rooms) /\ w.peers = u.peers /\ w.partner = p.addr
    BY DEF OpenChat, UiOK, InRooms, TuiFields, Screens
  <2> HIDE DEF w
  <2>5. UiOK(v) /\ InRooms(v, g_rooms) /\ v.peers = u.peers /\ v.partner = p.addr
    BY <2>4 DEF UiOK, InRooms, TuiFields
  <2> HIDE DEF v
  <2>6. UiOK(t') /\ SameView(v, t')
    BY <2>3, <2>5, AddChat, ZenonT(30)
  <2> QED
    BY <2>2, <2>3, <2>5, <2>6, Zenon DEF Outcome, Asks, Shown, SameView, InRooms
<1> QED
  BY <1>1, <1>2

(* run_tui on one key.                                                     *)
LEMMA KeyShown ==
    ASSUME UiOK(t), InRooms(t, g_rooms), RoomsOK(g_rooms), t.peers # <<>> => initialized,
           NEW k, NEW l \in Lines \cup {NoLine}, ReadKey(k, l)
    PROVE  \/ Outcome(t) /\ started' = started
           \/ Shown(t) /\ t'.partner = t.partner /\ ~started /\ StartTransport
<1> DEFINE h == tui_input_poll(k, l)
<1>1. Handled(t, h.t) /\ (h.code \in CommandKeys \/ Submitted(h) \/ ChosenPeer(h))
  BY AnyKey, ZenonT(30)
<1>2. IF IsCommand(h) THEN Command(h) /\ UNCHANGED started ELSE Dispatch(h.t, h.code)
  BY ZenonT(30) DEF ReadKey
<1> HIDE DEF h
<1>3. UiOK(h.t) /\ InRooms(h.t, g_rooms) /\ h.t.peers = t.peers /\ h.t.partner = t.partner
  BY <1>1, ZenonT(30) DEF Handled
<1>o. Outcome(h.t) => Outcome(t)
  BY <1>3 DEF Outcome, Shown
<1>4. CASE IsCommand(h)
  <2>1. h.code >= 1 /\ h.t.input.cmd # "text"
    BY <1>4 DEF IsCommand
  <2>0. NoLine.cmd = "text"
    BY DEF NoLine, Line
  <2>2. h.t.input # NoLine /\ ~ Submitted(h)
    BY <2>0, <2>1, Zenon DEF Submitted
  <2>3. h.code \notin CommandKeys
    BY <2>1 DEF CommandKeys
  <2>4. h.t.peers # <<>>
    <3>1. ChosenPeer(h)
      BY <1>1, <2>2, <2>3
    <3>2. h.t.selected \in 1..(Len(h.t.peers) + 1) /\ h.t.selected <= Len(h.t.peers)
      BY <1>3, <3>1 DEF ChosenPeer, UiOK
    <3>3. Len(h.t.peers) # 0
      BY <3>2
    <3> QED
      BY <3>3
  <2>5. h.t.input \in Lines
    BY <1>3, <2>2 DEF UiOK
  <2>6. Outcome(h.t)
    BY <1>2, <1>3, <1>4, <2>1, <2>4, <2>5, CommandShown, ZenonT(30)
  <2> QED
    BY <1>2, <1>4, <1>o, <2>6
<1>5. CASE ~ IsCommand(h)
  <2> DEFINE u == h.t
             code == h.code
  <2>1. Dispatch(u, code)
    BY <1>2, <1>5
  <2>2. code \in {0, -10, -20, -21, -22, -40, -41} \/ code \in Nat
    <3>1. h.t.selected \in Nat
      BY <1>3 DEF UiOK
    <3>2. ChosenPeer(h) => h.code \in Nat
      BY <3>1 DEF ChosenPeer
    <3> QED
      BY <1>1, <3>2, ZenonT(30) DEF CommandKeys, Submitted
  <2>3. UiOK(u) /\ InRooms(u, g_rooms) /\ u.peers = t.peers /\ u.partner = t.partner /\ u.info # "LOCKED"
    BY <1>3, Zenon DEF UiOK
  <2>o. Outcome(u) => Outcome(t)
    BY <1>o
  <2> HIDE DEF u, code
  <2>4. CASE code = -10
    <3>1. /\ t' = [u EXCEPT !.identity = TRUE, !.screen = "PEER_LIST"] /\ g_rooms' = g_rooms
          /\ IF started THEN UNCHANGED <<cvars, started>> ELSE StartTransport
      BY <2>1, <2>4 DEF Dispatch
    <3>2. Shown(t) /\ t'.partner = t.partner
      BY <2>3, <3>1 DEF Shown, UiOK, InRooms, TuiFields, Screens
    <3> QED
      BY <3>1, <3>2 DEF Outcome
  <2>5. CASE code \in 1..9
    <3>0. /\ code # -10 /\ ~ (code >= 10) /\ code # -4 /\ code # -5
          /\ code \notin {-30, -32} /\ code \notin {-20, -21}
      BY <2>5
    <3>1. SubmitLine(u, code) /\ UNCHANGED <<cvars, started>>
      BY <2>1, <2>5, <3>0, Zenon DEF Dispatch
    <3> QED
      BY <2>3, <2>o, <3>1, LineShown
  <2>6. CASE code \in Nat /\ code >= 10
    <3>0. /\ code # -10 /\ code \notin 1..9 /\ code # -4 /\ code # -5
          /\ code \notin {-30, -32} /\ code \notin {-20, -21}
      BY <2>6
    <3>1. PickPeer(u, code - 9) /\ UNCHANGED <<g_rooms, started>>
      BY <2>1, <2>6, <3>0, Zenon DEF Dispatch
    <3>2. code - 9 \in Nat \ {0}
      BY <2>6
    <3> QED
      BY <2>3, <2>o, <3>1, <3>2, PeerShown, ZenonT(30)
  <2>7. CASE code \in {0, -20, -21, -22, -40, -41}
    <3> DEFINE set == [u EXCEPT !.screen = "SETTINGS", !.setting = 0]
               adv == [u EXCEPT !.screen = "ADVANCED", !.adv_tab = 0, !.paused = FALSE, !.space = 1]
               kept == CASE code \in {-31, -33} -> tui_add_chat(u, FALSE)
                         [] code = -22 /\ u.info = "LOCKED" /\ u.input # NoLine ->
                               tui_add_chat([u EXCEPT !.input = NoLine], FALSE)
                         [] code = -40 -> set
                         [] code = -41 -> adv
                         [] OTHER -> u
    <3>0. /\ code # -10 /\ code \notin 1..9 /\ ~ (code >= 10) /\ code # -4 /\ code # -5
          /\ code \notin {-30, -32} /\ ~ (code \in {-20, -21} /\ u.info = "LOCKED")
          /\ code \notin {-31, -33} /\ ~ (code = -22 /\ u.info = "LOCKED" /\ u.input # NoLine)
      BY <2>3, <2>7
    <3>1. t' = kept /\ UNCHANGED <<cvars, g_rooms, started>>
      BY <2>1, <3>0, Zenon DEF Dispatch
    <3>2. kept = set \/ kept = adv \/ kept = u
      <4>1. code = -40 => code # -41
        OBVIOUS
      <4> HIDE DEF set, adv
      <4>2. CASE code = -40
        BY <3>0, <4>1, <4>2, Zenon
      <4>3. CASE code # -40 /\ code = -41
        BY <3>0, <4>3, Zenon
      <4>4. CASE code # -40 /\ code # -41
        BY <3>0, <4>4, Zenon
      <4> QED
        BY <4>2, <4>3, <4>4, Zenon
    <3> HIDE DEF kept
    <3>3. UiOK(set) /\ InRooms(set, g_rooms) /\ set.peers = u.peers /\ set.partner = u.partner
      BY <2>3 DEF UiOK, InRooms, TuiFields, Screens
    <3>4. UiOK(adv) /\ InRooms(adv, g_rooms) /\ adv.peers = u.peers /\ adv.partner = u.partner
      BY <2>3 DEF UiOK, InRooms, TuiFields, Screens
    <3> HIDE DEF set, adv
    <3>5. Outcome(u)
      BY <2>3, <3>1, <3>2, <3>3, <3>4 DEF Outcome, Shown
    <3> QED
      BY <2>o, <3>1, <3>5, ZenonT(30)
  <2> QED
    BY <2>2, <2>4, <2>5, <2>6, <2>7
<1> QED
  BY <1>4, <1>5

----------------------------------------------------------------------------
(* The engine under the console.  The console only asks: it never makes a  *)
(* handshake start, so that no session locks, no peer is marked as         *)
(* connected, and no event but an answer to a request is raised.           *)

Quiet ==
    /\ session_is_locked = FALSE
    /\ session = NoSession \/ session.state = "IDLE"
    /\ \A i \in DOMAIN g_peers : g_peers[i].state = "CONNECTING"
    /\ event_ring \in Seq(QuietEvents)

EngineStep ==
    \/ Start \/ StartFails \/ Shutdown \/ PollEvent \/ PollTick \/ Discover \/ UNCHANGED cvars
    \/ \E p \in Peers : Request(p)
    \/ \E p \in Peers, op \in Answers : PollConnect(p, op)

(* The calls that the console makes are calls of the station.              *)
LEMMA ConsoleCalls ==
    ASSUME EngineStep
    PROVE  [Next]_cvars
  BY DEF EngineStep, Next, Call, Poll

(* They keep the engine quiet.                                             *)
LEMMA QuietStep ==
    ASSUME StationInv, Quiet, EngineStep
    PROVE  Quiet'
<1> USE DEF Quiet
<1>0. NoSession' = NoSession /\ NoSession.state = "NONE" /\ <<>> \in Seq(QuietEvents)
  BY DEF NoSession
<1>1. CASE Start \/ StartFails
  BY <1>0, <1>1, ZenonT(30) DEF Start, StartFails
<1>2. CASE Shutdown
  BY <1>0, <1>2 DEF Shutdown
<1>3. ASSUME NEW p \in Peers, Request(p) PROVE Quiet'
  <2>1. session' = session \/ session' = [peer |-> p, state |-> "IDLE"]
    BY <1>3 DEF Request
  <2>2. session' = NoSession \/ session'.state = "IDLE"
    BY <2>1
  <2>3. session_is_locked' = FALSE /\ UNCHANGED <<g_peers, event_ring>>
    BY <1>3 DEF Request
  <2> QED
    BY <1>0, <2>2, <2>3
<1>4. CASE PollEvent
  <2>1. Tail(event_ring) \in Seq(QuietEvents)
    BY <1>4 DEF PollEvent
  <2> QED
    BY <1>0, <1>4, <2>1 DEF PollEvent
<1>5. CASE PollTick
  BY <1>0, <1>5 DEF PollTick
<1>6. ASSUME NEW p \in Peers, NEW op \in Answers, PollConnect(p, op) PROVE Quiet'
  <2>1. PollDropped(p, op)
    BY <1>0, <1>6 DEF PollConnect, PollStray
  <2>2. event_ring' = event_ring \/ (op # "CONNECT_REQUEST" /\ event_ring' = Reported([type |-> op, from |-> p]))
    BY <2>1 DEF PollDropped, conn_request_handle
  <2>3. op # "CONNECT_REQUEST" => [type |-> op, from |-> p] \in QuietEvents
    BY DEF QuietEvents, Answers
  <2>4. event_ring' \in Seq(QuietEvents)
    BY <2>2, <2>3 DEF Reported
  <2> QED
    BY <1>0, <2>1, <2>4, Zenon DEF PollDropped
<1>7. CASE Discover
  <2>1. PICK heard \in SUBSET Peers : Scan(heard)
    BY <1>7 DEF Discover, Beacons
  <2>3. PeerTable(g_peers)
    BY DEF StationInv, TypeInv
  <2>4. /\ Grows(g_peers, g_peers')
        /\ \A i \in 1..Len(g_peers) :
              /\ g_peers'[i].state = g_peers[i].state
              /\ g_peers[i].state = "LOCKED" /\ g_peers[i].online => g_peers'[i].online
        /\ \A i \in DOMAIN g_peers' : i > Len(g_peers) =>
              g_peers'[i].state = "CONNECTING" /\ find_peer(g_peers, g_peers'[i].addr) = {}
    BY <1>7, <2>3, ScanStep, ZenonT(30)
  <2>5. \A i \in DOMAIN g_peers' : g_peers'[i].state = "CONNECTING"
    <3>0. g_peers \in Seq(PeerEntries) /\ g_peers' \in Seq(PeerEntries)
      BY <2>3, <2>4 DEF PeerTable, Grows
    <3>1. /\ Len(g_peers) \in Nat /\ DOMAIN g_peers = 1..Len(g_peers)
          /\ Len(g_peers') \in Nat /\ DOMAIN g_peers' = 1..Len(g_peers')
      BY <3>0
    <3>2. \A i \in DOMAIN g_peers' : i > Len(g_peers) \/ i \in 1..Len(g_peers)
      BY <3>1
    <3> QED
      BY <2>4, <3>1, <3>2, ZenonT(30)
  <2> QED
    BY <1>0, <2>1, <2>5 DEF Scan, engine
<1>8. CASE UNCHANGED cvars
  BY <1>0, <1>8 DEF cvars, engine
<1> QED
  BY <1>1, <1>2, <1>3, <1>4, <1>5, <1>6, <1>7, <1>8, ZenonT(30) DEF EngineStep

----------------------------------------------------------------------------
(* The two together.  Before the transport has started there is nobody to  *)
(* write to: the peer list is empty and nobody has been asked, so that no  *)
(* key can open a chat that the engine does not know of.                   *)

FrontInv ==
    /\ UiOK(t) /\ RoomsOK(g_rooms) /\ InRooms(t, g_rooms)
    /\ ev \in QuietEvents \cup {NoEvent}
    /\ pc \in {"start", "events", "refresh", "key", "done"} /\ started \in BOOLEAN
    /\ pc = "start" => started = FALSE /\ initialized = FALSE
    /\ EngineUp
    /\ pc # "done" /\ initialized = FALSE => asked = {} /\ t.partner = NULL /\ t.peers = <<>>
    /\ pc # "done" /\ asked # {} => session # NoSession
    /\ Len(t.peers) <= Len(g_peers)
    /\ ChatPartner

ConsoleInv == StationInv /\ Quiet /\ FrontInv

(* run_tui up to its loop.                                                 *)
LEMMA ConsoleStart ==
    ASSUME ConsoleInit
    PROVE  ConsoleInv
<1>1. Init
  BY DEF ConsoleInit
<1>2. StationInv
  BY <1>1, StationInit
<1>3. Quiet
  BY <1>1 DEF Init, Quiet, NoSession
<1>4. PICK known \in BOOLEAN : t = TuiInit(known)
  BY DEF ConsoleInit
<1>5. /\ UiOK(t) /\ t.partner = NULL /\ t.peers = <<>> /\ t.room_scroll = 1 /\ t.current_room = NULL
  <2>1. DOMAIN t = TuiFields
    BY <1>4, ZenonT(30) DEF TuiInit, TuiFields
  <2>2. /\ t.screen \in Screens /\ t.input = NoLine /\ t.info = "IDLE" /\ t.chat = <<>> /\ t.peers = <<>>
        /\ t.selected = 1 /\ t.popup = FALSE /\ t.call_popup = NULL /\ t.partner = NULL
        /\ t.room_scroll = 1 /\ t.current_room = NULL
    BY <1>4, Zenon DEF TuiInit, Screens
  <2>3. /\ <<>> \in Seq(ChatLines) /\ <<>> \in Seq(PeerLines) /\ Len(<<>>) = 0 /\ MaxLines \in Nat
    BY ConsoleAssumption
  <2> QED
    BY <2>1, <2>2, <2>3 DEF UiOK
<1>6. RoomsOK(g_rooms) /\ InRooms(t, g_rooms)
  <2>1. g_rooms = <<>> /\ <<>> \in Seq(Rooms) /\ Len(<<>>) = 0 /\ MaxRooms \in Nat
    BY ConsoleAssumption DEF ConsoleInit
  <2> QED
    BY <1>5, <2>1 DEF RoomsOK, InRooms
<1>7. Len(t.peers) <= Len(g_peers)
  BY <1>1, <1>5 DEF Init
<1>8. FrontInv
  BY <1>1, <1>5, <1>6, <1>7, ZenonT(30) DEF ConsoleInit, Init, FrontInv, NoEvent, EngineUp, ChatPartner
<1> QED
  BY <1>2, <1>3, <1>8 DEF ConsoleInv

(* start_transport on an engine that is down, with nobody asked and nobody *)
(* on show.                                                                *)
LEMMA StartedTogether ==
    ASSUME StartTransport, initialized \in BOOLEAN
    PROVE  /\ EngineStep /\ ~initialized
           /\ started' = initialized' /\ asked' = asked /\ started' \in BOOLEAN
  BY Zenon DEF StartTransport, Start, StartFails, EngineStep

(* Every step of the console.                                              *)
LEMMA ConsoleStep ==
    ASSUME ConsoleInv, ConsoleNext
    PROVE  EngineStep /\ FrontInv'
<1>0. /\ UiOK(t) /\ RoomsOK(g_rooms) /\ InRooms(t, g_rooms)
      /\ ev \in QuietEvents \cup {NoEvent} /\ started \in BOOLEAN /\ initialized \in BOOLEAN
      /\ session = NoSession \/ session.state = "IDLE"
      /\ PeerTable(g_peers)
  BY Zenon DEF ConsoleInv, FrontInv, Quiet, StationInv, TypeInv
<1>1. CASE Launch
  <2>1. /\ pc = "start" /\ pc' = "events" /\ t' = t /\ ev' = ev /\ g_rooms' = g_rooms
        /\ StartTransport \/ UNCHANGED <<cvars, started>>
    BY <1>1 DEF Launch
  <2>2. /\ initialized = FALSE /\ started = FALSE /\ asked = {} /\ t.partner = NULL /\ t.peers = <<>>
    BY <2>1, ZenonT(30) DEF ConsoleInv, FrontInv
  <2>3. EngineStep /\ started' = initialized' /\ asked' = {} /\ started' \in BOOLEAN /\ g_peers' = g_peers
    BY <1>0, <2>1, <2>2, StartedTogether, ZenonT(30) DEF EngineStep, cvars, engine, StartTransport, Start, StartFails
  <2>4. Len(t'.peers) <= Len(g_peers')
    BY <2>1, <2>3, ZenonT(30) DEF ConsoleInv, FrontInv
  <2>5. FrontInv'
    BY <1>0, <2>1, <2>2, <2>3, <2>4, Zenon DEF FrontInv, EngineUp, ChatPartner
  <2> QED
    BY <2>3, <2>5
<1>2. CASE LoopEvent
  <2>1. /\ pc = "events" /\ pc' = pc /\ g_rooms' = g_rooms /\ started' = started
        /\ PollEvent /\ ev' = Head(event_ring) /\ t' = HandleEvent(t, ev')
    BY <1>2 DEF LoopEvent
  <2>2. ev' \in QuietEvents
    BY <2>1 DEF PollEvent, ConsoleInv, Quiet
  <2>3. UiOK(t') /\ InRooms(t', g_rooms) /\ t'.peers = t.peers /\ t'.partner \in {t.partner, NULL}
    BY <1>0, <2>1, <2>2, EventShown
  <2>4. UNCHANGED <<initialized, session, peer_addr, connect_addr, asked, g_peers>>
    BY <2>1 DEF PollEvent
  <2>5. FrontInv'
    BY <1>0, <2>1, <2>2, <2>3, <2>4, Zenon DEF ConsoleInv, FrontInv, EngineUp, ChatPartner, NoSession
  <2> QED
    BY <2>1, <2>5 DEF EngineStep
<1>3. CASE LoopPacket
  <2>1. /\ pc = "events" /\ pc' = pc /\ g_rooms' = g_rooms /\ started' = started
        /\ ev' = ev /\ t' = HandleEvent(t, ev)
    BY <1>3 DEF LoopPacket
  <2>2. PICK p \in Peers : \E op \in Answers : PollConnect(p, op)
    BY <1>3 DEF LoopPacket
  <2>3. PICK op \in Answers : PollConnect(p, op)
    BY <2>2
  <2>4. UiOK(t') /\ InRooms(t', g_rooms) /\ t'.peers = t.peers /\ t'.partner \in {t.partner, NULL}
    BY <1>0, <2>1, EventShown
  <2>s. session.state # "LOCKED"
    BY <1>0 DEF NoSession
  <2>d. PollDropped(p, op)
    BY <2>3, <2>s DEF PollConnect, PollStray
  <2>5. UNCHANGED <<initialized, session, peer_addr, connect_addr, asked, g_peers>>
    BY <2>d DEF PollDropped
  <2>6. FrontInv'
    BY <1>0, <2>1, <2>4, <2>5, Zenon DEF ConsoleInv, FrontInv, EngineUp, ChatPartner, NoSession
  <2> QED
    BY <2>3, <2>6 DEF EngineStep
<1>4. CASE LoopDone
  <2>1. /\ pc = "events" /\ pc' = "refresh" /\ g_rooms' = g_rooms /\ started' = started /\ t' = t
        /\ ev' \in {ev, NoEvent} /\ (PollTick \/ UNCHANGED cvars)
    BY <1>4 DEF LoopDone, NoEvent
  <2>2. UNCHANGED <<initialized, session, peer_addr, connect_addr, asked, g_peers>>
    BY <1>0, <2>1 DEF PollTick, NoSession, cvars, engine
  <2>3. FrontInv'
    BY <1>0, <2>1, <2>2, Zenon DEF ConsoleInv, FrontInv, EngineUp, ChatPartner, NoSession, NoEvent
  <2> QED
    BY <2>1, <2>3 DEF EngineStep
<1>5. ASSUME NEW scanning \in BOOLEAN, Refresh(scanning) PROVE EngineStep /\ FrontInv'
  <2>1. /\ pc = "refresh" /\ pc' = "key" /\ g_rooms' = g_rooms /\ started' = started /\ ev' = ev
        /\ (scanning => started) /\ (IF scanning THEN Discover ELSE UNCHANGED cvars)
    BY <1>5 DEF Refresh
  <2>2. EngineStep /\ UNCHANGED <<initialized, session, peer_addr, connect_addr, asked>>
    BY <2>1 DEF EngineStep, Discover, Scan, cvars, engine
  <2>3. StationInv' /\ Quiet'
    BY <2>2, ConsoleCalls, QuietStep, StationStep DEF ConsoleInv
  <2> DEFINE shown == [i \in DOMAIN g_peers' |->
                          [addr |-> g_peers'[i].addr, connected |-> g_peers'[i].state = "LOCKED"]]
             list == IF scanning THEN shown ELSE t.peers
             flag == t.typing_flag /\ t.info # "LOCKED"
             tick == IF t.typing_tick > 0 THEN t.typing_tick - 1 ELSE 0
             inf == IF session = NoSession THEN "IDLE"
                    ELSE IF session.state = "LOCKED" THEN "LOCKED" ELSE "HANDSHAKE"
  <2>4. t' = [t EXCEPT !.typing_flag = flag, !.typing_tick = tick, !.info = inf, !.peers = list]
    BY <1>5 DEF Refresh
  <2>5. inf # "LOCKED"
    BY <1>0
  <2>6. list \in Seq(PeerLines) /\ Len(t.peers) <= Len(list) /\ Len(list) <= Len(g_peers')
        /\ Len(t.peers) \in Nat /\ Len(list) \in Nat
    <3>u. t.peers \in Seq(PeerLines)
      BY <1>0 DEF UiOK
    <3>f. Len(t.peers) <= Len(g_peers)
      BY DEF ConsoleInv, FrontInv
    <3>0. t.peers \in Seq(PeerLines) /\ Len(t.peers) \in Nat /\ Len(t.peers) <= Len(g_peers)
      BY <3>u, <3>f
    <3>1. CASE ~scanning
      <4>1. list = t.peers /\ g_peers' = g_peers
        BY <2>1, <3>1, Zenon DEF cvars
      <4>2. Len(t.peers) <= Len(t.peers)
        BY <3>0
      <4> HIDE DEF list
      <4> QED
        BY <3>0, <4>1, <4>2, Zenon
    <3>2. CASE scanning
      <4>1. Len(g_peers) <= Len(g_peers') /\ Len(g_peers) \in Nat
        <5>3. Grows(g_peers, g_peers')
          BY <1>0, <2>1, <3>2, ScanStep
        <5> QED
          BY <1>0, <5>3 DEF Grows, PeerTable
      <4>2. /\ g_peers' \in Seq(PeerEntries) /\ Len(g_peers') \in Nat /\ DOMAIN g_peers' = 1..Len(g_peers')
        BY <2>3 DEF StationInv, TypeInv, PeerTable
      <4>3. \A i \in DOMAIN g_peers' : g_peers'[i].addr \in Peers /\ (g_peers'[i].state = "LOCKED") = FALSE
        <5>1. \A i \in DOMAIN g_peers' : g_peers'[i] \in PeerEntries
          BY <4>2
        <5> QED
          BY <2>3, <5>1 DEF Quiet, PeerEntries
      <4>4. \A i \in DOMAIN g_peers' : shown[i] \in PeerLines
        BY <4>3, ZenonT(30) DEF PeerLines
      <4>5. shown \in [1..Len(g_peers') -> PeerLines]
        BY <4>2, <4>4
      <4> HIDE DEF shown
      <4>6. shown \in Seq(PeerLines) /\ Len(shown) = Len(g_peers')
        BY <4>2, <4>5
      <4> QED
        BY <3>0, <3>2, <4>1, <4>2, <4>6
    <3> QED
      BY <3>1, <3>2
  <2> HIDE DEF list, flag, tick, inf
  <2>7. /\ DOMAIN t' = DOMAIN t /\ t'.info = inf /\ t'.peers = list
        /\ t'.screen = t.screen /\ t'.input = t.input /\ t'.chat = t.chat /\ t'.selected = t.selected
        /\ t'.popup = t.popup /\ t'.call_popup = t.call_popup /\ t'.partner = t.partner
        /\ t'.room_scroll = t.room_scroll /\ t'.current_room = t.current_room
    BY <1>0, <2>4 DEF UiOK, TuiFields
  <2>8. t.selected \in 1..(Len(list) + 1)
    BY <1>0, <2>6 DEF UiOK
  <2>9. UiOK(t') /\ InRooms(t', g_rooms)
    BY <1>0, <2>5, <2>6, <2>7, <2>8, ZenonT(30) DEF UiOK, InRooms
  <2>10. initialized = FALSE => list = <<>>
    BY <2>1 DEF ConsoleInv, FrontInv, EngineUp, list
  <2>11. FrontInv'
    BY <1>0, <2>1, <2>2, <2>6, <2>7, <2>9, <2>10, ZenonT(30) DEF ConsoleInv, FrontInv, EngineUp, ChatPartner, NoSession
  <2> QED
    BY <2>2, <2>11
<1>6. ASSUME NEW k, NEW l \in Lines \cup {NoLine}, ReadKey(k, l) PROVE EngineStep /\ FrontInv'
  <2>1. pc = "key" /\ pc' = "events" /\ ev' = ev
    BY <1>6 DEF ReadKey
  <2>2. /\ started = initialized
        /\ initialized = FALSE => asked = {} /\ t.partner = NULL /\ t.peers = <<>>
        /\ asked # {} => session # NoSession
        /\ Len(t.peers) <= Len(g_peers) /\ ChatPartner
    BY <2>1 DEF ConsoleInv, FrontInv, EngineUp
  <2>3. \/ Outcome(t) /\ started' = started
        \/ Shown(t) /\ t'.partner = t.partner /\ ~started /\ StartTransport
    BY <1>0, <1>6, <2>2, KeyShown, ZenonT(30)
  <2>4. CASE Shown(t) /\ UNCHANGED cvars /\ t'.partner = t.partner /\ started' = started
    <3>1. UNCHANGED <<initialized, session, peer_addr, connect_addr, asked, g_peers>>
      BY <2>4 DEF cvars, engine
    <3>2. FrontInv'
      BY <1>0, <2>1, <2>2, <2>4, <3>1, ZenonT(30) DEF Shown, FrontInv, EngineUp, ChatPartner, NoSession
    <3> QED
      BY <2>4, <3>2 DEF EngineStep
  <2>5. ASSUME Shown(t), NEW p \in Peers, initialized, Request(p), t'.partner = p, started' = started
        PROVE  EngineStep /\ FrontInv'
    <3>1. /\ peer_addr' = p /\ connect_addr' = p /\ UNCHANGED <<initialized, g_peers>>
          /\ \/ session' = session /\ asked' = asked
             \/ session' = [peer |-> p, state |-> "IDLE"]
      BY <2>5, ZenonT(30) DEF Request
    <3>n. NoSession.state = "NONE" /\ [peer |-> p, state |-> "IDLE"].state = "IDLE"
      BY DEF NoSession
    <3>2. asked' # {} => session' # NoSession
      BY <2>2, <3>1, <3>n
    <3>3. FrontInv'
      BY <1>0, <2>1, <2>2, <2>5, <3>1, <3>2, ZenonT(30) DEF Shown, FrontInv, EngineUp, ChatPartner, NoSession
    <3> QED
      BY <2>5, <3>3 DEF EngineStep
  <2>6. CASE Shown(t) /\ t'.partner = t.partner /\ ~started /\ StartTransport
    <3>1. EngineStep /\ started' = initialized' /\ asked' = asked /\ started' \in BOOLEAN
      BY <1>0, <2>6, StartedTogether
    <3>2. t.partner = NULL /\ t.peers = <<>> /\ asked = {}
      BY <1>0, <2>2, <2>6, ZenonT(30)
    <3>3. g_peers' = g_peers
      BY <2>6 DEF StartTransport, Start, StartFails
    <3>4. FrontInv'
      BY <1>0, <2>1, <2>2, <2>6, <3>1, <3>2, <3>3, Zenon DEF Shown, FrontInv, EngineUp, ChatPartner
    <3> QED
      BY <3>1, <3>4
  <2> QED
    BY <2>3, <2>4, <2>5, <2>6 DEF Outcome, Asks
<1>7. CASE Exit
  <2>1. /\ pc = "events" /\ pc' = "done" /\ UNCHANGED <<t, ev, g_rooms, started>>
        /\ IF initialized THEN Shutdown ELSE UNCHANGED cvars
    BY <1>7 DEF Exit
  <2>2. EngineStep /\ initialized' = FALSE /\ UNCHANGED <<peer_addr, connect_addr, g_peers>>
    BY <1>0, <2>1 DEF EngineStep, Shutdown, cvars, engine
  <2>3. FrontInv'
    BY <1>0, <2>1, <2>2, Zenon DEF ConsoleInv, FrontInv, EngineUp, ChatPartner
  <2> QED
    BY <2>2, <2>3
<1> QED
  BY <1>1, <1>2, <1>3, <1>4, <1>5, <1>6, <1>7 DEF ConsoleNext

(* The invariant of the console and its engine.                            *)
LEMMA ConsoleInvariant == ConsoleSpec => []ConsoleInv
<1>1. ASSUME ConsoleInv, [ConsoleNext]_vars PROVE ConsoleInv'
  <2>1. CASE ConsoleNext
    BY <1>1, <2>1, ConsoleStep, ConsoleCalls, QuietStep, StationStep DEF ConsoleInv
  <2>2. CASE UNCHANGED vars
    <3>1. UNCHANGED cvars /\ UNCHANGED ui
      BY <2>2 DEF vars
    <3>2. EngineStep
      BY <3>1 DEF EngineStep
    <3>3. StationInv' /\ Quiet'
      BY <1>1, <3>2, ConsoleCalls, QuietStep, StationStep DEF ConsoleInv
    <3>4. FrontInv'
      BY <1>1, <3>1, Zenon DEF ConsoleInv, FrontInv, cvars, engine, ui, EngineUp, ChatPartner, NoSession
    <3> QED
      BY <3>3, <3>4 DEF ConsoleInv
  <2> QED
    BY <1>1, <2>1, <2>2
<1> QED
  BY <1>1, ConsoleStart, PTL DEF ConsoleSpec

(* Under the console the station is one that Connection describes: every   *)
(* call that run_tui and its handlers make is one that the transport API   *)
(* allows in the state it is made in.                                      *)
THEOREM ConsoleDrivesStation == ConsoleSpec => Spec
<1>1. ConsoleInit => Init
  BY DEF ConsoleInit
<1>2. ConsoleInv /\ [ConsoleNext]_vars => [Next]_cvars
  <2> SUFFICES ASSUME ConsoleInv, [ConsoleNext]_vars PROVE [Next]_cvars
    OBVIOUS
  <2>1. CASE ConsoleNext
    BY <2>1, ConsoleStep, ConsoleCalls
  <2>2. CASE UNCHANGED vars
    BY <2>2 DEF vars
  <2> QED
    BY <2>1, <2>2
<1> QED
  BY <1>1, <1>2, ConsoleInvariant, PTL DEF ConsoleSpec, Spec

(* Whatever the order of keys, events and commands, the chat window, the   *)
(* rooms and their messages stay within their arrays, and what the lists   *)
(* point at is in them: the handlers and the drawing code index with these. *)
THEOREM ConsoleStaysInArrays == ConsoleSpec => []ConsoleTypeOK
<1>1. ASSUME ConsoleInv PROVE ConsoleTypeOK
  <2>1. UiOK(t) /\ RoomsOK(g_rooms) /\ InRooms(t, g_rooms)
    BY <1>1 DEF ConsoleInv, FrontInv
  <2>2. \A i \in DOMAIN t.chat : t.chat[i].status \in 0..2
    <3>1. \A i \in DOMAIN t.chat : t.chat[i] \in ChatLines
      BY <2>1 DEF UiOK
    <3> QED
      BY <3>1 DEF ChatLines
  <2>3. \A i \in DOMAIN g_rooms : g_rooms[i].msgs \in 0..MaxMsgs
    <3>1. \A i \in DOMAIN g_rooms : g_rooms[i] \in Rooms
      BY <2>1 DEF RoomsOK
    <3> QED
      BY <3>1 DEF Rooms
  <2> QED
    BY <2>1, <2>2, <2>3 DEF UiOK, RoomsOK, InRooms, ConsoleTypeOK
<1> QED
  BY <1>1, ConsoleInvariant, PTL

(* Whatever the order of logins, failed starts and keys, the console's     *)
(* g_transport_started agrees with the engine's flag, and no engine is     *)
(* left running when the console ends.                                     *)
THEOREM ConsoleKnowsEngine == ConsoleSpec => []EngineUp
<1>1. ConsoleInv => EngineUp
  BY DEF ConsoleInv, FrontInv
<1> QED
  BY <1>1, ConsoleInvariant, PTL

(* The name over the chat is the peer that the engine sends to: run_tui's  *)
(* chat_partner and the engine's peer_addr never part.                     *)
THEOREM ChatGoesToPartner == ConsoleSpec => []ChatPartner
<1>1. ConsoleInv => ChatPartner
  BY DEF ConsoleInv, FrontInv
<1> QED
  BY <1>1, ConsoleInvariant, PTL

(* An answer to a request finds the session of that request still there    *)
(* and idle, so that handle_transport_events never starts a handshake.     *)
THEOREM AnswersFindSession == ConsoleSpec => []AcceptFindsSession
<1>1. ConsoleInv => AcceptFindsSession
  BY DEF ConsoleInv, FrontInv, Quiet, AcceptFindsSession
<1> QED
  BY <1>1, ConsoleInvariant, PTL
============================================================================
