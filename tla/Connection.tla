----------------------------- MODULE Connection -----------------------------
(* Who one station is talking to: the part of the engine that connects,
   requests, accepts, declines and disconnects, the session table, the table
   of pending requests, and the peer table that LAN discovery feeds.

   The application thread makes every step, one call of the transport API or
   one transport_engine_poll at a time, so a step is a whole call.  Packets are
   what the network brings to a poll: requests from anybody, answers to a
   request made before (late and repeated answers included), and the messages
   of a handshake this station started, which Handshake has in detail.  Of a
   session only the peer's address and the state matter here; a session the
   engine has let go of is never looked at again.  An address the resolver
   refuses changes nothing and is left out, as are second paths. *)
EXTENDS Integers, Sequences, FiniteSets, Functions

CONSTANTS
    Peers,        \* addresses of other stations
    MaxSessions,  \* MAX_SESSION_ENTRIES
    MaxPeers,     \* MAX_PEERS
    MaxPending,   \* CONN_REQUEST_MAX_PENDING
    EventCap,     \* RING_SIZE - 1
    StaleAfter,   \* the 30000 ms of mark_stale, in times between scans
    MaxBeacons,   \* beacons that one scan reads (10 in the code)
    Media,        \* the kinds of call, audio and video
    NULL

ASSUME PeersAssumption == IsFiniteSet(Peers) /\ NULL \notin Peers
ASSUME SizeAssumption == {MaxSessions, MaxPeers, MaxPending, EventCap} \subseteq Nat \ {0}
ASSUME ScanAssumption == StaleAfter \in Nat /\ MaxBeacons \in Nat

VARIABLES
    initialized,        \* g_initialized and eng->initialized
    g_session_count,
    session,            \* eng->session: its peer and state
    peer_addr,          \* eng->peer_addr, where everything is sent
    connect_addr,       \* eng->connect_addr_str, whose entry a lock marks
    role_initiator,
    session_is_locked,
    calls,              \* audio_call_active and video_call_active
    g_conn_requests,    \* the pending requests
    g_peers,            \* the peer table
    event_ring,
    asked,              \* peers that have had a request and may answer it
    refused             \* history: a request found the session table full

engine == <<initialized, g_session_count, session, peer_addr, connect_addr,
            role_initiator, session_is_locked, calls, g_conn_requests, event_ring>>
cvars == <<engine, g_peers, asked, refused>>

NoSession == [peer |-> NULL, state |-> "NONE"]

\* last_seen_ms as an age: Never is 0 in the code, and past StaleAfter all
\* ages are alike.
Never == -1
Ages == {Never} \cup 0..(StaleAfter + 1)

Init ==
    /\ initialized = FALSE /\ g_session_count = 0 /\ session = NoSession
    /\ peer_addr = NULL /\ connect_addr = NULL
    /\ role_initiator = FALSE /\ session_is_locked = FALSE
    /\ calls = {} /\ g_conn_requests = <<>> /\ g_peers = <<>> /\ event_ring = <<>>
    /\ asked = {} /\ refused = FALSE

----------------------------------------------------------------------------
(* The peer table: connection_manager_* as functions on it. *)

find_peer(t, p) == {i \in DOMAIN t : t[i].addr = p}

NewPeer(p) == [addr |-> p, state |-> "CONNECTING", online |-> TRUE, age |-> Never]

connection_manager_connect(t, p) ==
    IF find_peer(t, p) # {}
    THEN [i \in DOMAIN t |->
             IF t[i].addr = p THEN [t[i] EXCEPT !.state = "CONNECTING", !.online = TRUE] ELSE t[i]]
    ELSE IF Len(t) < MaxPeers
    THEN Append(t, NewPeer(p))
    ELSE t

connection_manager_disconnect(t) ==
    [i \in DOMAIN t |->
        IF t[i].state = "LOCKED" THEN [t[i] EXCEPT !.state = "DISCONNECTED", !.online = FALSE]
        ELSE t[i]]

\* Only a lock is ever reported.
connection_manager_update_state(t, p) ==
    [i \in DOMAIN t |->
        IF t[i].addr = p THEN [t[i] EXCEPT !.state = "LOCKED", !.online = TRUE] ELSE t[i]]

\* For every peer of the set heard.
connection_manager_update_last_seen(t, heard) ==
    [i \in DOMAIN t |->
        IF t[i].addr \in heard THEN [t[i] EXCEPT !.age = 0, !.online = TRUE] ELSE t[i]]

\* The time-out also takes peers that are connected.
connection_manager_mark_stale_Locked(t) ==
    [i \in DOMAIN t |->
        IF t[i].age > StaleAfter THEN [t[i] EXCEPT !.online = FALSE] ELSE t[i]]

\* The time-out spares every peer but the disconnected ones.
connection_manager_mark_stale_Lax(t) ==
    [i \in DOMAIN t |->
        IF t[i].age > StaleAfter /\ t[i].state = "DISCONNECTED"
        THEN [t[i] EXCEPT !.online = FALSE] ELSE t[i]]

connection_manager_mark_stale(t) ==
    [i \in DOMAIN t |->
        IF t[i].age > StaleAfter /\ t[i].state # "LOCKED"
        THEN [t[i] EXCEPT !.online = FALSE] ELSE t[i]]

(* try_recv_beacon for all beacons of a scan: heard are their senders.  A new
   peer is entered as if it were being connected to, for as long as there is
   room; a second beacon of a peer adds nothing to its first.  The new peers
   stand in the table in the order of their first beacons, which is any. *)
Unlisted(t, heard) == {p \in heard : find_peer(t, p) = {}}

Entered(t, heard) ==
    {s \in UNION {[1..n -> Unlisted(t, heard)] : n \in 0..(MaxPeers - Len(t))} :
        /\ IsInjective(s)
        /\ Range(s) = Unlisted(t, heard) \/ Len(t) + Len(s) = MaxPeers}

try_recv_beacon(t, heard) ==
    {connection_manager_update_last_seen(t \o [i \in DOMAIN new |-> NewPeer(new[i])], heard) :
        new \in Entered(t, heard)}

----------------------------------------------------------------------------
(* Sessions, pending requests and events. *)

\* An entry past the end of the table.
CanAlloc_Late == g_session_count <= MaxSessions

\* session_alloc_for_peer finds an entry: none is ever given back.
CanAlloc == g_session_count < MaxSessions

\* What conn_request_handle does with a CONNECT_REQUEST: its result and the
\* pending table.  Without transmit queues it refuses before it looks.
conn_request_handle(txq, p) ==
    IF ~txq THEN <<-1, g_conn_requests>>
    ELSE IF Len(g_conn_requests) < MaxPending THEN <<1, Append(g_conn_requests, p)>>
    ELSE <<0, g_conn_requests>>

Reported(e) == IF Len(event_ring) < EventCap THEN Append(event_ring, e) ELSE event_ring

----------------------------------------------------------------------------
(* The transport API. *)

\* transport_init: the engine is cleared; the tables outlive it.
Start ==
    /\ ~initialized
    /\ initialized' = TRUE
    /\ session' = NoSession /\ peer_addr' = NULL /\ connect_addr' = NULL
    /\ role_initiator' = FALSE /\ session_is_locked' = FALSE
    /\ calls' = {} /\ event_ring' = <<>>
    /\ UNCHANGED <<g_session_count, g_conn_requests, g_peers, asked, refused>>

\* transport_init when a socket or a thread is not to be had: the engine is
\* cleared all the same, and stays down.
StartFails ==
    /\ ~initialized
    /\ session' = NoSession /\ peer_addr' = NULL /\ connect_addr' = NULL
    /\ role_initiator' = FALSE /\ session_is_locked' = FALSE
    /\ calls' = {} /\ event_ring' = <<>>
    /\ UNCHANGED <<initialized, g_session_count, g_conn_requests, g_peers, asked, refused>>

Shutdown ==
    /\ initialized
    /\ initialized' = FALSE
    /\ session' = NoSession
    /\ UNCHANGED <<g_session_count, peer_addr, connect_addr, role_initiator, session_is_locked,
                   calls, g_conn_requests, event_ring, g_peers, asked, refused>>

\* transport_engine_connect; hello is whether a buffer is found for HELLO.
Connect(p, hello) ==
    /\ initialized /\ session = NoSession
    /\ peer_addr' = p /\ role_initiator' = TRUE
    /\ IF ~CanAlloc
       THEN UNCHANGED <<g_session_count, session, connect_addr, session_is_locked, g_peers>>
       ELSE /\ g_session_count' = g_session_count + 1
            /\ IF ~hello
               THEN UNCHANGED <<session, connect_addr, session_is_locked, g_peers>>
               ELSE /\ session' = [peer |-> p, state |-> "HANDSHAKE"]
                    /\ session_is_locked' = FALSE
                    /\ connect_addr' = p
                    /\ g_peers' = connection_manager_connect(g_peers, p)
    /\ UNCHANGED <<initialized, calls, g_conn_requests, event_ring, asked, refused>>

Disconnect ==
    /\ session # NoSession
    /\ session' = NoSession /\ session_is_locked' = FALSE
    /\ g_peers' = connection_manager_disconnect(g_peers)
    /\ UNCHANGED <<initialized, g_session_count, peer_addr, connect_addr, role_initiator,
                   calls, g_conn_requests, event_ring, asked, refused>>

\* A request that finds the session table full lets go of the session.
Request_Drops(p) ==
    /\ initialized
    /\ peer_addr' = p /\ connect_addr' = p /\ role_initiator' = TRUE
    /\ session_is_locked' = FALSE
    /\ IF ~CanAlloc
       THEN refused' = TRUE /\ session' = NoSession /\ UNCHANGED <<g_session_count, asked>>
       ELSE /\ g_session_count' = g_session_count + 1
            /\ session' = [peer |-> p, state |-> "IDLE"]
            /\ asked' = asked \cup {p}
            /\ UNCHANGED refused
    /\ UNCHANGED <<initialized, calls, g_conn_requests, g_peers, event_ring>>

\* transport_engine_send_connect_request: the address is replaced before the
\* session table is asked for an entry.
Request(p) ==
    /\ initialized
    /\ peer_addr' = p /\ connect_addr' = p /\ role_initiator' = TRUE
    /\ IF ~CanAlloc
       THEN refused' = TRUE /\ UNCHANGED <<g_session_count, session, session_is_locked, asked>>
       ELSE /\ g_session_count' = g_session_count + 1
            /\ session' = [peer |-> p, state |-> "IDLE"]
            /\ session_is_locked' = FALSE
            /\ asked' = asked \cup {p}
            /\ UNCHANGED refused
    /\ UNCHANGED <<initialized, calls, g_conn_requests, g_peers, event_ring>>

\* An accept that goes on sending to the last peer.
Accept_OldAddr(p) ==
    /\ initialized /\ CanAlloc
    /\ g_session_count' = g_session_count + 1
    /\ session' = [peer |-> p, state |-> "IDLE"]
    /\ connect_addr' = p
    /\ role_initiator' = FALSE /\ session_is_locked' = FALSE
    /\ g_peers' = connection_manager_connect(g_peers, p)
    /\ UNCHANGED <<initialized, peer_addr, calls, g_conn_requests, event_ring, asked, refused>>

Accept(p) ==
    /\ initialized /\ CanAlloc
    /\ g_session_count' = g_session_count + 1
    /\ session' = [peer |-> p, state |-> "IDLE"]
    /\ peer_addr' = p /\ connect_addr' = p
    /\ role_initiator' = FALSE /\ session_is_locked' = FALSE
    /\ g_peers' = connection_manager_connect(g_peers, p)
    /\ UNCHANGED <<initialized, calls, g_conn_requests, event_ring, asked, refused>>

\* A session entry is spent on the answer.
Decline(p) ==
    /\ initialized /\ CanAlloc
    /\ g_session_count' = g_session_count + 1
    /\ UNCHANGED <<initialized, session, peer_addr, connect_addr, role_initiator, session_is_locked,
                   calls, g_conn_requests, event_ring, g_peers, asked, refused>>

CallStart(c) ==
    /\ initialized /\ session_is_locked
    /\ calls' = calls \cup {c}
    /\ UNCHANGED <<initialized, g_session_count, session, peer_addr, connect_addr, role_initiator,
                   session_is_locked, g_conn_requests, event_ring, g_peers, asked, refused>>

CallEnd(c) ==
    /\ initialized
    /\ calls' = calls \ {c}
    /\ UNCHANGED <<initialized, g_session_count, session, peer_addr, connect_addr, role_initiator,
                   session_is_locked, g_conn_requests, event_ring, g_peers, asked, refused>>

\* Time only shows when mark_stale looks at it: it passes between scans.
Older(t) == [i \in DOMAIN t |-> [t[i] EXCEPT !.age = IF @ \in 0..StaleAfter THEN @ + 1 ELSE @]]

\* lan_discovery_trigger_scan and then connection_manager_mark_stale.
Scan(heard) ==
    /\ initialized
    /\ \E seen \in try_recv_beacon(Older(g_peers), heard) :
          g_peers' = connection_manager_mark_stale(seen)
    /\ UNCHANGED <<engine, asked, refused>>

----------------------------------------------------------------------------
(* transport_engine_poll: an event if there is one, else a packet, else ticks. *)

PollEvent ==
    /\ initialized /\ event_ring # <<>>
    /\ event_ring' = Tail(event_ring)
    /\ UNCHANGED <<initialized, g_session_count, session, peer_addr, connect_addr, role_initiator,
                   session_is_locked, calls, g_conn_requests, g_peers, asked, refused>>

Polls == initialized /\ event_ring = <<>>

\* What the session gate drops: a request is offered to conn_request_handle
\* with no queues; answers are reported to an initiator.
PollDropped(p, op) ==
    /\ Polls /\ session.state # "LOCKED"
    /\ LET handled == IF op = "CONNECT_REQUEST" /\ ~role_initiator
                      THEN conn_request_handle(FALSE, p) ELSE <<0, g_conn_requests>>
       IN  /\ g_conn_requests' = handled[2]
           /\ event_ring' =
                 IF handled[1] > 0 \/ (op # "CONNECT_REQUEST" /\ role_initiator)
                 THEN Reported([type |-> op, from |-> p]) ELSE event_ring
    /\ UNCHANGED <<initialized, g_session_count, session, peer_addr, connect_addr, role_initiator,
                   session_is_locked, calls, g_peers, asked, refused>>

\* A LOCKED session's gate lets every control packet in; no handler knows a
\* CONNECT_*, the handshake takes it for an error and resets the session.
PollStray ==
    /\ Polls /\ session.state = "LOCKED"
    /\ session' = [session EXCEPT !.state = "IDLE"]
    /\ UNCHANGED <<initialized, g_session_count, peer_addr, connect_addr, role_initiator,
                   session_is_locked, calls, g_conn_requests, event_ring, g_peers, asked, refused>>

PollConnect(p, op) ==
    /\ op # "CONNECT_REQUEST" => p \in asked
    /\ PollDropped(p, op) \/ PollStray

\* A message of the handshake: the last one locks the session, and the peer's
\* entry and the application are told; a wrong one resets it.
PollHandshake(st) ==
    /\ Polls /\ session.state = "HANDSHAKE" /\ role_initiator
    /\ session' = [session EXCEPT !.state = st]
    /\ IF st = "LOCKED" /\ ~session_is_locked
       THEN /\ session_is_locked' = TRUE
            /\ g_peers' = connection_manager_update_state(g_peers, connect_addr)
            /\ event_ring' = Reported([type |-> "LOCKED", from |-> connect_addr])
       ELSE UNCHANGED <<session_is_locked, g_peers, event_ring>>
    /\ UNCHANGED <<initialized, g_session_count, peer_addr, connect_addr, role_initiator,
                   calls, g_conn_requests, asked, refused>>

\* The ticks: reconnect_tick may give a LOCKED session up.
PollTick ==
    /\ Polls
    /\ session' \in {session} \cup
          (IF session.state = "LOCKED" THEN {[session EXCEPT !.state = "IDLE"]} ELSE {})
    /\ UNCHANGED <<initialized, g_session_count, peer_addr, connect_addr, role_initiator,
                   session_is_locked, calls, g_conn_requests, event_ring, g_peers, asked, refused>>

Beacons == {heard \in SUBSET Peers : Cardinality(heard) <= MaxBeacons}
Answers == {"CONNECT_REQUEST", "CONNECT_ACCEPT", "CONNECT_DECLINE"}

Call ==
    \/ Start \/ StartFails \/ Shutdown \/ Disconnect
    \/ \E p \in Peers : \E hello \in BOOLEAN : Connect(p, hello)
    \/ \E p \in Peers : Request(p) \/ Accept(p) \/ Decline(p)
    \/ \E c \in Media : CallStart(c) \/ CallEnd(c)

Poll ==
    \/ PollEvent \/ PollTick
    \/ \E p \in Peers, op \in Answers : PollConnect(p, op)
    \/ \E st \in {"HANDSHAKE", "LOCKED", "IDLE"} : PollHandshake(st)

Discover == \E heard \in Beacons : Scan(heard)

Next == Call \/ Poll \/ Discover

\* An application in any order of calls.
Spec == Init /\ [][Next]_cvars

\* Both front ends scan for as long as the station is up.
FairSpec == Spec /\ WF_cvars(Discover)

----------------------------------------------------------------------------
(* Properties *)

\* Every variable has its type; the session table, the peer table, the pending
\* requests and the event ring stay within their arrays.
TypeOK ==
    /\ {initialized, role_initiator, session_is_locked, refused} \subseteq BOOLEAN
    /\ g_session_count \in 0..MaxSessions
    /\ session \in [peer : Peers \cup {NULL}, state : {"NONE", "IDLE", "HANDSHAKE", "LOCKED"}]
    /\ {peer_addr, connect_addr} \subseteq Peers \cup {NULL}
    /\ calls \subseteq Media
    /\ Range(g_conn_requests) \subseteq Peers /\ Len(g_conn_requests) <= MaxPending
    /\ Len(event_ring) <= EventCap
    /\ Len(g_peers) <= MaxPeers
    /\ \A i \in DOMAIN g_peers :
          g_peers[i] \in [addr : Peers, state : {"CONNECTING", "LOCKED", "DISCONNECTED"},
                          online : BOOLEAN, age : Ages]
    /\ asked \subseteq Peers

\* Through any order of connect, request, accept, decline, disconnect, answers
\* and handshakes, everything the engine sends goes to the peer its session is
\* with, and a lock marks that peer: eng->session, eng->peer_addr and
\* eng->connect_addr_str never part, until a request finds the session table full.
RightPeer ==
    session # NoSession /\ ~refused => session.peer = peer_addr /\ session.peer = connect_addr

\* The peer of a LOCKED session is the one the peer table lists as connected,
\* and connection_manager_mark_stale never lists it as offline, however long
\* its beacons are missing ("Connected peers are never marked offline by timeout").
ListedAsConnected ==
    session.state = "LOCKED" /\ ~refused =>
        \A i \in find_peer(g_peers, session.peer) :
            g_peers[i].state = "LOCKED" /\ g_peers[i].online

\* While the station is up, a peer that discovery has listed and that is not
\* connected does not stay online without beacons: mark_stale gets to it
\* ("Peers are auto-marked offline after 30s of no beacon").
SilentPeersFade ==
    \A p \in Peers :
        []<>(~initialized \/ \A i \in find_peer(g_peers, p) :
                g_peers[i].age \in {Never, 0} \/ ~g_peers[i].online \/ g_peers[i].state = "LOCKED")

=============================================================================
