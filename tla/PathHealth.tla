----------------------------- MODULE PathHealth -----------------------------
(***************************************************************************)
(* What keeps a locked session alive and what gives it up: the heartbeats  *)
(* (heartbeat.c), the reconnect requests (reconnect.c), the path states    *)
(* that the resilience layer keeps (resilience_ctx.c, resilience.c) and    *)
(* the port hop that adds a path (port_hop.c), as the control handlers and *)
(* the periodic tick of transport_engine.c call them.                      *)
(*                                                                         *)
(* Two peers have locked a session.  Times are whole seconds, as the code  *)
(* reads them (time(NULL) * 1000), kept as ages that stop growing once     *)
(* they exceed every limit they are compared with.  The network holds at   *)
(* most one datagram of each kind each way, and loses what exceeds         *)
(* MaxTransit; it may lose and reorder the rest, and Cut ends all          *)
(* delivery.  What the replay window refuses is left out: a datagram is    *)
(* delivered at most once (ReplayWindow!NoReplay).                         *)
(***************************************************************************)
EXTENDS Integers, FiniteSets

CONSTANTS Peers,          \* the two ends of the session
          Interval,       \* resilience_t.heartbeat_interval_ms, in seconds
          Timeout,        \* resilience_t.reconnect_timeout_ms, in seconds
          Retry,          \* RECONNECT_RETRY_MS, in seconds
          MaxAttempts,    \* resilience_t.max_reconnect_attempts
          MaxPaths,       \* RESILIENCE_MAX_PATHS
          HopHeard,       \* the peer that hops has a socket on the new port
          MinPolls,       \* engine ticks that every second has at least
          MaxPolls,       \* and at most: the front ends sleep between two polls
          Hoppers,        \* the peers whose user asks for a port hop
          PollGap,        \* seconds that pass at least between two of them
          MaxTransit,     \* datagrams that the network holds at once
          MaxHops, MaxPoolFails   \* bounds on what may happen in a behaviour

ASSUME PathAssumption ==
    /\ \E p, q \in Peers : p # q /\ Peers = {p, q}
    /\ Interval \in Nat \ {0} /\ Timeout > 3 * Interval /\ Timeout \in Nat
    /\ Retry \in Nat /\ MaxAttempts \in Nat /\ MaxPaths \in Nat \ {0}
    /\ Hoppers \subseteq Peers /\ HopHeard \in BOOLEAN /\ PollGap \in Nat
    /\ MinPolls \in Nat /\ MaxPolls \in Nat \ {0} /\ MinPolls <= MaxPolls
    /\ MaxTransit \in Nat /\ MaxHops \in Nat /\ MaxPoolFails \in Nat

VARIABLES
    sess,        \* of each peer, the fields of session_t and resilience_t named below
    age,         \* of each peer, the seconds since last_heartbeat_ms and last_activity_ms
    net,         \* the datagrams in transit
    link,        \* FALSE once the network is cut
    polls,       \* of each peer, the ticks in this second and the seconds since the last
    hops,        \* port hops asked for
    pool_fails,  \* times pool_get found no buffer
    steady       \* no datagram was lost or late and no buffer was missing so far

vars == <<sess, age, net, link, polls, hops, pool_fails, steady>>

Unknown == "UNKNOWN"
Active == "ACTIVE"
Degraded == "DEGRADED"
Down == "DOWN"
PathStates == {Unknown, Active, Degraded, Down}

Opcodes == {"HEARTBEAT", "HEARTBEAT_ACK", "RECONNECT", "RECONNECT_ACK",
            "PORT_HOP", "PORT_HOP_ACK", "DATA"}

Paths == 0 .. MaxPaths - 1
Used(s) == 0 .. s.path_count - 1
Other(p) == CHOOSE q \in Peers : q # p
NotStarted == -1
Smaller(a, b) == IF a < b THEN a ELSE b

(* The session when the handshake has just locked it: resilience_init left *)
(* every time 0, which is long ago, and no packet was received since.      *)
Fresh == [locked |-> TRUE, path_count |-> 1, path |-> [i \in Paths |-> Unknown],
          attempts |-> 0, start |-> NotStarted, hopped |-> FALSE]

Init ==
    /\ sess = [p \in Peers |-> Fresh]
    /\ age = [p \in Peers |-> [hb |-> Interval, path |-> [i \in Paths |-> Timeout + 1]]]
    /\ net = {}
    /\ link = TRUE
    /\ polls = [p \in Peers |-> [now |-> 0, gap |-> PollGap]]
    /\ hops = 0 /\ pool_fails = 0 /\ steady = TRUE

-----------------------------------------------------------------------------
Datagram(p, op) == [to |-> p, op |-> op]

(* A packet for sess->addr: after a port hop that is the new port, where   *)
(* the peer may not listen.                                                *)
ToSession(p, op) ==
    IF link /\ (sess[p].hopped => HopHeard) THEN {Datagram(Other(p), op)} ELSE {}

(* A packet for the address that the packet handled came from.             *)
ToSender(p, op) == IF link THEN {Datagram(Other(p), op)} ELSE {}

(* What the network keeps of the datagrams sent; steady stays so if it     *)
(* keeps them all and ok holds.                                            *)
Transmit(kept, sent, ok) ==
    /\ net' = IF Cardinality(kept \cup sent) <= MaxTransit THEN kept \cup sent ELSE kept
    /\ steady' = (steady /\ ok /\ net' = kept \cup sent)

(* pool_get has a buffer, or has none: got tells which.                    *)
PoolGet(got) ==
    \/ got /\ UNCHANGED pool_fails
    \/ ~ got /\ pool_fails < MaxPoolFails /\ pool_fails' = pool_fails + 1

(* Mutant: only a path that is not yet known becomes active.               *)
RecordRx_First(s) == IF s.path[0] = Unknown THEN [s EXCEPT !.path[0] = Active] ELSE s

(* resilience_record_rx, which resilience_check calls for path 0 whatever  *)
(* the packet is: it revives the path and leaves last_activity_ms alone.   *)
RecordRx(s) == [s EXCEPT !.path[0] = Active]

(* Mutant: path 0 is left out.                                             *)
Refreshed_Others(p, s) ==
    [age EXCEPT ![p].path = [i \in Paths |-> IF i \in Used(s) \ {0} THEN 0 ELSE @[i]]]

(* The ages once the activity of every path in use is set to now.          *)
Refreshed(p, s) ==
    [age EXCEPT ![p].path = [i \in Paths |-> IF i \in Used(s) THEN 0 ELSE @[i]]]

(* reconnect_handle for a request and for its acknowledgement.             *)
Reestablished(s) ==
    [s EXCEPT !.path = [i \in Paths |-> IF i \in Used(s) THEN Active ELSE @[i]],
              !.attempts = 0]

(* port_hop_handle: the peer's new port becomes the last path and the      *)
(* session's address.                                                      *)
Hopped(s) == [s EXCEPT !.path_count = Smaller(@ + 1, MaxPaths), !.hopped = TRUE]

(* session_reset, which ends a handler that returned no positive value:    *)
(* handshake_process_message takes the packet and answers HS_ERROR.        *)
Reset(s) == [Fresh EXCEPT !.locked = FALSE, !.hopped = s.hopped]

-----------------------------------------------------------------------------
(* The control handlers of the engine, for a datagram m that the pipeline  *)
(* has passed.                                                             *)

(* heartbeat_handle: without a buffer for the answer it reports that it    *)
(* has not handled the packet.                                             *)
HandleHeartbeat(m) ==
    LET s == RecordRx(sess[m.to])
    IN  /\ m.op = "HEARTBEAT"
        /\ age' = Refreshed(m.to, s)
        /\ \E got \in BOOLEAN :
              /\ PoolGet(got)
              /\ sess' = [sess EXCEPT ![m.to] = IF got THEN s ELSE Reset(s)]
              /\ Transmit(net \ {m}, IF got THEN ToSender(m.to, "HEARTBEAT_ACK") ELSE {}, got)
        /\ UNCHANGED hops

HandleHeartbeatAck(m) ==
    LET s == RecordRx(sess[m.to])
    IN  /\ m.op = "HEARTBEAT_ACK"
        /\ sess' = [sess EXCEPT ![m.to] = s]
        /\ age' = Refreshed(m.to, s)
        /\ net' = net \ {m}
        /\ UNCHANGED <<hops, pool_fails, steady>>

(* reconnect_handle and reconnect_send_ack.                                *)
HandleReconnect(m) ==
    LET s == Reestablished(RecordRx(sess[m.to]))
    IN  /\ m.op = "RECONNECT"
        /\ sess' = [sess EXCEPT ![m.to] = s]
        /\ age' = Refreshed(m.to, s)
        /\ \E got \in BOOLEAN :
              /\ PoolGet(got)
              /\ Transmit(net \ {m}, IF got THEN ToSender(m.to, "RECONNECT_ACK") ELSE {}, got)
        /\ UNCHANGED hops

HandleReconnectAck(m) ==
    LET s == Reestablished(RecordRx(sess[m.to]))
    IN  /\ m.op = "RECONNECT_ACK"
        /\ sess' = [sess EXCEPT ![m.to] = s]
        /\ age' = Refreshed(m.to, s)
        /\ net' = net \ {m}
        /\ UNCHANGED <<hops, pool_fails, steady>>

(* port_hop_handle and, for a request, port_hop_send_ack.                  *)
HandlePortHop(m) ==
    /\ m.op = "PORT_HOP"
    /\ sess' = [sess EXCEPT ![m.to] = Hopped(RecordRx(@))]
    /\ \E got \in BOOLEAN :
          /\ PoolGet(got)
          /\ Transmit(net \ {m}, IF got THEN ToSender(m.to, "PORT_HOP_ACK") ELSE {},
                      got /\ sess[m.to].path[0] # Unknown)
    /\ UNCHANGED <<age, hops>>

(* An acknowledged hop, or a packet of another channel from the address    *)
(* that the session has: only the resilience layer takes notice.           *)
FromAddress(m) == m.op = "DATA" => ToSession(m.to, m.op) # {} \/ ~ link

HandleOther(m) ==
    /\ m.op \in {"PORT_HOP_ACK", "DATA"} /\ FromAddress(m)
    /\ sess' = [sess EXCEPT ![m.to] = RecordRx(@)]
    /\ net' = net \ {m}
    /\ steady' = (steady /\ sess[m.to].path[0] # Unknown)
    /\ UNCHANGED <<age, hops, pool_fails>>

(* session_check drops what a session that is not locked receives, and the *)
(* data from a port that a hop has replaced.                               *)
Refuse(m) ==
    /\ ~ sess[m.to].locked \/ ~ FromAddress(m)
    /\ net' = net \ {m}
    /\ UNCHANGED <<sess, age, hops, pool_fails, steady>>

Receive(m) ==
    /\ \/ Refuse(m)
       \/ /\ sess[m.to].locked
          /\ \/ HandleHeartbeat(m) \/ HandleHeartbeatAck(m) \/ HandleReconnect(m)
             \/ HandleReconnectAck(m) \/ HandlePortHop(m) \/ HandleOther(m)
    /\ UNCHANGED <<link, polls>>

-----------------------------------------------------------------------------
(* The periodic tick of transport_engine_poll: heartbeat_tick, then        *)
(* reconnect_tick.                                                         *)

(* The path check of heartbeat_tick: both steps may be taken at once.      *)
Judge(state, idle) ==
    LET d == IF state = Active /\ idle > 3 * Interval THEN Degraded ELSE state
    IN  IF d = Degraded /\ idle > Timeout THEN Down ELSE d

(* heartbeat_tick sends when a heartbeat is due, and only when none is     *)
(* does it look at the paths.                                              *)
Due(p) == age[p].hb >= Interval

AfterHeartbeatTick(p) ==
    IF Due(p) THEN sess[p]
    ELSE [sess[p] EXCEPT !.path =
            [i \in Paths |-> IF i \in Used(sess[p]) THEN Judge(@[i], age[p].path[i]) ELSE @[i]]]

AnyDown(s) == \E i \in Used(s) : s.path[i] = Down

(* Mutant: one request more than max_reconnect_attempts.                   *)
GivesUp_Late(s) == AnyDown(s) /\ s.attempts > MaxAttempts

GivesUp(s) == AnyDown(s) /\ s.attempts >= MaxAttempts

(* reconnect_tick sends a request: reconnect_send_request clears           *)
(* reconnect_start_ms, so that the next tick sends another, unless it      *)
(* found no buffer.                                                        *)
Asks(s) == AnyDown(s) /\ ~ GivesUp(s) /\ (s.start = NotStarted \/ s.start >= Retry)

(* Mutant: the requests are not counted.                                   *)
AfterReconnectTick_Uncounted(s, got) ==
    IF GivesUp(s) THEN [s EXCEPT !.locked = FALSE]
    ELSE IF Asks(s) THEN [s EXCEPT !.start = IF got \/ @ # NotStarted THEN @ ELSE 0]
    ELSE s

AfterReconnectTick(s, got) ==
    IF GivesUp(s) THEN [s EXCEPT !.locked = FALSE]
    ELSE IF ~ Asks(s) THEN s
    ELSE IF got THEN [s EXCEPT !.attempts = @ + 1, !.start = NotStarted]
    ELSE [s EXCEPT !.start = IF @ = NotStarted THEN 0 ELSE @]

(* A buffer is asked for only when there is something to send.             *)
Poll(p) ==
    LET s == AfterHeartbeatTick(p)
    IN  /\ sess[p].locked
        /\ polls[p].gap >= PollGap /\ polls[p].now < MaxPolls
        /\ \E beat \in {b \in BOOLEAN : Due(p) \/ b}, ask \in {b \in BOOLEAN : Asks(s) \/ b} :
              LET fails == (IF beat THEN 0 ELSE 1) + (IF ask THEN 0 ELSE 1)
              IN  /\ pool_fails + fails <= MaxPoolFails
                  /\ pool_fails' = pool_fails + fails
                  /\ sess' = [sess EXCEPT ![p] = AfterReconnectTick(s, ask)]
                  /\ age' = IF Due(p) /\ beat THEN [age EXCEPT ![p].hb = 0] ELSE age
                  /\ Transmit(net, (IF Due(p) /\ beat THEN ToSession(p, "HEARTBEAT") ELSE {})
                              \cup (IF Asks(s) /\ ask THEN ToSession(p, "RECONNECT") ELSE {}),
                              fails = 0)
        /\ polls' = [polls EXCEPT ![p] = [now |-> @.now + 1, gap |-> 0]]
        /\ UNCHANGED <<link, hops>>

-----------------------------------------------------------------------------
(* A chat, file, audio or video packet for the peer.                       *)
SendData(p) ==
    /\ sess[p].locked
    /\ Transmit(net, ToSession(p, "DATA"), TRUE)
    /\ UNCHANGED <<sess, age, link, polls, hops, pool_fails>>

(* transport_port_hop: the request goes to the address first connected to. *)
RequestHop(p) ==
    /\ hops < MaxHops /\ hops' = hops + 1
    /\ \E got \in BOOLEAN :
          /\ PoolGet(got)
          /\ Transmit(net, IF got THEN ToSender(p, "PORT_HOP") ELSE {}, FALSE)
    /\ UNCHANGED <<sess, age, link, polls>>

Lose(m) ==
    /\ net' = net \ {m}
    /\ steady' = FALSE
    /\ UNCHANGED <<sess, age, link, polls, hops, pool_fails>>

(* The network goes away for good, with all that is in transit.            *)
Cut ==
    /\ link
    /\ link' = FALSE
    /\ net' = {}
    /\ steady' = FALSE
    /\ UNCHANGED <<sess, age, polls, hops, pool_fails>>

(* One second passes; both engines tick MinPolls times in every second, or *)
(* in every second that is PollGap after the last tick.                    *)
Tick ==
    /\ \A p \in Peers :
          sess[p].locked => polls[p].now >= MinPolls \/ polls[p].gap < PollGap
    /\ age' = [p \in Peers |->
                [hb |-> Smaller(age[p].hb + 1, Interval),
                 path |-> [i \in Paths |-> Smaller(age[p].path[i] + 1, Timeout + 1)]]]
    /\ sess' = [p \in Peers |-> [sess[p] EXCEPT !.start =
                                    IF @ = NotStarted THEN @ ELSE Smaller(@ + 1, Retry)]]
    /\ polls' = [p \in Peers |-> [now |-> 0, gap |-> Smaller(polls[p].gap + 1, PollGap)]]
    /\ steady' = (steady /\ net = {})
    /\ UNCHANGED <<net, link, hops, pool_fails>>

Next ==
    \/ Tick \/ Cut
    \/ \E p \in Peers : Poll(p) \/ SendData(p)
    \/ \E p \in Hoppers : RequestHop(p)
    \/ \E m \in net : Receive(m) \/ Lose(m)

Spec == Init /\ [][Next]_vars

(* Time passes and the front ends keep polling.                            *)
FairSpec == Spec /\ WF_vars(Tick \/ \E p \in Peers : Poll(p))

-----------------------------------------------------------------------------
Sessions ==
    [locked : BOOLEAN, path_count : 1 .. MaxPaths, path : [Paths -> PathStates],
     attempts : 0 .. MaxAttempts, start : {NotStarted} \cup 0 .. Retry, hopped : BOOLEAN]

Ages == [hb : 0 .. Interval, path : [Paths -> 0 .. Timeout + 1]]

(* The fields of the sessions and the datagrams keep their ranges; no      *)
(* more than max_reconnect_attempts requests are ever sent in a row.       *)
TypeOK ==
    /\ sess \in [Peers -> Sessions]
    /\ age \in [Peers -> Ages]
    /\ net \subseteq [to : Peers, op : Opcodes]
    /\ link \in BOOLEAN /\ steady \in BOOLEAN
    /\ hops \in 0 .. MaxHops /\ pool_fails \in 0 .. MaxPoolFails

(* A session whose heartbeats all arrive in time, with the first of them   *)
(* before any data, is never given up and its path is never found down:    *)
(* heartbeat_tick, heartbeat_handle and reconnect_tick of both peers agree *)
(* on what silence is.                                                     *)
SteadyStaysUp ==
    steady => \A p \in Peers : sess[p].locked /\ sess[p].path[0] # Down

(* The first path of a live session is down only once no heartbeat and no  *)
(* reconnect packet came from the peer for longer than                     *)
(* reconnect_timeout_ms: heartbeat_tick judges by the same clock that the  *)
(* handlers set, and no packet that they take leaves the path down.        *)
DownMeansSilent ==
    \A p \in Peers : sess[p].locked /\ sess[p].path[0] = Down => age[p].path[0] > Timeout

(* A path that is down, or a network that is gone behind a session that    *)
(* once heard from its peer.                                               *)
Troubled(p) == AnyDown(sess[p]) \/ (~ link /\ sess[p].path[0] # Unknown)

(* Trouble does not last: the path comes back or the session is given up,  *)
(* whatever is lost.  heartbeat_tick finds the silence and reconnect_tick  *)
(* ends it.                                                                *)
OutageResolves ==
    \A p \in Peers : Troubled(p) ~> (~ Troubled(p) \/ ~ sess[p].locked)

-----------------------------------------------------------------------------
(* The inductive invariant behind SteadyStaysUp, for engines that tick in  *)
(* every second: what p has not heard for n seconds, the other peer has    *)
(* not sent for n seconds or is in transit, and a peer that has ticked in  *)
(* this second has sent within the interval.                               *)
SteadyOK(p) ==
    /\ sess[p].locked /\ sess[p].path_count = 1 /\ ~ sess[p].hopped
    /\ sess[p].path[0] \in {Unknown, Active}
    /\ polls[p].now > 0 => age[p].hb < Interval
    /\ sess[p].path[0] = Active =>
          /\ age[p].path[0] <= Interval
          /\ age[p].path[0] <= age[Other(p)].hb \/ Datagram(p, "HEARTBEAT") \in net

SteadyInv ==
    /\ polls \in [Peers -> [now : Nat, gap : Nat]]
    /\ steady => /\ link
                 /\ \A m \in net : m.op \in {"HEARTBEAT", "HEARTBEAT_ACK", "DATA"}
                 /\ \A p \in Peers : SteadyOK(p)
====
