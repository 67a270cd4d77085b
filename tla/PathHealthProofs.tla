-------------------------- MODULE PathHealthProofs --------------------------
(***************************************************************************)
(* Proofs about PathHealth: for every interval, time-out, number of        *)
(* attempts and of paths, and whatever the network loses or delays, the    *)
(* fields keep their ranges and a path is found down only in silence.      *)
(***************************************************************************)
EXTENDS PathHealth, TLAPS

(* What the assumption says of the ranges below.                           *)
LEMMA Constants ==
    /\ 0 \in Paths /\ Timeout \in Nat /\ Interval \in Nat /\ Retry \in Nat
    /\ MaxAttempts \in Nat /\ MaxPaths \in Nat \ {0} /\ NotStarted = -1
    /\ \A p \in Peers : Other(p) \in Peers
<1>1. \A p \in Peers : Other(p) \in Peers
  BY PathAssumption DEF Other
<1> QED
  BY <1>1, PathAssumption DEF Paths, NotStarted

(* What resilience_record_rx makes of a session: path 0 is active.         *)
LEMMA RecordRxType ==
    ASSUME NEW s \in Sessions
    PROVE  RecordRx(s) \in Sessions /\ RecordRx(s).path[0] = Active
BY Constants DEF RecordRx, Sessions, PathStates

(* A reconnect revives the paths in use.                                   *)
LEMMA ReestablishedType ==
    ASSUME NEW s \in Sessions
    PROVE  /\ Reestablished(s) \in Sessions
           /\ s.path[0] = Active => Reestablished(s).path[0] = Active
<1> DEFINE f == [i \in Paths |-> IF i \in Used(s) THEN Active ELSE s.path[i]]
<1>1. Reestablished(s) = [s EXCEPT !.path = f, !.attempts = 0]
  BY DEF Reestablished
<1>2. f \in [Paths -> PathStates]
  BY DEF Sessions, PathStates
<1>3. s.path[0] = Active => f[0] = Active
  BY Constants
<1> HIDE DEF f
<1> QED
  <2>1. 0 \in 0 .. MaxAttempts
    BY Constants
  <2>2. [s EXCEPT !.path = f, !.attempts = 0] \in Sessions
    BY <1>2, <2>1 DEF Sessions
  <2>3. [s EXCEPT !.path = f, !.attempts = 0].path = f
    BY DEF Sessions
  <2> QED
    BY <1>1, <1>3, <2>2, <2>3

(* A port hop stops adding paths at RESILIENCE_MAX_PATHS.                  *)
LEMMA HoppedType ==
    ASSUME NEW s \in Sessions
    PROVE  Hopped(s) \in Sessions /\ Hopped(s).path = s.path
<1>1. Smaller(s.path_count + 1, MaxPaths) \in 1 .. MaxPaths
  BY Constants DEF Sessions, Smaller
<1>2. Hopped(s) = [s EXCEPT !.path_count = Smaller(s.path_count + 1, MaxPaths), !.hopped = TRUE]
  BY DEF Hopped
<1> QED
  BY <1>1, <1>2 DEF Sessions

(* A session that was reset knows no path.                                 *)
LEMMA ResetType ==
    ASSUME NEW s \in Sessions
    PROVE  Reset(s) \in Sessions /\ Reset(s).path[0] = Unknown
<1>1. Fresh \in Sessions /\ Fresh.path[0] = Unknown
  BY Constants DEF Fresh, Sessions, PathStates
<1> QED
  BY <1>1 DEF Reset, Sessions

(* heartbeat_tick finds a path down only after reconnect_timeout_ms.       *)
LEMMA HeartbeatTickType ==
    ASSUME TypeOK, NEW p \in Peers
    PROVE  LET s == AfterHeartbeatTick(p)
           IN  /\ s \in Sessions /\ s.locked = sess[p].locked
               /\ s.path[0] = Down => sess[p].path[0] = Down \/ age[p].path[0] > Timeout
<1>1. sess[p] \in Sessions
  BY DEF TypeOK
<1>2. \A st \in PathStates : \A n : Judge(st, n) \in PathStates
  BY DEF Judge, PathStates
<1>3. \A st, n : Judge(st, n) = Down => st = Down \/ n > Timeout
  BY DEF Judge, Degraded, Down, Active
<1>4. CASE Due(p)
  BY <1>1, <1>4 DEF AfterHeartbeatTick, Sessions
<1>5. CASE ~ Due(p)
  <2> DEFINE f == [i \in Paths |-> IF i \in Used(sess[p]) THEN Judge(sess[p].path[i], age[p].path[i])
                                   ELSE sess[p].path[i]]
  <2>1. AfterHeartbeatTick(p) = [sess[p] EXCEPT !.path = f]
    BY <1>5 DEF AfterHeartbeatTick
  <2>2. f \in [Paths -> PathStates]
    BY <1>1, <1>2 DEF Sessions
  <2>3. f[0] = Down => sess[p].path[0] = Down \/ age[p].path[0] > Timeout
    BY <1>3, Constants
  <2> HIDE DEF f
  <2>4. [sess[p] EXCEPT !.path = f] \in Sessions
    BY <1>1, <2>2 DEF Sessions
  <2> QED
    BY <1>1, <2>1, <2>3, <2>4 DEF Sessions
<1> QED
  BY <1>4, <1>5

(* reconnect_tick gives up at max_reconnect_attempts, so that it never     *)
(* counts beyond.                                                          *)
LEMMA ReconnectTickType ==
    ASSUME NEW s \in Sessions, NEW got \in BOOLEAN
    PROVE  /\ AfterReconnectTick(s, got) \in Sessions
           /\ AfterReconnectTick(s, got).path = s.path
           /\ AfterReconnectTick(s, got).locked => s.locked
<1>1. Asks(s) => s.attempts + 1 \in 0 .. MaxAttempts
  BY Constants DEF Asks, GivesUp, Sessions
<1>2. NotStarted \in {NotStarted} \cup 0 .. Retry /\ 0 \in {NotStarted} \cup 0 .. Retry
  BY Constants
<1> QED
  BY <1>1, <1>2 DEF AfterReconnectTick, Sessions

(* What is sent is a datagram.                                             *)
LEMMA SentType ==
    ASSUME NEW p \in Peers, NEW op \in Opcodes
    PROVE  /\ ToSession(p, op) \subseteq [to : Peers, op : Opcodes]
           /\ ToSender(p, op) \subseteq [to : Peers, op : Opcodes]
BY Constants DEF ToSession, ToSender, Datagram

(* The network keeps only what is there or what is sent.                   *)
LEMMA TransmitType ==
    ASSUME NEW kept \in SUBSET [to : Peers, op : Opcodes],
           NEW sent \in SUBSET [to : Peers, op : Opcodes], NEW ok \in BOOLEAN,
           steady \in BOOLEAN, Transmit(kept, sent, ok)
    PROVE  net' \subseteq [to : Peers, op : Opcodes] /\ steady' \in BOOLEAN
BY DEF Transmit

(* Refreshing the paths of one peer leaves the other's ages alone.         *)
LEMMA RefreshedType ==
    ASSUME TypeOK, NEW p \in Peers, NEW s \in Sessions
    PROVE  /\ Refreshed(p, s) \in [Peers -> Ages]
           /\ \A q \in Peers \ {p} : Refreshed(p, s)[q] = age[q]
<1> DEFINE f == [i \in Paths |-> IF i \in Used(s) THEN 0 ELSE age[p].path[i]]
<1>1. Refreshed(p, s) = [age EXCEPT ![p].path = f]
  BY DEF Refreshed, TypeOK
<1>2. f \in [Paths -> 0 .. Timeout + 1]
  BY Constants DEF TypeOK, Ages
<1> HIDE DEF f
<1> QED
  BY <1>1, <1>2 DEF TypeOK, Ages

(* The first path of p is down only in silence, if the session is live.    *)
SilentOK(p) == sess[p].locked /\ sess[p].path[0] = Down => age[p].path[0] > Timeout

(* The invariant: the ranges, and silence behind every path that is down.  *)
HealthInv == TypeOK /\ \A p \in Peers : SilentOK(p)

(* An action of peer p that leaves a session and its ages as follows       *)
(* preserves the invariant.                                                *)
LEMMA OnePeer ==
    ASSUME HealthInv, NEW p \in Peers, NEW s \in Sessions, NEW a \in [Peers -> Ages],
           \A q \in Peers \ {p} : a[q] = age[q],
           s.locked /\ s.path[0] = Down => a[p].path[0] > Timeout,
           sess' = [sess EXCEPT ![p] = s], age' = a
    PROVE  /\ sess' \in [Peers -> Sessions] /\ age' \in [Peers -> Ages]
           /\ \A q \in Peers : SilentOK(q)'
<1>1. sess' \in [Peers -> Sessions] /\ age' \in [Peers -> Ages]
  BY DEF HealthInv, TypeOK
<1>2. SUFFICES ASSUME NEW q \in Peers PROVE SilentOK(q)'
  BY <1>1
<1>3. CASE q = p
  BY <1>3 DEF SilentOK, HealthInv, TypeOK
<1>4. CASE q # p
  <2>1. sess'[q] = sess[q] /\ age'[q] = age[q]
    BY <1>4 DEF HealthInv, TypeOK
  <2> QED
    BY <2>1 DEF SilentOK, HealthInv
<1> QED
  BY <1>3, <1>4

(* Every datagram that is received keeps the invariant: the path is active *)
(* before the handler runs.                                                *)
LEMMA ReceiveStep ==
    ASSUME HealthInv, NEW m \in net, Receive(m)
    PROVE  HealthInv'
<1> DEFINE p == m.to
<1> DEFINE s == RecordRx(sess[p])
<1>1. /\ p \in Peers /\ sess[p] \in Sessions /\ TypeOK
      /\ net \ {m} \in SUBSET [to : Peers, op : Opcodes] /\ steady \in BOOLEAN
      /\ age \in [Peers -> Ages]
  BY DEF HealthInv, TypeOK
<1>2. s \in Sessions /\ s.path[0] = Active /\ Active # Down /\ Unknown # Down
  BY <1>1, RecordRxType DEF Active, Down, Unknown
<1>3. Reestablished(s) \in Sessions /\ Reestablished(s).path[0] = Active
  BY <1>2, ReestablishedType
<1>4. Hopped(s) \in Sessions /\ Hopped(s).path[0] = Active
  BY <1>2, HoppedType
<1>5. Reset(s) \in Sessions /\ Reset(s).path[0] = Unknown
  BY <1>2, ResetType
<1>6. \A t \in Sessions : /\ Refreshed(p, t) \in [Peers -> Ages]
                          /\ \A q \in Peers \ {p} : Refreshed(p, t)[q] = age[q]
  BY <1>1, RefreshedType
<1>7. \A op \in Opcodes : ToSender(p, op) \in SUBSET [to : Peers, op : Opcodes]
  BY <1>1, SentType
<1>8. \A got \in BOOLEAN : PoolGet(got) => pool_fails' \in 0 .. MaxPoolFails
  BY PathAssumption DEF PoolGet, HealthInv, TypeOK
<1>9. \A sent \in SUBSET [to : Peers, op : Opcodes], ok \in BOOLEAN :
        Transmit(net \ {m}, sent, ok)
        => net' \subseteq [to : Peers, op : Opcodes] /\ steady' \in BOOLEAN
  BY <1>1, TransmitType
<1>10. link' \in BOOLEAN
  BY DEF Receive, HealthInv, TypeOK
<1>11. {} \in SUBSET [to : Peers, op : Opcodes]
  OBVIOUS
<1>12. SUFFICES /\ sess' \in [Peers -> Sessions] /\ age' \in [Peers -> Ages]
                /\ \A q \in Peers : SilentOK(q)'
                /\ net' \subseteq [to : Peers, op : Opcodes] /\ steady' \in BOOLEAN
                /\ hops' \in 0 .. MaxHops /\ pool_fails' \in 0 .. MaxPoolFails
  BY <1>10 DEF HealthInv, TypeOK
<1> HIDE DEF s, p
<1>13. CASE Refuse(m)
  BY <1>1, <1>13 DEF Refuse, HealthInv, TypeOK, SilentOK
<1>14. CASE HandleHeartbeat(m)
  <2>1. PICK got \in BOOLEAN :
          /\ PoolGet(got)
          /\ sess' = [sess EXCEPT ![p] = IF got THEN s ELSE Reset(s)]
          /\ Transmit(net \ {m}, IF got THEN ToSender(p, "HEARTBEAT_ACK") ELSE {}, got)
    BY <1>14 DEF HandleHeartbeat, p, s
  <2>2. age' = Refreshed(p, s) /\ hops' = hops
    BY <1>14 DEF HandleHeartbeat, p, s
  <2>3. net' \subseteq [to : Peers, op : Opcodes] /\ steady' \in BOOLEAN
    BY <2>1, <1>7, <1>9, <1>11 DEF Opcodes
  <2> DEFINE t == IF got THEN s ELSE Reset(s)
  <2>4. t \in Sessions /\ t.path[0] # Down /\ sess' = [sess EXCEPT ![p] = t]
    BY <1>2, <1>5, <2>1
  <2> HIDE DEF t
  <2>5. /\ sess' \in [Peers -> Sessions] /\ age' \in [Peers -> Ages]
        /\ \A q \in Peers : SilentOK(q)'
    BY <1>1, <1>2, <1>6, <2>2, <2>4, OnePeer
  <2> QED
    BY <1>8, <2>1, <2>2, <2>3, <2>5 DEF HealthInv, TypeOK
<1>15. CASE HandleHeartbeatAck(m)
  <2>1. /\ sess' = [sess EXCEPT ![p] = s] /\ age' = Refreshed(p, s)
        /\ net' = net \ {m} /\ UNCHANGED <<hops, pool_fails, steady>>
    BY <1>15 DEF HandleHeartbeatAck, p, s
  <2>2. /\ sess' \in [Peers -> Sessions] /\ age' \in [Peers -> Ages]
        /\ \A q \in Peers : SilentOK(q)'
    BY <1>1, <1>2, <1>6, <2>1, OnePeer
  <2> QED
    BY <1>1, <2>1, <2>2 DEF HealthInv, TypeOK
<1>16. CASE HandleReconnect(m)
  <2>1. PICK got \in BOOLEAN :
          /\ PoolGet(got)
          /\ Transmit(net \ {m}, IF got THEN ToSender(p, "RECONNECT_ACK") ELSE {}, got)
    BY <1>16 DEF HandleReconnect, p
  <2>2. /\ sess' = [sess EXCEPT ![p] = Reestablished(s)]
        /\ age' = Refreshed(p, Reestablished(s)) /\ hops' = hops
    BY <1>16 DEF HandleReconnect, p, s
  <2>3. net' \subseteq [to : Peers, op : Opcodes] /\ steady' \in BOOLEAN
    BY <2>1, <1>7, <1>9, <1>11 DEF Opcodes
  <2>4. /\ sess' \in [Peers -> Sessions] /\ age' \in [Peers -> Ages]
        /\ \A q \in Peers : SilentOK(q)'
    BY <1>1, <1>2, <1>3, <1>6, <2>2, OnePeer
  <2> QED
    BY <1>8, <2>1, <2>2, <2>3, <2>4 DEF HealthInv, TypeOK
<1>17. CASE HandleReconnectAck(m)
  <2>1. /\ sess' = [sess EXCEPT ![p] = Reestablished(s)]
        /\ age' = Refreshed(p, Reestablished(s))
        /\ net' = net \ {m} /\ UNCHANGED <<hops, pool_fails, steady>>
    BY <1>17 DEF HandleReconnectAck, p, s
  <2>2. /\ sess' \in [Peers -> Sessions] /\ age' \in [Peers -> Ages]
        /\ \A q \in Peers : SilentOK(q)'
    BY <1>1, <1>2, <1>3, <1>6, <2>1, OnePeer
  <2> QED
    BY <1>1, <2>1, <2>2 DEF HealthInv, TypeOK
<1>18. CASE HandlePortHop(m)
  <2>1. PICK got \in BOOLEAN :
          /\ PoolGet(got)
          /\ Transmit(net \ {m}, IF got THEN ToSender(p, "PORT_HOP_ACK") ELSE {},
                      got /\ sess[p].path[0] # Unknown)
    BY <1>18 DEF HandlePortHop, p
  <2>2. sess' = [sess EXCEPT ![p] = Hopped(s)] /\ age' = age /\ hops' = hops
    BY <1>18 DEF HandlePortHop, p, s
  <2>3. net' \subseteq [to : Peers, op : Opcodes] /\ steady' \in BOOLEAN
    BY <2>1, <1>7, <1>9, <1>11 DEF Opcodes
  <2>4. /\ sess' \in [Peers -> Sessions] /\ age' \in [Peers -> Ages]
        /\ \A q \in Peers : SilentOK(q)'
    BY <1>1, <1>2, <1>4, <2>2, OnePeer
  <2> QED
    BY <1>8, <2>1, <2>2, <2>3, <2>4 DEF HealthInv, TypeOK
<1>19. CASE HandleOther(m)
  <2>1. /\ sess' = [sess EXCEPT ![p] = s] /\ age' = age /\ net' = net \ {m}
        /\ steady' \in BOOLEAN /\ UNCHANGED <<hops, pool_fails>>
    BY <1>1, <1>19 DEF HandleOther, p, s
  <2>2. /\ sess' \in [Peers -> Sessions] /\ age' \in [Peers -> Ages]
        /\ \A q \in Peers : SilentOK(q)'
    BY <1>1, <1>2, <2>1, OnePeer
  <2> QED
    BY <1>1, <2>1, <2>2 DEF HealthInv, TypeOK
<1> QED
  BY <1>13, <1>14, <1>15, <1>16, <1>17, <1>18, <1>19 DEF Receive

(* The tick keeps it: it finds a path down only when it is silent, and the *)
(* heartbeat it sends does not touch the activity.                         *)
LEMMA PollStep ==
    ASSUME HealthInv, NEW p \in Peers, Poll(p)
    PROVE  HealthInv'
<1> DEFINE s == AfterHeartbeatTick(p)
<1>1. /\ s \in Sessions /\ s.locked = sess[p].locked
      /\ s.path[0] = Down => sess[p].path[0] = Down \/ age[p].path[0] > Timeout
  BY HeartbeatTickType DEF HealthInv
<1>2. sess[p].locked
  BY DEF Poll
<1>3. PICK beat \in BOOLEAN, ask \in BOOLEAN :
        LET fails == (IF beat THEN 0 ELSE 1) + (IF ask THEN 0 ELSE 1)
        IN  /\ pool_fails + fails <= MaxPoolFails
            /\ pool_fails' = pool_fails + fails
            /\ sess' = [sess EXCEPT ![p] = AfterReconnectTick(s, ask)]
            /\ age' = IF Due(p) /\ beat THEN [age EXCEPT ![p].hb = 0] ELSE age
            /\ Transmit(net, (IF Due(p) /\ beat THEN ToSession(p, "HEARTBEAT") ELSE {})
                        \cup (IF Asks(s) /\ ask THEN ToSession(p, "RECONNECT") ELSE {}),
                        fails = 0)
  BY DEF Poll
<1> HIDE DEF s
<1> DEFINE t == AfterReconnectTick(s, ask)
<1>4. t \in Sessions /\ t.path = s.path
  BY <1>1, ReconnectTickType
<1>5. pool_fails' \in 0 .. MaxPoolFails
  BY <1>3, PathAssumption DEF HealthInv, TypeOK
<1>6. net' \subseteq [to : Peers, op : Opcodes] /\ steady' \in BOOLEAN
  <2> DEFINE sent == (IF Due(p) /\ beat THEN ToSession(p, "HEARTBEAT") ELSE {})
                     \cup (IF Asks(s) /\ ask THEN ToSession(p, "RECONNECT") ELSE {})
  <2>1. sent \in SUBSET [to : Peers, op : Opcodes]
    BY SentType DEF Opcodes
  <2> HIDE DEF sent
  <2>2. PICK ok \in BOOLEAN : Transmit(net, sent, ok)
    BY <1>3 DEF sent
  <2> QED
    BY <2>1, <2>2, TransmitType DEF HealthInv, TypeOK
<1>7. /\ age' \in [Peers -> Ages] /\ \A q \in Peers \ {p} : age'[q] = age[q]
      /\ age'[p].path = age[p].path
  BY <1>3, Constants DEF HealthInv, TypeOK, Ages
<1>8. t.locked /\ t.path[0] = Down => age'[p].path[0] > Timeout
  BY <1>1, <1>2, <1>4, <1>7 DEF HealthInv, SilentOK
<1>9. sess' = [sess EXCEPT ![p] = t]
  BY <1>3
<1> HIDE DEF t
<1>10. /\ sess' \in [Peers -> Sessions] /\ age' \in [Peers -> Ages]
       /\ \A q \in Peers : SilentOK(q)'
  <2> DEFINE a == age'
  <2>1. \A q \in Peers \ {p} : a[q] = age[q]
    BY <1>7
  <2> QED
    BY <1>4, <1>7, <1>8, <1>9, <2>1, OnePeer
<1>11. UNCHANGED <<link, hops>>
  BY DEF Poll
<1> QED
  BY <1>5, <1>6, <1>10, <1>11 DEF HealthInv, TypeOK

(* So does the passing of a second: no age shrinks.                        *)
LEMMA TickStep ==
    ASSUME HealthInv, Tick
    PROVE  HealthInv'
<1>1. ASSUME NEW q \in Peers
      PROVE  age'[q] \in Ages /\ sess'[q] \in Sessions /\ SilentOK(q)'
  <2>1. age[q] \in Ages /\ sess[q] \in Sessions /\ SilentOK(q)
    BY DEF HealthInv, TypeOK
  <2> DEFINE f == [i \in Paths |-> Smaller(age[q].path[i] + 1, Timeout + 1)]
  <2>2. f \in [Paths -> 0 .. Timeout + 1]
    BY <2>1, Constants DEF Ages, Smaller
  <2>3. age[q].path[0] > Timeout => f[0] > Timeout
    BY <2>1, Constants DEF Ages, Smaller
  <2>4. Smaller(age[q].hb + 1, Interval) \in 0 .. Interval
    BY <2>1, Constants DEF Ages, Smaller
  <2>5. age'[q] = [hb |-> Smaller(age[q].hb + 1, Interval), path |-> f]
    BY DEF Tick
  <2> HIDE DEF f
  <2> DEFINE n == IF sess[q].start = NotStarted THEN sess[q].start
                  ELSE Smaller(sess[q].start + 1, Retry)
  <2>6. n \in {NotStarted} \cup 0 .. Retry
    BY <2>1, Constants DEF Sessions, Smaller
  <2>7. sess'[q] = [sess[q] EXCEPT !.start = n]
    BY DEF Tick
  <2> HIDE DEF n
  <2>8. /\ sess'[q] \in Sessions /\ sess'[q].path = sess[q].path
        /\ sess'[q].locked = sess[q].locked
    BY <2>1, <2>6, <2>7 DEF Sessions
  <2>9. age'[q] \in Ages /\ age'[q].path = f
    BY <2>2, <2>4, <2>5 DEF Ages
  <2> QED
    BY <2>1, <2>3, <2>8, <2>9 DEF SilentOK
<1>2. sess' \in [Peers -> Sessions] /\ age' \in [Peers -> Ages]
  <2>1. /\ DOMAIN sess' = Peers /\ sess' = [q \in Peers |-> sess'[q]]
        /\ DOMAIN age' = Peers /\ age' = [q \in Peers |-> age'[q]]
    BY DEF Tick
  <2> QED
    BY <1>1, <2>1
<1>3. /\ net' = net /\ link' = link /\ hops' = hops /\ pool_fails' = pool_fails
      /\ steady' \in BOOLEAN
  BY DEF Tick, HealthInv, TypeOK
<1> QED
  BY <1>1, <1>2, <1>3 DEF HealthInv, TypeOK

(* The ranges and the silence hold in every reachable state.               *)
LEMMA HealthInvariant == Spec => []HealthInv
<1>1. Init => HealthInv
  <2>1. Fresh \in Sessions /\ Fresh.path[0] # Down
    BY Constants DEF Fresh, Sessions, PathStates, Unknown, Down
  <2>2. [hb |-> Interval, path |-> [i \in Paths |-> Timeout + 1]] \in Ages
    BY Constants DEF Ages
  <2> QED
    BY <2>1, <2>2, PathAssumption DEF Init, HealthInv, TypeOK, SilentOK
<1>2. HealthInv /\ [Next]_vars => HealthInv'
  <2> SUFFICES ASSUME HealthInv, [Next]_vars PROVE HealthInv'
    OBVIOUS
  <2>1. CASE Tick
    BY <2>1, TickStep
  <2>2. CASE Cut
    BY <2>2 DEF Cut, HealthInv, TypeOK, SilentOK
  <2>3. ASSUME NEW p \in Peers, Poll(p) PROVE HealthInv'
    BY <2>3, PollStep
  <2>4. ASSUME NEW p \in Peers, SendData(p) PROVE HealthInv'
    <3>1. ToSession(p, "DATA") \in SUBSET [to : Peers, op : Opcodes]
      BY SentType DEF Opcodes
    <3>2. net' \subseteq [to : Peers, op : Opcodes] /\ steady' \in BOOLEAN
      BY <2>4, <3>1, TransmitType DEF SendData, HealthInv, TypeOK
    <3> QED
      BY <2>4, <3>2 DEF SendData, HealthInv, TypeOK, SilentOK
  <2>5. ASSUME NEW p \in Hoppers, RequestHop(p) PROVE HealthInv'
    <3>1. PICK got \in BOOLEAN :
            PoolGet(got) /\ Transmit(net, IF got THEN ToSender(p, "PORT_HOP") ELSE {}, FALSE)
      BY <2>5 DEF RequestHop
    <3>2. p \in Peers
      BY PathAssumption
    <3>3. (IF got THEN ToSender(p, "PORT_HOP") ELSE {}) \in SUBSET [to : Peers, op : Opcodes]
      BY <3>2, SentType DEF Opcodes
    <3>4. net' \subseteq [to : Peers, op : Opcodes] /\ steady' \in BOOLEAN
      BY <3>1, <3>3, TransmitType DEF HealthInv, TypeOK
    <3>5. pool_fails' \in 0 .. MaxPoolFails /\ hops' \in 0 .. MaxHops
      BY <2>5, <3>1, PathAssumption DEF PoolGet, RequestHop, HealthInv, TypeOK
    <3> QED
      BY <2>5, <3>4, <3>5 DEF RequestHop, HealthInv, TypeOK, SilentOK
  <2>6. ASSUME NEW m \in net, Receive(m) PROVE HealthInv'
    BY <2>6, ReceiveStep
  <2>7. ASSUME NEW m \in net, Lose(m) PROVE HealthInv'
    BY <2>7 DEF Lose, HealthInv, TypeOK, SilentOK
  <2>8. CASE UNCHANGED vars
    BY <2>8 DEF vars, HealthInv, TypeOK, SilentOK
  <2> QED
    BY <2>1, <2>2, <2>3, <2>4, <2>5, <2>6, <2>7, <2>8 DEF Next
<1> QED
  BY <1>1, <1>2, PTL DEF Spec

(* The fields of session_t and resilience_t keep their ranges: in          *)
(* particular reconnect_tick never sends more than max_reconnect_attempts  *)
(* requests in a row, and port_hop_handle never a path beyond the table.   *)
THEOREM HealthTypes == Spec => []TypeOK
BY HealthInvariant, PTL DEF HealthInv

(* heartbeat_tick takes the first path of a live session for down only     *)
(* once no heartbeat or reconnect packet came for longer than              *)
(* reconnect_timeout_ms.                                                   *)
THEOREM DownOnlyInSilence == Spec => []DownMeansSilent
<1>1. HealthInv => DownMeansSilent
  BY DEF HealthInv, SilentOK, DownMeansSilent
<1> QED
  BY <1>1, HealthInvariant, PTL

-----------------------------------------------------------------------------
(* A session has two ends.                                                 *)
LEMMA TwoEnds ==
    ASSUME NEW p \in Peers
    PROVE  /\ Other(p) \in Peers /\ Other(p) # p /\ Other(Other(p)) = p
           /\ \A q \in Peers : q # p => q = Other(p)
<1>1. PICK a \in Peers, b \in Peers : a # b /\ Peers = {a, b}
  BY PathAssumption
<1>2. Other(p) \in Peers /\ Other(p) # p
  BY <1>1 DEF Other
<1>3. Other(Other(p)) \in Peers /\ Other(Other(p)) # Other(p)
  BY <1>1, <1>2 DEF Other
<1> QED
  BY <1>1, <1>2, <1>3

(* What a received packet leaves of a session that has one path.           *)
LEMMA RecordRxFields ==
    ASSUME NEW s \in Sessions
    PROVE  /\ RecordRx(s).locked = s.locked /\ RecordRx(s).hopped = s.hopped
           /\ RecordRx(s).path_count = s.path_count /\ RecordRx(s).path[0] = Active
BY Constants DEF RecordRx, Sessions

(* The first path is in use, so that its activity is set to now.           *)
LEMMA RefreshedFields ==
    ASSUME TypeOK, NEW p \in Peers, NEW s \in Sessions, s.path_count = 1
    PROVE  /\ Refreshed(p, s)[p].hb = age[p].hb
           /\ Refreshed(p, s)[p].path[0] = 0
           /\ \A q \in Peers \ {p} : Refreshed(p, s)[q] = age[q]
<1> DEFINE f == [i \in Paths |-> IF i \in Used(s) THEN 0 ELSE age[p].path[i]]
<1>1. Refreshed(p, s) = [age EXCEPT ![p].path = f]
  BY DEF Refreshed, TypeOK
<1>2. f[0] = 0
  BY Constants DEF Used
<1> HIDE DEF f
<1>3. [age[p] EXCEPT !.path = f].hb = age[p].hb /\ [age[p] EXCEPT !.path = f].path = f
  BY DEF TypeOK, Ages
<1> QED
  BY <1>1, <1>2, <1>3 DEF TypeOK

(* One end hears from the other: a heartbeat or its answer, which set the  *)
(* activity, or another packet on a path that is active already.           *)
LEMMA Heard ==
    ASSUME TypeOK, SteadyInv, steady, NEW p \in Peers, UNCHANGED <<link, polls>>,
           sess' = [sess EXCEPT ![p] = RecordRx(sess[p])],
           \/ age' = Refreshed(p, RecordRx(sess[p]))
           \/ /\ age' = age /\ sess[p].path[0] = Active
              /\ Datagram(p, "HEARTBEAT") \in net => Datagram(p, "HEARTBEAT") \in net',
           \A q \in Peers \ {p} : Datagram(q, "HEARTBEAT") \in net => Datagram(q, "HEARTBEAT") \in net'
    PROVE  \A q \in Peers : SteadyOK(q)'
<1>1. /\ sess[p] \in Sessions /\ SteadyOK(p) /\ SteadyOK(Other(p))
      /\ Other(p) \in Peers /\ Other(p) # p /\ Other(Other(p)) = p
      /\ \A q \in Peers : Other(q)' = Other(q) /\ (q # p => q = Other(p))
      /\ \A q, op : Datagram(q, op)' = Datagram(q, op)
  BY TwoEnds DEF TypeOK, SteadyInv, Other, Datagram
<1> DEFINE s == RecordRx(sess[p])
<1>2. /\ s \in Sessions /\ s.locked = sess[p].locked /\ s.hopped = sess[p].hopped
      /\ s.path_count = sess[p].path_count /\ s.path[0] = Active
  BY <1>1, RecordRxType, RecordRxFields
<1>3. sess'[p] = s /\ sess'[Other(p)] = sess[Other(p)]
  BY <1>1 DEF TypeOK
<1> HIDE DEF s
<1>4. s.path_count = 1 /\ Interval \in Nat /\ age[p] \in Ages /\ age[Other(p)] \in Ages
  BY <1>1, <1>2, Constants DEF SteadyOK, TypeOK
<1>5. /\ age'[p].hb = age[p].hb /\ age'[Other(p)] = age[Other(p)]
      /\ age'[p].path[0] = 0 \/ (age' = age /\ sess[p].path[0] = Active
             /\ (Datagram(p, "HEARTBEAT") \in net => Datagram(p, "HEARTBEAT") \in net'))
  BY <1>1, <1>2, <1>4, RefreshedFields DEF s
<1>6. SteadyOK(p)'
  <2>1. age'[Other(p)].hb \in Nat
    BY <1>4, <1>5 DEF Ages
  <2>2. CASE age'[p].path[0] = 0
    <3>1. age'[p].path[0] <= Interval /\ age'[p].path[0] <= age'[Other(p)].hb
      BY <1>4, <2>1, <2>2
    <3>2. polls'[p].now > 0 => age'[p].hb < Interval
      BY <1>1, <1>5 DEF SteadyOK
    <3> QED
      BY <1>1, <1>2, <1>3, <3>1, <3>2 DEF SteadyOK
  <2>3. CASE age' = age /\ sess[p].path[0] = Active
             /\ (Datagram(p, "HEARTBEAT") \in net => Datagram(p, "HEARTBEAT") \in net')
    BY <1>1, <1>2, <1>3, <1>4, <1>5, <2>3 DEF SteadyOK
  <2> QED
    BY <1>5, <2>2, <2>3
<1>7. SteadyOK(Other(p))'
  BY <1>1, <1>3, <1>5 DEF SteadyOK
<1> QED
  BY <1>1, <1>6, <1>7

(* Every datagram received in a steady run.                                *)
LEMMA SteadyReceive ==
    ASSUME TypeOK, SteadyInv, NEW m \in net, Receive(m)
    PROVE  SteadyInv'
<1> SUFFICES ASSUME steady' PROVE SteadyInv'
  BY DEF Receive, SteadyInv
<1> DEFINE p == m.to
<1> DEFINE s == RecordRx(sess[p])
<1>1. steady
  BY DEF Receive, Refuse, HandleHeartbeat, HandleHeartbeatAck, HandleReconnect,
         HandleReconnectAck, HandlePortHop, HandleOther, Transmit
<1>2. /\ p \in Peers /\ SteadyOK(p) /\ link /\ m.op \in {"HEARTBEAT", "HEARTBEAT_ACK", "DATA"}
      /\ UNCHANGED <<link, polls>> /\ m = Datagram(p, m.op)
  BY <1>1 DEF TypeOK, SteadyInv, Receive, Datagram
<1>3. ~ Refuse(m)
  BY <1>2 DEF Refuse, SteadyOK, FromAddress, ToSession
<1>4. \A q \in Peers \ {p} : Datagram(q, "HEARTBEAT") \in net => Datagram(q, "HEARTBEAT") \in net \ {m}
  BY DEF Datagram
<1>5. SUFFICES /\ \A k \in net' : k.op \in {"HEARTBEAT", "HEARTBEAT_ACK", "DATA"}
               /\ \A q \in Peers : SteadyOK(q)'
  BY <1>2 DEF SteadyInv
<1>6. CASE HandleHeartbeat(m)
  <2>1. PICK got \in BOOLEAN :
          /\ sess' = [sess EXCEPT ![p] = IF got THEN s ELSE Reset(s)]
          /\ Transmit(net \ {m}, IF got THEN ToSender(p, "HEARTBEAT_ACK") ELSE {}, got)
    BY <1>6 DEF HandleHeartbeat
  <2>2. got /\ net' = (net \ {m}) \cup ToSender(p, "HEARTBEAT_ACK")
    BY <2>1 DEF Transmit
  <2>3. age' = Refreshed(p, s) /\ sess' = [sess EXCEPT ![p] = s]
    BY <1>6, <2>1, <2>2 DEF HandleHeartbeat
  <2>4. \A k \in net' : k.op \in {"HEARTBEAT", "HEARTBEAT_ACK", "DATA"}
    BY <1>1, <2>2 DEF SteadyInv, ToSender, Datagram
  <2>5. \A q \in Peers \ {p} : Datagram(q, "HEARTBEAT") \in net => Datagram(q, "HEARTBEAT") \in net'
    BY <1>4, <2>2
  <2> HIDE DEF p
  <2> QED
    BY <1>1, <1>2, <2>3, <2>4, <2>5, Heard
<1>7. CASE HandleHeartbeatAck(m)
  <2>1. age' = Refreshed(p, s) /\ sess' = [sess EXCEPT ![p] = s] /\ net' = net \ {m}
    BY <1>7 DEF HandleHeartbeatAck
  <2>2. \A k \in net' : k.op \in {"HEARTBEAT", "HEARTBEAT_ACK", "DATA"}
    BY <1>1, <2>1 DEF SteadyInv
  <2>3. \A q \in Peers \ {p} : Datagram(q, "HEARTBEAT") \in net => Datagram(q, "HEARTBEAT") \in net'
    BY <1>4, <2>1
  <2> HIDE DEF p
  <2> QED
    BY <1>1, <1>2, <2>1, <2>2, <2>3, Heard
<1>8. CASE HandleOther(m)
  <2>1. /\ age' = age /\ sess' = [sess EXCEPT ![p] = s] /\ net' = net \ {m}
        /\ sess[p].path[0] # Unknown /\ m.op = "DATA"
    BY <1>2, <1>8 DEF HandleOther
  <2>2. sess[p].path[0] = Active
    BY <1>2, <2>1 DEF SteadyOK
  <2>3. \A k \in net' : k.op \in {"HEARTBEAT", "HEARTBEAT_ACK", "DATA"}
    BY <1>1, <2>1 DEF SteadyInv
  <2>4. \A q \in Peers : Datagram(q, "HEARTBEAT") \in net => Datagram(q, "HEARTBEAT") \in net'
    BY <2>1 DEF Datagram
  <2> HIDE DEF p
  <2> QED
    BY <1>1, <1>2, <2>1, <2>2, <2>3, <2>4, Heard
<1> QED
  BY <1>2, <1>3, <1>6, <1>7, <1>8 DEF Receive, HandleReconnect, HandleReconnectAck, HandlePortHop

(* The tick of one end in a steady run: no path is degraded, so that       *)
(* reconnect_tick does nothing, and a heartbeat that is due is sent.       *)
LEMMA SteadyPoll ==
    ASSUME TypeOK, SteadyInv, NEW p \in Peers, Poll(p)
    PROVE  SteadyInv'
<1> DEFINE s == AfterHeartbeatTick(p)
<1>1. PICK beat \in BOOLEAN, ask \in BOOLEAN :
        LET fails == (IF beat THEN 0 ELSE 1) + (IF ask THEN 0 ELSE 1)
        IN  /\ sess' = [sess EXCEPT ![p] = AfterReconnectTick(s, ask)]
            /\ age' = IF Due(p) /\ beat THEN [age EXCEPT ![p].hb = 0] ELSE age
            /\ Transmit(net, (IF Due(p) /\ beat THEN ToSession(p, "HEARTBEAT") ELSE {})
                        \cup (IF Asks(s) /\ ask THEN ToSession(p, "RECONNECT") ELSE {}),
                        fails = 0)
  BY DEF Poll
<1>2. polls' \in [Peers -> [now : Nat, gap : Nat]] /\ polls'[Other(p)] = polls[Other(p)]
  BY TwoEnds DEF Poll, SteadyInv
<1> SUFFICES ASSUME steady' PROVE SteadyInv'
  BY <1>2 DEF SteadyInv
<1>3. /\ sess[p] \in Sessions /\ steady /\ beat /\ SteadyOK(p) /\ SteadyOK(Other(p))
      /\ UNCHANGED link /\ link
      /\ Other(p) \in Peers /\ Other(p) # p /\ Other(Other(p)) = p
      /\ \A q \in Peers : Other(q)' = Other(q) /\ (q # p => q = Other(p))
      /\ \A q, op : Datagram(q, op)' = Datagram(q, op)
      /\ Interval \in Nat \ {0} /\ age[p] \in Ages /\ age[Other(p)] \in Ages
  BY <1>1, TwoEnds, PathAssumption DEF TypeOK, SteadyInv, Transmit, Other, Datagram, Poll
<1>4. /\ s.locked /\ ~ s.hopped /\ s.path_count = 1 /\ s.path[0] = sess[p].path[0]
  <2>1. CASE Due(p)
    BY <1>3, <2>1 DEF AfterHeartbeatTick, SteadyOK
  <2>2. CASE ~ Due(p)
    <3> DEFINE f == [i \in Paths |-> IF i \in Used(sess[p])
                                     THEN Judge(sess[p].path[i], age[p].path[i]) ELSE sess[p].path[i]]
    <3>1. s = [sess[p] EXCEPT !.path = f]
      BY <2>2 DEF AfterHeartbeatTick
    <3>2. Judge(sess[p].path[0], age[p].path[0]) = sess[p].path[0]
      <4>1. CASE sess[p].path[0] = Unknown
        BY <4>1 DEF Judge, Unknown, Active, Degraded, Down
      <4>2. CASE sess[p].path[0] = Active
        <5>1. age[p].path[0] \in Nat /\ age[p].path[0] <= Interval
          BY <1>3, <4>2, Constants DEF SteadyOK, Ages
        <5>2. ~ (age[p].path[0] > 3 * Interval)
          BY <1>3, <5>1
        <5> QED
          BY <4>2, <5>2 DEF Judge, Active, Degraded, Down
      <4> QED
        BY <1>3, <4>1, <4>2 DEF SteadyOK
    <3>3. f[0] = sess[p].path[0]
      BY <3>2, Constants
    <3> HIDE DEF f
    <3> QED
      BY <1>3, <3>1, <3>3 DEF Sessions, SteadyOK
  <2> QED
    BY <2>1, <2>2
<1> HIDE DEF s
<1>5. ~ AnyDown(s)
  <2>1. Used(s) = {0}
    BY <1>4 DEF Used
  <2> QED
    BY <1>3, <1>4, <2>1 DEF AnyDown, SteadyOK, Unknown, Active, Down
<1>6. ~ Asks(s) /\ AfterReconnectTick(s, ask) = s
  BY <1>5 DEF Asks, GivesUp, AfterReconnectTick
<1>7. sess'[p] = s /\ sess'[Other(p)] = sess[Other(p)]
  BY <1>1, <1>3, <1>6 DEF TypeOK
<1>8. /\ age'[p].path = age[p].path /\ age'[Other(p)] = age[Other(p)]
      /\ age'[p].hb = IF Due(p) THEN 0 ELSE age[p].hb
  BY <1>1, <1>3 DEF TypeOK, Ages
<1>9. net' = net \cup (IF Due(p) THEN {Datagram(Other(p), "HEARTBEAT")} ELSE {})
  <2>1. ToSession(p, "HEARTBEAT") = {Datagram(Other(p), "HEARTBEAT")}
    BY <1>3 DEF ToSession, SteadyOK
  <2> QED
    BY <1>1, <1>3, <1>6, <2>1 DEF Transmit
<1>10. age'[p].hb < Interval
  BY <1>3, <1>8 DEF Due, Ages
<1>11. SteadyOK(p)'
  BY <1>3, <1>4, <1>7, <1>8, <1>9, <1>10 DEF SteadyOK
<1>12. SteadyOK(Other(p))'
  BY <1>2, <1>3, <1>7, <1>8, <1>9 DEF SteadyOK
<1>13. \A k \in net' : k.op \in {"HEARTBEAT", "HEARTBEAT_ACK", "DATA"}
  BY <1>3, <1>9 DEF SteadyInv, Datagram
<1> QED
  BY <1>2, <1>3, <1>11, <1>12, <1>13 DEF SteadyInv

(* A second that starts with nothing in transit and both engines ticked:   *)
(* the silence at one end and the time since the heartbeat at the other    *)
(* grow together.                                                          *)
LEMMA SteadyTick ==
    ASSUME MinPolls > 0, PollGap = 0, TypeOK, SteadyInv, Tick
    PROVE  SteadyInv'
<1>1. polls' \in [Peers -> [now : Nat, gap : Nat]]
  BY DEF Tick, SteadyInv, Smaller
<1> SUFFICES ASSUME steady' PROVE SteadyInv'
  BY <1>1 DEF SteadyInv
<1>2. steady /\ net = {} /\ UNCHANGED <<net, link>> /\ link
  BY DEF Tick, SteadyInv
<1>3. ASSUME NEW p \in Peers PROVE SteadyOK(p)'
  <2> DEFINE q == Other(p)
  <2>1. /\ q \in Peers /\ SteadyOK(p) /\ SteadyOK(q) /\ Other(p)' = Other(p)
        /\ Interval \in Nat /\ Timeout \in Nat /\ age[p] \in Ages /\ age[q] \in Ages
        /\ sess[p] \in Sessions /\ sess[q] \in Sessions
        /\ polls[p] \in [now : Nat, gap : Nat] /\ polls[q] \in [now : Nat, gap : Nat]
        /\ Timeout > 3 * Interval /\ MinPolls \in Nat
    BY <1>2, TwoEnds, Constants, PathAssumption DEF TypeOK, SteadyInv, Other
  <2>2. age[q].hb < Interval
    BY <2>1 DEF Tick, SteadyOK
  <2>3. sess[p].path[0] = Active => age[p].path[0] <= age[q].hb
    BY <1>2, <2>1 DEF SteadyOK
  <2>4. /\ age'[q].hb = Smaller(age[q].hb + 1, Interval)
        /\ age'[p].path[0] = Smaller(age[p].path[0] + 1, Timeout + 1)
    BY <2>1, Constants DEF Tick
  <2>5. age[q].hb \in Nat /\ age[p].path[0] \in Nat
    BY <2>1, Constants DEF Ages
  <2>6. sess[p].path[0] = Active => age'[p].path[0] <= age'[q].hb /\ age'[p].path[0] <= Interval
    BY <2>1, <2>2, <2>3, <2>4, <2>5 DEF Smaller
  <2>7. /\ sess'[p].path = sess[p].path /\ sess'[p].locked = sess[p].locked
        /\ sess'[p].path_count = sess[p].path_count /\ sess'[p].hopped = sess[p].hopped
    BY <2>1 DEF Tick, Sessions
  <2>8. polls'[p].now = 0
    BY DEF Tick
  <2> QED
    BY <2>1, <2>6, <2>7, <2>8 DEF SteadyOK
<1> QED
  BY <1>1, <1>2, <1>3 DEF SteadyInv

(* If both engines tick in every second (the front ends poll many times a  *)
(* second), a session whose heartbeats all arrive in time is never given   *)
(* up and its path is never found down, for every heartbeat interval and   *)
(* every time-out of more than three intervals: the peers' clocks for what *)
(* was sent and what was heard stay within one interval of each other.     *)
THEOREM SteadySessionsStayUp ==
    ASSUME MinPolls > 0, PollGap = 0
    PROVE  Spec => []SteadyStaysUp
<1>1. Init => SteadyInv
  <2> SUFFICES ASSUME Init PROVE SteadyInv
    OBVIOUS
  <2>1. polls \in [Peers -> [now : Nat, gap : Nat]]
    BY PathAssumption DEF Init
  <2>2. ASSUME NEW p \in Peers PROVE SteadyOK(p)
    BY Constants DEF Init, SteadyOK, Fresh, Unknown, Active
  <2> QED
    BY <2>1, <2>2 DEF Init, SteadyInv
<1>2. HealthInv /\ SteadyInv /\ [Next]_vars => SteadyInv'
  <2> SUFFICES ASSUME TypeOK, SteadyInv, [Next]_vars PROVE SteadyInv'
    BY DEF HealthInv
  <2>1. CASE Tick
    BY <2>1, SteadyTick
  <2>2. CASE Cut
    BY <2>2 DEF Cut, SteadyInv
  <2>3. ASSUME NEW p \in Peers, Poll(p) PROVE SteadyInv'
    BY <2>3, SteadyPoll
  <2>4. ASSUME NEW p \in Peers, SendData(p) PROVE SteadyInv'
    <3> SUFFICES ASSUME steady' PROVE SteadyInv'
      BY <2>4 DEF SendData, SteadyInv
    <3>1. /\ steady /\ net' = net \cup ToSession(p, "DATA")
          /\ UNCHANGED <<sess, age, link, polls>>
      BY <2>4 DEF SendData, Transmit
    <3>2. \A k \in net' : k.op \in {"HEARTBEAT", "HEARTBEAT_ACK", "DATA"}
      BY <3>1 DEF SteadyInv, ToSession, Datagram
    <3>3. ASSUME NEW q \in Peers PROVE SteadyOK(q)'
      <4>1. SteadyOK(q) /\ Other(q)' = Other(q) /\ Datagram(q, "HEARTBEAT")' = Datagram(q, "HEARTBEAT")
        BY <3>1 DEF SteadyInv, Other, Datagram
      <4> QED
        BY <3>1, <4>1 DEF SteadyOK
    <3> QED
      BY <3>1, <3>2, <3>3 DEF SteadyInv
  <2>5. ASSUME NEW p \in Hoppers, RequestHop(p) PROVE SteadyInv'
    BY <2>5 DEF RequestHop, Transmit, SteadyInv
  <2>6. ASSUME NEW m \in net, Receive(m) PROVE SteadyInv'
    BY <2>6, SteadyReceive
  <2>7. ASSUME NEW m \in net, Lose(m) PROVE SteadyInv'
    BY <2>7 DEF Lose, SteadyInv
  <2>8. CASE UNCHANGED vars
    BY <2>8 DEF vars, SteadyInv, SteadyOK, Other, Datagram
  <2> QED
    BY <2>1, <2>2, <2>3, <2>4, <2>5, <2>6, <2>7, <2>8 DEF Next
<1>3. SteadyInv => SteadyStaysUp
  BY DEF SteadyInv, SteadyOK, SteadyStaysUp, Unknown, Active, Down
<1> QED
  BY <1>1, <1>2, <1>3, HealthInvariant, PTL DEF Spec
====
