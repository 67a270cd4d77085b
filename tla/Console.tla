------------------------------ MODULE Console ------------------------------
(* The terminal front end on top of a station: run_tui's frame loop, which
   drains the transport's events, refreshes what it shows, reads one key and
   acts on it, with the rooms of lib/group.  It composes with Connection: the
   transport calls that the front end makes are Connection's, and so are the
   polls, so that what the console can get to is what the real engine lets it.

   A frame is three steps: one per poll of the event loop, the refresh, and
   the key.  A run of printable keys is one key, the line it leaves in the
   input buffer, and a run of backspaces is one that empties it; of a line
   only its length, its command and the command's argument matter.  Left is
   Esc, j and k are Down and Up; Enter is the carriage return raw mode
   delivers.  Mouse keys reach no handler. *)
EXTENDS Connection

CONSTANTS
    RoomNames,   \* names a user gives to rooms
    MaxRooms,    \* GROUP_MAX_ROOMS
    MaxMsgs,     \* GROUP_MAX_MSGS
    MaxLines,    \* TUI_MAX_CHAT_LINES
    MaxKeys      \* bound: keys that the user presses

ASSUME ConsoleAssumption ==
    NULL \notin RoomNames /\ {MaxRooms, MaxMsgs, MaxLines, MaxKeys} \subseteq Nat \ {0}

VARIABLES
    pc,      \* where the frame is: "start", "events", "refresh", "key", "done"
    t,       \* the tui_t
    ev,      \* the event structure of handle_transport_events
    g_rooms, \* the rooms of lib/group
    started, \* g_transport_started
    keys     \* keys pressed so far

ui == <<pc, t, ev, g_rooms, started, keys>>
vars == <<cvars, ui>>

Line(n, c, a) == [len |-> n, cmd |-> c, arg |-> a]
NoLine == Line(0, "text", NULL)
Lines ==
    {Line(n, "text", NULL) : n \in {1, 2, 10}}
    \cup {Line(6, "mykey", NULL), Line(10, "room list", NULL)}
    \cup {Line(22, "connect", p) : p \in Peers}
    \cup UNION {{Line(14, c, r) : r \in RoomNames} : c \in {"room create", "room join", "room leave"}}

Screens == {"LOGIN", "PEER_LIST", "CHAT", "GROUP", "SETTINGS", "ADVANCED"}
Keys == {"NONE", "Q", "G", "P", "ESC", "TAB", "ENTER", "RIGHT", "UP", "DOWN", "BACK", "[",
         "CTRL_A", "CTRL_V", "CTRL_F", "CTRL_S", "CTRL_D", "CTRL_C", "CTRL_Z", "F2"}

\* tui_init, and run_tui when there is an identity already.
TuiInit(known) ==
    [running |-> TRUE, screen |-> IF known THEN "PEER_LIST" ELSE "LOGIN", identity |-> known,
     login_field |-> 0, username |-> FALSE, login_error |-> FALSE,
     input |-> NoLine, typing_flag |-> FALSE, typing_tick |-> 0, info |-> "IDLE",
     peers |-> <<>>, selected |-> 1, partner |-> NULL, unread |-> 0, chat |-> <<>>,
     popup |-> FALSE, popup_sel |-> 0, req |-> NULL,
     call_popup |-> NULL, call_sel |-> 0, active |-> {},
     focus |-> 0, room_scroll |-> 1, current_room |-> NULL,
     setting |-> 0, adv_tab |-> 0, adv_row |-> 0, paused |-> FALSE, space |-> 0]

ConsoleInit ==
    /\ Init
    /\ pc = "start" /\ ev = [type |-> "NONE", from |-> NULL] /\ g_rooms = <<>>
    /\ started = FALSE /\ keys = 0
    /\ \E known \in BOOLEAN : t = TuiInit(known)

----------------------------------------------------------------------------
(* The chat window and the rooms. *)

\* One line more than there is room for.
tui_add_chat_Full(u, self) ==
    [u EXCEPT !.chat = Append(IF Len(@) > MaxLines THEN Tail(@) ELSE @,
                              [self |-> self, status |-> IF self THEN 0 ELSE 1])]

\* Self lines start unacknowledged; the oldest line makes room for a new one.
tui_add_chat(u, self) ==
    [u EXCEPT !.chat = Append(IF Len(@) >= MaxLines THEN Tail(@) ELSE @,
                              [self |-> self, status |-> IF self THEN 0 ELSE 1])]

\* The newest self line in state s goes on to the next one.
Acked(u, s) ==
    LET own == {i \in DOMAIN u.chat : u.chat[i].self /\ u.chat[i].status = s}
    IN  IF own = {} THEN u
        ELSE [u EXCEPT !.chat[CHOOSE i \in own : \A j \in own : j <= i].status = s + 1]

\* Nobody in this program calls group_join: rooms have no members to send to.
group_find(rs, name) == {i \in DOMAIN rs : rs[i].name = name}

group_create(rs, name) ==
    IF group_find(rs, name) = {} /\ Len(rs) < MaxRooms
    THEN Append(rs, [name |-> name, msgs |-> 0]) ELSE rs

group_add_message(rs, name) ==
    [i \in DOMAIN rs |->
        IF rs[i].name = name
        THEN [rs[i] EXCEPT !.msgs = IF @ >= MaxMsgs THEN MaxMsgs ELSE @ + 1]
        ELSE rs[i]]

----------------------------------------------------------------------------
(* handle_transport_events: what an event does to the console.  The engine of
   Connection raises the first three; the others are of transport_api.h. *)

HandleEvent(u, e) ==
    CASE e.type = "LOCKED" -> tui_add_chat(u, FALSE)
      [] e.type = "CONNECT_ACCEPT" -> tui_add_chat([u EXCEPT !.screen = "CHAT", !.partner = NULL], FALSE)
      [] e.type = "CONNECT_DECLINE" -> tui_add_chat(u, FALSE)
      [] e.type = "CONNECT_REQUEST" -> [u EXCEPT !.popup = TRUE, !.popup_sel = 0, !.req = e.from]
      [] e.type = "CHAT" ->
            tui_add_chat([u EXCEPT !.unread = IF u.screen = "CHAT" THEN @ ELSE @ + 1], FALSE)
      [] e.type = "CALL_REQUEST" -> [u EXCEPT !.call_popup = e.from, !.call_sel = 0]
      [] e.type = "CALL_ACCEPTED" -> tui_add_chat([u EXCEPT !.active = @ \cup {e.from}], FALSE)
      [] e.type = "CALL_ENDED" -> tui_add_chat([u EXCEPT !.active = @ \ {e.from}], FALSE)
      [] e.type = "FILE" -> tui_add_chat(u, FALSE)
      [] e.type = "TYPING" -> IF u.partner = NULL THEN u ELSE [u EXCEPT !.typing_tick = 4]
      [] e.type = "DELIVERY_ACK" -> Acked(u, 0)
      [] e.type = "READ_ACK" -> Acked(u, 1)
      [] OTHER -> u

\* A start that failed is taken for a start.
StartTransport_Any == (Start \/ StartFails) /\ started' = TRUE

\* start_transport, which may fail.
StartTransport == (Start /\ started' = TRUE) \/ (StartFails /\ started' = FALSE)

\* run_tui up to its loop.
Launch ==
    /\ pc = "start"
    /\ IF t.identity THEN StartTransport ELSE UNCHANGED <<cvars, started>>
    /\ pc' = "events"
    /\ UNCHANGED <<t, ev, g_rooms, keys>>

\* transport_poll_event returned an event.
LoopEvent ==
    /\ pc = "events" /\ t.running /\ started
    /\ PollEvent
    /\ ev' = Head(event_ring)
    /\ t' = HandleEvent(t, ev')
    /\ UNCHANGED <<pc, g_rooms, started, keys>>

\* It took a packet and returned 1 all the same: the structure still has the
\* last event, or has not been written at all.  No handshake is under way
\* (AcceptFindsSession), so that the packets are requests and answers.
LoopPacket ==
    /\ pc = "events" /\ t.running /\ started
    /\ \E p \in Peers, op \in Answers : PollConnect(p, op)
    /\ t' = HandleEvent(t, ev)
    /\ UNCHANGED <<pc, ev, g_rooms, started, keys>>

\* It returned 0; or the transport is not started.
LoopDone ==
    /\ pc = "events" /\ t.running
    /\ IF started THEN PollTick ELSE UNCHANGED cvars
    /\ ev' \in {ev, [type |-> "NONE", from |-> NULL]}
    /\ pc' = "refresh"
    /\ UNCHANGED <<t, g_rooms, started, keys>>

\* Typing notice, connection state, and on every tenth frame the peer list.
Refresh(scanning) ==
    /\ pc = "refresh"
    /\ scanning => started
    /\ IF scanning THEN Discover ELSE UNCHANGED cvars
    /\ t' = [t EXCEPT
               !.typing_flag = @ /\ t.info # "LOCKED",
               !.typing_tick = IF @ > 0 THEN @ - 1 ELSE 0,
               !.info = IF session = NoSession THEN "IDLE"
                        ELSE IF session.state = "LOCKED" THEN "LOCKED" ELSE "HANDSHAKE",
               !.peers = IF scanning
                         THEN [i \in DOMAIN g_peers' |->
                                  [addr |-> g_peers'[i].addr, connected |-> g_peers'[i].state = "LOCKED"]]
                         ELSE @]
    /\ pc' = "key"
    /\ UNCHANGED <<ev, g_rooms, started, keys>>

----------------------------------------------------------------------------
(* tui_input_poll: the handlers give the new tui_t and the code that run_tui
   acts on: the length of a line, 10 plus the index of a peer, or a negative
   number for a command key. *)

Then(u, code) == [t |-> u, code |-> code]
Typed(u, l) == IF u.input = NoLine /\ l # NoLine THEN [u EXCEPT !.input = l, !.typing_flag = TRUE] ELSE u
GoTo(u, screen) == [u EXCEPT !.screen = screen, !.input = NoLine]
Down(n, max) == IF n < max THEN n + 1 ELSE n
Up(n, min) == IF n > min THEN n - 1 ELSE n

handle_login_input(u, k) ==
    CASE k = "TAB" -> Then([u EXCEPT !.login_field = 1 - @], 0)
      [] k = "ENTER" /\ ~u.username -> Then([u EXCEPT !.login_error = TRUE], 0)
      [] k = "ENTER" /\ u.username -> Then([u EXCEPT !.login_error = FALSE, !.input = NoLine], -10)
      [] k = "BACK" /\ u.login_field = 0 -> Then([u EXCEPT !.username = FALSE], 0)
      [] k = "TEXT" /\ u.login_field = 0 -> Then([u EXCEPT !.username = TRUE], 0)
      [] OTHER -> Then(u, 0)

handle_peer_list_input(u, k) ==
    CASE k = "Q" -> Then([u EXCEPT !.running = FALSE], 0)
      [] k = "ESC" -> Then(GoTo(u, "LOGIN"), 0)
      [] k = "G" -> Then(GoTo([u EXCEPT !.focus = 0], "GROUP"), 0)
      [] k = "CTRL_S" -> Then(u, -40)
      [] k = "RIGHT" /\ u.selected <= Len(u.peers) -> Then(u, 10 + u.selected - 1)
      [] k = "DOWN" -> Then([u EXCEPT !.selected = Down(@, Len(u.peers))], 0)
      [] k = "UP" -> Then([u EXCEPT !.selected = Up(@, 1)], 0)
      [] OTHER -> Then(u, 0)

handle_popup_input(u, k) ==
    CASE k = "TAB" -> Then([u EXCEPT !.popup_sel = 1 - @], 0)
      [] k = "RIGHT" -> Then([u EXCEPT !.popup = FALSE], IF u.popup_sel = 0 THEN -4 ELSE -5)
      [] k = "ESC" -> Then([u EXCEPT !.popup = FALSE], 0)
      [] OTHER -> Then(u, 0)

handle_call_popup_input(u, k) ==
    CASE k = "TAB" -> Then([u EXCEPT !.call_sel = 1 - @], 0)
      [] k = "RIGHT" -> Then([u EXCEPT !.call_popup = NULL],
                             (IF u.call_popup = "audio" THEN -30 ELSE -32) - u.call_sel)
      [] k = "ESC" -> Then([u EXCEPT !.call_popup = NULL], 0)
      [] OTHER -> Then(u, 0)

\* A submitted line leaves the buffer before its length is handed on.
handle_chat_input(u, k, l) ==
    CASE k = "ESC" -> Then(GoTo(u, "PEER_LIST"), 0)
      [] k = "Q" /\ u.input = NoLine -> Then([u EXCEPT !.running = FALSE], 0)
      [] k = "CTRL_A" -> Then(u, -20)
      [] k = "CTRL_V" -> Then(u, -21)
      [] k = "CTRL_F" -> Then(u, -22)
      [] k = "CTRL_S" -> Then(u, -40)
      [] k = "ENTER" -> Then([u EXCEPT !.input = NoLine], u.input.len)
      [] k = "BACK" -> Then([u EXCEPT !.input = NoLine], 0)
      [] OTHER -> Then(Typed(u, l), 0)

handle_group_input(u, k, l) ==
    CASE k = "TAB" -> Then([u EXCEPT !.focus = (@ + 1) % 3], 0)
      [] k = "ESC" -> Then(GoTo(u, "PEER_LIST"), 0)
      [] k = "Q" /\ u.input = NoLine -> Then([u EXCEPT !.running = FALSE], 0)
      [] u.focus = 0 /\ k = "DOWN" -> Then([u EXCEPT !.room_scroll = Down(@, Len(g_rooms))], 0)
      [] u.focus = 0 /\ k = "UP" -> Then([u EXCEPT !.room_scroll = Up(@, 1)], 0)
      [] u.focus = 0 /\ k = "RIGHT" /\ u.room_scroll <= Len(g_rooms) ->
            Then([u EXCEPT !.current_room = g_rooms[u.room_scroll].name, !.input = NoLine], 0)
      [] u.focus = 2 /\ k \notin {"TAB", "ESC"} -> handle_chat_input(u, k, l)
      [] OTHER -> Then(u, 0)

handle_settings_input(u, k) ==
    CASE k = "Q" \/ (k = "RIGHT" /\ u.setting = 5) -> Then([u EXCEPT !.running = FALSE], 0)
      [] k = "ESC" -> Then([u EXCEPT !.screen = "PEER_LIST"], 0)
      [] k = "DOWN" -> Then([u EXCEPT !.setting = Down(@, 5)], 0)
      [] k = "UP" -> Then([u EXCEPT !.setting = Up(@, 0)], 0)
      [] k = "RIGHT" /\ u.setting = 4 ->
            Then([u EXCEPT !.screen = "ADVANCED", !.adv_tab = 0, !.paused = FALSE, !.space = 1], 0)
      [] k = "CTRL_D" -> Then(u, -41)
      [] OTHER -> Then(u, 0)

handle_advanced_input(u, k) ==
    CASE k = "ESC" -> Then([u EXCEPT !.screen = "SETTINGS", !.space = 0], 0)
      [] k = "Q" -> Then([u EXCEPT !.running = FALSE], 0)
      [] k = "P" -> Then([u EXCEPT !.paused = ~@], 0)
      [] k = "F2" -> Then([u EXCEPT !.screen = "PEER_LIST", !.space = 0], 0)
      [] k \in {"TAB", "["} -> Then([u EXCEPT !.adv_tab = (@ + IF k = "TAB" THEN 1 ELSE 7) % 8], 0)
      [] k = "DOWN" -> Then([u EXCEPT !.adv_row = Down(@, 5)], 0)
      [] k = "UP" -> Then([u EXCEPT !.adv_row = Up(@, 0)], 0)
      [] OTHER -> Then(u, 0)

\* l is the line of a "TEXT" key.  The popups come first, then the screen; Ctrl-Z comes back as it left.
tui_input_poll(k, l) ==
    CASE k = "CTRL_C" -> Then([t EXCEPT !.running = FALSE], 0)
      [] k \in {"CTRL_Z", "NONE"} -> Then(t, 0)
      [] OTHER ->
            IF t.popup THEN handle_popup_input(t, k)
            ELSE IF t.call_popup # NULL THEN handle_call_popup_input(t, k)
            ELSE CASE t.screen = "LOGIN" -> handle_login_input(t, k)
                   [] t.screen = "PEER_LIST" -> handle_peer_list_input(t, k)
                   [] t.screen = "CHAT" -> handle_chat_input(t, k, l)
                   [] t.screen = "GROUP" -> handle_group_input(t, k, l)
                   [] t.screen = "SETTINGS" -> handle_settings_input(t, k)
                   [] t.screen = "ADVANCED" -> handle_advanced_input(t, k)

----------------------------------------------------------------------------
(* What run_tui does with the code. *)

\* The room commands: the tui_t and the rooms after them.
RoomCommand(u, l) ==
    LET there == group_find(g_rooms, l.arg) # {}
        made == group_create(g_rooms, l.arg)
        entered == [u EXCEPT !.current_room = l.arg, !.screen = "GROUP", !.focus = 2]
    IN  CASE l.cmd = "room list" ->
                IF u.screen = "GROUP" THEN <<u, group_add_message(g_rooms, u.current_room)>>
                ELSE <<tui_add_chat(u, FALSE), g_rooms>>
          [] l.cmd = "room create" ->
                IF made # g_rooms THEN <<entered, group_add_message(made, l.arg)>>
                ELSE <<tui_add_chat(u, FALSE), g_rooms>>
          [] l.cmd = "room join" ->
                IF there THEN <<entered, g_rooms>> ELSE <<tui_add_chat(u, FALSE), g_rooms>>
          [] l.cmd = "room leave" ->
                <<IF there /\ u.current_room = l.arg THEN [u EXCEPT !.current_room = NULL] ELSE u,
                  group_add_message(g_rooms, l.arg)>>

\* A positive code with a command in the buffer.  The identity commands are
\* all like /mykey here: they show a line.
IsCommand(h) ==
    /\ h.code >= 1
    /\ h.t.input.cmd # "text"
    /\ h.t.input.cmd = "mykey" => h.t.identity

OpenChat(u, p) == [u EXCEPT !.screen = "CHAT", !.partner = p]

Command(h) ==
    LET l == h.t.input
        u == [h.t EXCEPT !.input = NoLine]
    IN  CASE l.cmd = "connect" ->
                /\ IF initialized THEN Request(l.arg) ELSE UNCHANGED cvars
                /\ t' = tui_add_chat(OpenChat(u, l.arg), FALSE)
                /\ UNCHANGED g_rooms
          [] l.cmd = "mykey" -> t' = tui_add_chat(u, FALSE) /\ UNCHANGED <<cvars, g_rooms>>
          [] OTHER ->
                LET r == RoomCommand(u, l) IN t' = r[1] /\ g_rooms' = r[2] /\ UNCHANGED cvars

\* A line of one character goes to the room that is open, any line shorter
\* than ten to the peer: its length is the code.
SubmitLine(u, code) ==
    IF code = 1 /\ u.screen = "GROUP" /\ u.focus = 2 /\ u.current_room # NULL
    THEN t' = [u EXCEPT !.input = NoLine] /\ g_rooms' = group_add_message(g_rooms, u.current_room)
    ELSE /\ UNCHANGED g_rooms
         /\ LET locked == IF code = 1 THEN u.info = "LOCKED" ELSE session.state = "LOCKED"
            IN  t' = IF code = 1 /\ ~locked THEN u
                     ELSE tui_add_chat([u EXCEPT !.input = NoLine], locked)

\* The first peer of the list is asked, whichever is chosen.
PickPeer_First(u, i) ==
    IF i > Len(u.peers) THEN t' = u /\ UNCHANGED cvars
    ELSE LET p == u.peers[i]
             v == [OpenChat(u, p.addr) EXCEPT !.unread = 0]
         IN  /\ t' = IF p.connected THEN v ELSE tui_add_chat(v, FALSE)
             /\ IF initialized /\ ~p.connected THEN Request(u.peers[1].addr) ELSE UNCHANGED cvars

\* Codes of ten and more are peers.
PickPeer(u, i) ==
    IF i > Len(u.peers) THEN t' = u /\ UNCHANGED cvars
    ELSE LET p == u.peers[i]
             v == [OpenChat(u, p.addr) EXCEPT !.unread = 0]
         IN  /\ t' = IF p.connected THEN v ELSE tui_add_chat(v, FALSE)
             /\ IF initialized /\ ~p.connected THEN Request(p.addr) ELSE UNCHANGED cvars

\* The call keys: the console believes in the call whatever the engine says.
CallOn(u, c) ==
    /\ t' = tui_add_chat([u EXCEPT !.active = @ \cup {c}], FALSE)
    /\ IF initialized /\ session_is_locked THEN CallStart(c) ELSE UNCHANGED cvars

CallOff(u, c) ==
    /\ t' = tui_add_chat([u EXCEPT !.active = @ \ {c}], FALSE)
    /\ IF initialized THEN CallEnd(c) ELSE UNCHANGED cvars

MediumOf(code) == IF code \in {-20, -30} THEN "audio" ELSE "video"

Dispatch(u, code) ==
    CASE code = -10 ->
            /\ t' = [u EXCEPT !.identity = TRUE, !.screen = "PEER_LIST"]
            /\ IF started THEN UNCHANGED <<cvars, started>> ELSE StartTransport
            /\ UNCHANGED g_rooms
      [] code \in 1..9 -> SubmitLine(u, code) /\ UNCHANGED <<cvars, started>>
      [] code >= 10 -> PickPeer(u, code - 9) /\ UNCHANGED <<g_rooms, started>>
      [] code = -4 ->
            /\ t' = tui_add_chat([OpenChat(u, u.req) EXCEPT !.unread = 0], FALSE)
            /\ IF initialized /\ CanAlloc THEN Accept(u.req) ELSE UNCHANGED cvars
            /\ UNCHANGED <<g_rooms, started>>
      [] code = -5 ->
            /\ t' = u
            /\ IF initialized /\ CanAlloc THEN Decline(u.req) ELSE UNCHANGED cvars
            /\ UNCHANGED <<g_rooms, started>>
      [] code \in {-30, -32} -> CallOn(u, MediumOf(code)) /\ UNCHANGED <<g_rooms, started>>
      [] code \in {-20, -21} /\ u.info = "LOCKED" ->
            /\ IF MediumOf(code) \in u.active THEN CallOff(u, MediumOf(code))
               ELSE CallOn(u, MediumOf(code))
            /\ UNCHANGED <<g_rooms, started>>
      [] OTHER ->
            /\ t' = CASE code \in {-31, -33} -> tui_add_chat(u, FALSE)
                      [] code = -22 /\ u.info = "LOCKED" /\ u.input # NoLine ->
                            tui_add_chat([u EXCEPT !.input = NoLine], FALSE)
                      [] code = -40 -> [u EXCEPT !.screen = "SETTINGS", !.setting = 0]
                      [] code = -41 -> [u EXCEPT !.screen = "ADVANCED", !.adv_tab = 0,
                                                 !.paused = FALSE, !.space = 1]
                      [] OTHER -> u
            /\ UNCHANGED <<cvars, g_rooms, started>>

ReadKey(k, l) ==
    /\ pc = "key" /\ keys < MaxKeys
    /\ LET h == tui_input_poll(k, l)
       IN  IF IsCommand(h) THEN Command(h) /\ UNCHANGED started ELSE Dispatch(h.t, h.code)
    /\ keys' = keys + 1 /\ pc' = "events"
    /\ UNCHANGED ev

\* The loop ends, and the transport with it.
Exit ==
    /\ pc = "events" /\ ~t.running
    /\ IF initialized THEN Shutdown ELSE UNCHANGED cvars
    /\ pc' = "done"
    /\ UNCHANGED <<t, ev, g_rooms, started, keys>>

ConsoleNext ==
    \/ Launch \/ LoopEvent \/ LoopPacket \/ LoopDone \/ Exit
    \/ \E scanning \in BOOLEAN : Refresh(scanning)
    \/ \E k \in Keys : ReadKey(k, NoLine)
    \/ \E l \in Lines : ReadKey("TEXT", l)

ConsoleSpec == ConsoleInit /\ [][ConsoleNext]_vars

----------------------------------------------------------------------------
(* Properties *)

\* The chat window, the rooms and their messages stay within their arrays, what
\* the lists point at is in them, and the room that is open exists: the handlers
\* and the drawing code index with these without looking again.
ConsoleTypeOK ==
    /\ t.screen \in Screens /\ t.input \in Lines \cup {NoLine}
    /\ Len(t.chat) <= MaxLines /\ \A i \in DOMAIN t.chat : t.chat[i].status \in 0..2
    /\ Len(g_rooms) <= MaxRooms /\ \A i \in DOMAIN g_rooms : g_rooms[i].msgs \in 0..MaxMsgs
    /\ t.selected \in 1..(Len(t.peers) + 1) /\ t.room_scroll \in 1..(Len(g_rooms) + 1)
    /\ t.current_room # NULL => group_find(g_rooms, t.current_room) # {}

\* Whatever the order of logins, failed starts and keys, the console's
\* g_transport_started agrees with the engine's initialized flag: it never polls
\* or scans an engine that is down, never starts one that is up, and leaves none
\* running when it ends.
EngineUp ==
    IF pc = "done" THEN ~initialized ELSE started = initialized

\* The name over the chat is the peer that the engine sends to: run_tui's
\* chat_partner and the engine's peer_addr never part, whichever of the peer
\* list, a command left in the buffer or a full session table came last.
ChatPartner ==
    t.partner # NULL => t.partner = peer_addr /\ t.partner = connect_addr

\* An answer to a request finds the session of that request still there: the
\* transport_connect that handle_transport_events makes for CONNECT_ACCEPTED is
\* refused, and no handshake ever starts from this console.
AcceptFindsSession ==
    pc # "done" /\ asked # {} => session # NoSession /\ session.state = "IDLE"

=============================================================================
