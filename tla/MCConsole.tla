----------------------------- MODULE MCConsole -----------------------------
(* A console with two peers that are alike, one room and a few keys: enough to
   log in, open a chat, leave a command in the buffer, run it and write to the
   room that it made. *)
EXTENDS Console, TLC

AnyPeer == Permutations(Peers)

(* The state without the fields of the tui_t that are only drawn, or sent as a
   typing notice: no step looks at one of them but at its own old value, and no
   property speaks of them, so that states which differ in nothing else have
   the same future. *)
Acted ==
    <<cvars, pc, ev, g_rooms, started, keys,
      [t EXCEPT !.login_error = FALSE, !.typing_flag = FALSE, !.typing_tick = 0, !.unread = 0,
                !.adv_tab = 0, !.adv_row = 0, !.paused = FALSE, !.space = 0]>>

=============================================================================
