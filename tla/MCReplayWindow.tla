--------------------------- MODULE MCReplayWindow ---------------------------
(* The replay window with a small window, counter and set of paths.        *)
EXTENDS ReplayWindow
=============================================================================
