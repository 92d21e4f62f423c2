----------------------------- MODULE MCMainLoop -----------------------------
(* Two-row menus for TLC: a flag or a call into the game, and "close".      *)
EXTENDS MainLoop

MCItems == <<"crit", "close">>
MCFlags == {"crit"}
MCCallItems == <<"call", "close">>
=============================================================================
