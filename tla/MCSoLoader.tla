------------------------------ MODULE MCSoLoader ------------------------------
(* The boot alone, with libraries laid out as the loader expects them.           *)
EXTENDS SoLoader

MCLayouts == {<<"text", "data">>}
===============================================================================
