---------------------------- MODULE MCJavaRegistry ----------------------------
(* A text that reads as TRUE and one with the ad hint; hashes whose            *)
(* low bits are the id of an accessor of each type.                            *)
EXTENDS JavaRegistry

MCWords == {"true", "26f"}
MCInts == {-1, 7}
MCHashes == {140, 32768 + 141, 142, 153}
=============================================================================
