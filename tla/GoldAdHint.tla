------------------------------ MODULE GoldAdHint ------------------------------
(***************************************************************************)
(* suppress_gold_ad_hint (preferences.c:36-69) over a serialized map of    *)
(* flags.  A token stands for ":25f", ":25t", ":26f" and so on; the loop   *)
(* over the URL-encoded patterns is this one with longer separators.       *)
(* Preferences takes from here that applying it twice is applying it once. *)
(***************************************************************************)
EXTENDS Naturals, Sequences

CONSTANT MaxTokens   \* bound on the length of the serialized text

Tokens == {"25f", "25t", "26f", "26t", "27", "other"}
Patterns == << <<"25f", "26f", "27">>, <<"25t", "26f", "27">> >>

VARIABLES
  original,  \* the text given
  text,      \* the text as rewritten so far
  pattern,   \* which pattern the outer loop is at; 3 when it has ended
  from       \* where the next strstr starts

vars == <<original, text, pattern, from>>

TypeOK ==
  /\ original \in UNION {[1..n -> Tokens] : n \in 0..MaxTokens}
  /\ text \in [DOMAIN original -> Tokens]
  /\ pattern \in 1..3
  /\ from \in 1..(MaxTokens + 1)

Init ==
  /\ original \in UNION {[1..n -> Tokens] : n \in 0..MaxTokens}
  /\ text = original
  /\ pattern = 1
  /\ from = 1

\* Positions at or after `start` where `p` occurs in `t`.
Occurrences(t, p, start) ==
  {i \in start..Len(t) : i + 2 <= Len(t) /\ SubSeq(t, i, i + 2) = p}


Matches == Occurrences(text, Patterns[pattern], from)

\* match[7] = 't'; match += 8
Replace ==
  /\ pattern <= 2 /\ Matches # {}
  /\ LET match == CHOOSE i \in Matches : \A j \in Matches : i <= j IN
       /\ text' = [text EXCEPT ![match + 1] = "26t"]
       /\ from' = match + 2
  /\ UNCHANGED <<original, pattern>>

NextPattern ==
  /\ pattern <= 2 /\ Matches = {}
  /\ pattern' = pattern + 1
  /\ from' = 1
  /\ UNCHANGED <<original, text>>

Next == Replace \/ NextPattern

Spec == Init /\ [][Next]_vars

-----------------------------------------------------------------------------
=============================================================================
