---------------------------- MODULE MCJavaStrings ----------------------------
(* Texts of up to two characters of every length, and some ASCII.            *)
EXTENDS JavaStrings

MCTexts ==
  UNION {[1..n -> {"a", "two", "three", "astral"}] : n \in 0..2}
    \cup {<<"a", "b", "a">>, <<"b", "astral", "two">>}

\* A stray unit that takes one byte, one that takes three, half a character.
MCStrayUnits == {<<"b", 1>>, <<"three", 1>>, <<"astral", 1>>}
MCStrayBytes == {<<"b", 1>>, <<"three", 1>>, <<"three", 2>>}
=============================================================================
