--------------------------------- MODULE Utf ---------------------------------
(***************************************************************************)
(* lib/falso_jni/converter.c: the two encodings a Java string is kept in.  *)
(* A character stands for its class: how many bytes and units it takes is  *)
(* all the loops tell apart.  The i-th byte (unit) of character c is       *)
(* <<c, i>>, so a first byte is a leading byte and every other one a       *)
(* continuation byte; of the two units of "astral" the first is the high   *)
(* surrogate.  A continuation byte of another character counts as one of   *)
(* the right kind, as it does in decode_utf8.                              *)
(***************************************************************************)
EXTENDS Integers, Sequences, SequencesExt

\* "replacement" is INVALID_CODEPOINT; "nul" ends a C string.
Code == {"nul", "a", "b", "two", "three", "astral", "replacement"}

\* calculate_utf8_len and calculate_utf16_len
Utf8Len ==
  [c \in Code |-> CASE c \in {"nul", "a", "b"} -> 1
                    [] c = "two" -> 2
                    [] c \in {"three", "replacement"} -> 3
                    [] c = "astral" -> 4]

Utf16Len == [c \in Code |-> IF c = "astral" THEN 2 ELSE 1]

Nul == <<"nul", 1>>

Byte == {b \in Code \X (1..4) : b[2] <= Utf8Len[b[1]]}
Unit == {u \in Code \X (1..2) : u[2] <= Utf16Len[u[1]]}

EncodeUtf8 == [c \in Code |-> [i \in 1..Utf8Len[c] |-> <<c, i>>]]
EncodeUtf16 == [c \in Code |-> [i \in 1..Utf16Len[c] |-> <<c, i>>]]

\* What the conversion loop leaves in a buffer with this much room: a character
\* that does not fit is skipped, a later and shorter one may still fit.
Encode(encoding, chars, room) ==
  FoldLeft(LAMBDA out, c : IF Len(out) + Len(encoding[c]) <= room
                           THEN out \o encoding[c] ELSE out,
           <<>>, chars)

High(u) == u = <<"astral", 1>>
Low(u) == u = <<"astral", 2>>

DecodeRescanning(units) ==
  LET from[i \in 1..(Len(units) + 1)] ==
        IF i > Len(units) THEN <<>>
        ELSE IF High(units[i]) /\ i < Len(units) /\ Low(units[i + 1])
             THEN <<units[i][1]>> \o from[i + 1]
        ELSE IF High(units[i]) \/ Low(units[i])
             THEN <<"replacement">> \o from[i + 1]
        ELSE <<units[i][1]>> \o from[i + 1]
  IN  from[1]

\* decode_utf16 until the end: a surrogate without its other half is replaced.
DecodeUtf16(units) ==
  LET from[i \in 1..(Len(units) + 1)] ==
        IF i > Len(units) THEN <<>>
        ELSE IF High(units[i]) /\ i < Len(units) /\ Low(units[i + 1])
             THEN <<units[i][1]>> \o from[i + 2]
        ELSE IF High(units[i]) \/ Low(units[i])
             THEN <<"replacement">> \o from[i + 1]
        ELSE <<units[i][1]>> \o from[i + 1]
  IN  from[1]

Continues(byte) == byte[2] # 1

\* decode_utf8 until the end: a stray continuation byte is replaced, and so is
\* a leading byte with all it has of its continuation bytes when one is missing.
DecodeUtf8(bytes) ==
  LET complete(i, n) ==
        \A j \in (i + 1)..(i + n) : j <= Len(bytes) /\ Continues(bytes[j])
      from[i \in 1..(Len(bytes) + 1)] ==
        IF i > Len(bytes) THEN <<>>
        ELSE IF Continues(bytes[i]) THEN <<"replacement">> \o from[i + 1]
        ELSE LET wanted == Utf8Len[bytes[i][1]] - 1
                 seen == CHOOSE n \in 0..wanted :
                           complete(i, n) /\ (n = wanted \/ ~complete(i, n + 1))
             IN  <<IF seen = wanted THEN bytes[i][1] ELSE "replacement">>
                   \o from[i + 1 + seen]
  IN  from[1]
=============================================================================
