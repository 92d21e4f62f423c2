----------------------------- MODULE JavaStrings -----------------------------
(***************************************************************************)
(* Java strings of the fake JNI (lib/falso_jni): a JavaString has a UTF-16 *)
(* and a UTF-8 array, the second rewritten from the first whenever the     *)
(* game asks for it.  Strings are made by NewStringUTF, NewString and the  *)
(* methods of java.c that build on them.  Preference names and values, and *)
(* with them the game's saves, all pass through here.                      *)
(***************************************************************************)
EXTENDS Utf

CONSTANTS
  Texts,        \* the texts the game makes strings of
  MaxLen,       \* bound of this model on a string's bytes
  StrayUnits,   \* what malloc may return as 16-bit units ...
  StrayBytes,   \* ... and as bytes
  Null,         \* a NULL pointer
  Unknown       \* a string this model makes no claim about

ASSUME TextsAssumption ==
  \A text \in Texts : \A i \in DOMAIN text : text[i] \in Code \ {"nul", "replacement"}

ASSUME StrayAssumption == StrayUnits \subseteq Unit /\ StrayBytes \subseteq Byte

ASSUME NullAssumption == Null \notin Seq(Byte) /\ Unknown \notin Seq(Code)

VARIABLES
  utf8,   \* string->utf8
  utf16,  \* string->utf16
  chars,  \* what GetStringUTFChars answered for this string, up to its NUL
  text    \* the text this string stands for, where it is well formed

vars == <<utf8, utf16, chars, text>>

Bytes(t) == Encode(EncodeUtf8, t, 4 * Len(t))
Ascii(t) == \A i \in DOMAIN t : t[i] \in {"a", "b"}

TypeOK ==
  /\ utf8 = Null \/ (utf8 \in Seq(Byte) /\ Len(utf8) <= MaxLen + 1)
  /\ utf16 \in Seq(Unit) /\ Len(utf16) <= MaxLen
  /\ chars = Null \/ (chars \in Seq(Byte \ {Nul}) /\ Len(chars) <= MaxLen)
  /\ text = Unknown \/ (text \in Seq(Code) /\ Len(text) <= MaxLen)

Fresh(stray, n) == [1..n -> stray]

\* The first cells of a buffer overwritten.
Over(buffer, written) ==
  [i \in DOMAIN buffer |-> IF i <= Len(written) THEN written[i] ELSE buffer[i]]

\* NewStringUTF's UTF-16 array has one unit per byte, as many as the bytes could
\* need; those the conversion does not reach stay what malloc returned.
Utf16Alloc(bytes) == Len(bytes)

MakeUTF(bytes, t) ==
  /\ Len(bytes) <= MaxLen
  /\ utf8' = Append(bytes, Nul)
  /\ LET units == Encode(EncodeUtf16, DecodeUtf8(bytes), Utf16Alloc(bytes))
     IN  \E stray \in Fresh(StrayUnits, Utf16Alloc(bytes) - Len(units)) :
           utf16' = units \o stray
  /\ chars' = Null
  /\ text' = t

Init ==
  /\ utf8 = <<Nul>> /\ utf16 = <<>>
  /\ chars = Null
  /\ text = <<>>

NewStringUTF(t) == MakeUTF(Bytes(t), t)

NewString(t) ==
  LET units == Encode(EncodeUtf16, t, 2 * Len(t)) IN
  /\ Len(Bytes(t)) <= MaxLen
  /\ utf8' = Null
  /\ utf16' = units
  /\ chars' = Null
  /\ text' = IF Ascii(t) THEN t ELSE Unknown

\* jstr_utf16_to_utf8: all units, stray ones too, into the room there is; the
\* last byte is made a NUL.
Converted(old) ==
  [Over(old, Encode(EncodeUtf8, DecodeUtf16(utf16), Len(old)))
     EXCEPT ![Len(old)] = Nul]

\* What it starts from; the array is kept, or made one byte longer than the
\* units.  jda_realloc leaves the length alone, so a short one stays short.
Utf8Array == IF utf8 = Null THEN Fresh(StrayBytes, Len(utf16) + 1) ELSE {utf8}

\* The bytes before the first NUL, which is what strlen and strdup see.
CString(bytes) ==
  SubSeq(bytes, 1, (CHOOSE i \in DOMAIN bytes :
                      /\ bytes[i] = Nul
                      /\ \A j \in 1..(i - 1) : bytes[j] # Nul) - 1)

GetStringUTFChars ==
  /\ \E old \in Utf8Array : utf8' = Converted(old)
  /\ chars' = CString(utf8')
  /\ UNCHANGED <<utf16, text>>

GetStringLength == Len(utf16)

\* A region within the string; the bytes are converted, and what is copied out is
\* memory of the array's header, which this model makes no claim about.
GetStringUTFRegion(start, length) ==
  /\ start + length <= Len(utf16)
  /\ \E old \in Utf8Array : utf8' = Converted(old)
  /\ UNCHANGED <<utf16, chars, text>>

Clamped(i, low, high) == IF i < low THEN low ELSE IF i > high THEN high ELSE i

\* stringSubstring: cuts bytes where Java cuts units; the copy may be shorter
\* than the length the caller was told.
Substring(bytes, start, end) ==
  LET last == Clamped(end, 0, Len(bytes))
  IN  SubSeq(bytes, Clamped(start, 0, last) + 1, last)

\* The string becomes the result; Java's answer is known for ASCII.
StringSubstring(start, end) ==
  \E old \in Utf8Array :
    LET t == IF text # Unknown /\ Ascii(text) THEN SubSeq(text, start + 1, end) ELSE Unknown
    IN  MakeUTF(Substring(CString(Converted(old)), start, Clamped(end, 0, GetStringLength)), t)

\* stringConcat with itself
StringConcat ==
  \E old \in Utf8Array :
    LET half == CString(Converted(old)) IN
    MakeUTF(half \o half, IF text = Unknown THEN Unknown ELSE text \o text)

\* One string and those made from it; any other one starts at the empty string.
Next ==
  \/ text = <<>> /\ \E t \in Texts : NewStringUTF(t) \/ NewString(t)
  \/ GetStringUTFChars \/ \E start, length \in 0..MaxLen : GetStringUTFRegion(start, length)
  \/ \E start, end \in 0..MaxLen :
       start <= end /\ end <= Len(utf16) /\ StringSubstring(start, end)
  \/ StringConcat

Spec == Init /\ [][Next]_vars

-----------------------------------------------------------------------------
\* Whatever the units the conversion never wrote contain, and however often it
\* is asked, the game reads back the text it made the string of.
ReadsBack == text # Unknown /\ chars # Null => chars = Bytes(text)

=============================================================================
