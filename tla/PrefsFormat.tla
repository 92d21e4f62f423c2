----------------------------- MODULE PrefsFormat -----------------------------
(***************************************************************************)
(* The preferences.bin format: the sizing loop of save_locked              *)
(* (preferences.c:179-207) and load_preferences_file (94-156) run over the *)
(* bytes the first one wrote, or over a prefix of them when the write was  *)
(* cut short.  Only lengths matter to either, so an entry is its key and   *)
(* value length; arithmetic is that of the Vita's 32-bit size_t, scaled to *)
(* Word.  Preferences relies on RoundTrip when it treats a torn file as    *)
(* one the loader refuses, and a complete one as one it accepts.           *)
(***************************************************************************)
EXTENDS Integers, Sequences, SequencesExt

CONSTANTS
  Word,       \* size_t counts modulo this (2^32)
  MaxFile,    \* PREFS_MAX_FILE (2^25)
  MaxKey,     \* the loader's key limit (4096)
  KeyLens,    \* lengths of the keys the game uses, never 0 (line 254)
  ValLens,    \* lengths of its values
  MaxEntries  \* bound of this model on the number of preferences

FormatAssumption ==
  /\ Word \in Nat /\ MaxFile \in 12..(Word - 1)
  /\ MaxKey \in 1..(MaxFile - 1)
  /\ MaxEntries \in Nat
  /\ KeyLens \subseteq 1..Word /\ ValLens \subseteq 0..Word
  \* all strings are in memory at once, so their lengths cannot wrap
  /\ \A k \in KeyLens, v \in ValLens : 12 + MaxEntries * (8 + k + v) < Word

Magic == 12      \* magic and count
EntryHeader == 8 \* two lengths

Entry == [key : KeyLens, val : ValLens]

VARIABLES
  prefs,     \* the list being saved
  phase,     \* which loop runs
  next,      \* index of the entry it looks at
  size,      \* bytes counted so far; then the size of the complete file
  length,    \* bytes that reached the file
  offset,    \* the loader's read position
  loaded     \* the list the loader has built

vars == <<prefs, phase, next, size, length, offset, loaded>>

Phases == {"size", "refused", "write", "load", "accepted", "invalid"}

TypeOK ==
  /\ prefs \in UNION {[1..n -> Entry] : n \in 0..MaxEntries}
  /\ phase \in Phases
  /\ next \in 1..(MaxEntries + 1)
  /\ size \in 0..(Word - 1) /\ length \in 0..size /\ offset \in 0..(Word - 1)
  /\ loaded \in UNION {[1..n -> Entry] : n \in 0..MaxEntries}

Init ==
  /\ prefs \in UNION {[1..n -> Entry] : n \in 0..MaxEntries}
  /\ phase = "size"
  /\ next = 1
  /\ size = Magic
  /\ length = 0 /\ offset = Magic
  /\ loaded = <<>>

e == prefs[next]

\* size > PREFS_MAX_FILE - 8 - key_len - value_len, in unsigned arithmetic
OverGuard == size > (MaxFile - EntryHeader - e.key - e.val) % Word

CountEntry ==
  /\ phase = "size" /\ next <= Len(prefs)
  /\ \/ OverGuard /\ phase' = "refused" /\ UNCHANGED <<next, size>>
     \/ /\ ~OverGuard
        /\ size' = (size + EntryHeader + e.key + e.val) % Word
        /\ next' = next + 1
        /\ UNCHANGED phase
  /\ UNCHANGED <<prefs, length, offset, loaded>>

\* file_save: all bytes, or those written before power went.
WriteFile ==
  /\ phase = "size" /\ next > Len(prefs)
  /\ length' \in 0..size
  /\ phase' = "write"
  /\ UNCHANGED <<prefs, next, size, offset, loaded>>

\* The header checks of the loader; a zero-length file fails in file_load.
CheckHeader ==
  /\ phase = "write"
  /\ phase' = IF length < Magic \/ length > MaxFile THEN "invalid" ELSE "load"
  /\ next' = 1
  /\ UNCHANGED <<prefs, size, length, offset, loaded>>

\* Without the end of the value
HeaderFits ==
  /\ (offset + EntryHeader) % Word <= length
  /\ e.key # 0 /\ e.key <= MaxKey /\ e.val <= MaxFile

EntryFits ==
  LET body == (offset + EntryHeader) % Word IN
  /\ body <= length
  /\ e.key # 0 /\ e.key <= MaxKey /\ e.val <= MaxFile
  /\ (body + e.key + e.val) % Word <= length

LoadEntry ==
  /\ phase = "load" /\ next <= Len(prefs)
  /\ \/ /\ EntryFits
        /\ offset' = (offset + EntryHeader + e.key + e.val) % Word
        /\ loaded' = <<e>> \o loaded
        /\ next' = next + 1
        /\ UNCHANGED phase
     \/ /\ ~EntryFits
        /\ phase' = "invalid"
        /\ loaded' = <<>>
        /\ UNCHANGED <<offset, next>>
  /\ UNCHANGED <<prefs, size, length>>

FinishLoad ==
  /\ phase = "load" /\ next > Len(prefs)
  /\ phase' = "accepted"
  /\ UNCHANGED <<prefs, next, size, length, offset, loaded>>

Next == CountEntry \/ WriteFile \/ CheckHeader \/ LoadEntry \/ FinishLoad

Spec == Init /\ [][Next]_vars

-----------------------------------------------------------------------------
\* The bytes a complete file of these preferences has.
TotalSize == FoldSeq(LAMBDA entry, sum : sum + EntryHeader + entry.key + entry.val, Magic, prefs)

\* What one run saved the next one loads, whole or not at all (preferences.c:
\* 94-156, 179-207).  A proper prefix of a saved file is never accepted, so a
\* write cut short anywhere is noticed; what is accepted is what was saved,
\* though the list comes out reversed; a file that was not cut short is refused
\* only for a key beyond MaxKey or for its size; and nothing that fits into
\* MaxFile is refused by the saver.
RoundTrip ==
  /\ phase = "accepted" => length = size /\ loaded = Reverse(prefs)
  /\ phase = "invalid" =>
       \/ length < size
       \/ TotalSize > MaxFile
       \/ \E n \in DOMAIN prefs : prefs[n].key > MaxKey
  /\ phase = "refused" => TotalSize > MaxFile
=============================================================================
