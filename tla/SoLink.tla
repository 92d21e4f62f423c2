------------------------------- MODULE SoLink --------------------------------
(***************************************************************************)
(* Relocation and symbol resolution in lib/so_util/so_util.c.  A library    *)
(* (mod) is linked while the ones before it are in the module list; the     *)
(* port's table of imports (source/dynlib.c) is the fallback that, the code *)
(* being as it is, overrides them.  One word per relocation.                *)
(***************************************************************************)
EXTENDS Integers, FiniteSets

CONSTANTS
  Names,   \* of symbols
  Slots,   \* relocations of the library
  Base,    \* its text_base; the other library's is 2 * Base
  Stub     \* the address of plt0_stub

Kinds == {"ABS32", "RELATIVE", "GLOB_DAT", "JUMP_SLOT"}

\* Any other type of relocation
Unknown == "other"

Addends == {0, 8}

ASSUME LinkAssumption == Names \subseteq Nat /\ Base \in Nat /\ Stub \in Int

VARIABLES
  defined,   \* names the library defines
  exported,  \* names the library loaded before it defines
  soname,    \* does that one carry DT_SONAME?
  needed,    \* does this one name it in a DT_NEEDED?
  table,     \* names in default_dynlib
  rel,       \* rel[s]: the relocation of slot s
  cell,      \* cell[s]: the word there
  linked,    \* "mapped", "relocated", "resolved"; "stopped" and "fatal" end the process
  report     \* what the error dialog of an unresolved call says

linkVars == <<defined, exported, soname, needed, table, rel, cell, linked, report>>

Relocations == [kind : Kinds \cup {Unknown}, name : Names, addend : Addends]

\* Addresses: where a symbol of each library, or of the port itself, is.  Names
\* are small numbers.
Own(n) == Base + n
Other(n) == 2 * Base + n
Port(n) == 3 * Base + n

LinkTypeOK ==
  /\ defined \subseteq Names /\ exported \subseteq Names /\ table \subseteq Names
  /\ soname \in BOOLEAN /\ needed \in BOOLEAN
  /\ rel \in [Slots -> Relocations]
  /\ cell \in [Slots -> Int]
  /\ linked \in {"mapped", "relocated", "resolved", "stopped", "fatal"}

Init ==
  /\ defined \in SUBSET Names /\ exported \in SUBSET Names /\ table \in SUBSET Names
  /\ soname \in BOOLEAN /\ needed \in BOOLEAN
  /\ rel \in [Slots -> Relocations]
  \* GLOB_DAT and JUMP_SLOT words hold no addend
  /\ \A s \in Slots : rel[s].kind \in {"GLOB_DAT", "JUMP_SLOT"} => rel[s].addend = 0
  /\ cell = [s \in Slots |-> rel[s].addend]
  /\ linked = "mapped" /\ report = "none"

\* so_relocate: what is known of the library itself.
Relocated(r, word) ==
  IF r.kind = "RELATIVE"       THEN word + Base
  ELSE IF r.name \notin defined THEN word
  ELSE IF r.kind = "ABS32"     THEN word + Own(r.name)
  ELSE Own(r.name)

so_relocate ==
  /\ linked = "mapped" /\ \A s \in Slots : rel[s].kind \in Kinds
  /\ linked' = "relocated"
  /\ cell' = [s \in Slots |-> Relocated(rel[s], cell[s])]
  /\ UNCHANGED <<defined, exported, soname, needed, table, rel, report>>

\* A type it does not know ends the process, some words before it relocated.
UnknownType ==
  /\ linked = "mapped" /\ \E s \in Slots : rel[s].kind \notin Kinds
  /\ linked' = "fatal"
  /\ UNCHANGED <<defined, exported, soname, needed, table, rel, cell, report>>

\* so_resolve_link: a dependency that is loaded, has a soname and the symbol.
Linked(n) == needed /\ soname /\ n \in exported

\* Without the test that the symbol is undefined in the library itself
ResolvedAlways(r, word) ==
  IF r.kind \notin Kinds \ {"RELATIVE"} THEN word
  ELSE IF r.name \in table     THEN Port(r.name)
  ELSE IF Linked(r.name)       THEN (IF r.kind = "ABS32" THEN word ELSE 0) + Other(r.name)
  ELSE word

\* so_resolve: a dependency, then the table over it, else the stub.
Resolved(r, word) ==
  IF r.kind \notin Kinds \ {"RELATIVE"} \/ r.name \in defined THEN word
  ELSE IF r.name \in table     THEN Port(r.name)
  ELSE IF Linked(r.name)       THEN (IF r.kind = "ABS32" THEN word ELSE 0) + Other(r.name)
  ELSE IF r.kind = "JUMP_SLOT" THEN Stub
  ELSE word

so_resolve ==
  /\ linked = "relocated" /\ linked' = "resolved"
  /\ cell' = [s \in Slots |-> Resolved(rel[s], cell[s])]
  /\ UNCHANGED <<defined, exported, soname, needed, table, rel, report>>

\* A call through a slot: what is there runs; the stub shows an error instead
\* (reloc_err adds the address of data_size, not the size, to data_base, and
\* finds no module: the name is never shown) and the process ends.
CallThrough(s) ==
  /\ linked = "resolved" /\ rel[s].kind = "JUMP_SLOT"
  /\ IF cell[s] = Stub THEN report' = "???" /\ linked' = "stopped" ELSE UNCHANGED <<report, linked>>
  /\ UNCHANGED <<defined, exported, soname, needed, table, rel, cell>>

\* Otherwise the library runs.
Runs == linked \in {"resolved", "stopped", "fatal"} /\ UNCHANGED linkVars

Next == so_relocate \/ UnknownType \/ so_resolve \/ (\E s \in Slots : CallThrough(s)) \/ Runs

Spec == Init /\ [][Next]_linkVars

-----------------------------------------------------------------------------
\* The address a name means to the library.
Means(n) ==
  IF n \in defined THEN Own(n) ELSE IF n \in table THEN Port(n) ELSE Other(n)

Known(n) == n \in defined \cup table \/ Linked(n)

\* What the ABI calls A: the word as it was linked.
Addend(r) == IF r.kind \in {"ABS32", "RELATIVE"} THEN r.addend ELSE 0

\* The table's answer is written over the word, not added to it
\* (so_util.c:470): the ABI would have S + A.
AddendLost(r) == r.kind = "ABS32" /\ r.name \in table \ defined

\* What a word is once the library is resolved
Elf(r) ==
  IF r.kind = "RELATIVE"       THEN Addend(r) + Base
  ELSE IF Known(r.name)        THEN (IF AddendLost(r) THEN 0 ELSE Addend(r)) + Means(r.name)
  ELSE IF r.kind = "JUMP_SLOT" THEN Stub
  ELSE r.addend

\* Two passes over the same words leave each as the ELF ABI for ARM has it:
\* S + A, B + A or S, and a call to what nobody defines in the stub, but for an
\* imported ABS32 of the port's own, which loses its A; and a library with a
\* relocation of another type never gets that far (so_util.c:325-360, 438-496).
RelocatedAsElf ==
  linked \in {"resolved", "stopped"} =>
    \A s \in Slots : rel[s].kind \in Kinds /\ cell[s] = Elf(rel[s])
=============================================================================
