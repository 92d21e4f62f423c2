----------------------------- MODULE BootProofs -----------------------------
(***************************************************************************)
(* Proofs about the boot and the code hooks, for every value of their      *)
(* constants.                                                              *)
(***************************************************************************)
EXTENDS MCServices, TLAPS

servicesVars ==
  <<part, linkVars, bootVars, hookVars, clockVars, assetVars, formatVars, hintVars, logVars,
    fileVars, drawVars, dateVars>>

-----------------------------------------------------------------------------
(* Sequences used as stacks *)

Frames == {"intercept", "continue", "original"}

LEMMA Pushed ==
  ASSUME NEW Items, NEW s \in Seq(Items), NEW x \in Items
  PROVE  /\ Append(s, x) \in Seq(Items) /\ Len(Append(s, x)) = Len(s) + 1
         /\ Append(s, x)[Len(s) + 1] = x
         /\ \A i \in 1..Len(s) : Append(s, x)[i] = s[i]
OBVIOUS

LEMMA Popped ==
  ASSUME NEW Items, NEW s \in Seq(Items), s # <<>>
  PROVE  LET below == SubSeq(s, 1, Len(s) - 1)
         IN  /\ below \in Seq(Items) /\ Len(below) = Len(s) - 1
             /\ \A i \in 1..(Len(s) - 1) : below[i] = s[i]
             /\ below # <<>> <=> Len(s) > 1
<1> DEFINE below == SubSeq(s, 1, Len(s) - 1)
<1>1. Len(s) \in Nat /\ Len(s) >= 1
  OBVIOUS
<1>2. below \in Seq(Items) /\ Len(below) = Len(s) - 1
  BY <1>1
<1>3. \A i \in 1..(Len(s) - 1) : below[i] = s[i]
  BY <1>1
<1>4. below # <<>> <=> Len(s) > 1
  <2> HIDE DEF below
  <2> QED BY <1>1, <1>2
<1> QED BY <1>2, <1>3, <1>4

LEMMA Replaced ==
  ASSUME NEW Items, NEW s \in Seq(Items), s # <<>>, NEW x \in Items
  PROVE  LET new == [s EXCEPT ![Len(s)] = x]
         IN  /\ new \in Seq(Items) /\ Len(new) = Len(s) /\ new[Len(s)] = x
             /\ \A i \in 1..(Len(s) - 1) : new[i] = s[i]
OBVIOUS

-----------------------------------------------------------------------------
(* Code hooks *)

\* An event's first call meets the hook, all below it run the function itself; the
\* hook is in place unless such a call is under way.
Nested(s) ==
  /\ s \in Seq(Frames)
  /\ \A i \in 2..Len(s) : s[i] = "original"
  /\ Len(s) >= 1 => s[1] \in IF boot = "hooked" THEN {"intercept", "continue"} ELSE {"original"}
  /\ Len(s) >= 2 /\ boot = "hooked" => s[1] = "continue"

CodeInv ==
  /\ memory \in [Hooks!Places -> {"original", "hook"}] /\ icache = memory
  /\ boot \in {"before", "plain", "hooked"}
  /\ found \subseteq Handlers

HookInv ==
  /\ CodeInv
  /\ Nested(stack)
  /\ boot = "before" => stack = <<>>
  /\ icache[KeyDown] = IF boot = "hooked" /\ Len(stack) < 2 THEN "hook" ELSE "original"

\* The call under way that was entered last.
LEMMA Innermost ==
  ASSUME HookInv, stack # <<>>
  PROVE  /\ Len(stack) \in Nat /\ Len(stack) >= 1
         /\ Len(stack) >= 2 => stack[Len(stack)] = "original"
         /\ stack[Len(stack)] # "original" => Len(stack) = 1 /\ boot = "hooked"
         /\ stack[Len(stack)] = "original" /\ boot = "hooked" => Len(stack) >= 2
<1>1. Len(stack) \in Nat /\ Len(stack) >= 1
  BY DEF HookInv, Nested
<1>2. CASE Len(stack) = 1
  BY <1>2 DEF HookInv, Nested
<1>3. CASE Len(stack) >= 2
  <2>1. Len(stack) \in 2..Len(stack)
    BY <1>1, <1>3
  <2>2. \A i \in 2..Len(stack) : stack[i] = "original"
    BY DEF HookInv, Nested
  <2>3. stack[Len(stack)] = "original"
    BY <2>1, <2>2
  <2>4. PICK n \in Nat : n = Len(stack)
    BY <1>1
  <2>5. n # 1
    BY <1>3, <2>4
  <2> QED BY <1>1, <1>3, <2>3, <2>4, <2>5
<1>4. PICK n \in Nat : n = Len(stack)
  BY <1>1
<1>5. n = 1 \/ n >= 2
  BY <1>1, <1>4
<1> QED BY <1>2, <1>3, <1>4, <1>5

\* disable_reward_ads leaves onKeyDown alone.
LEMMA AdsOnly ==
  ASSUME CodeInv, NEW known \in BOOLEAN, Hooks!DisableRewardAds(known),
         UNCHANGED <<boot, found>>
  PROVE  CodeInv' /\ icache'[KeyDown] = icache[KeyDown]
BY ServicesAssumption DEF CodeInv, Hooks!DisableRewardAds, Hooks!Write, Hooks!Places,
   Hooks!HooksAssumption

LEMMA KeyDownOnly ==
  ASSUME CodeInv, NEW what \in {"original", "hook"}, Hooks!Write({KeyDown}, what),
         boot' \in {"before", "plain", "hooked"}, UNCHANGED found
  PROVE  CodeInv' /\ icache'[KeyDown] = what
BY ServicesAssumption DEF CodeInv, Hooks!Write, Hooks!Places, Hooks!HooksAssumption

LEMMA HookStepInv == HookInv /\ [Hooks!Next]_hookVars => HookInv'
<1> SUFFICES ASSUME HookInv, [Hooks!Next]_hookVars PROVE HookInv'
  OBVIOUS
<1>0. stack \in Seq(Frames) /\ Len(stack) \in Nat /\ (stack = <<>> <=> Len(stack) = 0)
  BY DEF HookInv, Nested
<1>1. CASE Hooks!InstallHook
  BY <1>1, KeyDownOnly DEF Hooks!InstallHook, Hooks!adVars, HookInv, Nested, CodeInv
<1>2. CASE Hooks!BuildUi \/ Hooks!CompleteUi \/ Hooks!InitRuntime
  BY <1>2 DEF Hooks!InitRuntime, Hooks!BuildUi, Hooks!CompleteUi, HookInv, Nested, CodeInv
<1>3. CASE Hooks!CheatsPoll
  <2>1. Hooks!DisableRewardAds(TRUE) \/ Hooks!DisableRewardAds(FALSE)
    BY <1>3 DEF Hooks!CheatsPoll, Hooks!DisableRewardAds
  <2>2. UNCHANGED <<boot, found, stack>>
    BY <1>3 DEF Hooks!CheatsPoll
  <2>3. CodeInv' /\ icache'[KeyDown] = icache[KeyDown]
    BY <2>1, <2>2, AdsOnly DEF HookInv
  <2> QED BY <2>2, <2>3 DEF HookInv, Nested
<1>4. CASE Hooks!CallKeyDown
  <2>1. boot # "before" /\ Hooks!InGame /\ Hooks!Run(icache[KeyDown])
        /\ UNCHANGED <<memory, icache, boot, found>>
    BY <1>4 DEF Hooks!CallKeyDown, Hooks!adVars
  <2>2. stack = <<>> \/ stack[Len(stack)] = "original"
    BY <2>1 DEF Hooks!InGame, Hooks!At
  <2>3. CASE icache[KeyDown] = "hook"
    <3>1. stack' = Append(stack, "intercept")
      BY <2>1, <2>3 DEF Hooks!Run, Hooks!Push
    <3>2. boot = "hooked" /\ Len(stack) = 0
      BY <1>0, <2>2, <2>3 DEF HookInv, Nested
    <3>3. stack' \in Seq(Frames) /\ Len(stack') = 1 /\ stack'[1] = "intercept"
      BY <1>0, <3>1, <3>2, Pushed DEF Frames
    <3> QED BY <2>1, <2>3, <3>2, <3>3 DEF HookInv, Nested, CodeInv
  <2>4. CASE icache[KeyDown] # "hook"
    <3>1. stack' = Append(stack, "original")
      BY <2>1, <2>4 DEF Hooks!Run, Hooks!Push
    <3>2. icache[KeyDown] = "original" /\ (boot = "hooked" => Len(stack) >= 2)
      BY <1>0, <2>4 DEF HookInv
    <3>3. /\ stack' \in Seq(Frames) /\ Len(stack') = Len(stack) + 1
          /\ stack'[Len(stack) + 1] = "original"
          /\ \A i \in 1..Len(stack) : stack'[i] = stack[i]
      BY <1>0, <3>1, Pushed DEF Frames
    <3>4. CodeInv'
      BY <2>1 DEF HookInv, CodeInv
    <3>5. Nested(stack)'
      BY <1>0, <2>1, <3>2, <3>3 DEF HookInv, Nested
    <3> QED BY <1>0, <2>1, <3>2, <3>3, <3>4, <3>5 DEF HookInv
  <2> QED BY <2>3, <2>4
<1>5. CASE Hooks!Intercept
  <2>1. /\ stack # <<>> /\ stack[Len(stack)] = "intercept" /\ Hooks!DisableRewardAds(TRUE)
        /\ stack' = [stack EXCEPT ![Len(stack)] = "continue"]
        /\ UNCHANGED <<boot, found>>
    BY <1>5 DEF Hooks!Intercept, Hooks!At
  <2>2. Len(stack) = 1 /\ boot = "hooked"
    BY <2>1, Innermost
  <2>3. stack' \in Seq(Frames) /\ Len(stack') = 1 /\ stack'[1] = "continue"
    BY <1>0, <2>1, <2>2, Replaced DEF Frames
  <2>4. CodeInv' /\ icache'[KeyDown] = icache[KeyDown]
    BY <2>1, AdsOnly DEF HookInv
  <2>5. Nested(stack)'
    <3>1. \A i \in 2..Len(stack') : stack'[i] = "original"
      BY <2>3
    <3> QED BY <2>1, <2>2, <2>3, <3>1 DEF Nested
  <2>6. icache[KeyDown] = "hook"
    BY <2>2 DEF HookInv
  <2> QED BY <2>1, <2>2, <2>3, <2>4, <2>5, <2>6 DEF HookInv
<1>6. CASE Hooks!Continue
  <2>1. /\ stack # <<>> /\ stack[Len(stack)] = "continue" /\ Hooks!Write({KeyDown}, "original")
        /\ Hooks!Run(icache'[KeyDown]) /\ UNCHANGED <<boot, found>>
    BY <1>6 DEF Hooks!Continue, Hooks!At, Hooks!adVars
  <2>2. CodeInv' /\ icache'[KeyDown] = "original"
    BY <2>1, KeyDownOnly DEF HookInv, CodeInv
  <2>3. Len(stack) = 1 /\ boot = "hooked"
    BY <2>1, Innermost
  <2>4. stack' = Append(stack, "original")
    BY <2>1, <2>2 DEF Hooks!Run, Hooks!Push
  <2>5. /\ stack' \in Seq(Frames) /\ Len(stack') = 2
        /\ stack'[1] = "continue" /\ stack'[2] = "original"
    <3> DEFINE new == Append(stack, "original")
    <3>0. "original" \in Frames /\ stack \in Seq(Frames)
      BY <1>0 DEF Frames
    <3>3. /\ new \in Seq(Frames) /\ Len(new) = Len(stack) + 1 /\ new[Len(stack) + 1] = "original"
          /\ \A i \in 1..Len(stack) : new[i] = stack[i]
      BY <3>0, Pushed
    <3> HIDE DEF new
    <3>1. new \in Seq(Frames) /\ Len(new) = 2 /\ new[2] = "original" /\ new[1] = stack[1]
      BY <2>3, <3>3
    <3>2. stack[1] = "continue"
      BY <2>1, <2>3
    <3> QED BY <2>4, <3>1, <3>2 DEF new
  <2> QED BY <2>1, <2>2, <2>3, <2>5 DEF HookInv, Nested
<1>7. CASE Hooks!Return
  <2> DEFINE below == SubSeq(stack, 1, Len(stack) - 1)
             intercepted == below # <<>> /\ below[Len(below)] = "continue"
  <2>1. /\ stack # <<>> /\ stack[Len(stack)] = "original"
        /\ stack' = IF intercepted THEN SubSeq(below, 1, Len(below) - 1) ELSE below
        /\ IF intercepted THEN Hooks!Write({KeyDown}, "hook") ELSE UNCHANGED <<memory, icache>>
        /\ UNCHANGED <<boot, found>>
    BY <1>7 DEF Hooks!Return, Hooks!At, Hooks!adVars
  <2>2. /\ below \in Seq(Frames) /\ Len(below) = Len(stack) - 1
        /\ \A i \in 1..(Len(stack) - 1) : below[i] = stack[i]
        /\ below # <<>> <=> Len(stack) > 1
    BY <1>0, <2>1, Popped
  <2> HIDE DEF below
  <2>3. intercepted <=> boot = "hooked" /\ Len(stack) = 2
    BY <1>0, <2>1, <2>2 DEF HookInv, Nested
  <2>4. CASE boot = "hooked" /\ Len(stack) = 2
    <3>1. stack' = SubSeq(below, 1, Len(below) - 1) /\ Hooks!Write({KeyDown}, "hook")
      BY <2>1, <2>3, <2>4
    <3>2. stack' \in Seq(Frames) /\ Len(stack') = 0
      <4>1. below # <<>> /\ Len(below) = 1
        BY <2>2, <2>4
      <4>2. below \in Seq(Frames)
        BY <2>2
      <4> QED BY <3>1, <4>1, <4>2, Popped
    <3>3. CodeInv' /\ icache'[KeyDown] = "hook"
      BY <2>1, <3>1, KeyDownOnly DEF HookInv, CodeInv
    <3> QED BY <2>1, <2>4, <3>2, <3>3 DEF HookInv, Nested
  <2>5. CASE ~(boot = "hooked" /\ Len(stack) = 2)
    <3>1. stack' = below /\ UNCHANGED <<memory, icache>>
      BY <2>1, <2>3, <2>5
    <3>2. boot = "hooked" => Len(stack) > 2
      <4> SUFFICES ASSUME boot = "hooked" PROVE Len(stack) > 2
        OBVIOUS
      <4>1. Len(stack) >= 2
        BY <2>1, Innermost
      <4>2. Len(stack) # 2
        BY <2>5
      <4>3. PICK n \in Nat : n = Len(stack)
        BY <1>0
      <4>4. n > 2
        BY <4>1, <4>2, <4>3
      <4> QED BY <4>3, <4>4
    <3>3. CodeInv'
      BY <2>1, <3>1 DEF HookInv, CodeInv
    <3>4. Nested(stack)'
      BY <1>0, <2>1, <2>2, <3>1, <3>2 DEF HookInv, Nested
    <3>5. boot # "before" /\ (boot = "hooked" => Len(stack') >= 2)
      BY <1>0, <2>1, <2>2, <3>1, <3>2 DEF HookInv
    <3>6. icache[KeyDown] = "original"
      BY <1>0, <3>2 DEF HookInv
    <3> QED BY <1>0, <2>1, <2>2, <3>1, <3>2, <3>3, <3>4, <3>5, <3>6 DEF HookInv
  <2> QED BY <2>4, <2>5
<1>9. CASE UNCHANGED hookVars
  BY <1>9 DEF hookVars, HookInv, Nested, CodeInv
<1> QED BY <1>1, <1>2, <1>3, <1>4, <1>5, <1>6, <1>7, <1>9 DEF Hooks!Next

LEMMA HooksAlways == ServicesSpec => []HookInv
<1>1. ServicesInit => HookInv
  BY ServicesAssumption
     DEF ServicesInit, Hooks!Init, HookInv, Nested, CodeInv, Hooks!Places, Frames
<1>2. HookInv /\ [ServicesNext]_servicesVars => HookInv'
  BY HookStepInv DEF ServicesNext, Others, servicesVars
<1> QED BY <1>1, <1>2, PTL DEF ServicesSpec, servicesVars

\* Between two key events the hook on onKeyDown is in place, however deep the handler
\* called itself, and an intercept never meets itself (so_util.h:68-75, patch.c:205-212).
THEOREM HooksStay == ServicesSpec => []HooksHold
<1>1. HookInv => HooksHold
  BY DEF HookInv, Nested, HooksHold, Hooks!HooksHold
<1> QED BY <1>1, HooksAlways, PTL

-----------------------------------------------------------------------------
(* The boot *)

Loading == {"find", "open", "header", "map", "sections", "relocate", "helpers", "resolve",
            "register", "flush", "initialize"}
InMemory == {"relocate", "helpers", "resolve", "register", "flush", "initialize"}
Running == {"patch", "preload", "jni", "gl", "entry", "onload", "openal", "haxe", "loop"}
Unmapped == {"kubridge", "find", "open", "header", "map", "sections"}

\* A library that the linker knows is in memory.
InPlace(m) == Boot!Listed(m) => Boot!IsMapped(m)

BootTypes ==
  /\ step \in {"kubridge", "fatal"} \cup Loading \cup Running
  /\ turn \in 1..2 /\ ran \subseteq Boot!Modules
  /\ \A m \in Boot!Modules : disk[m].layout \in Seq({"text", "data"})
  /\ list \in Seq(Boot!Modules)
  /\ ready \in [Boot!Modules -> SUBSET Boot!Done]

\* Libraries are loaded one after the other; those whose constructors ran are known
\* to the linker and were ready.
Ran ==
  /\ step = "kubridge" => turn = 1 /\ ran = {}
  /\ step \in Loading => ran = IF turn = 2 /\ Boot!Listed("game") THEN {"game"} ELSE {}
  /\ step \in Running => ran = Boot!Modules
  /\ \A m \in ran : Boot!Needs(m) \subseteq ready[m] /\ Boot!Listed(m)

\* The list grows by the present library once that is mapped.
Linkable ==
  /\ \A m \in Boot!Modules : InPlace(m)
  /\ turn = 1 => ~Boot!Listed("lime")
  /\ step \in Unmapped => ~Boot!Listed(Boot!Mod)

\* How far the present library is mapped: a segment for each header so far.
MappedSoFar ==
  /\ segment \in Nat
  /\ step \in {"header", "map", "sections"} =>
       /\ segment \in 1..(Len(Boot!File.layout) + 1)
       /\ \A s \in 1..(segment - 1) : <<Boot!Mod, s, Boot!File.layout[s]>> \in blocks
  /\ step = "sections" => segment = Len(Boot!File.layout) + 1

\* What was done to the present library.
ReadySoFar ==
  /\ step \in {"helpers", "resolve", "register", "flush", "initialize"} =>
       "relocated" \in ready[Boot!Mod]
  /\ step \in {"resolve", "register", "flush", "initialize"} => "helpers" \in ready[Boot!Mod]
  /\ step \in {"register", "flush", "initialize"} => "imports" \in ready[Boot!Mod]
  /\ step \in {"flush", "initialize"} /\ turn = 2 =>
       "registered" \in ready[Boot!Mod] /\ \A m \in Boot!Modules : Boot!Listed(m)
  /\ step = "initialize" => "flushed" \in ready[Boot!Mod]

\* What main has set up.
Served ==
  /\ step \in Running \ {"patch"} => patched
  /\ step \in Running \ {"patch", "preload"} => "shacccg" \in services
  /\ step \in Running \ {"patch", "preload", "jni"} => "jni" \in services
  /\ step \in {"entry", "onload", "openal", "haxe", "loop"} => "gl" \in services
  /\ step \in {"openal", "haxe", "loop"} => "JNI_OnLoad" \in Boot!Symbols("lime")
  /\ step \in {"haxe", "loop"} => "openal" \in services
  /\ step = "loop" => "HXCPP_main" \in Boot!Symbols("game")

BootInv == BootTypes /\ Ran /\ Linkable /\ MappedSoFar /\ ReadySoFar /\ Served

\* The library being loaded is not one of those that ran.
LEMMA Present ==
  ASSUME BootInv, step \in Loading
  PROVE  /\ Boot!Mod \in Boot!Modules /\ Boot!Mod \notin ran
         /\ Boot!Mod = IF turn = 1 THEN "game" ELSE "lime"
BY DEF BootInv, BootTypes, Ran, Boot!Mod, Boot!Order, Boot!Modules

\* A library stays in place while only blocks of another, or of one that the
\* linker does not know, are freed.
LEMMA StaysInPlace ==
  ASSUME NEW m \in Boot!Modules, InPlace(m), UNCHANGED <<disk, list>>,
         Boot!Listed(m) => \A s, kind : <<m, s, kind>> \in blocks => <<m, s, kind>> \in blocks'
  PROVE  InPlace(m)'
BY DEF InPlace, Boot!IsMapped, Boot!Listed

LEMMA SameList ==
  ASSUME UNCHANGED <<disk, list, turn>>
  PROVE  /\ \A m : Boot!Listed(m)' <=> Boot!Listed(m)
         /\ \A m : Boot!Symbols(m)' = Boot!Symbols(m)
         /\ Boot!Mod' = Boot!Mod /\ Boot!File' = Boot!File
BY DEF Boot!Listed, Boot!Symbols, Boot!Mod, Boot!File

\* A step that touches nothing of the libraries.
LEMMA QuietStep ==
  ASSUME BootInv, UNCHANGED <<disk, turn, segment, blocks, list, ready, ran>>,
         \/ step = "kubridge" /\ step' \in {"find", "fatal"}
         \/ step = "find" /\ step' \in {"open", "fatal"}
         \/ step = "header" /\ step' = "map"
         \/ step = "map" /\ segment \notin DOMAIN Boot!File.layout /\ step' = "sections"
         \/ step \in {"relocate", "helpers", "register"} /\ step' = "fatal"
         \/ step \in Running /\ step' \in Running \cup {"fatal"},
         Served'
  PROVE  BootInv'
<1>1. BootTypes' /\ Ran'
  BY SameList DEF BootInv, BootTypes, Ran, Loading, Running, Boot!Needs
<1>2. Linkable'
  <2>1. \A m \in Boot!Modules : InPlace(m)'
    BY StaysInPlace DEF BootInv, Linkable
  <2>2. step' \in Unmapped => step \in Unmapped \/ step = "kubridge"
    BY DEF Unmapped, Running
  <2>3. step = "kubridge" => ~Boot!Listed(Boot!Mod)
    BY DEF BootInv, Linkable, Unmapped
  <2> QED BY <2>1, <2>2, <2>3, SameList DEF BootInv, Linkable
<1>3. MappedSoFar'
  <2>1. CASE step' = "sections"
    <3>1. step = "map" /\ segment \notin DOMAIN Boot!File.layout
      BY <2>1 DEF Running
    <3>2. Boot!File.layout \in Seq({"text", "data"})
      BY <3>1, Present DEF Loading, BootInv, BootTypes, Boot!File
    <3>3. PICK n \in Nat : n = Len(Boot!File.layout) /\ DOMAIN Boot!File.layout = 1..n
      BY <3>2
    <3>4. segment = n + 1
      BY <3>1, <3>3 DEF BootInv, MappedSoFar
    <3> QED BY <2>1, <3>1, <3>3, <3>4, SameList DEF BootInv, MappedSoFar
  <2>2. CASE step' # "sections"
    <3>1. step' \in {"header", "map", "sections"} => step' = "map" /\ step = "header"
      BY <2>2 DEF Running
    <3> QED BY <2>2, <3>1, SameList DEF BootInv, MappedSoFar
  <2> QED BY <2>1, <2>2
<1>4. ReadySoFar'
  BY DEF ReadySoFar, Running
<1> QED BY <1>1, <1>2, <1>3, <1>4 DEF BootInv

\* _so_load gives up, or claims to be done with a library it did not map.
LEMMA AnswerInv ==
  ASSUME BootInv, step \in {"header", "map", "sections"},
         NEW r, NEW freed,
         freed \subseteq {Boot!Mod} \X Nat \X {"file", "text", "data"},
         Boot!Answer(r, freed)
  PROVE  BootInv'
<1>1. /\ blocks' = blocks \ freed /\ step' \in {"fatal", "relocate"}
      /\ UNCHANGED <<disk, turn, segment, dataAddr, nData, list, ready, ran, patched, services>>
  BY DEF Boot!Answer, Boot!Fatal, Boot!Goto
<1>2. Boot!Mod \in Boot!Modules /\ ~Boot!Listed(Boot!Mod)
  BY Present DEF Loading, Unmapped, BootInv, Linkable
<1>3. \A m \in Boot!Modules : InPlace(m)'
  <2> TAKE m \in Boot!Modules
  <2>1. InPlace(m) /\ (Boot!Listed(m) => m # Boot!Mod)
    BY <1>2 DEF BootInv, Linkable
  <2>2. m # Boot!Mod => \A s, kind : <<m, s, kind>> \notin freed
    OBVIOUS
  <2> QED BY <1>1, <2>1, <2>2, StaysInPlace
<1>4. BootTypes' /\ Ran' /\ MappedSoFar' /\ ReadySoFar' /\ Served'
  BY <1>1, SameList DEF BootInv, BootTypes, Ran, MappedSoFar, ReadySoFar, Served, Loading, Running,
     Boot!Needs
<1>5. Linkable'
  BY <1>1, <1>3, SameList DEF BootInv, Linkable, Unmapped
<1> QED BY <1>4, <1>5 DEF BootInv

\* A segment is mapped, and the step goes on with the next.
LEMMA MapInv ==
  ASSUME BootInv, NEW kind \in {"text", "data"}, Boot!Mapping(kind),
         NEW more, <<Boot!Mod, segment, kind>> \in more, blocks' = blocks \cup more,
         segment' = segment + 1,
         UNCHANGED <<disk, step, turn, list, ready, ran, patched, services>>
  PROVE  BootInv'
<1>1. /\ step = "map" /\ Boot!Mod \in Boot!Modules
      /\ segment \in DOMAIN Boot!File.layout /\ Boot!File.layout[segment] = kind
  BY Present DEF Boot!Mapping, Loading
<1>2. Boot!Mod' = Boot!Mod /\ Boot!File' = Boot!File
  BY SameList
<1>3. Boot!File.layout \in Seq({"text", "data"})
  BY <1>1 DEF BootInv, BootTypes, Boot!File
<1>4. PICK n \in Nat : n = Len(Boot!File.layout) /\ DOMAIN Boot!File.layout = 1..n
  BY <1>3
<1>5. segment \in 1..n
  BY <1>1, <1>4
<1>6. \A s \in 1..segment : <<Boot!Mod, s, Boot!File.layout[s]>> \in blocks'
  <2>1. \A s \in 1..(segment - 1) : <<Boot!Mod, s, Boot!File.layout[s]>> \in blocks
    BY <1>1 DEF BootInv, MappedSoFar
  <2>2. \A s \in 1..segment : s \in 1..(segment - 1) \/ s = segment
    BY <1>5
  <2> QED BY <1>1, <2>1, <2>2
<1>7. MappedSoFar'
  <2>1. segment' \in 1..(n + 1) /\ segment' - 1 = segment /\ segment' \in Nat
    BY <1>5
  <2> QED BY <1>1, <1>2, <1>4, <1>6, <2>1 DEF MappedSoFar
<1>8. \A m \in Boot!Modules : InPlace(m)'
  BY StaysInPlace DEF BootInv, Linkable
<1>9. BootTypes' /\ Ran' /\ ReadySoFar' /\ Served'
  BY <1>1, SameList DEF BootInv, BootTypes, Ran, ReadySoFar, Served, Boot!Needs
<1>10. Linkable'
  BY <1>8, SameList DEF BootInv, Linkable
<1> QED BY <1>7, <1>9, <1>10 DEF BootInv

\* One of the steps that follow _so_load: `what` is done to the library.
LEMMA DoneInv ==
  ASSUME BootInv, step \in InMemory,
         UNCHANGED <<disk, turn, segment, blocks, list, ran, patched, services>>,
         NEW what \in SUBSET Boot!Done, Boot!Has(what),
         \/ step = "relocate" /\ step' = "helpers" /\ "relocated" \in what
         \/ step = "helpers" /\ step' = "resolve" /\ "helpers" \in what
         \/ step = "resolve" /\ "imports" \in what /\ step' = IF turn = 2 THEN "register" ELSE "flush"
         \/ /\ step = "register" /\ step' = "flush" /\ "registered" \in what
            /\ \A m \in Boot!Modules : Boot!Listed(m)
         \/ step = "flush" /\ step' = "initialize" /\ "flushed" \in what
  PROVE  BootInv'
<1>1. /\ Boot!Mod \in Boot!Modules /\ Boot!Mod \notin ran
      /\ Boot!Mod' = Boot!Mod /\ step' \in InMemory
  BY Present, SameList DEF Loading, InMemory
<1>2. /\ ready' \in [Boot!Modules -> SUBSET Boot!Done]
      /\ ready'[Boot!Mod] = ready[Boot!Mod] \cup what
      /\ \A m \in ran : ready'[m] = ready[m]
  BY <1>1 DEF BootInv, BootTypes, Boot!Has
<1>3. Linkable'
  <2>1. \A m \in Boot!Modules : InPlace(m)'
    BY StaysInPlace DEF BootInv, Linkable
  <2> QED BY <1>1, <2>1, SameList DEF BootInv, Linkable, InMemory, Unmapped
<1>4. BootTypes' /\ MappedSoFar' /\ Served'
  BY <1>1, <1>2 DEF BootInv, BootTypes, MappedSoFar, Served, Loading, InMemory, Running
<1>5. Ran'
  <2>1. \A m \in ran : Boot!Needs(m) \subseteq ready'[m] /\ Boot!Listed(m)'
    BY <1>2, SameList DEF BootInv, Ran
  <2> QED BY <1>1, <2>1, SameList DEF BootInv, Ran, Loading, InMemory, Running, Boot!Needs
<1>6. ReadySoFar'
  <2>1. turn \in 1..2
    BY DEF BootInv, BootTypes
  <2>2. step' \in {"flush", "initialize"} /\ turn = 2 => \A m \in Boot!Modules : Boot!Listed(m)
    BY DEF BootInv, ReadySoFar, InMemory
  <2> QED BY <1>1, <1>2, <2>1, <2>2, SameList DEF BootInv, ReadySoFar, InMemory
<1> QED BY <1>3, <1>4, <1>5, <1>6 DEF BootInv

LEMMA BootStepInv == BootInv /\ [Boot!Next]_bootVars => BootInv'
<1> SUFFICES ASSUME BootInv, [Boot!Next]_bootVars PROVE BootInv'
  OBVIOUS
<1> USE DEF Boot!Goto, Boot!Fatal, Boot!mapVars
<1>1. CASE Boot!CheckKubridge \/ Boot!FindFile \/ Boot!Mapped \/ Boot!Patch
           \/ Boot!Preload \/ Boot!StartJni \/ Boot!StartGl \/ Boot!OpenAlVm
  <2>1. UNCHANGED <<disk, turn, segment, blocks, list, ready, ran>>
    BY <1>1 DEF Boot!CheckKubridge, Boot!FindFile, Boot!Mapped, Boot!Patch, Boot!Preload,
       Boot!StartJni, Boot!StartGl, Boot!OpenAlVm, Boot!Serve
  <2>2. \/ step = "kubridge" /\ step' \in {"find", "fatal"}
        \/ step = "find" /\ step' \in {"open", "fatal"}
        \/ step = "map" /\ segment \notin DOMAIN Boot!File.layout /\ step' = "sections"
        \/ step \in Running /\ step' \in Running \cup {"fatal"}
    BY <1>1 DEF Boot!CheckKubridge, Boot!FindFile, Boot!Mapped, Boot!Patch, Boot!Preload,
       Boot!StartJni, Boot!StartGl, Boot!OpenAlVm, Boot!Serve, Running
  <2>3. Served'
    BY <1>1, <2>1, SameList DEF Boot!CheckKubridge, Boot!FindFile, Boot!Mapped, Boot!Patch,
       Boot!Preload, Boot!StartJni, Boot!StartGl, Boot!OpenAlVm, Boot!Serve, Running, BootInv, Served
  <2> QED BY <2>1, <2>2, <2>3, QuietStep
<1>2. CASE Boot!ResolveEntry \/ Boot!OnLoad \/ Boot!HaxeMain
  <2>1. UNCHANGED <<disk, turn, segment, blocks, list, ready, ran>>
    BY <1>2 DEF Boot!ResolveEntry, Boot!OnLoad, Boot!HaxeMain, Boot!Entry
  <2>2. Served'
    BY <1>2, <2>1, SameList DEF Boot!ResolveEntry, Boot!OnLoad, Boot!HaxeMain, Boot!Entry,
       Running, BootInv, Served
  <2>3. step \in Running /\ step' \in Running \cup {"fatal"}
    BY <1>2 DEF Boot!ResolveEntry, Boot!OnLoad, Boot!HaxeMain, Boot!Entry, Running
  <2> QED BY <2>1, <2>2, <2>3, QuietStep
<1>3. CASE Boot!OpenFile
  <2>1. /\ step = "open" /\ segment' = 1 /\ step' \in {"header", "fatal"}
        /\ blocks \subseteq blocks'
        /\ UNCHANGED <<disk, turn, list, ready, ran, patched, services>>
    BY <1>3 DEF Boot!OpenFile
  <2>2. \A m \in Boot!Modules : InPlace(m)'
    BY <2>1, StaysInPlace DEF BootInv, Linkable
  <2>3. BootTypes' /\ Ran' /\ ReadySoFar' /\ Served'
    BY <2>1, SameList DEF BootInv, BootTypes, Ran, ReadySoFar, Served, Loading, Running, Boot!Needs
  <2>4. Linkable'
    BY <2>1, <2>2, SameList DEF BootInv, Linkable, Unmapped
  <2>5. MappedSoFar'
    <3>1. Boot!File' = Boot!File /\ Boot!Mod \in Boot!Modules
      BY <2>1, Present, SameList DEF Loading
    <3>2. Boot!File.layout \in Seq({"text", "data"})
      BY <2>1, <3>1 DEF BootInv, BootTypes, Boot!File
    <3>3. Len(Boot!File.layout) \in Nat
      BY <3>2
    <3>4. 1 \in 1..(Len(Boot!File.layout) + 1)
      BY <3>3
    <3> QED BY <2>1, <3>1, <3>4 DEF MappedSoFar
  <2> QED BY <2>3, <2>4, <2>5 DEF BootInv
<1>4. CASE Boot!Header
  <2>1. step = "header"
    BY <1>4 DEF Boot!Header
  <2>2. CASE Boot!Answer("negative", Boot!FileBlock)
    BY <2>1, <2>2, AnswerInv DEF Boot!FileBlock
  <2>3. CASE step' = "map" /\ UNCHANGED <<disk, turn, segment, dataAddr, nData, res, blocks, list,
                                        ready, ran, patched, services>>
    <3>1. Served'
      BY <2>1, <2>3, SameList DEF BootInv, Served, Running
    <3> QED BY <2>1, <2>3, <3>1, QuietStep
  <2> QED BY <1>4, <2>2, <2>3 DEF Boot!Header
<1>5. CASE Boot!MapText
  <2>1. Boot!Mapping("text")
    BY <1>5 DEF Boot!MapText
  <2>2. CASE Boot!Answer("negative", Boot!FileBlock)
    BY <2>1, <2>2, AnswerInv DEF Boot!FileBlock, Boot!Mapping
  <2>3. CASE ~Boot!Answer("negative", Boot!FileBlock)
    <3> DEFINE more == {<<Boot!Mod, segment, "arena">>, <<Boot!Mod, segment, "text">>}
    <3>1. /\ blocks' = blocks \cup more /\ segment' = segment + 1
          /\ UNCHANGED <<disk, step, turn, list, ready, ran, patched, services>>
      BY <1>5, <2>3 DEF Boot!MapText
    <3> QED BY <2>1, <3>1, MapInv
  <2> QED BY <2>2, <2>3
<1>6. CASE Boot!MapTextFails
  <2>1. /\ step = "map" /\ step' = "fatal"
        /\ blocks' = (blocks \ Boot!FileBlock) \cup {<<Boot!Mod, segment, "arena">>}
        /\ UNCHANGED <<disk, turn, segment, list, ready, ran, patched, services>>
    BY <1>6 DEF Boot!MapTextFails, Boot!Mapping
  <2>2. \A m \in Boot!Modules : InPlace(m)'
    <3> TAKE m \in Boot!Modules
    <3>1. InPlace(m) /\ (Boot!Listed(m) => m # Boot!Mod)
      BY <2>1 DEF BootInv, Linkable, Unmapped
    <3>2. m # Boot!Mod => \A s, kind : <<m, s, kind>> \in blocks => <<m, s, kind>> \in blocks'
      BY <2>1 DEF Boot!FileBlock
    <3> QED BY <2>1, <3>1, <3>2, StaysInPlace
  <2>3. Linkable'
    BY <2>1, <2>2, SameList DEF BootInv, Linkable, Unmapped
  <2> QED BY <2>1, <2>3, SameList DEF BootInv, BootTypes, Ran, MappedSoFar, ReadySoFar, Served,
       Loading, Running, Boot!Needs
<1>7. CASE Boot!MapData
  <2> DEFINE everything == {Boot!Mod} \X Nat \X {"file", "text", "data"}
  <2>1. Boot!Mapping("data") /\ step = "map"
    BY <1>7 DEF Boot!MapData, Boot!Mapping
  <2>2. Boot!Mod \in Boot!Modules /\ Boot!File.layout \in Seq({"text", "data"})
    BY <2>1, Present DEF Loading, BootInv, BootTypes, Boot!File
  <2>3. /\ Boot!FileBlock \subseteq everything /\ Boot!Text \subseteq everything
        /\ Boot!DataSegments \subseteq everything
    BY <2>2 DEF Boot!FileBlock, Boot!Text, Boot!DataSegments
  <2> HIDE DEF everything
  <2>4. CASE Boot!Answer("negative", Boot!Text \cup Boot!FileBlock)
    BY <2>1, <2>3, <2>4, AnswerInv DEF everything
  <2>5. CASE Boot!Answer(res, Boot!FileBlock)
    BY <2>1, <2>3, <2>5, AnswerInv DEF everything
  <2>6. CASE Boot!Answer(res, Boot!DataSegments \cup Boot!Text \cup Boot!FileBlock)
    BY <2>1, <2>3, <2>6, AnswerInv DEF everything
  <2>7. CASE /\ blocks' = blocks \cup {<<Boot!Mod, segment, "data">>} /\ segment' = segment + 1
             /\ UNCHANGED <<disk, step, turn, dataAddr, list, ready, ran, patched, services>>
    BY <2>1, <2>7, MapInv
  <2> QED BY <1>7, <2>4, <2>5, <2>6, <2>7 DEF Boot!MapData
<1>8. CASE Boot!Sections
  <2>1. step = "sections" /\ Boot!Mod \in Boot!Modules
    BY <1>8, Present DEF Boot!Sections, Loading
  <2>2. Boot!File.layout \in Seq({"text", "data"})
    BY <2>1 DEF BootInv, BootTypes, Boot!File
  <2>3. CASE Boot!Answer("negative", Boot!DataSegments \cup Boot!Text \cup Boot!FileBlock)
    <3>1. Boot!DataSegments \cup Boot!Text \cup Boot!FileBlock
            \subseteq {Boot!Mod} \X Nat \X {"file", "text", "data"}
      BY <2>2 DEF Boot!FileBlock, Boot!Text, Boot!DataSegments
    <3> QED BY <2>1, <2>3, <3>1, AnswerInv
  <2>4. CASE /\ step' = "relocate" /\ list' = Append(list, Boot!Mod)
             /\ blocks' = blocks \ Boot!FileBlock
             /\ UNCHANGED <<disk, turn, segment, ready, ran, patched, services>>
    <3>1. /\ list' \in Seq(Boot!Modules)
          /\ \A m : Boot!Listed(m)' <=> Boot!Listed(m) \/ m = Boot!Mod
      <4>1. list \in Seq(Boot!Modules)
        BY DEF BootInv, BootTypes
      <4>2. /\ Append(list, Boot!Mod) \in Seq(Boot!Modules)
            /\ Len(Append(list, Boot!Mod)) = Len(list) + 1
            /\ Append(list, Boot!Mod)[Len(list) + 1] = Boot!Mod
            /\ \A i \in 1..Len(list) : Append(list, Boot!Mod)[i] = list[i]
        BY <2>1, <4>1, Pushed
      <4> DEFINE new == Append(list, Boot!Mod)
      <4>3. PICK n \in Nat : n = Len(list) /\ DOMAIN list = 1..n
        BY <4>1
      <4> HIDE DEF new
      <4>4. DOMAIN new = 1..(n + 1) /\ new[n + 1] = Boot!Mod /\ \A i \in 1..n : new[i] = list[i]
        BY <4>2, <4>3 DEF new
      <4>5. \A i \in 1..(n + 1) : i \in 1..n \/ i = n + 1
        OBVIOUS
      <4>6. \A m : (\E i \in DOMAIN new : new[i] = m) <=>
                     (\E i \in DOMAIN list : list[i] = m) \/ m = Boot!Mod
        BY <4>3, <4>4, <4>5
      <4>7. list' = new
        BY <2>4 DEF new
      <4> QED BY <4>2, <4>6, <4>7 DEF Boot!Listed, new
    <3>2. \A m \in Boot!Modules : Boot!IsMapped(m) => Boot!IsMapped(m)'
      <4> SUFFICES ASSUME NEW m \in Boot!Modules, Boot!IsMapped(m),
                          NEW s \in DOMAIN disk[m].layout
                   PROVE  <<m, s, disk[m].layout[s]>> \in blocks'
        BY <2>4 DEF Boot!IsMapped
      <4>1. <<m, s, disk[m].layout[s]>> \in blocks
        BY DEF Boot!IsMapped
      <4>2. disk[m].layout[s] \in {"text", "data"}
        BY DEF BootInv, BootTypes
      <4> QED BY <2>4, <4>1, <4>2 DEF Boot!FileBlock
    <3>3. Boot!IsMapped(Boot!Mod)
      <4>1. PICK n \in Nat : n = Len(Boot!File.layout) /\ DOMAIN Boot!File.layout = 1..n
        BY <2>2
      <4>2. segment = n + 1
        BY <2>1, <4>1 DEF BootInv, MappedSoFar
      <4>3. \A s \in 1..(segment - 1) : <<Boot!Mod, s, Boot!File.layout[s]>> \in blocks
        BY <2>1 DEF BootInv, MappedSoFar
      <4>4. segment - 1 = n
        BY <4>2
      <4> QED BY <4>1, <4>3, <4>4 DEF Boot!IsMapped, Boot!File
    <3>4. \A m \in Boot!Modules : InPlace(m)'
      <4> SUFFICES ASSUME NEW m \in Boot!Modules, Boot!Listed(m)' PROVE Boot!IsMapped(m)'
        BY DEF InPlace
      <4>1. CASE Boot!Listed(m)
        BY <3>2, <4>1 DEF BootInv, Linkable, InPlace
      <4>2. CASE m = Boot!Mod
        <5>1. Boot!IsMapped(m)
          BY <3>3, <4>2 DEF Boot!IsMapped
        <5> QED BY <3>2, <5>1
      <4> QED BY <3>1, <4>1, <4>2
    <3>5. turn = 1 => Boot!Mod = "game"
      BY <2>1, Present DEF Loading
    <3>6. turn = 2 => Boot!Mod = "lime"
      BY <2>1, Present DEF Loading
    <3>7. Linkable'
      BY <2>4, <3>1, <3>4, <3>5 DEF BootInv, Linkable, Unmapped
    <3>8. BootTypes' /\ MappedSoFar' /\ ReadySoFar' /\ Served'
      BY <2>1, <2>4, <3>1 DEF BootInv, BootTypes, MappedSoFar, ReadySoFar, Served, Loading, Running
    <3>9. Ran'
      BY <2>1, <2>4, <3>1, <3>6 DEF BootInv, BootTypes, Ran, Loading, Running, Boot!Needs
    <3> QED BY <3>7, <3>8, <3>9 DEF BootInv
  <2> QED BY <1>8, <2>3, <2>4 DEF Boot!Sections
<1>9. CASE Boot!Relocate
  <2> {"relocated"} \in SUBSET Boot!Done
    BY DEF Boot!Done
  <2>1. CASE step' = "helpers" /\ Boot!Has({"relocated"})
    BY <1>9, <2>1, DoneInv DEF Boot!Relocate, InMemory
  <2>2. CASE step' = "fatal" /\ UNCHANGED ready
    <3>1. Served'
      BY <2>2 DEF Served, Running
    <3> QED BY <1>9, <2>2, <3>1, QuietStep DEF Boot!Relocate
  <2> QED BY <1>9, <2>1, <2>2 DEF Boot!Relocate
<1>10. CASE Boot!PatchHelpers
  <2> {"helpers"} \in SUBSET Boot!Done /\ {"helpers", "flushed"} \in SUBSET Boot!Done
    BY DEF Boot!Done
  <2>1. CASE step' = "resolve"
    BY <1>10, <2>1, DoneInv DEF Boot!PatchHelpers, InMemory
  <2>2. CASE step' = "fatal" /\ UNCHANGED ready
    <3>1. Served'
      BY <2>2 DEF Served, Running
    <3> QED BY <1>10, <2>2, <3>1, QuietStep DEF Boot!PatchHelpers
  <2> QED BY <1>10, <2>1, <2>2 DEF Boot!PatchHelpers
<1>11. CASE Boot!Resolve
  <2> {"imports"} \in SUBSET Boot!Done
    BY DEF Boot!Done
  <2>1. Boot!Mod = "lime" <=> turn = 2
    BY <1>11, Present DEF Boot!Resolve, Loading, BootInv, BootTypes
  <2> QED BY <1>11, <2>1, DoneInv DEF Boot!Resolve, InMemory
<1>12. CASE Boot!Register
  <2> {"registered"} \in SUBSET Boot!Done
    BY DEF Boot!Done
  <2>1. CASE step' = "flush" /\ Boot!Has({"registered"})
    <3>1. Boot!Symbols("lime") # {} /\ Boot!Symbols("game") # {}
      BY <1>12, <2>1 DEF Boot!Register
    <3>2. \A m \in Boot!Modules : Boot!Listed(m)
      BY <3>1 DEF Boot!Symbols, Boot!Modules
    <3> QED BY <1>12, <2>1, <3>2, DoneInv DEF Boot!Register, InMemory
  <2>2. CASE step' = "fatal" /\ UNCHANGED ready
    <3>1. Served'
      BY <2>2 DEF Served, Running
    <3> QED BY <1>12, <2>2, <3>1, QuietStep DEF Boot!Register
  <2> QED BY <1>12, <2>1, <2>2 DEF Boot!Register
<1>13. CASE Boot!FlushCaches
  <2> {"flushed"} \in SUBSET Boot!Done
    BY DEF Boot!Done
  <2> QED BY <1>13, DoneInv DEF Boot!FlushCaches, InMemory
<1>14. CASE Boot!Initialize
  <2>1. /\ step = "initialize"
        /\ ran' = IF Boot!Listed(Boot!Mod) THEN ran \cup {Boot!Mod} ELSE ran
        /\ IF turn = 1 THEN step' = "find" /\ turn' = 2 ELSE step' = "patch" /\ turn' = turn
        /\ UNCHANGED <<disk, segment, blocks, list, ready, patched, services>>
    BY <1>14 DEF Boot!Initialize
  <2>2. /\ Boot!Mod \in Boot!Modules /\ Boot!Mod = (IF turn = 1 THEN "game" ELSE "lime")
        /\ turn \in 1..2
    BY <2>1, Present DEF Loading, BootInv, BootTypes
  <2>3. Boot!Needs(Boot!Mod) \subseteq ready[Boot!Mod]
    BY <2>1, <2>2 DEF BootInv, ReadySoFar, Boot!Needs, Boot!Done
  <2>4. \A m : Boot!Listed(m)' <=> Boot!Listed(m)
    BY <2>1 DEF Boot!Listed
  <2>5. \A m \in ran' : Boot!Needs(m) \subseteq ready[m] /\ Boot!Listed(m)
    BY <2>1, <2>3 DEF BootInv, Ran
  <2>6. turn = 2 => \A m \in Boot!Modules : Boot!Listed(m)
    BY <2>1 DEF BootInv, ReadySoFar
  <2>7. ran' = IF turn = 1 THEN (IF Boot!Listed("game") THEN {"game"} ELSE {}) ELSE Boot!Modules
    BY <2>1, <2>2, <2>6 DEF BootInv, Ran, Loading, Boot!Modules
  <2>8. Ran'
    BY <2>1, <2>2, <2>4, <2>5, <2>7 DEF Ran, Loading, Running, Boot!Needs
  <2>9. Linkable'
    <3>1. \A m \in Boot!Modules : InPlace(m)'
      BY <2>1, StaysInPlace DEF BootInv, Linkable
    <3>2. turn' = 2 /\ step' = "find" => Boot!Mod' = "lime" /\ ~Boot!Listed("lime")
      BY <2>1, <2>2 DEF BootInv, Linkable, Boot!Mod, Boot!Order
    <3> QED BY <2>1, <2>2, <2>4, <3>1, <3>2 DEF Linkable, Unmapped
  <2>10. BootTypes' /\ MappedSoFar' /\ ReadySoFar' /\ Served'
    BY <2>1, <2>2, <2>7 DEF BootInv, BootTypes, MappedSoFar, ReadySoFar, Served, Loading, Running,
       Boot!Modules
  <2> QED BY <2>8, <2>9, <2>10 DEF BootInv
<1>15. CASE UNCHANGED bootVars
  <2>1. \A m \in Boot!Modules : InPlace(m)'
    BY <1>15, StaysInPlace DEF bootVars, BootInv, Linkable
  <2>2. UNCHANGED <<disk, list, turn>>
    BY <1>15 DEF bootVars
  <2>3. Linkable' /\ Served' /\ Ran'
    BY <1>15, <2>1, <2>2, SameList DEF bootVars, BootInv, Linkable, Served, Ran, Boot!Needs
  <2>4. BootTypes' /\ MappedSoFar' /\ ReadySoFar'
    BY <1>15, <2>2, SameList DEF bootVars, BootInv, BootTypes, MappedSoFar, ReadySoFar
  <2> QED BY <2>3, <2>4 DEF BootInv
<1>16. CASE Boot!Runs
  BY <1>15, <1>16 DEF Boot!Runs, Boot!loaderVars, bootVars
<1> QED BY <1>1, <1>2, <1>3, <1>4, <1>5, <1>6, <1>7, <1>8, <1>9, <1>10, <1>11, <1>12, <1>13,
       <1>14, <1>15, <1>16 DEF Boot!Next

\* No constructor of a library runs before the library is all there, told to the
\* linker and made ready, and the game is entered only after everything it calls
\* into is set up, whatever fails or is missing, and for segments in any number
\* and order (init.c:53-171, main.c:154-215).
THEOREM BootsInOrder == ServicesSpec => []BootInOrder
<1>1. ServicesInit => BootInv
  <2> SUFFICES ASSUME ServicesInit PROVE BootInv
    OBVIOUS
  <2>1. /\ disk \in [Boot!Modules -> Boot!Variants \cup {Boot!Fine}]
        /\ step = "kubridge" /\ turn = 1 /\ list = <<>> /\ segment = 1
        /\ ready = [m \in Boot!Modules |-> {}] /\ ran = {}
    BY DEF ServicesInit, Boot!Init
  <2>2. \A v \in Boot!Variants \cup {Boot!Fine} : v.layout \in Seq({"text", "data"})
    <3>1. \A v \in Boot!Variants \cup {Boot!Fine} : v.layout \in Layouts \cup {<<"text", "data">>}
      BY DEF Boot!Variants, Boot!Fine
    <3>2. <<"text", "data">> \in Seq({"text", "data"})
      OBVIOUS
    <3> QED BY <3>1, <3>2, ServicesAssumption DEF Boot!LoaderAssumption
  <2>3. list \in Seq(Boot!Modules) /\ \A m : ~Boot!Listed(m)
    BY <2>1 DEF Boot!Listed
  <2> QED BY <2>1, <2>2, <2>3 DEF BootInv, BootTypes, Ran, Linkable, InPlace, MappedSoFar,
       ReadySoFar, Served, Loading, Running
<1>2. BootInv /\ [ServicesNext]_servicesVars => BootInv'
  BY BootStepInv DEF ServicesNext, Others, servicesVars
<1>3. BootInv => BootInOrder
  BY DEF BootInv, BootTypes, Ran, Linkable, InPlace, Served, Running, BootInOrder, Boot!BootInOrder
<1> QED BY <1>1, <1>2, <1>3, PTL DEF ServicesSpec, servicesVars
=============================================================================
