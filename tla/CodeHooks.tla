------------------------------ MODULE CodeHooks ------------------------------
(***************************************************************************)
(* The code the port changes under the running game: so_patch's hook on     *)
(* Main.onKeyDown and the SO_CONTINUE of its intercept (so_util.h), and the  *)
(* ad handlers disable_reward_ads finds and hooks (source/patch.c).  A word  *)
(* of code is in memory and, until the caches are flushed, differently in    *)
(* the instruction cache, from which the CPU runs it.                        *)
(***************************************************************************)
EXTENDS Integers, FiniteSets, Sequences

CONSTANTS
  Handlers,   \* click_btnWatchAd, onRewardYes, showGameAd
  KeyDown,    \* Main.onKeyDown
  MaxNesting  \* bound: how deep onKeyDown calls itself

HooksAssumption == KeyDown \notin Handlers

Places == Handlers \cup {KeyDown}

VARIABLES
  memory,    \* memory[p]: what the first words of p are
  icache,    \* icache[p]: what the CPU fetches there
  boot,      \* so_patch: not yet, found another build, set the hook
  cffi,      \* cffi_val_id and cffi_val_field were resolved
  object,    \* last_application_main was set
  disabled,  \* ad_handlers_disabled
  found,     \* handlers val_field finds on the object
  inside,    \* handlers whose wrapper lies in the game's text
  stack,     \* calls under way: "intercept" or "original", innermost last
  bodies     \* original bodies run for the present key event

hookVars == <<memory, icache, boot, cffi, object, disabled, found, inside, stack, bodies>>
adVars == <<cffi, object, disabled, found, inside>>

HooksTypeOK ==
  /\ memory \in [Places -> {"original", "hook"}] /\ icache \in [Places -> {"original", "hook"}]
  /\ boot \in {"before", "plain", "hooked"}
  /\ cffi \in BOOLEAN /\ object \in BOOLEAN /\ disabled \in BOOLEAN
  /\ found \subseteq Handlers /\ inside \subseteq Handlers
  /\ stack \in Seq({"intercept", "continue", "original"})
  /\ bodies \in 0..MaxNesting

Init ==
  /\ memory = [p \in Places |-> "original"] /\ icache = memory
  /\ boot = "before" /\ cffi = FALSE /\ object = FALSE /\ disabled = FALSE
  /\ found = {} /\ inside \in SUBSET Handlers
  /\ stack = <<>> /\ bodies = 0

Push(call) == stack' = Append(stack, call)
At(call) == stack # <<>> /\ stack[Len(stack)] = call
InGame == stack = <<>> \/ At("original")

\* Copy into code and flush it.
Write(places, what) ==
  /\ memory' = [p \in Places |-> IF p \in places THEN what ELSE memory[p]]
  /\ icache' = [p \in Places |-> IF p \in places THEN what ELSE icache[p]]

\* so_patch: the hook is set if the function starts as the supported build's does.
InstallHook ==
  /\ boot = "before"
  /\ \/ boot' = "hooked" /\ Write({KeyDown}, "hook")
     \/ boot' = "plain" /\ UNCHANGED <<memory, icache>>
  /\ UNCHANGED <<adVars, stack, bodies>>

\* cheats_runtime_init, if the game has the functions it looks for
InitRuntime ==
  /\ boot # "before" /\ stack = <<>> /\ ~cffi /\ cffi' = TRUE
  /\ UNCHANGED <<memory, icache, boot, object, disabled, found, inside, stack, bodies>>

\* The game's object gets its ad handlers.
BuildUi ==
  /\ boot # "before" /\ found = {}
  /\ found' \in (SUBSET Handlers) \ {{}}
  /\ UNCHANGED <<memory, icache, boot, cffi, object, disabled, inside, stack, bodies>>

CompleteUi ==
  /\ found # {} /\ found' = Handlers
  /\ UNCHANGED <<memory, icache, boot, cffi, object, disabled, inside, stack, bodies>>

\* disable_reward_ads, with main_on_key_down_intercept's object: each handler found
\* is hooked unless its wrapper is outside the text, and one hook is enough to stop
\* looking.
DisableRewardAds(known) ==
  LET hooked == found \cap inside
  IN  IF disabled \/ ~cffi \/ ~known
      THEN UNCHANGED <<memory, icache, disabled>>
      ELSE Write(hooked, "hook") /\ disabled' = (hooked # {})

\* cheats_poll, between events
CheatsPoll ==
  /\ boot # "before" /\ stack = <<>> /\ DisableRewardAds(object)
  /\ UNCHANGED <<boot, cffi, object, found, inside, stack, bodies>>

\* onKeyDown is entered, as the CPU fetches it.
Run(fetched) ==
  IF fetched = "hook"
  THEN Push("intercept") /\ UNCHANGED bodies
  ELSE Push("original") /\ bodies' = bodies + 1

\* The game calls onKeyDown, for an event or (a body under way) again itself.
CallKeyDown ==
  /\ boot # "before" /\ bodies < MaxNesting
  /\ InGame
  /\ Run(icache[KeyDown])
  /\ UNCHANGED <<memory, icache, boot, adVars>>

\* main_on_key_down_intercept up to SO_CONTINUE
Intercept ==
  /\ At("intercept")
  /\ object' = TRUE /\ DisableRewardAds(TRUE)
  /\ stack' = [stack EXCEPT ![Len(stack)] = "continue"]
  /\ UNCHANGED <<boot, cffi, found, inside, bodies>>

\* SO_CONTINUE: the original words back, flushed, and the function called ...
Continue ==
  /\ At("continue") /\ Write({KeyDown}, "original")
  /\ Run(icache'[KeyDown])
  /\ UNCHANGED <<boot, adVars>>

\* Without setting the hook again
ReturnUnhooked ==
  /\ At("original")
  /\ LET below == SubSeq(stack, 1, Len(stack) - 1)
         intercepted == below # <<>> /\ below[Len(below)] = "continue"
     IN  /\ stack' = IF intercepted THEN SubSeq(below, 1, Len(below) - 1) ELSE below
         /\ UNCHANGED <<memory, icache>>
         /\ bodies' = IF stack' = <<>> THEN 0 ELSE bodies
  /\ UNCHANGED <<boot, adVars>>

\* ... and, when it returned, the hook set again.
Return ==
  /\ At("original")
  /\ LET below == SubSeq(stack, 1, Len(stack) - 1)
         intercepted == below # <<>> /\ below[Len(below)] = "continue"
     IN  /\ stack' = IF intercepted THEN SubSeq(below, 1, Len(below) - 1) ELSE below
         /\ IF intercepted THEN Write({KeyDown}, "hook") ELSE UNCHANGED <<memory, icache>>
         /\ bodies' = IF stack' = <<>> THEN 0 ELSE bodies
  /\ UNCHANGED <<boot, adVars>>

Next ==
  \/ InstallHook \/ InitRuntime \/ BuildUi \/ CompleteUi \/ CheatsPoll
  \/ CallKeyDown \/ Intercept \/ Continue \/ Return

Spec == Init /\ [][Next]_hookVars

-----------------------------------------------------------------------------
\* Between two key events the CPU finds the hook, however often the handler
\* called itself: the port learns the live object from every event.  And a key
\* event runs the game's handler: the intercept never meets its own hook again
\* instead of the function it continues into (so_util.h:68-75, patch.c:205-212).
HooksHold ==
  /\ boot = "hooked" /\ stack = <<>> => icache[KeyDown] = "hook"
  /\ \A i \in DOMAIN stack : stack[i] = "intercept" => i = 1
=============================================================================
