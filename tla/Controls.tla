------------------------------ MODULE Controls ------------------------------
(***************************************************************************)
(* source/reimpl/controls.c: one poll of the touch panel and one of the    *)
(* buttons, the events they send to Lime through main.c, and the two       *)
(* loader chords (speed and cheat menu) recognised on the way.  Sticks are *)
(* polled too but their handler in main.c does nothing.                    *)
(***************************************************************************)
EXTENDS CheatMenu, FiniteSets

CONSTANTS
  Fingers,  \* touch identifiers the panel reports
  Pad       \* the buttons this instance presses

Shoulders == {"L1", "R1"}
Chord == {"L1", "R1", "DOWN"}
Speeds == {1, 2, 4, 8, 16}

ASSUME PadAssumption == Pad \subseteq MenuButtons \cup Shoulders

VARIABLES
  touching,     \* touch_old: identifiers of the last report
  suppressed,   \* suppressed_touch_ids
  held,         \* current_buttons
  latched,      \* debug_chord_latched
  menu,         \* the state of patch.c
  effects,      \* parity of how often each row's effect was applied to the game
  scale,        \* time_scale
  keys,         \* key events the last step sent to Lime
  touches,      \* touch events the last step sent to Lime
  gameKeys,     \* keys the game was told are down and not told are up
  gameTouches,  \* touches it was told began and not told ended
  unwanted,     \* touches that began under the menu or on the ad hotspot
  quiet,        \* a poll found no menu button held since the menu last acted
  chordFree     \* a poll found no chord button held since the last toggle

touchVars == <<touching, suppressed, gameTouches, unwanted>>
padVars == <<held, latched, menu, effects, scale, gameKeys, quiet, chordFree>>

NoKeys == [down |-> {}, up |-> {}]
NoTouches == [down |-> {}, move |-> {}, up |-> {}]

ControlsTypeOK ==
  /\ touching \in SUBSET Fingers
  /\ suppressed \in SUBSET Fingers
  /\ held \in SUBSET Pad
  /\ latched \in BOOLEAN
  /\ menu \in Menus
  /\ effects \in SUBSET (Flags \cup {"call"})
  /\ scale \in Speeds
  /\ keys \in [down : SUBSET Pad, up : SUBSET Pad]
  /\ touches \in [down : SUBSET Fingers, move : SUBSET Fingers, up : SUBSET Fingers]
  /\ gameKeys \in SUBSET Pad
  /\ gameTouches \in SUBSET Fingers
  /\ unwanted \in SUBSET Fingers
  /\ quiet \in BOOLEAN /\ chordFree \in BOOLEAN

ControlsInit ==
  /\ touching = {} /\ suppressed = {}
  /\ held = {} /\ latched = FALSE
  /\ menu = ClosedMenu /\ effects = {}
  /\ scale = 1
  /\ keys = NoKeys /\ touches = NoTouches
  /\ gameKeys = {} /\ gameTouches = {}
  /\ unwanted = {} /\ quiet = TRUE /\ chordFree = TRUE

\* A touch is suppressed for its whole life by where and when it began: under
\* the menu, or on the lower-left reward icon.
Suppresses(fresh, onAd) == IF menu.open THEN fresh ELSE onAd

BlockedOnAdOnly(fresh, onAd) == onAd

Blocked(fresh, onAd) == Suppresses(fresh, onAd)

UpOutsideMenuOnly(reported, blocked) ==
  [down |-> (reported \ touching) \ blocked,
   move |-> (reported \cap touching) \ suppressed,
   up |-> IF menu.open THEN {} ELSE (touching \ reported) \ suppressed]

UpUnconditional(reported, blocked) ==
  [down |-> (reported \ touching) \ blocked,
   move |-> (reported \cap touching) \ suppressed,
   up |-> touching \ reported]

TouchEvents(reported, blocked) ==
  [down |-> (reported \ touching) \ blocked,
   move |-> (reported \cap touching) \ suppressed,
   up |-> (touching \ reported) \ suppressed]

\* poll_touch: `reported` are on the panel now, `onAd` of the new ones began on
\* the icon.
PollTouch(reported, onAd) ==
  LET fresh == reported \ touching
      blocked == Blocked(fresh, onAd)
  IN  /\ touches' = TouchEvents(reported, blocked)
      /\ suppressed' = ((suppressed \ fresh) \cup blocked) \ (touching \ reported)
      /\ touching' = reported
      /\ gameTouches' = (gameTouches \cup touches'.down) \ touches'.up
      /\ unwanted' = (unwanted \cup Suppresses(fresh, onAd)) \cap reported
      /\ keys' = NoKeys
      /\ UNCHANGED padVars

NextSpeed == IF scale = 16 THEN 1 ELSE 2 * scale

\* Presses the two chords keep from the menu and the game.
TakenBySpeed(faster, toggles) == IF faster THEN {"UP"} ELSE {}

Taken(faster, toggles) ==
  (IF faster THEN {"UP"} ELSE {}) \cup (IF toggles THEN {"DOWN"} ELSE {})

LatchWhileComplete(now, toggles) == (latched \/ toggles) /\ Chord \subseteq now

LatchForever(now, toggles) == latched \/ toggles

\* The chord toggles once until all of its buttons were released together.
Latch(now, toggles) == (latched \/ toggles) /\ Chord \cap now # {}

KeyEvents(pressed, released, consumed) ==
  [down |-> pressed \ consumed, up |-> released \ consumed]

\* poll_pad with `now` the buttons reported: the speed chord, the menu chord,
\* the menu, and what is left of the presses and releases to the game.
PollPad(now) ==
  LET faster == Shoulders \subseteq now /\ "UP" \in now \ held
      toggles == ~latched /\ Chord \subseteq now
      pressed == (now \ held) \ Taken(faster, toggles)
      opened == IF toggles THEN RequestDebugMenu(menu) ELSE menu
      performed == Performed(opened, pressed)
  IN  /\ scale' = IF faster THEN NextSpeed ELSE scale
      /\ latched' = Latch(now, toggles)
      /\ menu' = HandleInput(opened, pressed, now)
      /\ effects' = (effects \ performed) \cup (performed \ effects)
      /\ keys' = KeyEvents(pressed, held \ now, Consumed(opened))
      /\ gameKeys' = (gameKeys \cup keys'.down) \ keys'.up
      /\ held' = now
      /\ quiet' = /\ menu'.selection = menu.selection
                  /\ performed = {}
                  /\ toggles => ~opened.open
                  /\ quiet \/ now \cap MenuButtons = {}
      /\ chordFree' = (~toggles /\ (chordFree \/ now \cap Chord = {}))
      /\ touches' = NoTouches
      /\ UNCHANGED touchVars
=============================================================================
