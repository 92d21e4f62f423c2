------------------------------ MODULE MainLoop ------------------------------
(***************************************************************************)
(* The frame loop of source/main.c (220-251) around the input polling of   *)
(* Controls and the cheat menu: polls, then either a menu frame or a game  *)
(* frame.                                                                  *)
(***************************************************************************)
EXTENDS Controls

VARIABLES
  at,     \* what the loop does next
  shown,  \* cheat_generation: the generation of the last menu frame
  screen  \* the last menu frame: its selection and the flags it showed

vars == <<touchVars, padVars, keys, touches, at, shown, screen>>

Screens == [selection : Rows, flags : SUBSET Flags]

TypeOK ==
  /\ ControlsTypeOK
  /\ at \in {"touch", "pad", "frame"}
  /\ shown \in 0..(Generations - 1)
  /\ screen \in Screens

Init ==
  /\ ControlsInit
  /\ at = "touch"
  /\ shown = 0
  /\ screen = [selection |-> 0, flags |-> {}]

Picture == [selection |-> menu.selection, flags |-> effects \cap Flags]

Touch ==
  /\ at = "touch" /\ at' = "pad"
  /\ \E reported \in SUBSET Fingers : \E onAd \in SUBSET (reported \ touching) :
       PollTouch(reported, onAd)
  /\ UNCHANGED <<shown, screen>>

Buttons ==
  /\ at = "pad" /\ at' = "frame"
  /\ \E now \in SUBSET Pad : PollPad(now)
  /\ UNCHANGED <<shown, screen>>

\* The game is paused: a menu frame is drawn when something changed.
MenuFrame ==
  /\ at = "frame" /\ at' = "touch"
  /\ menu.open
  /\ \/ /\ menu.generation # shown
        /\ shown' = menu.generation
        /\ screen' = Picture
     \/ /\ menu.generation = shown
        /\ UNCHANGED <<shown, screen>>
  /\ keys' = NoKeys /\ touches' = NoTouches
  /\ UNCHANGED <<touchVars, padVars>>

\* onPoll, onRender, the speed indicator and a swap; the game may change its
\* own flags meanwhile.
GameFrame ==
  /\ at = "frame" /\ at' = "touch"
  /\ ~menu.open
  /\ \E flags \in SUBSET Flags : effects' = flags \cup (effects \ Flags)
  /\ keys' = NoKeys /\ touches' = NoTouches
  /\ UNCHANGED <<touchVars, held, latched, menu, scale, gameKeys,
                 quiet, chordFree, shown, screen>>

Next == Touch \/ Buttons \/ MenuFrame \/ GameFrame

Spec == Init /\ [][Next]_vars /\ WF_vars(Next)

-----------------------------------------------------------------------------
(* Touch *)

\* Lime gets a single down, move, up stream per pointer (main.c:106-107).
SingleTouchStream ==
  [][ /\ touches'.down \cap gameTouches = {}
      /\ touches'.move \cup touches'.up \subseteq gameTouches ]_vars

\* The game never holds on to a finger that has left the panel.
NoGhostTouch == gameTouches \subseteq touching

\* A touch that began under the menu or on the ad icon stays invisible until
\* it ends, also when the menu closes or the finger slides away meanwhile.
UnwantedTouchesHidden == unwanted \cap gameTouches = {}

(* Buttons *)

\* From the poll that opens the menu to the one that closes it, nothing but
\* the shoulder buttons reaches the game: neither the press that closes the
\* menu nor a release.  Only the chord hands the other buttons back at once.
MenuOwnsButtons ==
  [][ at = "pad" /\ (menu.open \/ menu'.open) =>
        \/ keys'.down \cup keys'.up \subseteq Shoulders
        \/ Chord \subseteq held' /\ ~menu'.open ]_vars

\* The shoulder buttons are in every chord and still always reach the game in
\* pairs: what it believes held is what is held.
ShouldersPaired == gameKeys \cap Shoulders = held \cap Shoulders

\* A press that changes the speed or toggles the menu does that and nothing
\* else: it moves no selection and is not sent to the game.
OneEffectPerPress ==
  [][ /\ scale' # scale =>
           /\ "UP" \notin keys'.down
           /\ "DOWN" \in held' \ held \/ menu'.selection = menu.selection
      /\ latched' /\ ~latched =>
           "DOWN" \notin keys'.down /\ menu'.selection = menu.selection ]_vars

\* The menu moves or acts only after all its buttons were seen released since
\* it opened or last acted: holding a button never repeats or leaks into it.
ActsOnlyAfterRelease ==
  [][ at = "pad" /\ (menu'.selection # menu.selection \/ effects' # effects) => quiet ]_vars

\* The whole chord is released between two toggles, whatever chatter a pad
\* reports meanwhile (controls.c:180-182).  Opening, or closing without CIRCLE
\* or CROSS, is the chord's doing.
ChordTogglesOnce ==
  [][ /\ menu'.open # menu.open
      /\ {"CIRCLE", "CROSS"} \cap (held' \ held) = {}
      => chordFree ]_vars

(* Frames *)

\* After a frame with the menu open, the picture on screen is the menu's
\* present selection and flags (main.c:230-232).
MenuFrameCurrent == (at = "touch" /\ menu.open) => screen = Picture

\* With every button released for good, the menu and the chord listen again.
ReleaseRearms ==
  <>[](held = {}) => <>[](~latched /\ (menu.open => ~menu.waitRelease))
=============================================================================
