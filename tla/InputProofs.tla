----------------------------- MODULE InputProofs -----------------------------
(***************************************************************************)
(* What the frame loop sends to the game, for every panel, every pad and   *)
(* every menu: touches come in single streams, none of the hidden ones     *)
(* leaks, the shoulder buttons are paired through chords and menus, the    *)
(* menu takes the other buttons and acts on each press once, and the       *)
(* picture of an open menu is never behind it.                             *)
(***************************************************************************)
EXTENDS MainLoop, TLAPS

\* What suppressed_touch_ids means: exactly the touches the game must not see,
\* all of them still on the panel; the game follows all the others.
TouchInv ==
  /\ suppressed \subseteq touching
  /\ gameTouches = touching \ suppressed
  /\ unwanted = suppressed

LEMMA TouchStep == TouchInv /\ [Next]_vars => TouchInv'
<1> SUFFICES ASSUME TouchInv, [Next]_vars PROVE TouchInv'
  OBVIOUS
<1>1. ASSUME NEW reported \in SUBSET Fingers,
             NEW onAd \in SUBSET (reported \ touching),
             PollTouch(reported, onAd)
      PROVE  TouchInv'
  <2> DEFINE fresh == reported \ touching
             gone == touching \ reported
             blocked == IF menu.open THEN fresh ELSE onAd
  <2>1. blocked \subseteq fresh
    OBVIOUS
  <2>2. /\ touching' = reported
        /\ suppressed' = ((suppressed \ fresh) \cup blocked) \ gone
        /\ unwanted' = (unwanted \cup blocked) \cap reported
        /\ gameTouches' = (gameTouches \cup (fresh \ blocked)) \ (gone \ suppressed)
    BY <1>1 DEF PollTouch, TouchEvents, Blocked, Suppresses
  <2> HIDE DEF blocked
  <2>3. suppressed' \subseteq touching' /\ unwanted' = suppressed'
    BY <2>1, <2>2 DEF TouchInv
  <2>4. gameTouches' = touching' \ suppressed'
    BY <2>1, <2>2 DEF TouchInv
  <2> QED BY <2>3, <2>4 DEF TouchInv
<1>2. CASE Touch
  BY <1>1, <1>2 DEF Touch
<1>3. CASE UNCHANGED touchVars
  BY <1>3 DEF TouchInv, touchVars
<1> QED
  BY <1>2, <1>3 DEF Next, Buttons, PollPad, MenuFrame, GameFrame, vars

LEMMA TouchAlways == Spec => []TouchInv
<1>1. Init => TouchInv
  BY DEF Init, ControlsInit, TouchInv
<1> QED BY <1>1, TouchStep, PTL DEF Spec

\* No finger that left the panel stays down in the game.
THEOREM NoGhost == Spec => []NoGhostTouch
<1>1. TouchInv => NoGhostTouch
  BY DEF TouchInv, NoGhostTouch
<1> QED BY <1>1, TouchAlways, PTL

\* A touch that began under the menu or on the ad icon never reaches the game.
THEOREM Hidden == Spec => []UnwantedTouchesHidden
<1>1. TouchInv => UnwantedTouchesHidden
  BY DEF TouchInv, UnwantedTouchesHidden
<1> QED BY <1>1, TouchAlways, PTL

\* Lime gets one down, moves and one up per finger, in that order.
THEOREM SingleStreams == Spec => SingleTouchStream
<1> DEFINE Streams == /\ touches'.down \cap gameTouches = {}
                      /\ touches'.move \cup touches'.up \subseteq gameTouches
<1>1. TouchInv /\ [Next]_vars => [Streams]_vars
  <2> SUFFICES ASSUME TouchInv, Next PROVE Streams
    OBVIOUS
  <2>1. CASE Touch
    <3>1. PICK reported \in SUBSET Fingers : \E onAd \in SUBSET (reported \ touching) :
            PollTouch(reported, onAd)
      BY <2>1 DEF Touch
    <3>2. /\ touches'.down \subseteq reported \ touching
          /\ touches'.move = (reported \cap touching) \ suppressed
          /\ touches'.up = (touching \ reported) \ suppressed
      BY <3>1 DEF PollTouch, TouchEvents
    <3> QED BY <3>2 DEF TouchInv
  <2>2. CASE Buttons \/ MenuFrame \/ GameFrame
    <3>1. touches' = NoTouches
      BY <2>2 DEF Buttons, PollPad, MenuFrame, GameFrame
    <3> QED BY <3>1 DEF NoTouches
  <2> QED BY <2>1, <2>2 DEF Next
<1> QED BY <1>1, TouchAlways, PTL DEF Spec, SingleTouchStream

LEMMA ShoulderStep == ShouldersPaired /\ [Next]_vars => ShouldersPaired'
<1> SUFFICES ASSUME ShouldersPaired, [Next]_vars PROVE ShouldersPaired'
  OBVIOUS
<1>1. ASSUME NEW now, PollPad(now) PROVE ShouldersPaired'
  <2> DEFINE faster == Shoulders \subseteq now /\ "UP" \in now \ held
             toggles == ~latched /\ Chord \subseteq now
             chordTook == Taken(faster, toggles)
             opened == IF toggles THEN RequestDebugMenu(menu) ELSE menu
             menuTook == Consumed(opened)
  <2>1. /\ keys' = [down |-> ((now \ held) \ chordTook) \ menuTook,
                    up |-> (held \ now) \ menuTook]
        /\ gameKeys' = (gameKeys \cup keys'.down) \ keys'.up
        /\ held' = now
    BY <1>1 DEF PollPad, KeyEvents
  <2>2. chordTook \cap Shoulders = {}
    BY DEF Taken, Shoulders
  <2>3. menuTook \cap Shoulders = {}
    BY DEF Consumed, MenuButtons, Shoulders
  <2> HIDE DEF chordTook, menuTook
  <2> QED BY <2>1, <2>2, <2>3 DEF ShouldersPaired
<1>2. CASE Buttons
  BY <1>1, <1>2 DEF Buttons
<1>3. CASE UNCHANGED <<held, gameKeys>>
  BY <1>3 DEF ShouldersPaired
<1> QED
  BY <1>2, <1>3 DEF Next, Touch, PollTouch, padVars, MenuFrame, GameFrame, vars

\* The game's idea of L and R is right at every moment, although both are in
\* every chord and are held while the menu opens and closes.
THEOREM ShouldersAlwaysPaired == Spec => []ShouldersPaired
<1>1. Init => ShouldersPaired
  BY DEF Init, ControlsInit, ShouldersPaired
<1> QED BY <1>1, ShoulderStep, PTL DEF Spec

-----------------------------------------------------------------------------
(* The menu as a function *)

\* The generation g was reached from s in n changes, round the counter or not.
Ahead(g, s, n) == g \in 0..(Generations - 1) /\ (g = s + n \/ g = s + n - Generations)

LEMMA Counts ==
  ASSUME NEW s \in 0..(Generations - 1), NEW n \in 0..3
  PROVE  Ahead((s + n) % Generations, s, n)
<1> USE GenerationsAssumption DEF Ahead
<1>1. CASE s + n < Generations
  BY <1>1
<1>2. CASE s + n >= Generations
  <2>1. (s + n) % Generations = s + n - Generations
    BY <1>2
  <2> QED BY <1>2, <2>1
<1> QED BY <1>1, <1>2

LEMMA Bumps ==
  ASSUME NEW m \in Menus, NEW n \in 0..3
  PROVE  /\ Bumped(m, n) \in Menus
         /\ Bumped(m, n).open = m.open /\ Bumped(m, n).waitRelease = m.waitRelease
         /\ Bumped(m, n).selection = m.selection
         /\ Ahead(Bumped(m, n).generation, m.generation, n)
<1>1. m.generation \in 0..(Generations - 1)
  BY DEF Menus
<1>2. Ahead((m.generation + n) % Generations, m.generation, n)
  BY <1>1, Counts
<1> QED BY <1>2 DEF Bumped, Menus, Ahead

LEMMA Requests ==
  ASSUME NEW m \in Menus
  PROVE  LET t == RequestDebugMenu(m) IN
         /\ t \in Menus /\ t.selection = m.selection
         /\ t.open = ~m.open /\ t.waitRelease = ~m.open
         /\ Ahead(t.generation, m.generation, 1)
<1> DEFINE u == [m EXCEPT !.open = ~@, !.waitRelease = ~m.open]
<1>1. u \in Menus /\ u.open = ~m.open /\ u.waitRelease = ~m.open
      /\ u.selection = m.selection /\ u.generation = m.generation
  BY DEF Menus
<1>2. RequestDebugMenu(m) = Bumped(u, 1)
  BY DEF RequestDebugMenu
<1> HIDE DEF u
<1> QED BY <1>1, <1>2, Bumps

Turns(pressed) == pressed \cap {"UP", "DOWN"}

LEMMA Navigates ==
  ASSUME NEW m \in Menus, NEW pressed
  PROVE  LET t == Navigate(m, pressed) IN
         /\ t \in Menus /\ t.open = m.open
         /\ Turns(pressed) = {} => t = m
         /\ Turns(pressed) # {} =>
              /\ t.waitRelease = TRUE
              /\ \E n \in 1..2 : Ahead(t.generation, m.generation, n)
<1> DEFINE up == IF "UP" \in Turns(pressed) THEN Len(Items) - 1 ELSE 0
           down == IF "DOWN" \in Turns(pressed) THEN 1 ELSE 0
           row == (m.selection + up + down) % Len(Items)
           u == [m EXCEPT !.selection = row, !.waitRelease = TRUE]
           n == IF Turns(pressed) = {"UP", "DOWN"} THEN 2 ELSE 1
<1>1. CASE Turns(pressed) = {}
  BY <1>1 DEF Navigate, Turns
<1>2. CASE Turns(pressed) # {}
  <2>1. Navigate(m, pressed) = Bumped(u, n)
    BY <1>2 DEF Navigate, Turns
  <2>2. row \in Rows
    <3>1. PICK rows \in Nat \ {0} : rows = Len(Items)
      BY ItemsAssumption
    <3>2. m.selection + up + down \in Nat
      BY <3>1 DEF Menus, Rows
    <3> HIDE DEF up, down
    <3> QED BY <3>1, <3>2 DEF Rows
  <2> HIDE DEF row
  <2>3. u \in Menus /\ u.open = m.open /\ u.waitRelease = TRUE
        /\ u.generation = m.generation
    BY <2>2 DEF Menus
  <2>4. n \in 1..2 /\ n \in 0..3
    OBVIOUS
  <2> HIDE DEF u, n
  <2> QED BY <1>2, <2>1, <2>3, <2>4, Bumps
<1> QED BY <1>1, <1>2

LEMMA Confirms ==
  ASSUME NEW m \in Menus, NEW pressed
  PROVE  LET t == Confirm(m, pressed) IN
         /\ t \in Menus /\ t.selection = m.selection
         /\ pressed \cap {"CIRCLE", "CROSS"} = {} => t = m
         /\ pressed \cap {"CIRCLE", "CROSS"} # {} => Ahead(t.generation, m.generation, 1)
         /\ "CIRCLE" \in pressed => ~t.open
         /\ "CIRCLE" \notin pressed /\ "CROSS" \in pressed => t.waitRelease = TRUE
<1>1. CASE "CIRCLE" \in pressed
  <2> DEFINE u == [m EXCEPT !.open = FALSE]
  <2>1. Confirm(m, pressed) = Bumped(u, 1)
    BY <1>1 DEF Confirm
  <2>2. u \in Menus /\ ~u.open /\ u.selection = m.selection /\ u.generation = m.generation
    BY DEF Menus
  <2> HIDE DEF u
  <2> QED BY <1>1, <2>1, <2>2, Bumps
<1>2. CASE "CIRCLE" \notin pressed /\ "CROSS" \in pressed
  <2> DEFINE stays == Item(m) # "close"
             u == [m EXCEPT !.open = stays, !.waitRelease = TRUE]
  <2>1. Confirm(m, pressed) = Bumped(u, 1)
    BY <1>2 DEF Confirm
  <2>2. stays \in BOOLEAN
    OBVIOUS
  <2> HIDE DEF stays
  <2>3. u \in Menus /\ u.waitRelease = TRUE /\ u.selection = m.selection
        /\ u.generation = m.generation
    BY <2>2 DEF Menus
  <2> HIDE DEF u
  <2> QED BY <1>2, <2>1, <2>3, Bumps
<1>3. CASE pressed \cap {"CIRCLE", "CROSS"} = {}
  BY <1>3 DEF Confirm
<1> QED BY <1>1, <1>2, <1>3

\* What a poll makes of the menu m
Handled(m, pressed, now, t) ==
  /\ t \in Menus
  /\ ~m.open => t = m
  /\ m.open /\ m.waitRelease =>
       /\ t.open /\ t.selection = m.selection /\ t.generation = m.generation
       /\ t.waitRelease <=> now \cap MenuButtons # {}
  /\ Listens(m) =>
       /\ t.open # m.open => pressed \cap {"CIRCLE", "CROSS"} # {}
       /\ t.selection # m.selection => Turns(pressed) # {}
       /\ Listens(t) => t = m /\ pressed \cap {"UP", "DOWN", "CIRCLE", "CROSS"} = {}
       /\ \/ t = m /\ "CROSS" \notin pressed
          \/ \E n \in 1..3 : Ahead(t.generation, m.generation, n)

LEMMA Handles ==
  ASSUME NEW m \in Menus, NEW pressed, NEW now, NEW t, t = HandleInput(m, pressed, now)
  PROVE  Handled(m, pressed, now, t)
<1>1. CASE ~m.open
  BY <1>1 DEF HandleInput, Handled, Listens
<1>2. CASE m.open /\ m.waitRelease
  <2> DEFINE wait == now \cap MenuButtons # {}
  <2>1. t = [m EXCEPT !.waitRelease = wait]
    BY <1>2 DEF HandleInput, Listens
  <2>2. wait \in BOOLEAN
    OBVIOUS
  <2>3. t \in Menus /\ t.open = m.open /\ t.selection = m.selection
        /\ t.generation = m.generation /\ (t.waitRelease <=> wait)
    <3> HIDE DEF wait
    <3> QED BY <2>1, <2>2 DEF Menus
  <2>4. t.waitRelease <=> now \cap MenuButtons # {}
    BY <2>3
  <2>5. t.open /\ ~Listens(m)
    BY <1>2, <2>3 DEF Listens
  <2> HIDE DEF wait
  <2>6. t \in Menus /\ t.selection = m.selection /\ t.generation = m.generation
    BY <2>3
  <2> QED BY <1>2, <2>4, <2>5, <2>6 DEF Handled
<1>3. CASE Listens(m)
  <2> DEFINE turned == Navigate(m, pressed)
  <2>1. t = Confirm(turned, pressed)
    BY <1>3 DEF HandleInput, Listens
  <2>2. /\ turned \in Menus /\ turned.open = m.open
        /\ Turns(pressed) = {} => turned = m
        /\ Turns(pressed) # {} =>
             /\ turned.waitRelease = TRUE
             /\ \E n \in 1..2 : Ahead(turned.generation, m.generation, n)
    BY Navigates
  <2> HIDE DEF turned
  <2>3. /\ t \in Menus /\ t.selection = turned.selection
        /\ pressed \cap {"CIRCLE", "CROSS"} = {} => t = turned
        /\ pressed \cap {"CIRCLE", "CROSS"} # {} =>
             Ahead(t.generation, turned.generation, 1)
        /\ "CIRCLE" \in pressed => ~t.open
        /\ "CIRCLE" \notin pressed /\ "CROSS" \in pressed => t.waitRelease = TRUE
    <3> DEFINE u == Confirm(turned, pressed)
    <3>1. /\ u \in Menus /\ u.selection = turned.selection
          /\ pressed \cap {"CIRCLE", "CROSS"} = {} => u = turned
          /\ pressed \cap {"CIRCLE", "CROSS"} # {} =>
               Ahead(u.generation, turned.generation, 1)
          /\ "CIRCLE" \in pressed => ~u.open
          /\ "CIRCLE" \notin pressed /\ "CROSS" \in pressed => u.waitRelease = TRUE
      BY <2>2, Confirms
    <3>2. t = u
      BY <2>1
    <3> HIDE DEF u
    <3> QED BY <3>1, <3>2
  <2>4. \/ t = m /\ "CROSS" \notin pressed
        \/ \E n \in 1..3 : Ahead(t.generation, m.generation, n)
    <3>1. m.generation \in 0..(Generations - 1) /\ Generations \in Nat /\ Generations >= 5
      BY GenerationsAssumption DEF Menus
    <3>2. CASE Turns(pressed) = {} /\ pressed \cap {"CIRCLE", "CROSS"} = {}
      BY <2>2, <2>3, <3>2
    <3>3. CASE Turns(pressed) = {} /\ pressed \cap {"CIRCLE", "CROSS"} # {}
      BY <2>2, <2>3, <3>3
    <3>4. CASE Turns(pressed) # {} /\ pressed \cap {"CIRCLE", "CROSS"} = {}
      BY <2>2, <2>3, <3>4
    <3>5. CASE Turns(pressed) # {} /\ pressed \cap {"CIRCLE", "CROSS"} # {}
      <4>1. PICK n \in 1..2 : Ahead(turned.generation, m.generation, n)
        BY <2>2, <3>5
      <4>2. Ahead(t.generation, turned.generation, 1)
        BY <2>3, <3>5
      <4>3. Ahead(t.generation, m.generation, n + 1)
        BY <3>1, <4>1, <4>2 DEF Ahead
      <4> QED BY <4>3
    <3> QED BY <3>2, <3>3, <3>4, <3>5
  <2>5. Listens(t) => t = m /\ pressed \cap {"UP", "DOWN", "CIRCLE", "CROSS"} = {}
    BY <2>2, <2>3 DEF Listens, Turns
  <2>6. t.open # m.open => pressed \cap {"CIRCLE", "CROSS"} # {}
    BY <2>2, <2>3
  <2>7. t.selection # m.selection => Turns(pressed) # {}
    BY <2>2, <2>3
  <2>8. m.open /\ ~m.waitRelease
    BY <1>3 DEF Listens
  <2>9. t \in Menus
    BY <2>3
  <2> QED BY <2>4, <2>5, <2>6, <2>7, <2>8, <2>9 DEF Handled
<1>4. ~m.open \/ (m.open /\ m.waitRelease) \/ Listens(m)
  BY DEF Listens
<1> QED BY <1>1, <1>2, <1>3, <1>4

-----------------------------------------------------------------------------
(* One poll of the buttons *)

\* A poll that finds `now` held, takes `pressed` for the menu and the game, and
\* finds or makes the menu `opened`, toggling it or not
Poll(now, pressed, toggles, faster, opened) ==
  /\ toggles <=> ~latched /\ Chord \subseteq now
  /\ faster => "UP" \notin pressed
  /\ toggles => "DOWN" \notin pressed
  /\ pressed \subseteq now \ held
  /\ {"CIRCLE", "CROSS"} \cap (now \ held) \subseteq pressed
  /\ opened \in Menus /\ opened.selection = menu.selection
  /\ toggles =>
       /\ opened.open = ~menu.open /\ opened.waitRelease = ~menu.open
       /\ Ahead(opened.generation, menu.generation, 1)
  /\ ~toggles => opened = menu
  /\ Handled(opened, pressed, now, menu')
  /\ held' = now
  /\ scale' # scale => faster
  /\ latched' = Latch(now, toggles)
  /\ keys'.down = pressed \ Consumed(opened)
  /\ keys'.up = (held \ now) \ Consumed(opened)
  /\ Performed(opened, pressed) = {} => effects' = effects
  /\ quiet' = /\ menu'.selection = menu.selection
              /\ Performed(opened, pressed) = {}
              /\ toggles => ~opened.open
              /\ quiet \/ now \cap MenuButtons = {}
  /\ chordFree' = (~toggles /\ (chordFree \/ now \cap Chord = {}))

LEMMA Polled ==
  ASSUME menu \in Menus, NEW now, PollPad(now)
  PROVE  \E pressed, toggles, faster, opened : Poll(now, pressed, toggles, faster, opened)
<1> DEFINE faster == Shoulders \subseteq now /\ "UP" \in now \ held
           toggles == ~latched /\ Chord \subseteq now
           pressed == (now \ held) \ Taken(faster, toggles)
           opened == IF toggles THEN RequestDebugMenu(menu) ELSE menu
           performed == Performed(opened, pressed)
<1>1. /\ scale' = (IF faster THEN NextSpeed ELSE scale)
      /\ latched' = Latch(now, toggles)
      /\ menu' = HandleInput(opened, pressed, now)
      /\ effects' = (effects \ performed) \cup (performed \ effects)
      /\ keys' = KeyEvents(pressed, held \ now, Consumed(opened))
      /\ held' = now
      /\ quiet' = /\ menu'.selection = menu.selection
                  /\ performed = {}
                  /\ toggles => ~opened.open
                  /\ quiet \/ now \cap MenuButtons = {}
      /\ chordFree' = (~toggles /\ (chordFree \/ now \cap Chord = {}))
  BY DEF PollPad
<1>2. /\ faster => "UP" \notin pressed
      /\ toggles => "DOWN" \notin pressed
      /\ pressed \subseteq now \ held
      /\ {"CIRCLE", "CROSS"} \cap (now \ held) \subseteq pressed
  BY DEF Taken
<1>3. /\ opened \in Menus /\ opened.selection = menu.selection
      /\ toggles => /\ opened.open = ~menu.open /\ opened.waitRelease = ~menu.open
                    /\ Ahead(opened.generation, menu.generation, 1)
      /\ ~toggles => opened = menu
  BY Requests
<1>4. keys'.down = pressed \ Consumed(opened) /\ keys'.up = (held \ now) \ Consumed(opened)
  BY <1>1 DEF KeyEvents
<1>5. performed = {} => effects' = effects
  BY <1>1
<1>6. scale' # scale => faster
  BY <1>1
<1>7. toggles <=> ~latched /\ Chord \subseteq now
  OBVIOUS
<1> HIDE DEF toggles, faster, pressed, opened
<1>8. Handled(opened, pressed, now, menu')
  BY <1>1, <1>3, Handles
<1>9. Poll(now, pressed, toggles, faster, opened)
  BY <1>1, <1>2, <1>3, <1>4, <1>5, <1>6, <1>7, <1>8 DEF Poll
<1> QED BY <1>9

-----------------------------------------------------------------------------
(* The buttons *)

\* A menu that listens has seen its buttons released; a free latch has seen the
\* chord's released.
ButtonInv ==
  /\ menu \in Menus
  /\ held \subseteq Pad
  /\ Listens(menu) => quiet
  /\ ~latched => chordFree

LEMMA PollKeeps ==
  ASSUME ButtonInv, NEW now \in SUBSET Pad, NEW pressed, NEW toggles, NEW faster, NEW opened,
         Poll(now, pressed, toggles, faster, opened)
  PROVE  ButtonInv'
<1>1. menu' \in Menus /\ held' \subseteq Pad
  BY DEF Poll, Handled
<1>2. ~latched' => chordFree'
  <2>1. latched' = ((latched \/ toggles) /\ Chord \cap now # {})
    BY DEF Poll, Latch
  <2>2. chordFree' = (~toggles /\ (chordFree \/ now \cap Chord = {}))
    BY DEF Poll
  <2>3. toggles => Chord \cap now # {}
    BY DEF Poll, Chord
  <2>4. Chord \cap now = now \cap Chord
    OBVIOUS
  <2> QED BY <2>1, <2>2, <2>3, <2>4 DEF ButtonInv
<1>3. ASSUME Listens(menu') PROVE quiet'
  <2>1. CASE toggles
    <3>1. "DOWN" \in now \cap MenuButtons
      BY <2>1 DEF Poll, Chord, MenuButtons
    <3> QED BY <1>3, <2>1, <3>1 DEF Poll, Handled, Listens
  <2>2. CASE ~toggles
    <3>1. /\ opened = menu /\ Handled(menu, pressed, now, menu')
          /\ quiet' = /\ menu'.selection = menu.selection
                      /\ Performed(menu, pressed) = {}
                      /\ quiet \/ now \cap MenuButtons = {}
      BY <2>2 DEF Poll
    <3>2. (menu'.selection = menu.selection /\ "CROSS" \notin pressed) \/ ~Listens(menu)
      BY <1>3, <3>1 DEF Handled
    <3>3. menu.open
      BY <1>3, <3>1 DEF Handled, Listens
    <3>4. CASE Listens(menu)
      BY <3>1, <3>2, <3>4 DEF ButtonInv, Performed
    <3>5. CASE ~Listens(menu)
      BY <1>3, <3>1, <3>3, <3>5 DEF Handled, Listens, Performed
    <3> QED BY <3>4, <3>5
  <2> QED BY <2>1, <2>2
<1> QED BY <1>1, <1>2, <1>3 DEF ButtonInv

LEMMA ButtonStep ==
  ASSUME ButtonInv, [Next]_vars PROVE ButtonInv'
<1>1. CASE Buttons
  <2> PICK now \in SUBSET Pad : PollPad(now)
    BY <1>1 DEF Buttons
  <2> PICK pressed, toggles, faster, opened : Poll(now, pressed, toggles, faster, opened)
    BY Polled DEF ButtonInv
  <2> QED BY PollKeeps
<1>2. CASE UNCHANGED <<menu, held, latched, quiet, chordFree>>
  BY <1>2 DEF ButtonInv, Listens
<1> QED BY <1>1, <1>2 DEF Next, Touch, PollTouch, padVars, MenuFrame, GameFrame, vars

LEMMA ButtonAlways == Spec => []ButtonInv
<1>1. Init => ButtonInv
  BY ItemsAssumption, GenerationsAssumption
     DEF Init, ControlsInit, ClosedMenu, Menus, Rows, ButtonInv, Listens
<1> QED BY <1>1, ButtonStep, PTL DEF Spec

\* What only a poll changes
LEMMA OtherSteps ==
  ASSUME Next, ~Buttons
  PROVE  /\ at # "pad" /\ UNCHANGED <<held, menu, scale, latched>>
BY DEF Next, Touch, PollTouch, padVars, MenuFrame, GameFrame

\* The game gets nothing but shoulder buttons from the poll that opens the menu to
\* the one that closes it (controls.c:186-199, patch.c:255-266).
THEOREM MenuTakesButtons == Spec => MenuOwnsButtons
<1> DEFINE Owned == at = "pad" /\ (menu.open \/ menu'.open) =>
                      \/ keys'.down \cup keys'.up \subseteq Shoulders
                      \/ Chord \subseteq held' /\ ~menu'.open
<1>1. ButtonInv /\ [Next]_vars => [Owned]_vars
  <2> SUFFICES ASSUME ButtonInv, Next, Buttons PROVE Owned
    BY OtherSteps
  <2> PICK now \in SUBSET Pad : PollPad(now)
    BY DEF Buttons
  <2> PICK pressed, toggles, faster, opened : Poll(now, pressed, toggles, faster, opened)
    BY Polled DEF ButtonInv
  <2>1. CASE opened.open
    <3>1. /\ keys'.down \subseteq Pad \ MenuButtons /\ keys'.up \subseteq Pad \ MenuButtons
      BY <2>1 DEF Poll, Consumed, ButtonInv
    <3> QED BY <3>1, PadAssumption
  <2>2. CASE ~opened.open
    <3>1. ~menu'.open
      BY <2>2 DEF Poll, Handled
    <3>2. menu.open => Chord \subseteq held'
      BY <2>2 DEF Poll
    <3> QED BY <3>1, <3>2
  <2> QED BY <2>1, <2>2
<1> QED BY <1>1, ButtonAlways, PTL DEF Spec, MenuOwnsButtons

\* A press changes the speed, toggles the menu, or moves the selection: one of
\* them (controls.c:164-179).
THEOREM PressesOnce == Spec => OneEffectPerPress
<1> DEFINE Once ==
      /\ scale' # scale =>
           /\ "UP" \notin keys'.down
           /\ "DOWN" \in held' \ held \/ menu'.selection = menu.selection
      /\ latched' /\ ~latched =>
           "DOWN" \notin keys'.down /\ menu'.selection = menu.selection
<1>1. ButtonInv /\ [Next]_vars => [Once]_vars
  <2> SUFFICES ASSUME ButtonInv, Next, Buttons PROVE Once
    BY OtherSteps
  <2> PICK now \in SUBSET Pad : PollPad(now)
    BY DEF Buttons
  <2> PICK pressed, toggles, faster, opened : Poll(now, pressed, toggles, faster, opened)
    BY Polled DEF ButtonInv
  <2>1. Turns(pressed) = {} \/ toggles => menu'.selection = menu.selection
    BY DEF Poll, Handled, Listens
  <2>2. scale' # scale => "UP" \notin pressed
    BY DEF Poll
  <2>3. latched' /\ ~latched => toggles
    BY DEF Poll, Latch
  <2>4. /\ keys'.down \subseteq pressed /\ pressed \subseteq held' \ held
        /\ toggles => "DOWN" \notin pressed
    BY DEF Poll
  <2> QED BY <2>1, <2>2, <2>3, <2>4 DEF Turns
<1> QED BY <1>1, ButtonAlways, PTL DEF Spec, OneEffectPerPress

\* The menu moves or acts only after all its buttons were seen released since it
\* opened or last acted (patch.c:263-267).
THEOREM ActsReleased == Spec => ActsOnlyAfterRelease
<1> DEFINE Released ==
      at = "pad" /\ (menu'.selection # menu.selection \/ effects' # effects) => quiet
<1>1. ButtonInv /\ [Next]_vars => [Released]_vars
  <2> SUFFICES ASSUME ButtonInv, Next, Buttons PROVE Released
    BY OtherSteps
  <2> PICK now \in SUBSET Pad : PollPad(now)
    BY DEF Buttons
  <2> PICK pressed, toggles, faster, opened : Poll(now, pressed, toggles, faster, opened)
    BY Polled DEF ButtonInv
  <2>1. ~Listens(opened) => menu'.selection = menu.selection /\ effects' = effects
    BY DEF Poll, Handled, Listens, Performed
  <2>2. Listens(opened) => Listens(menu)
    BY DEF Poll, Listens
  <2> QED BY <2>1, <2>2 DEF ButtonInv
<1> QED BY <1>1, ButtonAlways, PTL DEF Spec, ActsOnlyAfterRelease

\* Between two toggles by the chord all of its buttons were released together
\* (controls.c:173-184).
THEOREM TogglesOnce == Spec => ChordTogglesOnce
<1> DEFINE Toggled ==
      /\ menu'.open # menu.open
      /\ {"CIRCLE", "CROSS"} \cap (held' \ held) = {}
      => chordFree
<1>1. ButtonInv /\ [Next]_vars => [Toggled]_vars
  <2> SUFFICES ASSUME ButtonInv, Next, Buttons PROVE Toggled
    BY OtherSteps
  <2> PICK now \in SUBSET Pad : PollPad(now)
    BY DEF Buttons
  <2> PICK pressed, toggles, faster, opened : Poll(now, pressed, toggles, faster, opened)
    BY Polled DEF ButtonInv
  <2>1. CASE toggles
    BY <2>1 DEF Poll, ButtonInv
  <2>2. CASE ~toggles
    <3>1. menu'.open # menu.open => pressed \cap {"CIRCLE", "CROSS"} # {}
      BY <2>2 DEF Poll, Handled, Listens, Menus
    <3> QED BY <3>1 DEF Poll
  <2> QED BY <2>1, <2>2
<1> QED BY <1>1, ButtonAlways, PTL DEF Spec, ChordTogglesOnce

-----------------------------------------------------------------------------
(* The menu on the screen *)

\* At most four changes lie between two menu frames: those of the poll that closed
\* the menu, at most three, and the one that opens it again.
FrameInv ==
  /\ shown \in 0..(Generations - 1)
  /\ ~menu.open => \E n \in 0..3 : Ahead(menu.generation, shown, n)
  /\ menu.open =>
       \/ menu.generation = shown /\ screen = Picture
       \/ at = "frame" /\ \E n \in 1..4 : Ahead(menu.generation, shown, n)

LEMMA Further ==
  ASSUME NEW r, NEW s, NEW t, NEW m \in 0..3, NEW n \in 0..3, m + n <= 4,
         Ahead(s, r, m), Ahead(t, s, n), r \in 0..(Generations - 1)
  PROVE  Ahead(t, r, m + n)
BY GenerationsAssumption DEF Ahead

LEMMA FramePoll ==
  ASSUME ButtonInv, FrameInv, Buttons PROVE FrameInv'
<1> USE GenerationsAssumption
<1>0. at = "pad" /\ at' = "frame" /\ UNCHANGED <<shown, screen>>
  BY DEF Buttons
<1> PICK now \in SUBSET Pad : PollPad(now)
  BY DEF Buttons
<1> PICK pressed, toggles, faster, opened : Poll(now, pressed, toggles, faster, opened)
  BY Polled DEF ButtonInv
<1>1. CASE menu.open /\ toggles
  <2>1. menu' = opened /\ ~opened.open /\ Ahead(opened.generation, menu.generation, 1)
    BY <1>1 DEF Poll, Handled
  <2>2. menu.generation = shown
    BY <1>0, <1>1 DEF FrameInv
  <2> QED BY <1>0, <2>1, <2>2 DEF FrameInv
<1>2. CASE menu.open /\ ~toggles
  <2>1. Handled(menu, pressed, now, menu') /\ (Performed(menu, pressed) = {} => effects' = effects)
    BY <1>2 DEF Poll
  <2>2. menu.generation = shown /\ screen = Picture
    BY <1>0, <1>2 DEF FrameInv
  <2>3. \/ /\ menu'.generation = menu.generation /\ menu'.open
           /\ menu'.selection = menu.selection /\ effects' = effects
        \/ \E n \in 1..3 : Ahead(menu'.generation, menu.generation, n)
    BY <1>2, <2>1 DEF Handled, Listens, Performed
  <2>4. CASE \E n \in 1..3 : Ahead(menu'.generation, menu.generation, n)
    BY <1>0, <2>2, <2>4 DEF FrameInv
  <2>5. CASE /\ menu'.generation = menu.generation /\ menu'.open
             /\ menu'.selection = menu.selection /\ effects' = effects
    BY <1>0, <2>2, <2>5 DEF FrameInv, Picture
  <2> QED BY <2>3, <2>4, <2>5
<1>3. CASE ~menu.open /\ toggles
  <2>1. /\ opened.open /\ opened.waitRelease /\ Handled(opened, pressed, now, menu')
        /\ Ahead(opened.generation, menu.generation, 1)
    BY <1>3 DEF Poll
  <2>2. menu'.open /\ menu'.generation = opened.generation
    BY <2>1 DEF Handled
  <2>3. PICK n \in 0..3 : Ahead(menu.generation, shown, n)
    BY <1>3 DEF FrameInv
  <2>4. shown \in 0..(Generations - 1)
    BY DEF FrameInv
  <2>5. Ahead(menu'.generation, shown, n + 1)
    BY <2>1, <2>2, <2>3, <2>4, Further
  <2> QED BY <1>0, <2>2, <2>4, <2>5 DEF FrameInv
<1>4. CASE ~menu.open /\ ~toggles
  <2>1. menu' = menu
    BY <1>4 DEF Poll, Handled
  <2> QED BY <1>0, <1>4, <2>1 DEF FrameInv
<1> QED BY <1>1, <1>2, <1>3, <1>4

LEMMA FrameStep ==
  ASSUME ButtonInv, FrameInv, [Next]_vars PROVE FrameInv'
<1>1. CASE Buttons
  BY <1>1, FramePoll
<1>2. CASE Touch
  BY <1>2 DEF Touch, PollTouch, padVars, FrameInv, Picture
<1>3. CASE MenuFrame
  <2>1. UNCHANGED <<menu, effects>> /\ menu.open
    BY <1>3 DEF MenuFrame, padVars
  <2>2. menu.generation \in 0..(Generations - 1)
    BY DEF ButtonInv, Menus
  <2>3. menu.generation = shown => screen = Picture
    BY <2>1, <2>2, GenerationsAssumption DEF FrameInv, Ahead
  <2>4. menu.generation = shown' /\ screen' = Picture /\ Picture' = Picture
    BY <1>3, <2>1, <2>3 DEF MenuFrame, Picture
  <2> QED BY <2>1, <2>2, <2>4 DEF FrameInv
<1>4. CASE GameFrame
  BY <1>4 DEF GameFrame, FrameInv
<1>5. CASE UNCHANGED vars
  BY <1>5 DEF vars, padVars, FrameInv, Picture
<1> QED BY <1>1, <1>2, <1>3, <1>4, <1>5 DEF Next

\* The picture of an open menu is never behind its state: the generations differ
\* whenever the two do, although they are only counted modulo 2^32 and are compared
\* only while the menu is open (main.c:226-233).
THEOREM FramesCurrent == Spec => []MenuFrameCurrent
<1>1. Init => FrameInv
  BY GenerationsAssumption DEF Init, ControlsInit, ClosedMenu, FrameInv, Ahead
<1>2. ButtonInv /\ FrameInv /\ [Next]_vars => FrameInv'
  BY FrameStep
<1>3. FrameInv => MenuFrameCurrent
  BY DEF FrameInv, MenuFrameCurrent
<1> QED BY <1>1, <1>2, <1>3, ButtonAlways, PTL DEF Spec

-----------------------------------------------------------------------------
(* Types *)

LEMMA PerformedType ==
  ASSUME NEW m \in Menus, NEW pressed
  PROVE  Performed(m, pressed) \subseteq Flags \cup {"call"}
<1> DEFINE turned == Navigate(m, pressed)
<1>1. turned \in Menus
  BY Navigates
<1> HIDE DEF turned
<1>2. Item(turned) \in Flags \cup {"call", "close"}
  <2>1. PICK rows \in Nat \ {0} : rows = Len(Items)
    BY ItemsAssumption
  <2>2. turned.selection + 1 \in 1..rows
    BY <1>1, <2>1 DEF Menus, Rows
  <2> QED BY <2>1, <2>2, ItemsAssumption DEF Item
<1>3. Performed(m, pressed) \subseteq {Item(turned)} \ {"close"}
  BY DEF Performed, turned
<1> QED BY <1>2, <1>3

LEMMA PadTypes ==
  ASSUME TypeOK, ButtonInv, NEW now \in SUBSET Pad, PollPad(now)
  PROVE  ControlsTypeOK'
<1> PICK pressed, toggles, faster, opened : Poll(now, pressed, toggles, faster, opened)
  BY Polled DEF ButtonInv
<1>1. menu' \in Menus /\ held' \in SUBSET Pad /\ latched' \in BOOLEAN
      /\ quiet' \in BOOLEAN /\ chordFree' \in BOOLEAN
  BY DEF Poll, Handled, Latch
<1>2. keys' \in [down : SUBSET Pad, up : SUBSET Pad]
  BY DEF PollPad, KeyEvents, TypeOK, ControlsTypeOK
<1>3. gameKeys' \in SUBSET Pad
  BY <1>2 DEF PollPad, TypeOK, ControlsTypeOK
<1>4. touches' \in [down : SUBSET Fingers, move : SUBSET Fingers, up : SUBSET Fingers]
  BY DEF PollPad, NoTouches
<1>5. scale' \in Speeds
  <2>1. scale' = scale \/ scale' = NextSpeed
    BY DEF PollPad
  <2>2. scale \in Speeds
    BY DEF TypeOK, ControlsTypeOK
  <2> QED BY <2>1, <2>2 DEF NextSpeed, Speeds
<1>6. effects' \in SUBSET (Flags \cup {"call"})
  <2>1. PICK m \in Menus : \E presses :
               effects' = (effects \ Performed(m, presses)) \cup (Performed(m, presses) \ effects)
    BY Requests DEF PollPad, ButtonInv
  <2>2. \A presses : Performed(m, presses) \subseteq Flags \cup {"call"}
    BY PerformedType
  <2> QED BY <2>1, <2>2 DEF TypeOK, ControlsTypeOK
<1>7. UNCHANGED touchVars
  BY DEF PollPad
<1> QED BY <1>1, <1>2, <1>3, <1>4, <1>5, <1>6, <1>7
        DEF TypeOK, ControlsTypeOK, touchVars

LEMMA TypeStep ==
  ASSUME TypeOK, ButtonInv, [Next]_vars PROVE TypeOK'
<1>1. CASE Touch
  <2>1. PICK reported \in SUBSET Fingers : \E onAd \in SUBSET (reported \ touching) :
               PollTouch(reported, onAd)
    BY <1>1 DEF Touch
  <2>2. PICK onAd \in SUBSET (reported \ touching) : PollTouch(reported, onAd)
    BY <2>1
  <2>3. at' = "pad" /\ UNCHANGED <<shown, screen, padVars>>
    BY <1>1 DEF Touch, PollTouch
  <2>4. touches' \in [down : SUBSET Fingers, move : SUBSET Fingers, up : SUBSET Fingers]
    BY <2>2 DEF PollTouch, TouchEvents, TypeOK, ControlsTypeOK
  <2>5. Suppresses(reported \ touching, onAd) \subseteq Fingers
        /\ Blocked(reported \ touching, onAd) \subseteq Fingers
    BY DEF Suppresses, Blocked
  <2>6. touching' \in SUBSET Fingers /\ suppressed' \in SUBSET Fingers
        /\ unwanted' \in SUBSET Fingers
    BY <2>2, <2>5 DEF PollTouch, TypeOK, ControlsTypeOK
  <2>7. gameTouches' \in SUBSET Fingers
    BY <2>2, <2>4 DEF PollTouch, TypeOK, ControlsTypeOK
  <2>8. keys' \in [down : SUBSET Pad, up : SUBSET Pad]
    BY <2>2 DEF PollTouch, NoKeys
  <2> QED BY <2>3, <2>4, <2>6, <2>7, <2>8 DEF TypeOK, ControlsTypeOK, padVars
<1>2. CASE Buttons
  <2> PICK now \in SUBSET Pad : PollPad(now)
    BY <1>2 DEF Buttons
  <2>1. ControlsTypeOK'
    BY PadTypes
  <2> QED BY <1>2, <2>1 DEF Buttons, TypeOK
<1>3. CASE MenuFrame
  <2>1. keys' = NoKeys /\ touches' = NoTouches /\ at' = "touch"
        /\ UNCHANGED <<touchVars, padVars>>
    BY <1>3 DEF MenuFrame
  <2>2. ControlsTypeOK'
    BY <2>1 DEF TypeOK, ControlsTypeOK, touchVars, padVars, NoKeys, NoTouches
  <2>3. Picture \in Screens /\ menu.generation \in 0..(Generations - 1)
    BY DEF Picture, Screens, TypeOK, ControlsTypeOK, Menus
  <2>4. shown' \in 0..(Generations - 1) /\ screen' \in Screens
    BY <1>3, <2>3 DEF MenuFrame, TypeOK
  <2> QED BY <2>1, <2>2, <2>4 DEF TypeOK
<1>4. CASE GameFrame
  <2>1. effects' \in SUBSET (Flags \cup {"call"})
    BY <1>4 DEF GameFrame, TypeOK, ControlsTypeOK
  <2>2. keys' = NoKeys /\ touches' = NoTouches /\ at' = "touch"
        /\ UNCHANGED <<touchVars, held, latched, menu, scale, gameKeys, quiet, chordFree,
                       shown, screen>>
    BY <1>4 DEF GameFrame
  <2> QED BY <2>1, <2>2 DEF TypeOK, ControlsTypeOK, touchVars, NoKeys, NoTouches
<1>5. CASE UNCHANGED vars
  BY <1>5 DEF vars, touchVars, padVars, TypeOK, ControlsTypeOK
<1> QED BY <1>1, <1>2, <1>3, <1>4, <1>5 DEF Next

\* The loop's variables keep their types, whatever the panel and the pad report.
THEOREM TypeCorrect == Spec => []TypeOK
<1>1. ASSUME Init PROVE TypeOK
  <2>1. 0 \in Rows /\ 0 \in 0..(Generations - 1)
    <3>1. PICK rows \in Nat \ {0} : rows = Len(Items)
      BY ItemsAssumption
    <3> QED BY <3>1, GenerationsAssumption DEF Rows
  <2>2. ClosedMenu \in Menus
    BY <2>1 DEF ClosedMenu, Menus
  <2>3. [selection |-> 0, flags |-> {}] \in Screens
    BY <2>1 DEF Screens
  <2>4. ControlsTypeOK
    BY <1>1, <2>2 DEF Init, ControlsInit, ControlsTypeOK, Speeds, NoKeys, NoTouches
  <2> QED BY <1>1, <2>1, <2>3, <2>4 DEF Init, TypeOK
<1> QED BY <1>1, TypeStep, ButtonAlways, PTL DEF Spec
=============================================================================
