------------------------------ MODULE CheatMenu ------------------------------
(***************************************************************************)
(* The Vita-native cheat menu of source/patch.c (80-83, 242-311) as        *)
(* functions on its state.  Controls calls them from poll_pad, MainLoop    *)
(* reads them to decide what a frame draws.                                *)
(***************************************************************************)
EXTENDS Integers, Sequences

CONSTANTS
  Items,       \* what the menu's rows do, first row first: "close" or an effect
  Flags,       \* the effects that are flags in the game's memory
  Generations  \* native_debug_generation counts modulo this (2^32)

ASSUME ItemsAssumption ==
  /\ Items \in Seq(Flags \cup {"call", "close"}) /\ Len(Items) > 0
  /\ {"call", "close"} \cap Flags = {}

\* More changes than this can hold never happen between two drawn frames.
ASSUME GenerationsAssumption == Generations \in Nat /\ Generations >= 5

EveryButton ==
  { "UP", "DOWN", "LEFT", "RIGHT", "CROSS", "CIRCLE", "SQUARE", "TRIANGLE",
    "START", "SELECT", "L1", "R1" }

\* Every button the menu takes: all but the two shoulder buttons.
MenuButtons ==
  { "UP", "DOWN", "LEFT", "RIGHT", "CROSS", "CIRCLE", "SQUARE", "TRIANGLE",
    "START", "SELECT" }

Rows == 0..(Len(Items) - 1)

Menus == [ open : BOOLEAN, waitRelease : BOOLEAN, selection : Rows,
           generation : 0..(Generations - 1) ]

ClosedMenu ==
  [open |-> FALSE, waitRelease |-> FALSE, selection |-> 0, generation |-> 0]

Bumped(menu, n) == [menu EXCEPT !.generation = (@ + n) % Generations]

RequestListening(menu) == Bumped([menu EXCEPT !.open = ~@, !.waitRelease = FALSE], 1)

\* cheats_request_debug_menu
RequestDebugMenu(menu) ==
  Bumped([menu EXCEPT !.open = ~@, !.waitRelease = ~menu.open], 1)

Item(menu) == Items[menu.selection + 1]

Listens(menu) == menu.open /\ ~menu.waitRelease

ConsumedListening(menu) == IF Listens(menu) THEN MenuButtons ELSE {}

\* The buttons cheats_handle_input takes from the game.
Consumed(menu) == IF menu.open THEN MenuButtons ELSE {}

\* UP and DOWN move the selection, each asking for a release first.
Navigate(menu, pressed) ==
  LET turns == pressed \cap {"UP", "DOWN"}
      up == IF "UP" \in turns THEN Len(Items) - 1 ELSE 0
      down == IF "DOWN" \in turns THEN 1 ELSE 0
  IN  IF turns = {} THEN menu
      ELSE Bumped([menu EXCEPT !.selection = (@ + up + down) % Len(Items),
                               !.waitRelease = TRUE],
                  IF turns = {"UP", "DOWN"} THEN 2 ELSE 1)

ConfirmUnannounced(menu, pressed) ==
  CASE "CIRCLE" \in pressed -> Bumped([menu EXCEPT !.open = FALSE], 1)
    [] "CIRCLE" \notin pressed /\ "CROSS" \in pressed ->
         [menu EXCEPT !.open = Item(menu) # "close", !.waitRelease = TRUE]
    [] OTHER -> menu

\* CIRCLE closes; otherwise CROSS performs the selected row.
Confirm(menu, pressed) ==
  CASE "CIRCLE" \in pressed ->
         Bumped([menu EXCEPT !.open = FALSE], 1)
    [] "CIRCLE" \notin pressed /\ "CROSS" \in pressed ->
         Bumped([menu EXCEPT !.open = Item(menu) # "close",
                             !.waitRelease = TRUE], 1)
    [] OTHER -> menu

\* cheats_handle_input's effect on the menu ...
HandleInput(menu, pressed, held) ==
  CASE ~menu.open -> menu
    [] menu.open /\ menu.waitRelease ->
         [menu EXCEPT !.waitRelease = held \cap MenuButtons # {}]
    [] Listens(menu) -> Confirm(Navigate(menu, pressed), pressed)

\* ... and on the game: what the confirmed row does, {} when none is.
Performed(menu, pressed) ==
  IF Listens(menu) /\ "CROSS" \in pressed /\ "CIRCLE" \notin pressed
  THEN {Item(Navigate(menu, pressed))} \ {"close"}
  ELSE {}
=============================================================================
