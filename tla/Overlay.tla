------------------------------- MODULE Overlay -------------------------------
(***************************************************************************)
(* What source/utils/glutil.c (48-262) draws over the game's frame with    *)
(* scissored clears: the cheat menu and the speed indicator.  Lengths are  *)
(* in pixels of the 960 by 544 screen, y upwards.                          *)
(***************************************************************************)
EXTENDS Integers, Sequences

CONSTANTS
  Labels,   \* the length of the longest text of each menu row (glutil.c:127-177)
  Boxes, Colors, Masks  \* values of the game's GL state

\* the overlay's own values are none of the game's
Overlays == "overlay"

VARIABLES
  gl,       \* GL state: scissor test, scissor box, clear colour, colour mask
  games,    \* the same as the game left it
  frame     \* what the overlay drew: [kind, at, rects]

vars == <<gl, games, frame>>

GameStates == [test : BOOLEAN, scissor : Boxes, clear : Colors, mask : Masks]
NoOverlay == [kind |-> "none"]

Init ==
  /\ gl \in {s \in GameStates : ~s.test}
  /\ games = gl
  /\ frame = NoOverlay

\* the game draws its frame
GameDraws ==
  /\ frame # NoOverlay
  /\ gl' \in GameStates
  /\ games' = gl'
  /\ frame' = NoOverlay

Rect(x, y, width, height) == [x |-> x, y |-> y, w |-> width, h |-> height]

\* overlay_draw_text: glyphs are 3 by 5, 4 apart
Text(x, y, scale, length) == Rect(x, y, 4 * scale * length - scale, 5 * scale)

\* State while the overlay draws, and after it
Drawing(state) == [test |-> TRUE, scissor |-> Overlays, clear |-> Overlays, mask |-> Overlays]
AfterForgetful(state) == [state EXCEPT !.test = Drawing(state).test]
After(state) ==
  LET drawing == Drawing(state)
  IN  [clear |-> state.clear, mask |-> state.mask, scissor |-> state.scissor,
       test |-> IF state.test THEN drawing.test ELSE FALSE]

VisibleRows == 10

\* The first row shown, the selection in the middle where there is room.
First(selection) ==
  IF selection < 4 THEN 0
  ELSE IF selection - 4 > Len(Labels) - VisibleRows THEN Len(Labels) - VisibleRows
  ELSE selection - 4

RowY(row) == 394 - 31 * row
Highlight(row) == Rect(222, RowY(row) - 5, 516, 23)

\* gl_draw_cheat_menu
DrawCheatMenu(selection) ==
  /\ frame = NoOverlay
  /\ LET first == First(selection)
         shown == 0..(VisibleRows - 1)
     IN  frame' = [kind |-> "menu", at |-> selection,
           rows |-> [row \in shown |-> first + row],
           highlights |-> {row \in shown : first + row = selection},
           rects |-> {Rect(180, 68, 600, 410), Rect(188, 76, 584, 394),
                      Text(324, 438, 4, 10), Text(306, 86, 3, 22)}
             \cup {Highlight(row) : row \in {r \in shown : first + r = selection}}
             \cup {Text(238, RowY(row), 2, 1) : row \in shown}
             \cup {Text(254, RowY(row), 2, Labels[first + row + 1]) : row \in shown}]
  /\ gl' = After(gl)
  /\ UNCHANGED games

\* gl_draw_speed_indicator; speed 1 is not shown
DrawSpeed(speed) ==
  /\ frame = NoOverlay /\ speed > 1
  /\ LET glyphs == IF speed < 10 THEN 2 ELSE 3
         width == 8 + 16 * glyphs
         x == 952 - width
     IN  frame' = [kind |-> "speed", at |-> speed,
           rects |-> {Rect(x, 510, width, 28)}
             \cup {Text(x + 4 + 16 * glyph, 514, 4, 1) : glyph \in 0..(glyphs - 1)}]
  /\ gl' = After(gl)
  /\ UNCHANGED games

Next ==
  \/ GameDraws
  \/ \E selection \in 0..(Len(Labels) - 1) : DrawCheatMenu(selection)
  \/ \E speed \in {2, 4, 8, 16} : DrawSpeed(speed)

Inside(r, box) ==
  /\ box.x <= r.x /\ r.x + r.w <= box.x + box.w
  /\ box.y <= r.y /\ r.y + r.h <= box.y + box.h

\* The overlays leave the game's GL state as it was, stay inside their panels and
\* the screen, and the menu shows the selected row, highlighted, wherever the list
\* is scrolled to (glutil.c:123-262).
OverlayHarmless ==
  /\ gl = games
  /\ frame.kind = "menu" =>
       /\ \A r \in frame.rects : Inside(r, Rect(180, 68, 600, 410))
       /\ \A row \in DOMAIN frame.rows : frame.rows[row] \in 0..(Len(Labels) - 1)
       /\ \E row \in DOMAIN frame.rows :
            frame.rows[row] = frame.at /\ frame.highlights = {row}
  /\ frame.kind = "speed" =>
       /\ \A r \in frame.rects : Inside(r, Rect(0, 0, 960, 544))
       /\ \A r \in frame.rects : r.h = 28 \/ \E p \in frame.rects : p.h = 28 /\ Inside(r, p)
=============================================================================
