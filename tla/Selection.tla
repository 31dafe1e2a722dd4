------------------------------ MODULE Selection ------------------------------
(***************************************************************************)
(* From the mouse to commands: the pixels of a window (client/view         *)
(* computeLayout, buildSnapshot; client/input BoardMapper), the selection  *)
(* (client/input Controller), and the double-clicks of a frame             *)
(* (client/app GameApp::dispatchBoardInput).                               *)
(*                                                                         *)
(* A mouse action is [double, at]; a pixel is <<x, y>>.  The controller is *)
(* a pair of the selected cell, as a set with at most one member, and the  *)
(* commands it has sent.                                                   *)
(***************************************************************************)
EXTENDS Replica

CONSTANTS
    CellPx,     \* the side of a cell, in pixels
    PanelPx     \* the width of a side panel

ASSUME CellPxType == CellPx \in Nat \ {0}
ASSUME PanelPxType == PanelPx \in Nat

\* The board is drawn between the two panels, at the top of the frame.
BoardOrigin == <<PanelPx, 0>>

CellPixel(c) == <<BoardOrigin[1] + c[2] * CellPx, BoardOrigin[2] + c[1] * CellPx>>

\* BoardMapper::toCell.  Left of the board and above it are ruled out first:
\* the division of the code rounds towards zero.
ToCell(pixel) ==
    LET x == pixel[1] - BoardOrigin[1]
        y == pixel[2] - BoardOrigin[2]
        cell == <<y \div CellPx, x \div CellPx>>
    IN  IF x < 0 \/ y < 0 \/ cell[1] >= Height \/ cell[2] >= Width
        THEN {}
        ELSE {cell}

-----------------------------------------------------------------------------
(***************************************************************************)
(* The scene: the pixels at which the pieces and the highlights of a frame *)
(* are drawn.  A piece under way slides out of its square, how far is left *)
(* out; so it is not among the pieces drawn on theirs.                     *)
(***************************************************************************)
Slides(frame, p) ==
    /\ frame.board.state[p] = "Moving"
    /\ \E m \in frame.motions : m.from = frame.board.cell[p]

PiecesDrawn(frame) ==
    {[piece |-> p, at |-> CellPixel(frame.board.cell[p])] :
        p \in {q \in Piece : OnBoard(frame.board, q) /\ ~Slides(frame, q)}}

HighlightsDrawn(frame, own, selected) ==
    {CellPixel(c) : c \in UNION {HighlightsFor(frame, own, s) : s \in selected}}

-----------------------------------------------------------------------------
(***************************************************************************)
(* Controller.                                                             *)
(***************************************************************************)
FirstClick(frame, cells) == {c \in cells : Occupied(frame.board, c)}

\* Mutant: any piece is selected anew.
ReselectsAnyPiece(frame, s, c) == Occupied(frame.board, c)

IsReselection(frame, s, c) ==
    /\ Occupied(frame.board, c)
    /\ Occupied(frame.board, s)
    /\ ColorOf(frame.board.at[c]) = ColorOf(frame.board.at[s])

SecondClick(frame, own, s, c) ==
    IF IsReselection(frame, s, c)
    THEN [selected |-> {c}, commands |-> << >>]
    ELSE [selected |-> {}, commands |-> CommandsFor(frame, own, s, c)]

\* A second click beside the board cancels the selection.
HandleClick(frame, own, selected, pixel) ==
    IF selected = {}
    THEN [selected |-> FirstClick(frame, ToCell(pixel)), commands |-> << >>]
    ELSE IF ToCell(pixel) = {}
    THEN [selected |-> {}, commands |-> << >>]
    ELSE LET s == CHOOSE s \in selected : TRUE
             c == CHOOSE c \in ToCell(pixel) : TRUE
         IN  SecondClick(frame, own, s, c)

HandleJump(frame, own, selected, pixel) ==
    [selected |-> selected,
     commands |-> IF ToCell(pixel) = {} THEN << >>
                  ELSE LET c == CHOOSE c \in ToCell(pixel) : TRUE
                       IN  CommandsFor(frame, own, c, c)]

-----------------------------------------------------------------------------
(***************************************************************************)
(* The mouse actions of one frame.  The click that opens a double-click in *)
(* the same frame is dropped.                                              *)
(***************************************************************************)
\* Mutant: every click counts.
NeverOpens(actions, i) == FALSE

OpensDoubleClick(actions, i) ==
    /\ ~actions[i].double
    /\ i + 1 \in DOMAIN actions
    /\ actions[i + 1].double
    /\ actions[i + 1].at = actions[i].at

\* One action, on top of what the frame's actions before it have done.
Acted(frame, own, done, action) ==
    LET next == IF action.double
                THEN HandleJump(frame, own, done.selected, action.at)
                ELSE HandleClick(frame, own, done.selected, action.at)
    IN  [selected |-> next.selected,
         commands |-> done.commands \o next.commands]

\* One action or two: no frame is long enough for more (MouseActions of Play).
Dispatched(frame, own, selected, actions) ==
    LET start == [selected |-> selected, commands |-> << >>]
        first == IF OpensDoubleClick(actions, 1) THEN start
                 ELSE Acted(frame, own, start, actions[1])
    IN  IF Len(actions) = 1 THEN first
        ELSE Acted(frame, own, first, actions[2])

=============================================================================
