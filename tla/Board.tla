------------------------------- MODULE Board -------------------------------
(***************************************************************************)
(* The board and its pieces (shared/logic/model): which piece stands on    *)
(* which cell, and what each Piece object says of itself.  The code keeps  *)
(* the two facts apart -- a grid of pointers, and a cell_ field inside     *)
(* each Piece -- so both are kept here, and that they agree is a property  *)
(* to establish, not a definition.                                         *)
(*                                                                         *)
(* A board is a record                                                     *)
(*   at    : the grid, from cells to a piece or NoPiece,                   *)
(*   cell, kind, state : the fields of each Piece.                         *)
(* The operators below are the methods of Board; a caller supplies what    *)
(* the method needs so as not to throw (a piece at the origin, an empty    *)
(* destination), and its invariants say that it always does.               *)
(***************************************************************************)
EXTENDS Geometry

CONSTANTS
    Piece,      \* the identities of the pieces (Piece::getId)
    White,      \* the white pieces; the others are black
    NoPiece     \* an empty cell (nullptr)

ASSUME NoPieceIsNoPiece == NoPiece \notin Piece
ASSUME WhiteArePieces == White \subseteq Piece

Color == {"White", "Black"}
Kind == {"King", "Queen", "Rook", "Bishop", "Knight", "Pawn"}
State == {"Idle", "Moving", "Airborne", "Resting", "Captured"}

ColorOf(p) == IF p \in White THEN "White" ELSE "Black"

OpponentOf(color) == IF color = "White" THEN "Black" ELSE "White"

BoardValue ==
    [at : [Cells -> Piece \cup {NoPiece}],
     cell : [Piece -> Cells],
     kind : [Piece -> Kind],
     state : [Piece -> State]]

Occupied(b, c) == b.at[c] # NoPiece

SetState(b, p, s) == [b EXCEPT !.state[p] = s]

RemovePiece(b, c) == [b EXCEPT !.at[c] = NoPiece]

\* Mutant: the grid is updated and the piece's own cell is not.
MovePieceOnGrid(b, from, to) ==
    [b EXCEPT !.at = [@ EXCEPT ![to] = b.at[from], ![from] = NoPiece]]

\* Throws CellEmptyError unless `from` is occupied, CellOccupiedError unless
\* `to` is empty.
MovePiece(b, from, to) ==
    LET p == b.at[from]
    IN  [b EXCEPT !.at = [@ EXCEPT ![to] = p, ![from] = NoPiece],
                  !.cell[p] = to]

\* A piece put back on the board: Piece::setCell, then Board::addPiece, which
\* throws CellOccupiedError unless the cell is empty.
PlacePiece(b, p, c) == [b EXCEPT !.at[c] = p, !.cell[p] = c]

\* Throws CellEmptyError unless the cell is occupied.
SetPieceState(b, c, s) == SetState(b, b.at[c], s)

-----------------------------------------------------------------------------
(***************************************************************************)
(* Every piece the grid shows stands, by its own account, on the cell that *)
(* shows it.  In particular no piece is on two cells.                      *)
(***************************************************************************)
CellsAgree(b) ==
    \A c \in Cells : Occupied(b, c) => b.cell[b.at[c]] = c

OnBoard(b, p) == \E c \in Cells : b.at[c] = p

=============================================================================
