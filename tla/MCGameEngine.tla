---------------------------- MODULE MCGameEngine ----------------------------
EXTENDS GameProperties, TLC

CONSTANTS wA, bA, bB

MCPiece == {wA, bA, bB}
MCWhite == {wA}
MCTickets == 0 .. 3

\* 2x4
CorridorCell == wA :> <<1, 0>> @@ bA :> <<1, 2>> @@ bB :> <<0, 0>>
CorridorKind == wA :> "Knight" @@ bA :> "King" @@ bB :> "Rook"

\* 4x2
PawnCell == wA :> <<2, 0>> @@ bA :> <<0, 1>> @@ bB :> <<1, 1>>
PawnKind == wA :> "Pawn" @@ bA :> "King" @@ bB :> "Pawn"

\* 3x3
KnightCell == wA :> <<0, 2>> @@ bA :> <<2, 0>> @@ bB :> <<0, 0>>
KnightKind == wA :> "Rook" @@ bA :> "Rook" @@ bB :> "Knight"

\* 3x6: the rook sets out along the middle row, on which the pawns may meet.
GhostCell == wA :> <<2, 2>> @@ bA :> <<0, 3>> @@ bB :> <<1, 0>>
GhostKind == wA :> "Pawn" @@ bA :> "Pawn" @@ bB :> "Rook"

\* The part of the 3x6 instance that is explored: the rook is the first to be
\* sent, stays in its row, and nobody gives up.
RookUnderWay ==
    /\ ~over
    /\ board.cell[bB][1] = 1
    /\ logged > 0 => board.state[bB] # "Idle"

=============================================================================
