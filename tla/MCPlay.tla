------------------------------- MODULE MCPlay -------------------------------
EXTENDS Play, TLC

CONSTANTS wA, bA

MCPiece == {wA, bA}
MCWhite == {wA}
MCTickets == 0 .. 2

\* 1x3: the rook and the king can take each other.
MCCell == wA :> <<0, 0>> @@ bA :> <<0, 1>>
MCKind == wA :> "Rook" @@ bA :> "King"

\* The corners of the cells, and a pixel in a panel.
MCPoints == {<<1, 0>>, <<4, 1>>, <<6, 1>>, <<0, 1>>}
=============================================================================
