CONSTANTS
  wA = wA
  bA = bA
  bB = bB
  NoPiece = NoPiece
  Height = 3
  Width = 6
  Piece <- MCPiece
  White <- MCWhite
  Tickets <- MCTickets
  StartCell <- GhostCell
  StartKind <- GhostKind
  Deltas = {500}
  MaxMoves = 5
SPECIFICATION Spec
CONSTRAINT RookUnderWay
INVARIANT EveryJumpHasItsPiece
