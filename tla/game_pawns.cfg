CONSTANTS
  wA = wA
  bA = bA
  bB = bB
  NoPiece = NoPiece
  Height = 4
  Width = 2
  Piece <- MCPiece
  White <- MCWhite
  Tickets <- MCTickets
  StartCell <- PawnCell
  StartKind <- PawnKind
  Deltas = {500}
  MaxMoves = 4
SPECIFICATION Spec
INVARIANTS
  ScoresMatchCaptures
  KingTakenEndsTheGame
  PawnsArePromoted
PROPERTY
  KeepsItsPromise
