CONSTANTS
  wA = wA
  bA = bA
  bB = bB
  NoPiece = NoPiece
  Height = 3
  Width = 3
  Piece <- MCPiece
  White <- MCWhite
  Tickets <- MCTickets
  StartCell <- KnightCell
  StartKind <- KnightKind
  Deltas = {800}
  MaxMoves = 3
SPECIFICATION FairSpec
INVARIANT HighlightsAreTheAcceptedMoves
PROPERTIES
  CrossingsInTrueOrder
  EveryPieceSettles
