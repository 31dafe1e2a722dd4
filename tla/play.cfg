CONSTANTS
  wA = wA
  bA = bA
  NoPiece = NoPiece
  Height = 1
  Width = 3
  Piece <- MCPiece
  White <- MCWhite
  Tickets <- MCTickets
  StartCell <- MCCell
  StartKind <- MCKind
  Deltas = {1000}
  MaxMoves = 2
  CellPx = 2
  PanelPx = 1
  Roles = {{"White"}, {"White", "Black"}}
  Points <- MCPoints
  MaxDown = 2
  MaxUp = 1
SPECIFICATION FairPlaySpec
INVARIANTS
  NoEventIsForgotten
  ScoresKeepUpWithTheBoard
  HighlightsMirrorTheEngine
  SquaresDrawnAreClicked
PROPERTIES
  JumpsDisturbNothing
  WindowCatchesUp
