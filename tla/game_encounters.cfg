CONSTANTS
  wA = wA
  bA = bA
  bB = bB
  NoPiece = NoPiece
  Height = 2
  Width = 4
  Piece <- MCPiece
  White <- MCWhite
  Tickets <- MCTickets
  StartCell <- CorridorCell
  StartKind <- CorridorKind
  Deltas = {500}
  MaxMoves = 4
CONSTRAINT OnlyMovingPiecesTravel
SPECIFICATION Spec
INVARIANTS
  TypeOK
  BoardInSync
  NoPieceIsLost
  EveryMotionHasItsPiece
  EveryJumpHasItsPiece
PROPERTIES
  AcceptedCommandsStart
  LifecycleIsRespected
