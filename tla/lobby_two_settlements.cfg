CONSTANTS
  ann = ann
  bob = bob
  Client = {c1, c2}
  RoomId = {r1}
  Contested = {r1}
  User <- MCUser
  NoRoom = NoRoom
  StartRating <- UnevenRating
  GraceMs = 1
  SearchMs = 1
  TickMs = 1
  Relogins = FALSE
SPECIFICATION Spec
INVARIANT
  RatingMovesAtMostK
