CONSTANTS
  ann = ann
  bob = bob
  Client = {c1, c2, c3}
  RoomId = {r1}
  Contested = {r1}
  User <- MCUser
  NoRoom = NoRoom
  StartRating <- EvenRating
  GraceMs = 2
  SearchMs = 1
  TickMs = 1
  Relogins = FALSE
SPECIFICATION Spec
SYMMETRY Connections
INVARIANTS
  AbsentSeatsAreHeld
PROPERTIES
  HeldSeatsReturnToTheirPlayers
  RatingsAreExchanged
