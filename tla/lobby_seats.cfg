CONSTANTS
  ann = ann
  bob = bob
  Client = {c1, c2, c3}
  RoomId = {r1, r2}
  Contested = {}
  User <- MCUser
  NoRoom = NoRoom
  StartRating <- EvenRating
  GraceMs = 1
  SearchMs = 1
  TickMs = 1
  Relogins = FALSE
SPECIFICATION Spec
SYMMETRY ConnectionsAndRooms
INVARIANTS
  MembersAreSeated
  TypeOK
  SeatsAreExclusive
