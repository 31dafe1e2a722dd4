CONSTANTS
  ann = ann
  bob = bob
  Client = {c1, c2}
  RoomId = {r1}
  Contested = {}
  User <- MCUser
  NoRoom = NoRoom
  StartRating <- EvenRating
  GraceMs = 2
  SearchMs = 2
  TickMs = 1
  Relogins = TRUE
SPECIFICATION FairSpec
INVARIANTS
  SearchersArePresent
  MembersAreSeated
PROPERTIES
  SearchesEnd
  AbsencesEnd
