CONSTANTS
  ann = ann
  bob = bob
  Client = {me, c1}
  Me = me
  MyUser = ann
  UnknownId = UnknownId
  RoomId = {r1}
  Contested = {}
  User <- MCUser
  NoRoom = NoRoom
  StartRating <- EvenRating
  GraceMs = 2
  SearchMs = 1
  TickMs = 1
  Relogins = FALSE
  MaxUp = 2
  MaxDown = 2
SPECIFICATION FairScreenSpec
INVARIANTS
  RoomIsShown
  PlayersMayPlay
  NoFalseCountdown
  RosterIsTrue
PROPERTY
  SearchesEndOnScreen
