CONSTANTS
  Height <- MCHeight
  Width <- MCWidth
  Numbers <- MCNumbers
  Messages <- MCMessages
  Snapshots <- MCSnapshots
  StartBoard <- MCStartBoard
SPECIFICATION Spec
INVARIANTS
  MessagesSurvive
  FramesCorrect
  BoardsSurvive
PROPERTIES
  BadFramesChangeNothing
  DamageOnlyHides
