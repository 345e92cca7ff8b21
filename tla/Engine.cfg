SPECIFICATION Spec
CONSTANTS
  TargetLen = 18
  MaxParts = 4
INVARIANTS
  GroupsAreWhole
  FanoutKeeps
  ColumnsAddUp
  AnnexureIsRead
  NumbersTellApart
  DuplicatesNamed
  BookIsCoherent
  ListIsComplete
  TagsAreFound
  HeadIsRead
  PartsMakeTheFile
CHECK_DEADLOCK FALSE
