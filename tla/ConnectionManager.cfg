CONSTANTS
  Tasks = {t1, t2}
  Users = {a, b}
  MaxUuid = 2
  NumShards = 2
SPECIFICATION Spec
SYMMETRY Symmetry
INVARIANTS
  TypeOK
  MapsExact
  KickCoversIndexed
  OutdatedAreKickedOrOvertaken
  CancelAllCovers
PROPERTIES
  OnlyOwnersAreKicked
CHECK_DEADLOCK FALSE
