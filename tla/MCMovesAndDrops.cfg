SPECIFICATION MovesAndDropsSpec
CONSTANT Cfgs <- MCCfgs
INVARIANTS
  TypeOK
  FixpointReached
  ErrorsAreFinal
  NoUseAfterMove
  UnlistedIsWhole
  DefiniteIsMoved
  NoDoubleDrop
  DropExactlyOnce
PROPERTIES
  PresenceGrows
  Terminates
CHECK_DEADLOCK FALSE
