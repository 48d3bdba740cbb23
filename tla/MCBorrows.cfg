SPECIFICATION SoundSpec
CONSTANT Cfgs <- BorrowPrograms
INVARIANTS
  SoundTypeOK
  LiveExact
  NoUseOfBroken
PROPERTY Settles
CHECK_DEADLOCK FALSE
