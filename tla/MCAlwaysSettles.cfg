SPECIFICATION SoundSpec
CONSTANT Cfgs <- BorrowPrograms
PROPERTY AlwaysSettles
CHECK_DEADLOCK FALSE
