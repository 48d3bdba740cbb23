SPECIFICATION SoundSpec
CONSTANT Cfgs <- BorrowPrograms
INVARIANT CopiesKeepAlive
CHECK_DEADLOCK FALSE
