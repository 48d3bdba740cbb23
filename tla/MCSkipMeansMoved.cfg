SPECIFICATION DropSpec
CONSTANT Cfgs <- DropPrograms
INVARIANT SkipMeansMoved
CHECK_DEADLOCK FALSE
