SPECIFICATION DropSpec
CONSTANT Cfgs <- DropPrograms
INVARIANT AlwaysMeansNeverMoved
CHECK_DEADLOCK FALSE
