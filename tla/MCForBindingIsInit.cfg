SPECIFICATION SoundSpec
CONSTANT Cfgs <- Programs
INVARIANT ForBindingIsInit
CHECK_DEADLOCK FALSE
