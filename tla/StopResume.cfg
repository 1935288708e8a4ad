SPECIFICATION FairSpec
CONSTANTS
    Cores = {1, 2, 3}
    Initiators = {1}
PROPERTY TrappedCoresResume
CHECK_DEADLOCK FALSE
