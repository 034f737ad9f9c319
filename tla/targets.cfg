SPECIFICATION Spec
CONSTANTS
    Services = {web, db}
    Others = {login}
    Programs = {}
    System = System
    None = None
    MaxActions = 4
CONSTRAINT MCBusy
SYMMETRY MCSymmetry
INVARIANTS
    TypeOK
    FollowUpKeepsTarget
    RestartAdviceIsEvidenced
PROPERTIES
    FollowedAdviceIsSettled
CHECK_DEADLOCK FALSE
