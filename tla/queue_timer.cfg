SPECIFICATION TimedSpec
CONSTANTS
    Procs = {timer, shell}
    Timer = timer
    Keys = {k1}
    RestartSystem = RestartSystem
    NoAction = NoAction
    Quiet = Quiet
    Actions <- MCActing
    Versions = {v1}
    NoUnit = NoUnit
INVARIANTS
    TimedTypeOK
    AnswersAreTrue
PROPERTIES
    ActiveTimerReconciles
