SPECIFICATION Spec
CONSTANTS
    Procs = {p1, p2}
    Keys = {k1}
    RestartSystem = RestartSystem
    NoAction = NoAction
    Quiet = Quiet
    Actions <- MCActing
SYMMETRY MCSymmetry
PROPERTIES
    OnlyOperatorsAccept
