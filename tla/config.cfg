SPECIFICATION Spec
CONSTANTS
    Procs = {p1, p2}
    New = New
    Broken = Broken
    Huge = Huge
    Empty = Empty
    Missing = Missing
    Contents <- MCContents
    Valid <- MCIniValid
    Oversized = {Huge}
    Edited <- MCEdited
    Raising = TRUE
    Crashing = TRUE
SYMMETRY MCSymmetry
INVARIANTS
    TypeOK
    CallsLeaveOnlyBackups
PROPERTIES
    EveryChangeIsValidated
    ReplacedContentIsBackedUp
