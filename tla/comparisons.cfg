SPECIFICATION Spec
CONSTANTS
    web = web
    db = db
    system = system
    user = user
    nginx = nginx
    postgres = postgres
    loop = loop
    recovery = recovery
    None = None
    Units = {web, db}
    Scopes = {system, user}
    Window = 3
    MemoryLoads <- MCMemoryLoads
    ProcessLists <- MCProcessLists
    States <- MCStates
    Kinds = {loop, recovery}
    Journals <- MCJournals
    MaxReadings = 4
SYMMETRY MCSymmetry
INVARIANTS
    TypeOK
    VerdictFollowsReadings
PROPERTIES
    SecondComparisonAnswers
CHECK_DEADLOCK FALSE
