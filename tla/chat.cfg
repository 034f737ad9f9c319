SPECIFICATION Spec
CONSTANTS
    Procs = {p1, p2}
    Sessions = {s1, s2}
    web = web
    db = db
    logs = logs
    Steps <- MCSteps
    Line <- MCLine
    MaxLines = 1
    Backends = {openai, ollama}
    None = None
    MaxIterations = 2
    MaxPlan = 2
    MaxTurns = 2
CONSTRAINT MCTogether
SYMMETRY MCSymmetry
INVARIANTS
    TypeOK
    SummaryKeepsEvidence
    OutcomeReachesOperator
    ContinuationIsOwn
