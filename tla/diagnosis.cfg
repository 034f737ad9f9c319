SPECIFICATION Spec
CONSTANTS
    web = web
    shell = shell
    webService = webService
    sshService = sshService
    loginScope = loginScope
    None = None
    Commands <- MCCommands
    UnitOf <- MCUnitOf
    ServiceUnits = {webService}
    OtherUnits = {loginScope}
    MidTurn = TRUE
    MaxIterations = 6
INVARIANTS
    TypeOK
    DiagnosisIsCurrent
