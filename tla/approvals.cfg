SPECIFICATION FairSpec
CONSTANTS
    Calls = {1, 2, 3}
    ChatRestart = ChatRestart
    CliRestart = CliRestart
    NoEnvelope = NoEnvelope
    Envelopes <- MCEnvelopes
    Registered <- MCEnvelopes
    ReadOnly = {}
    Sessioned <- MCSessioned
    Hint <- MCHint
    Kinds <- AllKinds
    Raising <- Steps
    Crashing = TRUE
CONSTRAINT MCInOrder
INVARIANTS
    TypeOK
    OneOpenApprovalPerEnvelope
    ExecutingHasOneHolder
    ApprovalSpentOnce
    AuditNeverContradictsRow
    AnsweredRunIsAudited
    RunsSettleTheirEnvelope
PROPERTIES
    LifecycleSpec
    ExecutingEventuallySettles
