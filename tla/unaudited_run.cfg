SPECIFICATION Spec
CONSTANTS
    Calls = {1, 2}
    ChatRestart = ChatRestart
    CliRestart = CliRestart
    NoEnvelope = NoEnvelope
    Envelopes <- MCEnvelopes
    Registered <- MCEnvelopes
    ReadOnly = {}
    Sessioned <- MCSessioned
    Hint <- MCHint
    Kinds <- AllKinds
    Raising = {"running"}
    Crashing = FALSE
CONSTRAINT MCInOrder
INVARIANTS
    EveryActionLeavesARecord
