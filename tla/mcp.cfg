SPECIFICATION FairServerSpec
CONSTANTS
    MaxCalls = 2
    Calls <- MCCalls
    o1 = o1
    Sessioned = {}
    Hint <- MCHint
    Kinds = {"run", "approve", "reject"}
    Crashing = TRUE
    NoEnvelope = NoEnvelope
    NoRequest = NoRequest
    Absent = Absent
    Bad = Bad
    Default = Default
    None = None
    managed = managed
    Envelopes <- MCEnvelopes
    Registered <- MCRegistered
    ReadOnly <- MCReadOnly
    Raising = {"running"}
    ConfigTools = {"read_config_file"}
    Documents <- MCDocuments
    DefaultPaths = {managed}
    MaxEdits = 1
    Requests <- MCRequests
    MaxInbox = 1
INVARIANTS
    ServerTypeOK
    WhatRanWasAllowed
    AnswersMatchDatabase
PROPERTIES
    RequestsAreAnswered
    ImplementsRuntime
