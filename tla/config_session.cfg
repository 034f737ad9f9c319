SPECIFICATION Spec
CONSTANTS
    etc = etc
    opt = opt
    chat = chat
    cli = cli
    Callers = {chat, cli}
    Paths = {etc, opt}
    Contents = {text, blank}
    Blank = {blank}
    Absent = Absent
    None = None
    Root = Root
    Window = 2
    MaxCalls = 3
    MaxPending = 2
    MaxEdits = 1
CONSTRAINT MCFewAtOnce
SYMMETRY MCSymmetry
INVARIANTS
    TypeOK
    RollbackUndoesLastChange
    FocusTellsTheFile
PROPERTIES
    RestoresAreHistory
CHECK_DEADLOCK FALSE
