CONSTANTS
    c1 = c1
    NData = 3
    SPU = 2
    NStripes = 2
    Clients <- MCClients
    Shapes <- MCShapes
    Patterns <- MCPatterns
    MaxFaults <- MCMaxFaults

SPECIFICATION Spec
CONSTRAINT ReqBound

INVARIANTS
    TypeOK
    CallbackAfterAllDone
    DoneExactlyOnce
    ParityRecoverable
    ReadsReturnLastWrite
    CompletionReport

PROPERTY
    EveryRequestCompletes
