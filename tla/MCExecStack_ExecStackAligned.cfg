CONSTANTS
    NIL = NIL
    NoArray <- NIL
    Sun4 = TRUE
    StackTop = 4096
    WordSize = 4
    MaxArgLength = 1024
    MaxEnvLength = 1024
    Calls <- MCCalls
    Garbage <- MCGarbage
SPECIFICATION Spec
INVARIANT ExecStackAligned
