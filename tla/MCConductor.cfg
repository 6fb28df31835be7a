SPECIFICATION Spec
CONSTANTS
    Kinds <- MCKinds
    Codes <- MCCodes
    Peak <- MCPeak
    Total = 160
    MAX_RUNNING = 3
    NoCode = NoCode
    Asserts <- MCAsserts
    SKIPPED_PROPS = {"skip"}
    ArgSets <- MCArgSets
    Disks <- MCDisks
    MaxSessions = 2
INVARIANTS
    TypeOK
    QueuedOnce
    VerdictSound
    StoredProved
    CleanExit
PROPERTIES
    ProofsKept
    ImplementsShell
    Terminates
