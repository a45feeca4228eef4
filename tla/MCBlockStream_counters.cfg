SPECIFICATION FairSpec
CONSTANTS
    MaxHeight = 2
    MaxEvents = 3
    MaxSessions = 2
    Window = 2
    Restored <- MCRestored
INVARIANTS TypeOK StatsOrdered CountersMatchWindow CrashTakesBonding
PROPERTIES CountedInOrder BlockIsProcessed
CHECK_DEADLOCK FALSE
