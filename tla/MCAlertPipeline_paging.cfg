SPECIFICATION Spec
CONSTANTS
    hub = hub
    watcher = watcher
    evidenceHandler = evidenceHandler
    missed = missed
    stalled = stalled
    inactive = inactive
    doubleSign = doubleSign
    proposal = proposal
    t1 = t1
    t2 = t2
    Chains = {hub}
    Callers = {watcher}
    Alarms = {stalled}
    ChainOf <- OnHub
    Order <- CallOrder
    Severity <- AlarmSeverity
    Latched = {stalled}
    Edge = {}
    Evidence = {}
    Proposals = {}
    Enabled = {"pd", "wh"}
    Threshold <- Thresholds
    MutedResolve = {"wh"}
    DigestOn = FALSE
    FlapWindow = 2
    ReminderInterval = 1
    EscalationThreshold = 1
    EscalationOn = TRUE
    SilenceSpans = {1}
    RPCMayFail = TRUE
    Lossy = FALSE
    Tasks = {t1, t2}
    MaxBuffer = 2
    MaxTime = 3
SYMMETRY TaskSymmetry
INVARIANTS TypeOK ApprovalsAlternate
PROPERTIES SilenceHolds ImplementsChannels
