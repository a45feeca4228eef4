SPECIFICATION Spec
CONSTANTS
    hub = hub
    watcher = watcher
    evidenceHandler = evidenceHandler
    missed = missed
    stalled = stalled
    inactive = inactive
    doubleSign = doubleSign
    proposal = proposal
    t1 = t1
    t2 = t2
    Chains = {hub}
    Callers = {watcher, evidenceHandler}
    Alarms = {inactive, doubleSign}
    ChainOf <- OnHub
    Order <- CallOrder
    Severity <- AlarmSeverity
    Latched = {}
    Edge = {inactive}
    Evidence = {doubleSign}
    Proposals = {}
    Enabled = {"pd"}
    Threshold <- Thresholds
    MutedResolve = {}
    DigestOn = FALSE
    FlapWindow = 1
    ReminderInterval = 1
    EscalationThreshold = 1
    EscalationOn = FALSE
    SilenceSpans = {1}
    RPCMayFail = TRUE
    Lossy = FALSE
    Tasks = {t1,t2}
    MaxBuffer = 2
    MaxTime = 2
SYMMETRY TaskSymmetry
INVARIANTS ChannelsAgree
