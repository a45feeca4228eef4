SPECIFICATION FairSpec
CONSTANTS
    hub = hub
    watcher = watcher
    evidenceHandler = evidenceHandler
    missed = missed
    stalled = stalled
    inactive = inactive
    doubleSign = doubleSign
    proposal = proposal
    t1 = t1
    t2 = t2
    Chains = {hub}
    Callers = {watcher}
    Alarms = {missed}
    ChainOf <- OnHub
    Order <- CallOrder
    Severity <- AlarmSeverity
    Latched = {}
    Edge = {}
    Evidence = {}
    Proposals = {}
    Enabled = {"di"}
    Threshold <- Thresholds
    MutedResolve = {}
    DigestOn = TRUE
    FlapWindow = 2
    ReminderInterval = 1
    EscalationThreshold = 1
    EscalationOn = TRUE
    SilenceSpans = {1}
    RPCMayFail = TRUE
    Lossy = TRUE
    Tasks = {t1}
    MaxBuffer = 2
    MaxTime = 2
INVARIANTS DigestShowsEnd
PROPERTIES ActiveFollowsCondition EscalationIsAnnounced
