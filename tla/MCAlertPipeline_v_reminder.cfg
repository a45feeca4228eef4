SPECIFICATION FairSpec
CONSTANTS
    hub = hub
    watcher = watcher
    evidenceHandler = evidenceHandler
    missed = missed
    stalled = stalled
    inactive = inactive
    doubleSign = doubleSign
    proposal = proposal
    t1 = t1
    t2 = t2
    Chains = {hub}
    Callers = {watcher}
    Alarms = {proposal}
    ChainOf <- OnHub
    Order <- CallOrder
    Severity <- AlarmSeverity
    Latched = {}
    Edge = {}
    Evidence = {}
    Proposals = {proposal}
    Enabled = {"di"}
    Threshold <- Thresholds
    MutedResolve = {}
    DigestOn = FALSE
    FlapWindow = 2
    ReminderInterval = 1
    EscalationThreshold = 1
    EscalationOn = FALSE
    SilenceSpans = {}
    RPCMayFail = FALSE
    Lossy = FALSE
    Tasks = {t1}
    MaxBuffer = 2
    MaxTime = 3
PROPERTIES ProposalIsReminded
