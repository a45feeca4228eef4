SPECIFICATION FairSpec
CONSTANTS
    Proposals = {1}
    Providers = {"default", "namada"}
    MaxFaults = 3
    MaxSessions = 2
    MaxRestarts = 1
INVARIANTS TypeOK
PROPERTIES RecordedIsTrue VoteIsFinal AlarmFollowsProposal
