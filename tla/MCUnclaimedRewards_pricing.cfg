SPECIFICATION FairSpec
CONSTANTS
    Nil = Nil
    Owed = {0, 15}
    Prices = {1, 2}
    Threshold = 2
    Sources <- MCSources
    Expiry = 1
    MaxChanges = 1
    MaxFaults = 1
    MaxSessions = 2
INVARIANTS TypeOK
PROPERTIES AlarmIsNotMispriced AlarmFollowsRewards
