SPECIFICATION FairSpec
CONSTANTS
    Nil = Nil
    Stakes = {0, 100}
    Rates = {0, 5}
    Starts <- MCStarts
    DropThreshold = 25
    IncreaseThreshold = 20
    RateThreshold = 1
    MaxChanges = 2
    MaxFaults = 1
    MaxSessions = 2
INVARIANTS TypeOK
PROPERTIES StandingAlarmIsReal ChangeOfStandingIsSeen ChangeAlarmsEnd
