SPECIFICATION FairSpec
CONSTANTS
    Nil = Nil
    StaleHours = 2
    MaxSilence = 2
    MaxStops = 2
    MaxSilences = 1
INVARIANTS TypeOK SilenceSurvives
PROPERTIES NothingTwice ConditionIsTold AlarmFollowsCondition
