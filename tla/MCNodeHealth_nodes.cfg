SPECIFICATION FairSpec
CONSTANTS
    n1 = n1
    n2 = n2
    Nodes = {n1}
    Order <- InOrder
    AlertIfDown = {n1}
    NodeDownMin = 2
    ProbePeriod = 2
    Scenarios <- MCScenarios
INVARIANTS TypeOK OneAlarmPerOutage
PROPERTIES  OutageIsAlerted NodeAlarmIsResolved EndpointsAlarmIsResolved
