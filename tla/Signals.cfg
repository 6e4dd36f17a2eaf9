SPECIFICATION SignalsSpec
CONSTANTS
    Keys = {k}
    MaxAlerts = 2
    MaxSocket = 1
    NoFact = none
    Sources = {s1, s2}
    Source = s1
    Requests <- Posts
    MaxSource = 3
INVARIANTS SignalTypesOK PrincipalFollowsSource SignalCountedOnce
PROPERTIES FactsKept AlertSettles StreamFollowsSource
CHECK_DEADLOCK FALSE
