\* Two of each; the instances of the outbox and the bot use one where the other adds nothing.
SPECIFICATION DeskSpec
CONSTANTS
    Routes = {n1, n2}
    Queuers = {q1, q2}
    Workers = {w1, w2}
    Route = n1
    Queuer = q1
    Worker = w1
    Decision = approve
    MaxDeliveries = 2
    MaxVersion = 3
    MaxAttempts = 2
    Decisions = {approve, reject}
    MaxUpdates = 2
    None = none
    a1 = a1
    a2 = a2
    i1 = i1
    i2 = i2
    d1 = d1
    p1 = p1
    p2 = p2
    p3 = p3
    NoCall = noCall
    Calls = {a1, a2, i1, i2, d1}
    ProposalIds = {p1, p2, p3}
    Admins = {s1}
    Environment <- MCEnvironment
    Scope <- MCScope
    Limits <- MCLimits
    MaxQuantity = 3
    AllowedAdds = 1
    MaxTeamVersion = 2
INVARIANTS DeskTypesOK ArrivesOnce VotedOnItsPrompt OneInitialPerProposal GrantRespected
PROPERTIES EveryDeliverySettles CapacityRespected DispatchMatchesMode
CHECK_DEADLOCK FALSE
