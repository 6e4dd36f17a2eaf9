SPECIFICATION MCSpec
CONSTANTS
    auto = auto
    human = human
    a1 = a1
    a2 = a2
    h1 = h1
    e0 = e0
    x1 = x1
    None = None
    Owners = {auto, human}
    MaxToken = 2
    Initial = e0
    Exits = {}
    EntryOutcomes = {"FILLED", "PARTIAL", "SPLIT"}
    FactsWorker = TRUE
    Executors = {a1, a2, h1}
    OwnerOf <- MCOwnerOf
    Automation = auto
    MaxVersion = 1
    MaxCrashes = 1
INVARIANT TypeOK
PROPERTIES ImplementsWriteAhead UnknownRiskNeedsProof
