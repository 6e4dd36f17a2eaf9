SPECIFICATION Spec
CONSTANTS
    auto = auto
    human = human
    a1 = a1
    a2 = a2
    h1 = h1
    e0 = e0
    x1 = x1
    None = None
    Owners = {auto}
    MaxToken = 1
    Initial = e0
    Exits = {}
    EntryOutcomes = {"FILLED", "PARTIAL"}
    FactsWorker = FALSE
    Executors = {a1}
    OwnerOf <- MCOwnerOf
    Automation = auto
    MaxVersion = 0
    MaxCrashes = 0
INVARIANT FilledIntentKeepsRisk
