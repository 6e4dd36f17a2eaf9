SPECIFICATION LiveSpec
CONSTANTS
    auto = auto
    human = human
    a1 = a1
    a2 = a2
    h1 = h1
    e0 = e0
    x1 = x1
    None = None
    Owners = {auto}
    MaxToken = 2
    Initial = e0
    Exits = {}
    EntryOutcomes = {"FILLED"}
    FactsWorker = FALSE
    Executors = {a1, a2}
    OwnerOf <- MCOwnerOf
    Automation = auto
    MaxVersion = 1
    MaxCrashes = 1
PROPERTY FilledGetsRecorded
