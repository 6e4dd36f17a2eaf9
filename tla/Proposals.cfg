\* Three requests of any kind for one trade, two proposals, three people.
SPECIFICATION ReviewSpec
CONSTANTS
    People = {u1, u2, u3}
    Service = service
    Requests = {r1, r2, r3}
    MaxProposals = 2
    None = none
SYMMETRY Symmetry
INVARIANTS ReviewTypeOK ApprovedByOthers OneProposalEach AnsweredWithOne
CHECK_DEADLOCK FALSE
