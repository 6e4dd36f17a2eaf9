\* One team, one authorization, two change requests.
SPECIFICATION Spec
CONSTANTS
    Teams = {t1}
    Auths = {a1}
    Requests = {r1, r2}
    Cooldown = 1
    Ttl = 2
    MaxRevision = 3
    MaxVersion = 3
    MaxTime = 2
SYMMETRY RequestSymmetry
INVARIANTS TypeOK ActiveAuthorizationIsCurrent OneChangePerSnapshot
PROPERTY RestoresCoolDown
CONSTRAINT FewChanges
CHECK_DEADLOCK FALSE
