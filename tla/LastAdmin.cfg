\* The same instances.
SPECIFICATION MCSpec
CONSTANTS
    Owners = {o1, o2}
    Intents = {i1, i2}
    MaxToken = 3
    None = None
    Users = {founder, u1}
    Teams = {home, t1}
    Founder = founder
    Home = home
    Requests = {c1, c2}
    Request = c1
    MaxPassword = 3
    MaxKey = 2
    Nobody = nobody
    Accounts = {a1}
    Calls = {k1, k2}
    Fingerprints = {"f1", "f2"}
    MaxVersion = 5
    MaxSecret = 3
INVARIANT AdminStays
