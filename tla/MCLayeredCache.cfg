SPECIFICATION Spec
CONSTANTS
    c1 = c1  c2 = c2  k1 = k1  u1 = u1  r1 = r1  r2 = r2
    Clients = {c1, c2}
    Keys = {k1}
    Urls = {u1}
    pather <- Url
    NoEntry = NoEntry
    MaxVersion = 2
    Requests = {r1, r2}
SYMMETRY Symmetry
INVARIANTS TypeOK Coherent DeletedStaysGone PurgeFollowsWrite
