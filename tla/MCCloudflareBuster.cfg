SPECIFICATION FairSpec
CONSTANTS
    u1 = u1  u2 = u2  u3 = u3  r1 = r1  r2 = r2
    Urls = {u1, u2, u3}
    MaxFiles = 2
    Requests = {r1, r2}
    NoRequest = NoRequest
INVARIANT TypeOK
PROPERTIES KeepsPromise LockIsReleased
CHECK_DEADLOCK FALSE
