CONSTANTS
    d1 = d1  d2 = d2  u1 = u1  x1 = x1  a1 = a1  a2 = a2
    c1 = c1  c2 = c2  bad = bad
    Deployers = {d1}
    Uids = {u1, x1, root}
    Root = root
    Known = {u1, root}
    Units = {a1, a2}
    NoUnit = no_unit
    Contents = {c1, bad}
    Accepted = {c1}
    Absent = absent
    Free = free
    Requests <- MixedRequests
SPECIFICATION FairSpec
PROPERTIES
    OnlyAcceptedTextsAppear HeldLockIsReleased
