CONSTANTS
    d1 = d1  d2 = d2  u1 = u1  x1 = x1  a1 = a1  a2 = a2
    c1 = c1  c2 = c2  bad = bad
    Deployers = {d1}
    Uids = {u1, x1, root}
    Root = root
    Known = {u1, root}
    Units = {a1}
    NoUnit = no_unit
    Contents = {c1, c2}
    Accepted = {c1, c2}
    Absent = absent
    Free = free
    Requests <- ContentionRequests
SPECIFICATION Spec
PROPERTIES
    FailedInstallChangesNothing
