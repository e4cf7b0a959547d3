CONSTANTS
    w1 = w1  w2 = w2  p1 = p1
    Workers = {w1, w2}
    Pids = {p1}
    PidOf <- OneProcess
    Texts = {t1, t2}
    Chunks = 2
    MaxAttempts = 2
    Inodes = {i1, i2, i3}
    MaxPowerLosses = 1
    MaxCalls = 3
    Trees = {"absent", "loose", "foreign"}
    Absent = absent
    Hole = hole
    Torn = torn
SPECIFICATION Spec
SYMMETRY Symmetry
INVARIANTS
    TypeOK NeverTorn AcknowledgedSurvives TempsAreOwned SnapshotsAreWhole
PROPERTIES
    RenamePublishesOwnText AtomicReplacement
