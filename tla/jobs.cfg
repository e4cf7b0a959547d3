CONSTANTS
    Callers = {c1}
    Units = {a1}
    BadName = bad
    Requested = {"StartUnit", "RestartUnit", "StopUnit", "Reload", "status"}
    MaxJobs = 3
    None = none
SPECIFICATION FairSpec
INVARIANTS
    TypeOK OwnResult NoLostSignal StatusAfterJob HealthyWasReal
PROPERTIES
    CallReturns
