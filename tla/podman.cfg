CONSTANTS
    Callers = {c1, c2}
    Calls <- SomeCalls
    MaxCalls = 3
SPECIFICATION Spec
INVARIANTS
    SuccessWasDone CreatedAsAsked
SYMMETRY Threads
