\* Two callers, the callbacks and both ways to stop; two tasks in two structs whose
\* versions pass 0.
CONSTANTS
    c1 = c1  c2 = c2  s1 = s1  s2 = s2  s3 = s3
    Callers = {c1, c2}
    Callback = callback
    NumBuckets = 2
    Slots = {s1, s2}
    RunTimes = {0, 1, 2}
    MaxTime = 2
    MaxSchedules = 2
    VerMod = 10
    FirstVer = 8
    Stops = {"task", "thread"}
    None = None
SPECIFICATION Spec
SYMMETRY Symmetry
INVARIANTS TypeOK TasksAccounted NothingOverlooked
PROPERTIES FateFollows EarliestFirst
CHECK_DEADLOCK FALSE
