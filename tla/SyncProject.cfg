SPECIFICATION Spec
CONSTANTS
    TaskId = {project, first, second}
    NoTask = none
    Project = project
    First = first
    Second = second
    Device = {d1, d2}
    InitialLists <- Projects
    Ordered = TRUE
    MaxEdits = 2
    MaxKills = 0
CHECK_DEADLOCK FALSE
 
INVARIANT ListsAreClean
SYMMETRY DeviceSymmetry
