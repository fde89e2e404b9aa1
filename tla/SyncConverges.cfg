SPECIFICATION Spec
CONSTANTS
    TaskId = {project, first, second}
    NoTask = none
    Project = project
    First = first
    Second = second
    Device = {d1, d2}
    InitialLists <- JustFlat
    Ordered = FALSE
    MaxEdits = 2
    MaxKills = 1
CHECK_DEADLOCK FALSE
INVARIANT TypeOK
INVARIANT SettledShowsServer
INVARIANT ListsAreClean
PROPERTY EventuallyInSync
