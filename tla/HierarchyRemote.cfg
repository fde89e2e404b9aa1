SPECIFICATION Spec
CONSTANTS
    TaskId = {t1, t2, t3}
    NoTask = none
    UndoLevels = 0
    Snapshots <- ShapeTables
    ExperimentalModes = {TRUE, FALSE}
INVARIANT NoNesting
INVARIANT OverrideOnlyOnTopLevel
