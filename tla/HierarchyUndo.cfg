SPECIFICATION Spec
CONSTANTS
    TaskId = {t1, t2, t3}
    NoTask = none
    UndoLevels = 2
    Snapshots <- NoSnapshots
    ExperimentalModes = {TRUE, FALSE}
SYMMETRY TaskSymmetry
INVARIANT TypeOK
INVARIANT NoCycles
 
PROPERTY NestingOnlyByUndo
PROPERTY AutoCompletionIsEarned
PROPERTY AgreementLostOnlyBySync
PROPERTY OverrideOutlivedOnlyBySync
