SPECIFICATION Spec
CONSTANTS
    Category = {1, 2, 3}
    Device = {d1, d2}
    Default <- DefaultTwo
    Uncategorized = uncategorized
    NoPlace = noPlace
    MaxEdits = 1
CHECK_DEADLOCK FALSE
INVARIANT GroupKeepsPlace
