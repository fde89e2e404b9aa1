SPECIFICATION Spec
CONSTANTS
    Tasks = {1, 2, 3}
    Projects = {1}
    Overlap = FALSE
    MaxNags = 2
    MaxKills = 1
CHECK_DEADLOCK FALSE
INVARIANT TypeOK
 
 
 
