SPECIFICATION Spec
CONSTANTS
    Item = {link, text}
    Bad = {}
    Overlap = TRUE
    MaxKills = 0
INVARIANT NeverDropped
