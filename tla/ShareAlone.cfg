SPECIFICATION Spec
CONSTANTS
    Item = {link, text, blank}
    Bad = {blank}
    Overlap = FALSE
    MaxKills = 2
INVARIANT TypeOK
 
PROPERTY ImplementsInbox
PROPERTY ImportsEnd
PROPERTY ImportDelivers
