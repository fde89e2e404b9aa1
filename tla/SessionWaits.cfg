SPECIFICATION Spec
CONSTANTS
    Account = {alice, bob}
    Nobody = nobody
    WaitToSignIn = TRUE
    MaxActs = 4
    MaxMishaps = 1
CHECK_DEADLOCK FALSE
INVARIANT TypeOK
INVARIANT DocsHoldOwnRows
INVARIANT ListHoldsOwnRows
INVARIANT EventsHoldOwnScope
PROPERTY SettlesOnUser
