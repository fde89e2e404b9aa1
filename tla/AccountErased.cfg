SPECIFICATION Spec
CONSTANTS
    Account = {alice}
    Nobody = nobody
    WaitToSignIn = TRUE
    MaxActs = 2
    MaxMishaps = 0
CHECK_DEADLOCK FALSE
INVARIANT NothingLeftOfErased
