CONSTANTS
    u1 = u1
    u2 = u2
    Users = {u1, u2}
    CliUser = u1
    Flows = {f1, f2}
    Requests = {r1, r2}
    Grants = {g1, g2}
    MaxVersion = 1
    MaxProviders = 1
    Nobody = Nobody
SPECIFICATION Spec
SYMMETRY Symmetry
CHECK_DEADLOCK FALSE
INVARIANTS TypeOK PhoneShowsStored StoredTokenIsLive
PROPERTIES NeverDisconnected ReplacementIsReached OnlyConnectsAddRows
