SPECIFICATION FairSpec
CHECK_DEADLOCK FALSE
CONSTANTS
    Token = {k1, k2, k3}
    NoToken = NoToken
    MaxRestarts = 3
INVARIANTS
    TokenAccounted
    UsesSavedToken
PROPERTIES
    SavedTokenConnects
