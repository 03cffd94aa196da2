SPECIFICATION WlSpec
CONSTANTS
    WlOps = {"a", "b", "c"}
    WlScopes = {"s1", "s2"}
    WlDecls <- MCDecls
    WlNone = WlNone
    WlMaxCalls = 1
INVARIANT WlRevokedNeverCovers
CHECK_DEADLOCK FALSE
