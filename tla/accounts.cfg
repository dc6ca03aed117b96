\* Two requests at once, beside the command line and the passing of time.
CONSTANTS
    Users = {u1, u2}
    NoUser = NoUser
    NoHash = NoHash
    NoSession = NoSession
    Hashes = {h1, h2}
    Sessions = {s1, s2}
    Requests = {r1, r2}
    MaxAttempts = 1
    Beside = {"login"}
SPECIFICATION AccountsSpec
SYMMETRY Symmetry
INVARIANT AccountsTypeOK
INVARIANT AttemptsBounded
INVARIANT SuperAdminRemains
INVARIANT SessionsFollowAccounts
