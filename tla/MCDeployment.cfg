SPECIFICATION Spec
CONSTANTS
    Servers = {s1, s2}
    Requests <- MCRequests
    Images <- MCImages
    Settings <- MCSettings
    Claims = {one, other}
    NoRequest = NoRequest
    MaxVersion = 3
    MaxFlight = 1
SYMMETRY Symmetry
CHECK_DEADLOCK FALSE
INVARIANTS
    PoliciesChain
    SuccessIsTrue
PROPERTY ChecksHoldWhenApplied
