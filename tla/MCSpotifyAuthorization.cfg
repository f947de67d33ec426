SPECIFICATION AuthSpec
CONSTANTS
    c1 = c1
    c2 = c2
    Callers = {c1, c2}
    Lifetime = 4
    Margin = 2
    Latency = 1
    NoToken = NoToken
    Torn = Torn
    NoOne = NoOne
    MaxTime = 7
SYMMETRY Symmetry
INVARIANTS
    AuthTypeOK
    RetryWithNewToken
    RefreshTokenKept
PROPERTY
    RefreshOnlyExpired
