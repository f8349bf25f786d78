\* Two processes, one of which may die, one row, one endpoint, a request that may retry, cancel or move it.
SPECIFICATION Spec
CONSTANTS
    Notifications = {n1}
    Users = {u1}
    Subs = {s1}
    NoUser = NoUser
    Workers = {w1, w2}
    Admins = {a1}
    MaxAttempts = 2
    BatchSize = 1
    MaxCrashes = 1
SYMMETRY Symmetry
INVARIANTS NoDuplicateDelivery SettledHeader
