\* One process with batches of two rows, and two requests that race.
SPECIFICATION Spec
CONSTANTS
    Notifications = {n1}
    Users = {u1, u2}
    Subs = {s1}
    NoUser = NoUser
    Workers = {w1}
    Admins = {a1, a2}
    MaxAttempts = 1
    BatchSize = 2
    MaxCrashes = 0
SYMMETRY Symmetry
INVARIANTS HonestStatus
PROPERTIES CancelIsOverriddenOnlyByStaleWork KeepsContract
