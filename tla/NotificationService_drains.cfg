\* Liveness: a crash, lapsing leases and one process slow against another; a
\* page and a bell whose answers are lost or late.
SPECIFICATION ServiceSpec
CONSTANTS
    Notifications = {n1}
    Users = {u1}
    Subs = {s1, s2}
    NoUser = NoUser
    Workers = {w1, w2}
    Admins = {}
    MaxAttempts = 2
    BatchSize = 1
    MaxCrashes = 1
    Notices = {n1}
    NoNotice = NoNotice
    MaxDeeds = 3
    Messages = {m1, m2}
    MaxTurns = 3
PROPERTIES OpenRowDrains ScreensSettle
CHECK_DEADLOCK FALSE
