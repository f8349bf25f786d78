\* A header whose rows are finished stays open.
SPECIFICATION FairSpec
CONSTANTS
    Notifications = {n1}
    Users = {u1}
    Subs = {s1}
    NoUser = NoUser
    Workers = {w1}
    Admins = {}
    MaxAttempts = 2
    BatchSize = 1
    MaxCrashes = 0
PROPERTIES MasterStatusSettles
