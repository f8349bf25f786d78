SPECIFICATION WebSpec
CONSTANTS
    OpenPages = {"schedule", "ministry", "records", "settings", "session", "device", "share"}
    m1 = m1
    m2 = m2
    f1 = f1
    f2 = f2
    f3 = f3
    d1 = d1
    d2 = d2
    r1 = r1
    r2 = r2
    r3 = r3
    h1 = h1
    h2 = h2
    Schedules = {s1, s2}
    FirstSchedules = {s1}
    Days = {d1, d2}
    FirstDays <- DaysAtFirst
    Tasks = {h1, h2}
    MaxGestures = 3
    Nothing = Nothing
    Ministries = {m1, m2}
    FirstPositions <- PositionsAtFirst
    Names = {f1, f2, f3}
    Errands = {h1, h2}
    MaxMoves = 3
    NoMinistry = NoMinistry
    Sections = {"members", "agenda", "ministries", "finance", "users", "tenants", "segments", "rules"}
    Records = {r1, r2, r3}
    FirstRecords = {r1}
    Jobs = {h1, h2}
    MaxVisits = 4
    Groups = {"profile", "preferences", "rules", "tenant"}
    Parcels = {h1, h2}
    Untyped = Untyped
    MaxEdits = 3
    a1 = a1
    a2 = a2
    Accounts = {a1, a2}
    FirstAccounts <- AccountsAtFirst
    Tabs = {h1, h2}
    Nobody = Nobody
    Keep = Keep
    MaxClicks = 4
    People = {p1, p2}
    Windows = {h1, h2}
    NoOne = NoOne
    MaxTaps = 4
    Searches = {m1, m2}
    FirstSearch = m1
    NoSearch = NoSearch
    Weeks = {1, 2}
    Slots = {h1, h2}
    MaxPicks = 3
SYMMETRY Symmetry
INVARIANTS
    GridTellsTheTruth
    ListTellsTheTruth
    OneRecordPerForm
    SettingsTellTheTruth
    FlowsDoNotMix
    PushPromiseHolds
    SharedIsWhatIsShown
PROPERTIES
    KeptPositionsSurvive
CHECK_DEADLOCK FALSE
