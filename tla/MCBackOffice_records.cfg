SPECIFICATION BackOfficeSpec
CONSTANTS
    Scenes = {"permissions", "ledger", "media", "registry", "memberships", "needs", "cache", "notices"}
    Callers = {q1, q2}
    Actors = {q1, q2}
    Clerks = {q1, q2}
    Uploaders = {q1, q2}
    Registrars = {q1, q2}
    Leaders = {q1, q2}
    Planners = {q1, q2}
    Exporters = {q1, q2}
    Files = {x1, x2, x3}
    Members = {x1, x2, x3}
    Pairs = {y1, y2}
    People = {y1, y2}
    Admins = {y1, y2}
    Categories = {y1, y2}
    Positions = {y1, y2}
    Keys = {y1, y2}
    Addresses = {y1, y2}
    Transactions = {t1}
    Contributors = {m1}
    Forms <- LedgerForms
    MaxEdits = 3
    SmallLimit = 1
    LargeLimit = 2
    Agreed = {2}
    Servants = {s1}
    EventForms <- AgendaForms
    MinistryForms <- SwitchForms
    Sizes = {0, 1, 2, 4}
    MaxBytes = 3
    MaxLogos = 1
    DocumentTtl = 1
    LogoTtl = 2
    NegativeTtl = 1
    Horizon = 2
    turn1 = turn1
    turn2 = turn2
    volunteer1 = volunteer1
    volunteer2 = volunteer2
    Turns = {turn1, turn2}
    Volunteers = {volunteer1, volunteer2}
    Holder <- HolderOfTurn
    Chiefs = {c1}
    Celebrants = {volunteer2}
    Hosts = {y1, y2}
    Askers = {q1, q2}
    Restless = {volunteer1}
    Switchable = {"pending"}
    MaxMinute = 3
    MaxEffort = 3
SYMMETRY Symmetry
INVARIANTS
    AManagerRemains
    EntriesAreConsistent
    FilesAndRowsAgree
    MembershipsAreWhole
    NoEventWaitsForNothing
    CachesAreBounded
    EveryFindIsToldOnce
    LeadersHearTheAnswer
PROPERTIES
    CancelledIsFinal
    PlanIsHonoured
CHECK_DEADLOCK FALSE
