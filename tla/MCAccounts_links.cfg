SPECIFICATION AccessSpec
CONSTANTS
    Users = {u1, u2}
    Emails = {e1, e2}
    NoEmail = NoEmail
    Requests = {r1, r2}
    Formularios <- FormulariosMC
    MaxTokens = 2
    Patches = {r1, r2}
    NoPatch = NoPatch
    MaxBrand = 2
    WholeBrands = {1, 2}
    MaxTurns = 4
    Parts = {"account", "first access"}
SYMMETRY Symmetric
VIEW View
INVARIANTS
    WayIn
    WizardTellsTheTruth
    ReinstallIsDue
PROPERTIES
    ActivationUsesLiveLink
    LinkMatchesEmail
CHECK_DEADLOCK FALSE
