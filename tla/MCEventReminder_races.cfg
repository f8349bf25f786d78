SPECIFICATION Spec
CONSTANTS
    Requests = {q1, q2}
    Tipos = {"GERAL", "REUNIAO_INTERNA"}
    Starts = {1, 2}
    MaxNow = 1
    MaxUpdates = 2
    MaxLosses = 1
    MaxChanges = 1
    Leads = {1, 2}
    DefaultLead = 2
VIEW Steps
SYMMETRY Symmetric
INVARIANTS
    ReminderIsInStep
    FutureEventHasReminder
    CancelledEventIsSilent
CHECK_DEADLOCK FALSE
