SPECIFICATION Spec
CONSTANTS
    Requests = {q1}
    Tipos = {"GERAL", "REUNIAO_INTERNA"}
    Starts = {2, 3}
    MaxNow = 3
    MaxUpdates = 2
    MaxLosses = 0
    MaxChanges = 0
    Leads = {1, 2}
    DefaultLead = 2
INVARIANT ReminderIsReconciled
CHECK_DEADLOCK FALSE
