------------------------------- MODULE InboxBell -------------------------------
(***************************************************************************)
(* The bell of a user (notification-bell-inbox.tsx) over the inbox of      *)
(* notification-dispatch.service.ts.                                       *)
(*                                                                         *)
(* The bell shows a copy of the inbox and a count that the server makes in *)
(* another statement.  It changes both before the server does, loads them  *)
(* again every minute, and ignores most failures.                          *)
(***************************************************************************)
EXTENDS Naturals, FiniteSets

CONSTANTS
    Messages,
    MaxTurns \* bound on what happens in the inbox, what the user does and what is lost

VARIABLES
    inbox,   \* the rows of the user
    copy,    \* items
    badge,   \* unreadCount
    panel,   \* isOpen
    marking, \* markingAll
    wire,    \* the calls the bell waits for
    turns

bellVars == <<inbox, copy, badge, panel, marking, wire, turns>>
bell == <<copy, badge, panel, marking>>

ASSUME BellAssumption == MaxTurns \in Nat

\* The interval, the panel and the marks each wait for a call of their own.
Slots == {"tick", "panel", "mark"}
Marks == {"none", "unread", "read"}
NotYet == {} \* a part of the answer, as a set with nothing in it yet
Quiet == [what |-> "nothing"]
Load == [what |-> "load", count |-> NotYet, list |-> NotYet]

Unread(rows) == {m \in Messages : rows[m] = "unread"}
AllRead(rows) == [m \in Messages |-> IF rows[m] = "unread" THEN "read" ELSE rows[m]]

BellInit ==
    /\ inbox \in [Messages -> Marks] /\ copy = [m \in Messages |-> "none"] /\ badge = 0
    /\ panel = FALSE /\ marking = FALSE
    /\ wire = [s \in Slots |-> IF s = "panel" THEN Load ELSE Quiet]
    /\ turns = 0

Turn == turns < MaxTurns /\ turns' = turns + 1
Sends(s, what) == wire[s] = Quiet /\ wire' = [wire EXCEPT ![s] = what]
Answer(s, what) == wire' = [wire EXCEPT ![s] = what]
-----------------------------------------------------------------------------
\* A notification comes, or is cancelled, or is read elsewhere.
inboxChanges(m) ==
    /\ Turn
    /\ \E mark \in Marks \ {inbox[m]} : inbox' = [inbox EXCEPT ![m] = mark]
    /\ UNCHANGED <<bell, wire>>

\* getUserInbox counts and lists at once, in two statements.
countInbox(s) ==
    /\ wire[s].what = "load" /\ wire[s].count = NotYet
    /\ Answer(s, [wire[s] EXCEPT !.count = {Cardinality(Unread(inbox))}])
    /\ UNCHANGED <<inbox, bell, turns>>
listInbox(s) ==
    /\ wire[s].what = "load" /\ wire[s].list = NotYet
    /\ Answer(s, [wire[s] EXCEPT !.list = {inbox}])
    /\ UNCHANGED <<inbox, bell, turns>>

\* markNotificationAsRead of a row that is there, and markAllNotificationsAsRead.
markRead(s) ==
    /\ wire[s].what = "read"
    /\ LET m == wire[s].of IN
         inbox' = IF inbox[m] = "unread" THEN [inbox EXCEPT ![m] = "read"] ELSE inbox
    /\ Answer(s, Quiet)
    /\ UNCHANGED <<bell, turns>>
markAllRead(s) ==
    /\ wire[s].what = "read all"
    /\ inbox' = AllRead(inbox)
    /\ Answer(s, Quiet) /\ marking' = FALSE
    /\ UNCHANGED <<copy, badge, panel, turns>>

\* A call is lost: only that of handleMarkAllRead is followed by a load.
inboxCallFails(s) ==
    /\ wire[s] # Quiet /\ Turn
    /\ Answer(s, IF wire[s].what = "read all" THEN Load ELSE Quiet)
    /\ marking' = (marking /\ wire[s].what # "read all")
    /\ UNCHANGED <<inbox, copy, badge, panel>>

\* loadInbox puts what came over what was changed meanwhile.
loadInbox(s) ==
    /\ wire[s].what = "load" /\ wire[s].count # NotYet /\ wire[s].list # NotYet
    /\ copy' = CHOOSE l \in wire[s].list : TRUE
    /\ badge' = CHOOSE n \in wire[s].count : TRUE
    /\ Answer(s, Quiet)
    /\ UNCHANGED <<inbox, panel, marking, turns>>
-----------------------------------------------------------------------------
\* A mutated form of everyMinute, used by no action: only while it is open.
everyMinuteOpen == panel /\ Sends("tick", Load) /\ UNCHANGED <<inbox, bell, turns>>

everyMinute == Sends("tick", Load) /\ UNCHANGED <<inbox, bell, turns>>

handleToggleOpen ==
    /\ Turn
    /\ panel' = ~panel
    /\ IF panel THEN UNCHANGED wire ELSE Sends("panel", Load)
    /\ UNCHANGED <<inbox, copy, badge, marking>>

\* The row and the count change at once; the answer is not looked at.
handleItemClick(m) ==
    /\ Turn /\ panel /\ copy[m] # "none"
    /\ panel' = FALSE
    /\ IF copy[m] = "unread"
       THEN /\ Sends("mark", [what |-> "read", of |-> m])
            /\ copy' = [copy EXCEPT ![m] = "read"]
            /\ badge' = IF badge = 0 THEN 0 ELSE badge - 1
       ELSE UNCHANGED <<copy, badge, wire>>
    /\ UNCHANGED <<inbox, marking>>

handleMarkAllRead ==
    /\ Turn /\ panel /\ badge > 0 /\ ~marking
    /\ marking' = TRUE
    /\ Sends("mark", [what |-> "read all"])
    /\ copy' = AllRead(copy) /\ badge' = 0
    /\ UNCHANGED <<inbox, panel>>

answerGoesOn(s) == countInbox(s) \/ listInbox(s) \/ markRead(s) \/ markAllRead(s) \/ loadInbox(s)

BellNext ==
    \/ \E m \in Messages : inboxChanges(m) \/ handleItemClick(m)
    \/ \E s \in Slots : answerGoesOn(s) \/ inboxCallFails(s)
    \/ everyMinute \/ handleToggleOpen \/ handleMarkAllRead

\* The interval ticks and a call ends.
BellFairness == WF_bellVars(everyMinute) /\ \A s \in Slots : WF_bellVars(answerGoesOn(s))

BellSpec == BellInit /\ [][BellNext]_bellVars /\ BellFairness
-----------------------------------------------------------------------------
BellTypeOK ==
    /\ inbox \in [Messages -> Marks] /\ copy \in [Messages -> Marks]
    /\ badge \in 0..Cardinality(Messages) /\ panel \in BOOLEAN /\ marking \in BOOLEAN /\ turns \in 0..MaxTurns

\* Whatever the bell showed too early, whatever was lost or came late, its rows
\* and its count are those of the inbox once the inbox rests.
BellSettles == <>[](copy = inbox /\ badge = Cardinality(Unread(inbox)))
=============================================================================
