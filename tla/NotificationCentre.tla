-------------------------- MODULE NotificationCentre --------------------------
(***************************************************************************)
(* The page where the notifications of a tenant are followed               *)
(* (configuracoes/notificacoes/page.tsx), over the calls of                *)
(* notification-dispatch.service.ts.  The list and the details load        *)
(* themselves again every 3.5 s while something in them is still going     *)
(* on; answers come in any order, and a failed one is only logged.  The    *)
(* queue behind it is in NotificationQueue, here its steps on the header   *)
(* of a notification and on its recipients taken together.                 *)
(***************************************************************************)
EXTENDS Naturals

CONSTANTS
    Notices,
    MaxDeeds,     \* bound on what the manager does, and on the calls that are lost
    NoNotice

VARIABLES
    notice,   \* each notification: its status, when it is due, its recipients
    items,    \* the list on the screen
    filter,   \* appliedFilters: every status, or one
    polling,  \* the interval of the list is set
    details,  \* the modal: selectedNotificationId, detailData
    dialog,   \* cancelingItem, or the one that is edited
    call,     \* what the page waits for
    deeds

centreVars == <<notice, items, filter, polling, details, dialog, call, deeds>>
screen == <<items, filter, polling, details, dialog>>

ASSUME CentreAssumption == NoNotice \notin Notices /\ MaxDeeds \in Nat

\* What the page may be waiting for: the intervals, and the manager's own call.
Calls == {"listTick", "detailTick", "manager"}

HeaderStatuses == {"SCHEDULED", "PROCESSING", "COMPLETED", "FAILED", "CANCELED"}
Headers == [status : HeaderStatuses, due : {"later", "soon"}, left : {"pending", "sent", "failed"}]
NewHeader(due) == [status |-> "SCHEDULED", due |-> due, left |-> "pending"]
Absent == [status |-> "none"]
NoCall == [kind |-> "none"]
Closed == [open |-> FALSE, of |-> NoNotice, data |-> [of |-> NoNotice]]

CentreInit ==
    /\ notice \in [Notices -> {NewHeader("soon"), NewHeader("later"), Absent}]
    /\ items = [n \in Notices |-> Absent] /\ filter = "all" /\ polling = FALSE
    /\ details = Closed /\ dialog = NoNotice
    /\ call = [c \in Calls |-> NoCall]
    /\ deeds = 0

\* A mutated form of HasActiveItems, used by no action.
HasQueuedItems(list) == \E n \in Notices : list[n].status = "SCHEDULED" /\ list[n].due = "soon"

\* What the effect of the list looks for: sent now, or due within a minute when
\* the list came.
HasActiveItems(list) == \E n \in Notices :
    list[n].status = "PROCESSING" \/ (list[n].status = "SCHEDULED" /\ list[n].due = "soon")

\* What the modal looks for.
IsOngoing(data) == data.of # NoNotice /\ (data.header.status = "PROCESSING" \/ data.header.left = "pending")

Listed(status) == [n \in Notices |-> IF status \in {"all", notice[n].status} THEN notice[n] ELSE Absent]
-----------------------------------------------------------------------------
\* Time, and the queue.
becomesDue(n) ==
    /\ notice[n] # Absent /\ notice[n].due = "later"
    /\ notice' = [notice EXCEPT ![n].due = "soon"]
    /\ UNCHANGED <<screen, call, deeds>>
isClaimed(n) ==
    /\ notice[n].status = "SCHEDULED" /\ notice[n].due = "soon"
    /\ notice' = [notice EXCEPT ![n].status = "PROCESSING"]
    /\ UNCHANGED <<screen, call, deeds>>
isDelivered(n) ==
    /\ notice[n].status = "PROCESSING"
    /\ \E left \in {"sent", "failed"} :
         notice' = [notice EXCEPT ![n].status = IF left = "sent" THEN "COMPLETED" ELSE "FAILED", ![n].left = left]
    /\ UNCHANGED <<screen, call, deeds>>
-----------------------------------------------------------------------------
\* The calls.
Deed == deeds < MaxDeeds /\ deeds' = deeds + 1
Asks(c, kind, n) ==
    /\ call[c] = NoCall
    /\ call' = [call EXCEPT ![c] = [kind |-> kind, of |-> n, done |-> "no", answer |-> NoNotice]]
Answers(c, answer) == call' = [call EXCEPT ![c].done = "yes", ![c].answer = answer]
Waits(c, kinds) == call[c].kind \in kinds /\ call[c].done = "no"
Came(c, kinds) == call[c].kind \in kinds /\ call[c].done = "yes"

\* The list, by the filter its request was sent with, and the details are read.
findAll(c) ==
    /\ Waits(c, {"list"})
    /\ Answers(c, Listed(call[c].of))
    /\ UNCHANGED <<notice, screen, deeds>>
findOneNotice(c) ==
    /\ Waits(c, {"detail", "retried"})
    /\ Answers(c, [of |-> call[c].of, header |-> notice[call[c].of]])
    /\ UNCHANGED <<notice, screen, deeds>>

\* retryFailedRecipients, cancelNotification, updateScheduledNotification and
\* createManualNotification; what they refuse fails as a lost call does.
writeNotice(c) ==
    LET n == call[c].of
        h == notice[n]
        kind == call[c].kind
    IN
    /\ Waits(c, {"retry", "cancel", "edit", "create"})
    /\ CASE kind = "retry" -> notice' = IF h.left = "failed" THEN [notice EXCEPT ![n] = NewHeader("soon")] ELSE notice
         [] kind = "cancel" -> notice' = IF h.status = "COMPLETED" THEN notice ELSE [notice EXCEPT ![n].status = "CANCELED"]
         [] kind = "edit" -> h.status = "SCHEDULED" /\ \E due \in {"later", h.due} : notice' = [notice EXCEPT ![n].due = due]
         [] kind = "create" -> h = Absent /\ \E due \in {"soon", "later"} : notice' = [notice EXCEPT ![n] = NewHeader(due)]
    /\ Answers(c, NoNotice)
    /\ UNCHANGED <<screen, deeds>>

callFails(c) ==
    /\ call[c] # NoCall /\ call[c].done = "no"
    /\ Deed
    /\ call' = [call EXCEPT ![c].done = "failed"]
    /\ UNCHANGED <<notice, screen>>
refusesNotice(c) ==
    LET n == call[c].of IN
    /\ Waits(c, {"edit", "create"})
    /\ notice[n].status # IF call[c].kind = "edit" THEN "SCHEDULED" ELSE "none"
    /\ call' = [call EXCEPT ![c].done = "failed"]
    /\ UNCHANGED <<notice, screen, deeds>>
-----------------------------------------------------------------------------
\* The answers.
CallEnds(c) == call' = [call EXCEPT ![c] = NoCall]
CallGoes(c, kind, n) == call' = [call EXCEPT ![c] = [kind |-> kind, of |-> n, done |-> "no", answer |-> NoNotice]]

\* loadNotifications; the effect looks at the new items.
listArrives(c) ==
    /\ Came(c, {"list"}) /\ CallEnds(c)
    /\ items' = call[c].answer /\ polling' = HasActiveItems(call[c].answer)
    /\ UNCHANGED <<notice, filter, details, dialog, deeds>>

\* openDetailModal and refreshDetailModal put what comes, whichever is selected;
\* after a retry the list is loaded next.
detailArrives(c) ==
    /\ Came(c, {"detail", "retried"})
    /\ details' = [details EXCEPT !.data = call[c].answer]
    /\ IF call[c].kind = "retried" THEN CallGoes(c, "list", filter) ELSE CallEnds(c)
    /\ UNCHANGED <<notice, items, filter, polling, dialog, deeds>>

\* handleRetryFailed opens the modal again, even if it was closed meanwhile.
retryArrives(c) ==
    /\ Came(c, {"retry"})
    /\ details' = [details EXCEPT !.open = TRUE, !.of = call[c].of]
    /\ CallGoes(c, "retried", call[c].of)
    /\ UNCHANGED <<notice, items, filter, polling, dialog, deeds>>

\* handleConfirmCancel and handleCreateSubmit.
writeArrives(c) ==
    /\ Came(c, {"cancel", "edit", "create"})
    /\ dialog' = NoNotice
    /\ details' = IF call[c].kind = "cancel" /\ details.of = call[c].of THEN [details EXCEPT !.open = FALSE] ELSE details
    /\ CallGoes(c, "list", filter)
    /\ UNCHANGED <<notice, items, filter, polling, deeds>>

\* A failure leaves the screen as it is; openDetailModal, called by the retry,
\* swallows its own and the list is still loaded.
failureArrives(c) ==
    /\ call[c] # NoCall /\ call[c].done = "failed"
    /\ IF call[c].kind = "retried" THEN CallGoes(c, "list", filter) ELSE CallEnds(c)
    /\ UNCHANGED <<notice, screen, deeds>>
-----------------------------------------------------------------------------
\* The intervals.
pollList ==
    /\ polling /\ Asks("listTick", "list", filter)
    /\ UNCHANGED <<notice, screen, deeds>>
pollDetail ==
    /\ details.open /\ IsOngoing(details.data) /\ Asks("detailTick", "detail", details.of)
    /\ UNCHANGED <<notice, screen, deeds>>

\* The manager.
openPage ==
    /\ deeds = 0 /\ Deed /\ Asks("manager", "list", filter)
    /\ UNCHANGED <<notice, screen>>
applyFilters(status) ==
    /\ deeds > 0 /\ Deed /\ ~details.open /\ dialog = NoNotice
    /\ filter' = status /\ polling' = HasActiveItems(items)
    /\ Asks("manager", "list", status)
    /\ UNCHANGED <<notice, items, details, dialog>>
openDetail(n) ==
    /\ Deed /\ ~details.open /\ dialog = NoNotice /\ items[n] # Absent
    /\ details' = [details EXCEPT !.open = TRUE, !.of = n]
    /\ Asks("manager", "detail", n)
    /\ UNCHANGED <<notice, items, filter, polling, dialog>>
closeDetail ==
    /\ details.open
    /\ details' = [details EXCEPT !.open = FALSE]
    /\ Asks("manager", "list", filter)
    /\ UNCHANGED <<notice, items, filter, polling, dialog, deeds>>
handleRetryFailed ==
    /\ Deed /\ details.open /\ details.data.of # NoNotice /\ details.data.header.left = "failed"
    /\ Asks("manager", "retry", details.of)
    /\ UNCHANGED <<notice, screen>>
\* The buttons of a row that is shown as scheduled, and the form of a new one.
openDialog(n) ==
    /\ ~details.open /\ dialog = NoNotice /\ deeds > 0
    /\ items[n].status = "SCHEDULED" \/ notice[n] = Absent
    /\ dialog' = n
    /\ UNCHANGED <<notice, items, filter, polling, details, call, deeds>>
submitDialog ==
    /\ dialog # NoNotice /\ Deed
    /\ \E kind \in IF items[dialog] = Absent THEN {"create"} ELSE {"cancel", "edit"} : Asks("manager", kind, dialog)
    /\ UNCHANGED <<notice, screen>>
closeCentreDialog ==
    /\ dialog # NoNotice /\ dialog' = NoNotice
    /\ UNCHANGED <<notice, items, filter, polling, details, call, deeds>>

noticeGoesOn(n) == becomesDue(n) \/ isClaimed(n) \/ isDelivered(n)
callGoesOn(c) ==
    \/ findAll(c) \/ findOneNotice(c) \/ writeNotice(c) \/ refusesNotice(c)
    \/ listArrives(c) \/ detailArrives(c) \/ retryArrives(c) \/ writeArrives(c) \/ failureArrives(c)

CentreNext ==
    \/ \E n \in Notices : noticeGoesOn(n) \/ openDialog(n) \/ openDetail(n)
    \/ \E c \in Calls : callGoesOn(c) \/ callFails(c)
    \/ pollList \/ pollDetail
    \/ openPage \/ closeDetail \/ handleRetryFailed \/ submitDialog \/ closeCentreDialog
    \/ \E status \in {"all", "FAILED"} : applyFilters(status)

\* The queue goes on (see OpenRowDrains), the intervals tick, and a call ends.
CentreFairness ==
    /\ \A n \in Notices : WF_centreVars(noticeGoesOn(n))
    /\ WF_centreVars(pollList) /\ WF_centreVars(pollDetail)
    /\ \A c \in Calls : WF_centreVars(callGoesOn(c))

CentreSpec == CentreInit /\ [][CentreNext]_centreVars /\ CentreFairness
-----------------------------------------------------------------------------
CentreTypeOK ==
    /\ notice \in [Notices -> Headers \cup {Absent}] /\ items \in [Notices -> Headers \cup {Absent}]
    /\ filter \in {"all", "FAILED"} /\ polling \in BOOLEAN
    /\ details.open \in BOOLEAN /\ details.of \in Notices \cup {NoNotice}
    /\ dialog \in Notices \cup {NoNotice} /\ deeds \in 0..MaxDeeds

\* "Polling automático suave enquanto houver notificações em processamento,
\* pendentes ou agendadas prontas para envio": what the list or the modal shows as
\* under way does not stay so on the screen when it is over, whatever answers are
\* lost or overtake others.  A cancelled notification keeps its recipients pending.
ShownStatusSettles ==
    /\ \A n \in Notices : items[n].status = "PROCESSING"
         ~> items[n].status # "PROCESSING" \/ notice[n].status = "PROCESSING"
    /\ (details.open /\ IsOngoing(details.data))
         ~> ~details.open \/ ~IsOngoing(details.data) \/ notice[details.data.of].status = "CANCELED"
=============================================================================
