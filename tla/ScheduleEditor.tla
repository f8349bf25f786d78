---------------------------- MODULE ScheduleEditor ----------------------------
(***************************************************************************)
(* The page where a manager edits the schedules of a month                 *)
(* (escalas/page.tsx, escala-grid.tsx, use-escalas.ts), with the API it    *)
(* calls (escalas.service.ts).                                             *)
(*                                                                         *)
(* Each gesture starts a task: a call, and what the page does when the     *)
(* answer comes.  Tasks overlap, answers come in any order or never, and   *)
(* other managers write meanwhile.  The page keeps the sheet it was given  *)
(* and edits its copy with every answer.  A sheet has one cell a day and   *)
(* one volunteer; the cards of the month are one of the pages of           *)
(* RecordPages, and the rules that warn or refuse are in                   *)
(* ScheduleAssignments, here a free choice of the server.                  *)
(***************************************************************************)
EXTENDS Naturals, SequencesExt

CONSTANTS
    Schedules,
    FirstSchedules, \* those that are there at first
    Days,
    FirstDays,      \* the days of a new schedule, in order
    Tasks,          \* what the page may be doing at once
    MaxGestures,    \* bound on the gestures of the manager
    Nothing

VARIABLES
    row,       \* the rows of each schedule
    chosen,    \* selectedEscala
    shown,     \* detailedEscala: a sheet and its schedule
    roster,    \* ministryMembers: the schedule whose ministry they are of
    loading,   \* loadingDetail
    order,     \* orderedDiaIds of the grid
    saving,    \* the selects of the grid that are disabled
    ask,       \* the dialogs that are open
    busy,      \* confirmLoading
    task,
    gestures,
    doubt,     \* history: the copy was overtaken
    crossed    \* history: a schedule was chosen while another was awaited

editorVars == <<row, chosen, shown, roster, loading, order, saving, ask, busy, task, gestures, doubt, crossed>>
page == <<chosen, shown, roster, loading, order, saving, ask, busy>>

ASSUME EditorAssumption ==
    /\ FirstSchedules \subseteq Schedules /\ FirstDays \in Seq(Days)
    /\ Nothing \notin Schedules \cup Days \cup [of : Schedules, days : Seq(Days)] /\ MaxGestures \in Nat

Statuses == {"RASCUNHO", "PUBLICADA", "ENCERRADA"}
Sheets == [status : Statuses, days : SeqOf(Days, Cardinality(Days)), staffed : SUBSET Days, hidden : SUBSET Days, linked : SUBSET Days]
NewSheet == [status |-> "RASCUNHO", days |-> FirstDays, staffed |-> {}, hidden |-> {}, linked |-> {}]

CellWrites == {"add", "confirm", "remove", "hide", "show", "link", "unlink"}
Writes == CellWrites \cup {"create", "status", "delete", "addDay", "removeDay", "reorder"}
Steps == {"write", "read", "roster"}
NoTask == [op |-> "none"]
NoDialogs == [action |-> Nothing, status |-> Nothing, warning |-> Nothing]

EditorInit ==
    /\ row = [s \in Schedules |-> IF s \in FirstSchedules THEN NewSheet ELSE [status |-> "unmade"]]
    /\ chosen = Nothing /\ shown = Nothing /\ roster = Nothing
    /\ loading = FALSE /\ order = Nothing /\ saving = {} /\ ask = NoDialogs /\ busy = FALSE
    /\ task = [h \in Tasks |-> NoTask]
    /\ gestures = 0
    /\ doubt = FALSE /\ crossed = FALSE

Exists(s) == row[s].status \in Statuses
Awaited(h) == task[h] # NoTask
Has(sheet, d) == d \in Range(sheet.days)
-----------------------------------------------------------------------------
\* The API.

\* isValidStatusTransition.
Transitions == {<<"RASCUNHO", "PUBLICADA">>, <<"PUBLICADA", "ENCERRADA">>, <<"PUBLICADA", "RASCUNHO">>, <<"ENCERRADA", "PUBLICADA">>}

\* What each call asks of the rows.
Accepts(sheet, op, arg) ==
    CASE op = "status" -> sheet.status = arg \/ <<sheet.status, arg>> \in Transitions
      [] op = "delete" -> TRUE
      [] op = "addDay" -> sheet.status # "ENCERRADA" /\ ~Has(sheet, arg)
      [] op = "reorder" -> sheet.status # "ENCERRADA" /\ Range(arg) \subseteq Range(sheet.days)
      [] op = "remove" -> sheet.status # "ENCERRADA" /\ arg \in sheet.staffed
      [] OTHER -> sheet.status # "ENCERRADA" /\ Has(sheet, arg)

\* A day, which has one place, takes its rows with it when it is removed.
Place(days, d) == CHOOSE i \in DOMAIN days : days[i] = d
WithoutDay(sheet, d) == [sheet EXCEPT !.days = RemoveAt(@, Place(@, d)),
                             !.staffed = @ \ {d}, !.hidden = @ \ {d}, !.linked = @ \ {d}]

\* reorderDias numbers the days it is given; the others keep their numbers.
Reordered(days, given) == IF Range(given) = Range(days) THEN given ELSE days

Written(sheet, op, arg) ==
    CASE op = "status" -> [sheet EXCEPT !.status = arg]
      [] op = "delete" -> [status |-> "gone"]
      [] op = "addDay" -> [sheet EXCEPT !.days = Append(@, arg)]
      [] op = "removeDay" -> WithoutDay(sheet, arg)
      [] op = "reorder" -> [sheet EXCEPT !.days = Reordered(@, arg)]
      [] op \in {"add", "confirm"} -> [sheet EXCEPT !.staffed = @ \cup {arg}]
      [] op = "remove" -> [sheet EXCEPT !.staffed = @ \ {arg}]
      [] op = "hide" -> [sheet EXCEPT !.hidden = @ \cup {arg}]
      [] op = "show" -> [sheet EXCEPT !.hidden = @ \ {arg}]
      [] op = "link" -> [sheet EXCEPT !.linked = @ \cup {arg}]
      [] op = "unlink" -> [sheet EXCEPT !.linked = @ \ {arg}]

Answered(h, answer) == task' = [task EXCEPT ![h].answer = answer]
AnsweredWith(h, sheet) == task' = [task EXCEPT ![h].answer = "ok", ![h].data = sheet]
InFlight(h) == task[h] # NoTask /\ task[h].answer = "none"

\* Another task writes the same cell, or an answer that was made before.
Overlapped(h) == \E k \in Tasks \ {h} : Awaited(k) /\ task[k].on = task[h].on /\ task[k].step = "write" /\
    ({task[k].op, task[h].op} \subseteq CellWrites => task[k].arg = task[h].arg)

\* A call is served: a write changes the rows, a load copies them.  The answer
\* of a write may be lost after it.
serve(h) ==
    LET c == task[h] IN
    /\ InFlight(h)
    /\ c.step = "write"
    /\ IF c.op = "create" THEN row[c.on].status = "unmade" ELSE Exists(c.on) /\ Accepts(row[c.on], c.op, c.arg)
    /\ row' = [row EXCEPT ![c.on] = IF c.op = "create" THEN NewSheet ELSE Written(@, c.op, c.arg)]
    /\ \/ Answered(h, "ok") /\ doubt' = (doubt \/ Overlapped(h))
       \/ Answered(h, "failed") /\ doubt' = TRUE
    /\ UNCHANGED <<page, gestures, crossed>>

\* addMembro of a volunteer who may serve if the manager confirms it.
warn(h) ==
    LET c == task[h] IN
    /\ InFlight(h) /\ c.step = "write" /\ c.op = "add"
    /\ Exists(c.on) /\ Accepts(row[c.on], c.op, c.arg)
    /\ Answered(h, "warned")
    /\ UNCHANGED <<row, page, gestures, doubt, crossed>>

findOne(h) ==
    LET c == task[h] IN
    /\ InFlight(h)
    /\ \/ c.step = "read" /\ Exists(c.on) /\ AnsweredWith(h, row[c.on])
       \/ c.step = "roster" /\ Answered(h, "ok")
    /\ UNCHANGED <<row, page, gestures, doubt, crossed>>

\* A call is refused, or lost before it is served.
refuse(h) ==
    /\ InFlight(h)
    /\ Answered(h, "failed")
    /\ UNCHANGED <<row, page, gestures, doubt, crossed>>

\* Another manager writes, or a volunteer answers.
othersWrite(s) ==
    /\ gestures < MaxGestures /\ gestures' = gestures + 1
    /\ Exists(s)
    /\ \E op \in {"add", "remove", "delete"}, d \in Days :
         Accepts(row[s], op, d) /\ row' = [row EXCEPT ![s] = Written(@, op, d)]
    /\ doubt' = TRUE
    /\ UNCHANGED <<page, task, crossed>>
-----------------------------------------------------------------------------
\* The gestures of the manager.

Gesture == gestures < MaxGestures /\ gestures' = gestures + 1

\* A call about s, and the schedule that is chosen now, which the page will load
\* again if the answer has it do so.
Starts(h, op, step, s, now, arg) ==
    /\ task[h] = NoTask
    /\ task' = [task EXCEPT ![h] = [op |-> op, step |-> step, on |-> s, back |-> now, arg |-> arg, answer |-> "none", data |-> Nothing]]
AwaitsAnother(h, s) == \E k \in Tasks \ {h} : Awaited(k) /\ {task[k].on, task[k].back} # {s}

\* The grid is mounted only with a sheet and while nothing loads; what it keeps
\* is lost with it.
GridIsOpen == chosen # Nothing /\ ~loading /\ shown # Nothing /\ ask = NoDialogs
CanEdit == GridIsOpen /\ shown.sheet.status # "ENCERRADA"
GridCloses == order' = Nothing /\ saving' = {}

\* The days in the order the grid shows them.
ShownDays == IF order # Nothing /\ order.of = shown.of /\ Range(order.days) = Range(shown.sheet.days)
             THEN order.days ELSE shown.sheet.days

fetchDetail(h, s) ==
    /\ loading' = TRUE /\ shown' = Nothing /\ chosen' = s
    /\ crossed' = (AwaitsAnother(h, s) \/ ask # NoDialogs)
    /\ GridCloses

chooseCard(h, s) ==
    /\ Gesture /\ ask = NoDialogs /\ row[s].status # "unmade"
    /\ Starts(h, "open", "read", s, s, Nothing)
    /\ fetchDetail(h, s)
    /\ UNCHANGED <<row, roster, ask, busy, doubt>>

\* The dialog of creation may be closed while the answer is awaited.
handleCreate(h, s) ==
    /\ Gesture /\ ask = NoDialogs /\ row[s].status = "unmade"
    /\ \A k \in Tasks : task[k].op # "create"
    /\ Starts(h, "create", "write", s, s, Nothing)
    /\ UNCHANGED <<row, page, doubt, crossed>>

\* Opening and closing the dialogs, each of which is of a schedule.
askStatus ==
    /\ GridIsOpen /\ ask' = [ask EXCEPT !.status = [of |-> shown.of, from |-> shown.sheet.status]]
    /\ UNCHANGED <<row, chosen, shown, roster, loading, order, saving, busy, task, gestures, doubt, crossed>>
askAction(action) ==
    /\ GridIsOpen /\ (action # "delete" => CanEdit /\ Has(shown.sheet, action))
    /\ ask' = [ask EXCEPT !.action = [of |-> IF action = "delete" THEN chosen ELSE shown.of, day |-> action]]
    /\ UNCHANGED <<row, chosen, shown, roster, loading, order, saving, busy, task, gestures, doubt, crossed>>
closeDialog(dialog) ==
    /\ ask[dialog] # Nothing /\ ask' = [ask EXCEPT ![dialog] = Nothing]
    /\ UNCHANGED <<row, chosen, shown, roster, loading, order, saving, busy, task, gestures, doubt, crossed>>

\* The schedule that is chosen now has its status changed, or is deleted; a day
\* that a dialog names is of the schedule that was shown then.
Confirms(h, op, s, arg) ==
    /\ Gesture /\ ~busy /\ busy' = TRUE
    /\ Starts(h, op, "write", s, chosen, arg)
    /\ UNCHANGED <<row, chosen, shown, roster, loading, order, saving, ask, doubt, crossed>>
handleUpdateStatus(h, status) ==
    /\ ask.status # Nothing /\ chosen # Nothing /\ <<ask.status.from, status>> \in Transitions
    /\ Confirms(h, "status", chosen, status)
executePendingAction(h) ==
    /\ ask.action # Nothing /\ chosen # Nothing
    /\ IF ask.action.day = "delete" THEN Confirms(h, "delete", chosen, Nothing)
       ELSE Confirms(h, "removeDay", ask.action.of, ask.action.day)
confirmWarningAllocation(h) ==
    /\ ask.warning # Nothing
    /\ Confirms(h, "confirm", ask.warning.of, ask.warning.day)

\* The writes of the grid, none of which makes the page wait.
GridWrites(h, op, arg) ==
    /\ Gesture /\ CanEdit
    /\ Starts(h, op, "write", shown.of, chosen, arg)
    /\ UNCHANGED <<row, chosen, roster, loading, ask, busy, doubt, crossed>>
Disables(select) == select \notin saving /\ saving' = saving \cup {select}

onAddMembro(h, d) ==
    /\ GridWrites(h, "add", d)
    /\ Has(shown.sheet, d) /\ d \notin shown.sheet.staffed \cup shown.sheet.hidden
    /\ roster # Nothing
    /\ Disables(<<"member", d>>) /\ UNCHANGED <<shown, order>>
onRemoveMembro(h, d) ==
    /\ GridWrites(h, "remove", d)
    /\ d \in shown.sheet.staffed \ shown.sheet.hidden
    /\ UNCHANGED <<shown, order, saving>>
onUpdateDiaEvento(h, d) ==
    /\ GridIsOpen /\ Has(shown.sheet, d)
    /\ GridWrites(h, IF d \in shown.sheet.linked THEN "unlink" ELSE "link", d)
    /\ Disables(<<"event", d>>) /\ UNCHANGED <<shown, order>>
onAddDia(h, d) ==
    /\ GridWrites(h, "addDay", d)
    /\ ~Has(shown.sheet, d)
    /\ Disables(<<"day", Nothing>>) /\ UNCHANGED <<shown, order>>

\* The cell changes before the call.
handleToggleCelula(h, d) ==
    /\ GridIsOpen /\ Has(shown.sheet, d)
    /\ LET op == IF d \in shown.sheet.hidden THEN "show" ELSE "hide" IN
         GridWrites(h, op, d) /\ shown' = [shown EXCEPT !.sheet = Written(@, op, d)]
    /\ UNCHANGED <<order, saving>>

\* moveDia, and the drop of a day on another: the first goes last.
moveDia(h) ==
    /\ GridIsOpen /\ shown.sheet.status = "RASCUNHO" /\ Len(ShownDays) > 1
    /\ LET days == Append(Tail(ShownDays), Head(ShownDays)) IN
         GridWrites(h, "reorder", days) /\ order' = [of |-> shown.of, days |-> days]
    /\ UNCHANGED <<shown, saving>>
-----------------------------------------------------------------------------
\* The answers.

Arrived(h) == task[h] # NoTask /\ task[h].answer # "none"
Ends(h) == task' = [task EXCEPT ![h] = NoTask]
Goes(h, step) == task' = [task EXCEPT ![h].step = step, ![h].answer = "none", ![h].data = Nothing]

\* refreshDetail, of the schedule that was chosen when the task began.
Refreshes(h) ==
    /\ task' = [task EXCEPT ![h].step = "read", ![h].on = task[h].back, ![h].answer = "none", ![h].data = Nothing]
    /\ loading' = TRUE /\ GridCloses

\* appendEscalaItem and removeEscalaItem: in the sheet that is shown, if the day is there.
Patched(c) == IF shown # Nothing /\ shown.of = c.on /\ Has(shown.sheet, c.arg)
              THEN [shown EXCEPT !.sheet = Written(@, c.op, c.arg)] ELSE shown

\* The change that an answer reports has been undone since.
Undone(c) == c.answer = "ok" /\ (Exists(c.on) => Written(row[c.on], c.op, c.arg) # row[c.on])

Enabled(c) == CASE c.op = "add" -> <<"member", c.arg>>
                [] c.op \in {"link", "unlink"} -> <<"event", c.arg>>
                [] c.op = "addDay" -> <<"day", Nothing>>
                [] OTHER -> Nothing

created(h) ==
    /\ Arrived(h) /\ task[h].op = "create" /\ task[h].step = "write"
    /\ IF task[h].answer = "ok"
       THEN Goes(h, "read") /\ fetchDetail(h, task[h].on)
       ELSE Ends(h) /\ UNCHANGED <<chosen, shown, loading, order, saving, crossed>>
    /\ UNCHANGED <<row, roster, ask, busy, gestures, doubt>>

\* The answer to a write of the grid.
gridWritten(h) ==
    LET c == task[h] IN
    /\ Arrived(h) /\ c.step = "write" /\ c.op \in {"add", "remove"}
    /\ Ends(h)
    /\ shown' = IF c.answer = "ok" THEN Patched(c) ELSE shown
    /\ ask' = IF c.answer = "warned" THEN [ask EXCEPT !.warning = [of |-> c.on, day |-> c.arg]] ELSE ask
    /\ saving' = saving \ {Enabled(c)}
    /\ doubt' = (doubt \/ Undone(c))
    /\ UNCHANGED <<row, chosen, roster, loading, order, busy, gestures, crossed>>

\* A mutated form of toggled, used by no action: a failure is only told.
toggledOrTold(h) ==
    /\ Arrived(h) /\ task[h].step = "write" /\ task[h].op \in {"hide", "show"}
    /\ Ends(h)
    /\ UNCHANGED <<row, page, gestures, doubt, crossed>>

\* A cell that could not be changed has the sheet loaded again.
toggled(h) ==
    /\ Arrived(h) /\ task[h].step = "write" /\ task[h].op \in {"hide", "show"}
    /\ IF task[h].answer = "ok" THEN Ends(h) /\ UNCHANGED <<loading, order, saving>> ELSE Refreshes(h)
    /\ UNCHANGED <<row, chosen, shown, roster, ask, busy, gestures, doubt, crossed>>

\* The order on the screen is not taken back when the call fails.
reordered(h) ==
    /\ Arrived(h) /\ task[h].step = "write" /\ task[h].op = "reorder"
    /\ Ends(h)
    /\ doubt' = (doubt \/ task[h].answer = "failed")
    /\ UNCHANGED <<row, page, gestures, crossed>>

\* The writes after which the sheet is loaded again.
writtenAndRead(h) ==
    LET c == task[h] IN
    /\ Arrived(h) /\ c.step = "write" /\ c.op \in {"status", "removeDay", "addDay", "link", "unlink"}
    /\ IF c.answer = "ok" THEN Refreshes(h) /\ UNCHANGED busy
       ELSE /\ Ends(h)
            /\ busy' = (busy /\ c.op \notin {"status", "removeDay"})
            /\ saving' = saving \ {Enabled(c)}
            /\ UNCHANGED <<loading, order>>
    /\ UNCHANGED <<row, chosen, shown, roster, ask, gestures, doubt, crossed>>

confirmed(h) ==
    LET c == task[h] IN
    /\ Arrived(h) /\ c.step = "write" /\ c.op \in {"delete", "confirm"}
    /\ Ends(h) /\ busy' = FALSE
    /\ IF c.answer # "ok" THEN UNCHANGED <<chosen, shown, order, saving, ask>>
       ELSE IF c.op = "delete"
       THEN chosen' = Nothing /\ shown' = Nothing /\ GridCloses /\ ask' = [ask EXCEPT !.action = Nothing]
       ELSE shown' = Patched(c) /\ ask' = [ask EXCEPT !.warning = Nothing] /\ UNCHANGED <<chosen, order, saving>>
    /\ doubt' = (doubt \/ (c.op = "confirm" /\ Undone(c)))
    /\ UNCHANGED <<row, roster, loading, gestures, crossed>>

\* A write that is not in the copy just loaded, and will not be put there.
Unseen(s) == \E k \in Tasks : Awaited(k) /\ task[k].on = s /\ task[k].op \in {"hide", "show", "reorder"}

\* A sheet is loaded: the answers of the first load ask for the members of the
\* ministry next, those of refreshDetail close the dialog they came from.
loaded(h) ==
    LET c == task[h]
        ok == c.answer # "failed"
        first == c.op \in {"open", "create"}
    IN
    /\ Arrived(h) /\ c.step = "read"
    /\ shown' = IF ok THEN [of |-> c.on, sheet |-> c.data] ELSE shown
    /\ IF first /\ ok THEN Goes(h, "roster") /\ UNCHANGED loading ELSE Ends(h) /\ loading' = FALSE
    /\ ask' = IF ~ok THEN ask
              ELSE IF c.op = "status" THEN [ask EXCEPT !.status = Nothing]
              ELSE IF c.op = "removeDay" THEN [ask EXCEPT !.action = Nothing] ELSE ask
    /\ busy' = (busy /\ c.op \notin {"status", "removeDay"})
    /\ saving' = saving \ {Enabled(c)}
    /\ doubt' = IF ok THEN c.data # row[c.on] \/ Unseen(c.on) \/ (doubt /\ order # Nothing) ELSE doubt \/ ~first
    /\ UNCHANGED <<row, chosen, roster, order, gestures, crossed>>

\* A load that fails leaves the members of the former schedule.
membersLoaded(h) ==
    /\ Arrived(h) /\ task[h].step = "roster"
    /\ Ends(h) /\ loading' = FALSE
    /\ roster' = IF task[h].answer = "ok" THEN task[h].on ELSE roster
    /\ UNCHANGED <<row, chosen, shown, order, saving, ask, busy, gestures, doubt, crossed>>

EditorNext ==
    \/ \E h \in Tasks :
         \/ serve(h) \/ warn(h) \/ findOne(h) \/ refuse(h)
         \/ \E s \in Schedules : chooseCard(h, s) \/ handleCreate(h, s)
         \/ \E status \in Statuses : handleUpdateStatus(h, status)
         \/ executePendingAction(h) \/ confirmWarningAllocation(h) \/ moveDia(h)
         \/ \E d \in Days :
              \/ onAddMembro(h, d) \/ onRemoveMembro(h, d) \/ onUpdateDiaEvento(h, d)
              \/ onAddDia(h, d) \/ handleToggleCelula(h, d)
         \/ created(h) \/ gridWritten(h) \/ toggled(h) \/ reordered(h) \/ writtenAndRead(h)
         \/ confirmed(h) \/ loaded(h) \/ membersLoaded(h)
    \/ \E s \in Schedules : othersWrite(s)
    \/ askStatus \/ \E action \in Days \cup {"delete"} : askAction(action)
    \/ \E dialog \in {"action", "status", "warning"} : closeDialog(dialog)

EditorSpec == EditorInit /\ [][EditorNext]_editorVars
-----------------------------------------------------------------------------
EditorTypeOK ==
    /\ row \in [Schedules -> Sheets \cup [status : {"unmade", "gone"}]]
    /\ chosen \in Schedules \cup {Nothing} /\ roster \in Schedules \cup {Nothing}
    /\ shown = Nothing \/ shown \in [of : Schedules, sheet : Sheets]
    /\ {loading, busy, doubt, crossed} \subseteq BOOLEAN
    /\ \A h \in Tasks : Awaited(h) => task[h].step \in Steps /\ task[h].op \in Writes \cup {"open"}
    /\ gestures \in 0..MaxGestures

\* What the grid shows is what is stored, once nothing is awaited, as long as no
\* write of another, lost answer or overtaken load came between: the changes the
\* page makes to its own copy add up to those of the rows.
ShowsWhatIsStored ==
    (shown # Nothing /\ ~doubt /\ \A h \in Tasks : ~Awaited(h))
        => [shown.sheet EXCEPT !.days = ShownDays] = row[shown.of]

\* The page acts on the schedule it shows: the buttons, which act on the one that
\* is chosen, and the dialogs, which were opened on a copy of it or on its days.
ActsOnWhatIsShown ==
    (chosen # Nothing /\ ~crossed) =>
        /\ shown # Nothing => shown.of = chosen
        /\ ask.status # Nothing => ask.status.of = chosen
        /\ ask.action # Nothing => ask.action.of = chosen
        /\ ask.warning # Nothing => ask.warning.of = chosen

\* Whoever edits the grid sees the rows of the schedule that the next gesture
\* will change (fetchDetail, refreshDetail, EscalaGrid).
GridTellsTheTruth == ShowsWhatIsStored /\ ActsOnWhatIsShown
=============================================================================
