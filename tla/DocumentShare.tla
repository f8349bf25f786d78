----------------------------- MODULE DocumentShare -----------------------------
(***************************************************************************)
(* The pages that show the schedules and the agenda and share them as      *)
(* documents (use-document-share.ts, use-filter-state.ts,                  *)
(* export-calendar-weeks.ts, the pages under visualizacao).                *)
(*                                                                         *)
(* What is shown is loaded by a filter, which a timer may apply late.  A   *)
(* document is made by the server of the rows of that moment, and kept in  *)
(* the page for the same request until what is shown changes.  An image is *)
(* asked for by the number of a page, which either side counts on the      *)
(* weeks it has; those of the agenda the server counts by the local day    *)
(* and the page by the day of UTC, which for a late event is the next.     *)
(***************************************************************************)
EXTENDS Naturals, FiniteSets

CONSTANTS
    Searches,       \* what the page may be filtered by; FirstSearch when it opens
    FirstSearch,
    NoSearch,
    Weeks,     \* the weeks that a filter may find something in
    Slots,     \* loads, and documents, that are on their way at once
    MaxPicks   \* bound on what the user and others do

ASSUME DocumentShareAssumption ==
    FirstSearch \in Searches /\ NoSearch \notin Searches /\ Weeks \subseteq Nat /\ IsFiniteSet(Weeks) /\ MaxPicks \in Nat

VARIABLES
    rowsOf,         \* the weeks each filter finds, those whose event begins late on their last day, and a version
    formState,      \* the filter that is typed
    timer,          \* the filter that the debounce will apply
    appliedFilter,  \* the filter that is applied
    listed,         \* what is shown, and the filter it answers
    listPending,
    lists,
    shareDialog,    \* closed, format or week
    selectedPngWeek,
    exporting,
    shares,         \* documents that are made, and those that are offered to share
    sessionCache,
    preparedFiles,
    picks

shareVars == <<rowsOf, formState, timer, appliedFilter, listed, listPending, lists, shareDialog, selectedPngWeek,
               exporting, shares, sessionCache, preparedFiles, picks>>

Nil == [step |-> "none"]
NoFile == [of |-> NoSearch]
Pdf == <<"pdf", 1>>
Todas == <<"todas", 1>>
Pages == {"semana"} \X (1..Cardinality(Weeks)) \* images of one week, by the number of the page
Shareables == {Pdf, Todas} \cup Pages
Keys == Searches \X Shareables

ShareInit ==
    /\ rowsOf \in [Searches -> [weeks : {Weeks, {}}, late : {{}}, version : {0}]]
    /\ rowsOf[FirstSearch].weeks = Weeks
    /\ formState = FirstSearch /\ timer = NoSearch /\ appliedFilter = FirstSearch
    /\ listed = [of |-> FirstSearch, weeks |-> {}, version |-> 0]
    /\ listPending = TRUE
    /\ lists = [l \in Slots |-> Nil]
    /\ shareDialog = "closed" /\ selectedPngWeek = <<"semana", 1>>
    /\ exporting = FALSE
    /\ shares = [s \in Slots |-> Nil]
    /\ sessionCache = [k \in Keys |-> NoFile] /\ preparedFiles = NoFile
    /\ picks = 0

Pick == picks < MaxPicks /\ picks' = picks + 1

\* The pages of images: the n-th week that something is in, on either side.
WeekOf(weeks, n) == CHOOSE w \in weeks : Cardinality({v \in weeks : v < w}) = n - 1

WeeksOfPage(row) == (row.weeks \ row.late) \cup {w + 1 : w \in row.late}

\* What is kept and prepared is dropped when the filter or the list changes;
\* what is on its way does not know.
DropsDocuments ==
    /\ sessionCache' = [k \in Keys |-> NoFile]
    /\ preparedFiles' = NoFile
    /\ shares' = [s \in Slots |-> IF shares[s] = Nil THEN Nil ELSE [shares[s] EXCEPT !.crossed = TRUE]]
KeepsDocuments == UNCHANGED <<sessionCache, preparedFiles, shares>>
-----------------------------------------------------------------------------
\* applyFilter and refetch: the list is asked for again.
Fetches(f) ==
    /\ \E l \in Slots : lists[l] = Nil /\ lists' = [lists EXCEPT ![l] = [step |-> "asked", of |-> f]]
    /\ listPending' = TRUE
Applies(f) ==
    /\ appliedFilter' = f /\ Fetches(f)
    /\ IF f = appliedFilter THEN KeepsDocuments ELSE DropsDocuments

\* The effect of the list when the page opens.
firstLoad ==
    /\ listPending /\ lists = [l \in Slots |-> Nil]
    /\ Fetches(FirstSearch)
    /\ UNCHANGED <<rowsOf, formState, timer, appliedFilter, listed, shareDialog, selectedPngWeek, exporting, shares, sessionCache, preparedFiles, picks>>

\* A field that is applied at once, or when nobody has typed for a while.
setField(f) ==
    /\ Pick /\ shareDialog = "closed" /\ f # formState
    /\ formState' = f
    /\ \/ timer' = NoSearch /\ Applies(f)
       \/ timer' = f /\ KeepsDocuments /\ UNCHANGED <<appliedFilter, lists, listPending>>
    /\ UNCHANGED <<rowsOf, listed, shareDialog, selectedPngWeek, exporting>>

scheduleDebounce ==
    /\ timer # NoSearch /\ timer' = NoSearch
    /\ Applies(timer)
    /\ UNCHANGED <<rowsOf, formState, listed, shareDialog, selectedPngWeek, exporting, picks>>

\* handleSubmit, handleClear and the button that loads again.
applyNow(f) ==
    /\ Pick /\ shareDialog = "closed" /\ f \in {formState, FirstSearch}
    /\ formState' = f /\ timer' = NoSearch
    /\ Applies(f)
    /\ UNCHANGED <<rowsOf, listed, shareDialog, selectedPngWeek, exporting>>

loadAgain ==
    /\ Pick /\ shareDialog = "closed"
    /\ Fetches(appliedFilter)
    /\ UNCHANGED <<rowsOf, formState, timer, appliedFilter, listed, shareDialog, selectedPngWeek, exporting, shares, sessionCache, preparedFiles>>

\* The server reads the rows; the answer that comes last is shown, and the first
\* ends the waiting.
findVisualizacao(l) ==
    /\ lists[l].step = "asked"
    /\ LET row == rowsOf[lists[l].of] IN
       lists' = [lists EXCEPT ![l] = [step |-> "answered", of |-> @.of, weeks |-> WeeksOfPage(row), version |-> row.version]]
    /\ UNCHANGED <<rowsOf, formState, timer, appliedFilter, listed, listPending, shareDialog, selectedPngWeek, exporting, shares, sessionCache, preparedFiles, picks>>

listLoaded(l) ==
    /\ lists[l].step = "answered"
    /\ listed' = [of |-> lists[l].of, weeks |-> lists[l].weeks, version |-> lists[l].version]
    /\ DropsDocuments
    /\ listPending' = FALSE /\ lists' = [lists EXCEPT ![l] = Nil]
    /\ UNCHANGED <<rowsOf, formState, timer, appliedFilter, shareDialog, selectedPngWeek, exporting, picks>>

listFailed(l) ==
    /\ lists[l] # Nil
    /\ listPending' = FALSE /\ lists' = [lists EXCEPT ![l] = Nil]
    /\ UNCHANGED <<rowsOf, formState, timer, appliedFilter, listed, shareDialog, selectedPngWeek, exporting, shares, sessionCache, preparedFiles, picks>>

rowsChange(f, weeks, late) ==
    /\ Pick
    /\ rowsOf' = [rowsOf EXCEPT ![f] = [weeks |-> weeks, late |-> late, version |-> @.version + 1]]
    /\ UNCHANGED <<formState, timer, appliedFilter, listed, listPending, lists, shareDialog, selectedPngWeek, exporting, shares, sessionCache, preparedFiles>>
-----------------------------------------------------------------------------
\* The dialog: a format, and for images a week of the list, or all of them.
openExportDialog ==
    /\ shareDialog = "closed" /\ ~listPending /\ listed.weeks # {} /\ ~exporting
    /\ shareDialog' = "format"
    /\ UNCHANGED <<rowsOf, formState, timer, appliedFilter, listed, listPending, lists, selectedPngWeek, exporting, shares, sessionCache, preparedFiles, picks>>

\* A week is set beforehand, the first if nothing is shown any longer.
setSelectedPngWeek(choice) ==
    /\ shareDialog \in {"format", "week"}
    /\ \/ choice \in Pages /\ (choice[2] <= Cardinality(listed.weeks) \/ choice[2] = 1)
       \/ choice = Todas /\ shareDialog = "week" /\ Cardinality(listed.weeks) > 1
    /\ shareDialog' = "week" /\ selectedPngWeek' = choice /\ <<shareDialog, selectedPngWeek>> # <<"week", choice>>
    /\ UNCHANGED <<rowsOf, formState, timer, appliedFilter, listed, listPending, lists, exporting, shares, sessionCache, preparedFiles, picks>>

\* The choice is made anew when the dialog opens, so that it is not kept.
Closed == shareDialog' = "closed" /\ selectedPngWeek' = <<"semana", 1>>

closeExportDialog ==
    /\ shareDialog # "closed" /\ Closed
    /\ UNCHANGED <<rowsOf, formState, timer, appliedFilter, listed, listPending, lists, exporting, shares, sessionCache, preparedFiles, picks>>

\* A mutated form of SessionKey, used by no action.
SessionKeyOfFormat(f, choice) == <<f, IF choice = Pdf THEN Pdf ELSE <<"semana", 1>> >>

SessionKey(f, choice) == <<f, choice>>

\* handleExportPdf and handleExportImages.  What is kept is offered at once.
handleExport(s, choice) ==
    LET kept == sessionCache[SessionKey(appliedFilter, choice)]
        asked == [of |-> appliedFilter, choice |-> choice, at |-> listed.version,
                  week |-> IF choice \in Pages /\ listed.of = appliedFilter /\ choice[2] <= Cardinality(listed.weeks)
                           THEN {WeekOf(listed.weeks, choice[2])} ELSE {}] IN
    /\ Pick /\ shares[s] = Nil
    /\ \/ shareDialog = "format" /\ choice = Pdf
       \/ shareDialog = "week" /\ choice = selectedPngWeek
    /\ Closed /\ preparedFiles' = NoFile
    /\ IF kept = NoFile
       THEN /\ exporting' = TRUE
            /\ shares' = [shares EXCEPT ![s] = [step |-> "asked", request |-> asked, crossed |-> FALSE]]
       ELSE /\ exporting' = FALSE
            /\ shares' = [shares EXCEPT ![s] = [step |-> "offered", file |-> kept, request |-> asked, crossed |-> kept.crossed]]
    /\ UNCHANGED <<rowsOf, formState, timer, appliedFilter, listed, listPending, lists, sessionCache>>

\* The pages of the server: of one week, or of all that something is in.
PageExists(row, choice) == row.weeks # {} /\ (choice \in Pages => choice[2] <= Cardinality(row.weeks))
PagesMade(row, choice) == IF choice \in Pages THEN {WeekOf(row.weeks, choice[2])} ELSE row.weeks

\* exportar: nothing to export, a page that there is not, and a server that is
\* busy are refused.
exportar(s) ==
    LET r == shares[s].request
        row == rowsOf[r.of]
        pages == PagesMade(row, r.choice) IN
    /\ shares[s].step = "asked"
    /\ PageExists(row, r.choice)
    /\ shares' = [shares EXCEPT ![s] =
           [step |-> "made", request |-> r, crossed |-> @.crossed,
            file |-> [of |-> r.of, choice |-> r.choice, weeks |-> pages, late |-> row.late, version |-> row.version]]]
    /\ UNCHANGED <<rowsOf, formState, timer, appliedFilter, listed, listPending, lists, shareDialog, selectedPngWeek, exporting, sessionCache, preparedFiles, picks>>

\* It is kept under the filter it was asked by, and offered.
documentMade(s) ==
    LET r == shares[s].request
        file == [of |-> r.of, choice |-> r.choice, weeks |-> shares[s].file.weeks, version |-> shares[s].file.version, late |-> shares[s].file.late,
                 at |-> r.at, week |-> r.week, crossed |-> shares[s].crossed] IN
    /\ shares[s].step = "made"
    /\ sessionCache' = [sessionCache EXCEPT ![SessionKey(r.of, r.choice)] = file]
    /\ exporting' = FALSE
    /\ shares' = [shares EXCEPT ![s] = [step |-> "offered", request |-> r, file |-> file, crossed |-> @.crossed]]
    /\ UNCHANGED <<rowsOf, formState, timer, appliedFilter, listed, listPending, lists, shareDialog, selectedPngWeek, preparedFiles, picks>>

\* The error is told.
exportFails(s) ==
    /\ shares[s].step \in {"asked", "made"}
    /\ exporting' = FALSE /\ shares' = [shares EXCEPT ![s] = Nil]
    /\ UNCHANGED <<rowsOf, formState, timer, appliedFilter, listed, listPending, lists, shareDialog, selectedPngWeek, sessionCache, preparedFiles, picks>>

\* handleSharePreparedFiles, in silence: what could not be shared is put into
\* the page with two buttons.
shareEnds(s, result) ==
    /\ shares[s].step = "offered"
    /\ preparedFiles' = CASE result = "shared" -> NoFile
                          [] result = "failed" -> [shares[s].file EXCEPT !.crossed = shares[s].crossed]
                          [] OTHER -> preparedFiles
    /\ exporting' = FALSE /\ shares' = [shares EXCEPT ![s] = Nil]
    /\ UNCHANGED <<rowsOf, formState, timer, appliedFilter, listed, listPending, lists, shareDialog, selectedPngWeek, sessionCache, picks>>

\* handleFallbackShare, which downloads what still is not shared, and the button
\* to download.
usePreparedFiles ==
    /\ preparedFiles # NoFile /\ preparedFiles' = NoFile
    /\ UNCHANGED <<rowsOf, formState, timer, appliedFilter, listed, listPending, lists, shareDialog, selectedPngWeek, exporting, shares, sessionCache, picks>>

ShareNext ==
    \/ \E f \in Searches : setField(f) \/ applyNow(f) \/ \E weeks \in SUBSET Weeks, late \in {{}} \cup {{w} : w \in Weeks} :
           late \subseteq weeks /\ rowsChange(f, weeks, late)
    \/ firstLoad \/ scheduleDebounce \/ loadAgain \/ openExportDialog \/ closeExportDialog \/ usePreparedFiles
    \/ \E choice \in Shareables \ {Pdf} : setSelectedPngWeek(choice)
    \/ \E s \in Slots :
         \/ findVisualizacao(s) \/ listLoaded(s) \/ listFailed(s)
         \/ exportar(s) \/ documentMade(s) \/ exportFails(s)
         \/ \E choice \in Shareables : handleExport(s, choice)
         \/ \E result \in {"shared", "cancelled", "failed"} : shareEnds(s, result)

ShareSpec == ShareInit /\ [][ShareNext]_shareVars
-----------------------------------------------------------------------------
ShareTypeOK ==
    /\ appliedFilter \in Searches /\ formState \in Searches /\ timer \in Searches \cup {NoSearch}
    /\ \A f \in Searches : rowsOf[f].weeks \subseteq Weeks /\ rowsOf[f].version \in 0..MaxPicks
    /\ listed.of \in Searches /\ listed.weeks \subseteq Weeks \cup {w + 1 : w \in Weeks} /\ listed.version \in 0..MaxPicks
    /\ shareDialog \in {"closed", "format", "week"} /\ selectedPngWeek \in Shareables
    /\ listPending \in BOOLEAN /\ exporting \in BOOLEAN /\ picks \in 0..MaxPicks
    /\ \A s \in Slots : lists[s].step \in {"none", "asked", "answered"} /\ shares[s].step \in {"none", "asked", "made", "offered"}

\* A document that may be given away is of the filter that is applied and of rows
\* no older than those shown, and an image is of the week that was chosen, if the
\* rows are those the choice was made on.
IsOfThePage(file) ==
    ~file.crossed =>
        /\ file.of = appliedFilter
        /\ (listed.of = appliedFilter => file.version >= listed.version)
        /\ (file.week # {} /\ file.version = file.at /\ file.late = {} => file.weeks = file.week)

\* What is offered, prepared or kept for the next time is what the page shows,
\* and the button waits for nothing but a document that is being made.  Excused
\* are documents that were on their way when what is shown changed, and images of
\* an agenda with an event so late that the page has it in another week.
SharedIsWhatIsShown ==
    /\ \A s \in Slots : shares[s].step = "offered" =>
          /\ IsOfThePage([shares[s].file EXCEPT !.crossed = shares[s].crossed])
          /\ (~shares[s].crossed => shares[s].file.choice = shares[s].request.choice)
    /\ (preparedFiles # NoFile => IsOfThePage(preparedFiles))
    /\ \A k \in Keys : sessionCache[k] # NoFile => IsOfThePage(sessionCache[k])
    /\ exporting => \E s \in Slots : shares[s].step \in {"asked", "made"}
=============================================================================
