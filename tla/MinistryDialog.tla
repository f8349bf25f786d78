---------------------------- MODULE MinistryDialog ----------------------------
(***************************************************************************)
(* The dialog where a ministry is edited (ministerios/page.tsx), with the  *)
(* calls it makes of ministerios.service.ts and                            *)
(* configuracao-escalas.service.ts.                                        *)
(*                                                                         *)
(* The list of positions is typed over a copy and saved as a whole: what   *)
(* the list lacks is deleted.  One list serves every ministry that is      *)
(* opened, and it is filled by the answer to a load that may be late, of   *)
(* another ministry, or never come.  Calls overlap and are answered in any *)
(* order; other managers add positions meanwhile.  Memberships models what *)
(* becomes of the members; here a change of a member is a call after which *)
(* the details are loaded again.                                           *)
(***************************************************************************)
EXTENDS Naturals, FiniteSets

CONSTANTS
    Ministries,
    FirstPositions, \* the positions of each ministry, at first
    Names,          \* the names of positions
    Errands,        \* what the dialog may be waiting for at once
    MaxMoves,       \* bound on the gestures of the manager and of others
    NoMinistry

VARIABLES
    positions, \* ministerioFuncao: the names of each ministry
    employed,  \* those that a schedule uses
    dialog,    \* selectedMinisterio, while the dialog is open
    typed,     \* funcoes, the list on the screen
    removing,  \* pendingDeleteFuncao
    renaming,  \* configuringFuncao
    waiting,   \* the requests whose buttons are disabled
    errand,
    moves,
    relied,    \* history: the positions the open ministry was loaded with
    mixed      \* history: the list holds what is not of the open ministry

dialogVars == <<positions, employed, dialog, typed, removing, renaming, waiting, errand, moves, relied, mixed>>
tablesOfDialog == <<positions, employed>>
screen == <<dialog, typed, removing, renaming, waiting, relied, mixed>>

ASSUME DialogAssumption ==
    /\ FirstPositions \in [Ministries -> SUBSET Names]
    /\ NoMinistry \notin Ministries /\ MaxMoves \in Nat

NoErrand == [op |-> "none"]
Errand == [op : {"save", "remove", "rename", "member", "details"}, of : Ministries, names : SUBSET Names,
           subject : Names \cup {"nothing"}, as : Names \cup {"nothing"}, step : {"asked", "pruned", "answered", "failed"},
           thenClose : BOOLEAN, relied : SUBSET Names, mixed : BOOLEAN]

DialogInit ==
    /\ positions = FirstPositions
    /\ employed \in {[m \in Ministries |-> used \cap FirstPositions[m]] : used \in SUBSET Names}
    /\ dialog = NoMinistry /\ typed = {} /\ removing = "nothing" /\ renaming = "nothing" /\ waiting = {}
    /\ errand = [h \in Errands |-> NoErrand]
    /\ moves = 0
    /\ relied = {} /\ mixed = FALSE

Saves(op) == op \in {"save", "remove"}
Underway(h, step) == errand[h] # NoErrand /\ errand[h].step = step
-----------------------------------------------------------------------------
\* The API.

\* deleteMany of the positions that are not given: if a schedule uses one of
\* them none is deleted, and the failure is ignored.
Pruned(m, names) == IF employed[m] \subseteq names THEN positions[m] \cap names ELSE positions[m]

\* update of a ministry with its positions, in two steps, and the answer to it.
updateMinisterio(h) ==
    LET c == errand[h] IN
    /\ c # NoErrand /\ Saves(c.op)
    /\ \/ /\ c.step = "asked"
          /\ positions' = [positions EXCEPT ![c.of] = Pruned(c.of, c.names)]
          /\ errand' = [errand EXCEPT ![h].step = "pruned"]
       \/ /\ c.step = "pruned"
          /\ positions' = [positions EXCEPT ![c.of] = @ \cup c.names]
          /\ \E outcome \in {"answered", "failed"} : errand' = [errand EXCEPT ![h].step = outcome]
    /\ UNCHANGED <<employed, screen, moves>>

\* updateFuncaoConfiguracao: the position keeps its row, and its schedules.
updateFuncaoConfiguracao(h) ==
    LET c == errand[h] IN
    /\ Underway(h, "asked") /\ c.op = "rename"
    /\ c.subject \in positions[c.of] /\ (c.as = c.subject \/ c.as \notin positions[c.of])
    /\ positions' = [positions EXCEPT ![c.of] = (@ \ {c.subject}) \cup {c.as}]
    /\ employed' = [employed EXCEPT ![c.of] = IF c.subject \in @ THEN (@ \ {c.subject}) \cup {c.as} ELSE @]
    /\ \E outcome \in {"answered", "failed"} : errand' = [errand EXCEPT ![h].step = outcome]
    /\ UNCHANGED <<screen, moves>>

\* A member is changed, or the details are read.
serveErrand(h) ==
    /\ Underway(h, "asked") /\ errand[h].op \in {"member", "details"}
    /\ errand' = [errand EXCEPT ![h].step = "answered", ![h].names = positions[errand[h].of]]
    /\ UNCHANGED <<tablesOfDialog, screen, moves>>

\* A call is refused or cut off, between its statements too.
failErrand(h) ==
    /\ Underway(h, "asked") \/ Underway(h, "pruned")
    /\ errand' = [errand EXCEPT ![h].step = "failed"]
    /\ UNCHANGED <<tablesOfDialog, screen, moves>>

\* Another manager adds a position, or a schedule begins to use one.
othersAdd(m, f) ==
    /\ moves < MaxMoves /\ moves' = moves + 1
    /\ f \notin positions[m] /\ positions' = [positions EXCEPT ![m] = @ \cup {f}]
    /\ UNCHANGED <<employed, screen, errand>>
-----------------------------------------------------------------------------
\* The gestures of the manager.
Move == moves < MaxMoves /\ moves' = moves + 1
Call(op, m, names, subject, as) ==
    [op |-> op, of |-> m, names |-> names, subject |-> subject, as |-> as, step |-> "asked",
     thenClose |-> op = "save", relied |-> IF Saves(op) THEN relied ELSE {}, mixed |-> Saves(op) /\ mixed]
Sends(h, call) == errand[h] = NoErrand /\ errand' = [errand EXCEPT ![h] = call]
IsEdited == dialog \in Ministries /\ removing = "nothing" /\ renaming = "nothing"

\* The card of a ministry: the list stays as the last one left it until the
\* details come.
openMinisterio(h, m) ==
    /\ Move /\ dialog = NoMinistry /\ removing = "nothing"
    /\ dialog' = m /\ relied' = {} /\ mixed' = FALSE
    /\ Sends(h, Call("details", m, {}, "nothing", "nothing"))
    /\ UNCHANGED <<tablesOfDialog, typed, removing, renaming, waiting>>

\* Escape closes every dialog that is open.
closeDialogs ==
    /\ dialog # NoMinistry \/ removing # "nothing"
    /\ dialog' = NoMinistry /\ removing' = "nothing" /\ renaming' = "nothing" /\ relied' = {} /\ mixed' = FALSE
    /\ UNCHANGED <<tablesOfDialog, typed, waiting, errand, moves>>
cancelConfirm ==
    /\ removing # "nothing" \/ renaming # "nothing"
    /\ removing' = "nothing" /\ renaming' = "nothing"
    /\ UNCHANGED <<tablesOfDialog, dialog, typed, waiting, errand, moves, relied, mixed>>

handleAddFuncao(f) ==
    /\ Move /\ IsEdited /\ f \notin typed
    /\ typed' = typed \cup {f}
    /\ UNCHANGED <<tablesOfDialog, dialog, removing, renaming, waiting, errand, relied, mixed>>
askRemoval(f) ==
    /\ IsEdited /\ f \in typed /\ removing' = f
    /\ UNCHANGED <<tablesOfDialog, dialog, typed, renaming, waiting, errand, moves, relied, mixed>>
\* Only a position of the details that were loaded, which the list names alike.
handleOpenConfigureFuncao(f) ==
    /\ IsEdited /\ f \in typed \cap relied /\ renaming' = f
    /\ UNCHANGED <<tablesOfDialog, dialog, typed, removing, waiting, errand, moves, relied, mixed>>

Submits(h, op, call) ==
    /\ Move /\ op \notin waiting /\ waiting' = waiting \cup {op}
    /\ Sends(h, call)
    /\ UNCHANGED <<tablesOfDialog, dialog, typed, removing, renaming, relied, mixed>>

handleSaveFuncoes(h) == IsEdited /\ Submits(h, "save", Call("save", dialog, typed, "nothing", "nothing"))
confirmDeleteFuncao(h) ==
    /\ dialog \in Ministries /\ removing # "nothing"
    /\ Submits(h, "remove", [Call("remove", dialog, typed \ {removing}, removing, "nothing") EXCEPT !.relied = @ \ {removing}])
handleSaveConfiguringFuncao(h, name) ==
    /\ dialog \in Ministries /\ renaming # "nothing"
    /\ Submits(h, "rename", Call("rename", dialog, {}, renaming, name))

\* handleAddMembro, handleRemoveMembro, handleChangeRole, handleSaveFuncoesMembro.
changeMember(h) ==
    /\ Move /\ IsEdited
    /\ Sends(h, Call("member", dialog, {}, "nothing", "nothing"))
    /\ UNCHANGED <<tablesOfDialog, screen>>
-----------------------------------------------------------------------------
\* The answers.
ThenLoads(h) ==
    errand' = [errand EXCEPT ![h].op = "details", ![h].step = "asked", ![h].names = {}, ![h].relied = {}, ![h].mixed = FALSE]
IsOver(h) == errand' = [errand EXCEPT ![h] = NoErrand]
Enables(c) == waiting' = waiting \ {IF c.thenClose THEN "save" ELSE IF c.as # "nothing" THEN "rename" ELSE IF c.subject # "nothing" THEN "remove" ELSE "none"}

\* A call that failed is told; what was typed stays.
errandFailed(h) ==
    LET c == errand[h] IN
    /\ Underway(h, "failed") /\ c.op # "details"
    /\ IsOver(h) /\ Enables(c)
    /\ UNCHANGED <<tablesOfDialog, dialog, typed, removing, renaming, moves, relied, mixed>>

\* The list that is open now, whose it may be, takes what the call had of its own.
Disturbs(c) == dialog \in Ministries /\ (c.mixed \/ c.of # dialog \/ relied # c.relied \cup {c.subject})

errandServed(h) ==
    LET c == errand[h] IN
    /\ Underway(h, "answered") /\ c.op # "details"
    /\ ThenLoads(h)
    /\ CASE c.op = "remove" ->
              /\ typed' = c.names /\ removing' = "nothing" /\ UNCHANGED renaming
              /\ relied' = relied \ {c.subject} /\ mixed' = (mixed \/ Disturbs(c))
         [] c.op = "rename" ->
              /\ typed' = IF c.subject \in typed THEN (typed \ {c.subject}) \cup {c.as} ELSE typed
              /\ renaming' = "nothing" /\ UNCHANGED removing
              /\ relied' = IF dialog = c.of /\ c.subject \in relied THEN (relied \ {c.subject}) \cup {c.as} ELSE relied
              /\ mixed' = (mixed \/ (dialog \in Ministries /\ c.of # dialog))
         [] OTHER -> UNCHANGED <<typed, removing, renaming, relied, mixed>>
    /\ UNCHANGED <<tablesOfDialog, dialog, waiting, moves>>

\* A mutated form of Filled, used by no action: a list that has names is kept.
FilledIfEmpty(names) == IF typed = {} THEN names ELSE typed

\* The effect of detailedInfo: the list is that of the details.
Filled(names) == names

\* fetchDetails returns: it never throws, and the save that awaited it closes
\* the dialog, whichever is open.
detailsLoaded(h) ==
    LET c == errand[h]
        ok == c.step = "answered"
        closes == c.thenClose /\ dialog # NoMinistry
    IN
    /\ errand[h] # NoErrand /\ c.op = "details" /\ c.step \in {"answered", "failed"}
    /\ IsOver(h) /\ Enables(c)
    /\ typed' = IF ok THEN Filled(c.names) ELSE typed
    /\ dialog' = IF closes THEN NoMinistry ELSE dialog
    /\ relied' = IF closes THEN {} ELSE IF ok /\ dialog = c.of THEN c.names ELSE relied
    /\ mixed' = IF closes THEN FALSE ELSE IF ok /\ dialog \in Ministries THEN dialog # c.of ELSE mixed
    /\ UNCHANGED <<tablesOfDialog, removing, renaming, moves>>

DialogNext ==
    \/ \E h \in Errands :
         \/ updateMinisterio(h) \/ updateFuncaoConfiguracao(h) \/ serveErrand(h) \/ failErrand(h)
         \/ \E m \in Ministries : openMinisterio(h, m)
         \/ handleSaveFuncoes(h) \/ confirmDeleteFuncao(h) \/ changeMember(h)
         \/ \E f \in Names : handleSaveConfiguringFuncao(h, f)
         \/ errandFailed(h) \/ errandServed(h) \/ detailsLoaded(h)
    \/ closeDialogs \/ cancelConfirm
    \/ \E f \in Names : handleAddFuncao(f) \/ askRemoval(f) \/ handleOpenConfigureFuncao(f)
    \/ \E m \in Ministries, f \in Names : othersAdd(m, f)

DialogSpec == DialogInit /\ [][DialogNext]_dialogVars
-----------------------------------------------------------------------------
DialogTypeOK ==
    /\ positions \in [Ministries -> SUBSET Names] /\ employed \in [Ministries -> SUBSET Names]
    /\ dialog \in Ministries \cup {NoMinistry}
    /\ {typed, relied} \subseteq SUBSET Names /\ {removing, renaming} \subseteq Names \cup {"nothing"}
    /\ waiting \subseteq {"save", "remove", "rename"} /\ mixed \in BOOLEAN
    /\ errand \in [Errands -> Errand \cup {NoErrand}]
    /\ moves \in 0..MaxMoves

\* A position that the dialog had loaded of its ministry, and that the manager
\* did not remove, is not deleted by what he saves: not after a late answer, a
\* refresh that undoes what was typed, a failure half way or a renaming.  Saving
\* before the details come, or after those of another ministry, is another thing.
KeptPositionsSurvive ==
    [][\A h \in Errands :
         Underway(h, "asked") /\ errand'[h].step = "pruned" /\ ~errand[h].mixed
           => positions[errand[h].of] \cap errand[h].relied \subseteq positions'[errand[h].of]]_dialogVars
=============================================================================
