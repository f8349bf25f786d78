----------------------------- MODULE RecordPages -----------------------------
(***************************************************************************)
(* The pages of the web application that list records and edit them in a   *)
(* form: members, agenda, ministries, finance, users, tenants, and the     *)
(* segments and rules of schedules.                                        *)
(*                                                                         *)
(* They are made alike and differ in a few traits: whether the list is     *)
(* mended with the answer to a write or loaded again, whether a form makes *)
(* one call or two (a member and then the photo), which buttons wait.      *)
(* Answers come in any order or never; a form may be closed and another    *)
(* opened meanwhile, and others write.                                     *)
(***************************************************************************)
EXTENDS Naturals, FiniteSets

CONSTANTS
    Sections,     \* the pages an instance visits
    Records,
    FirstRecords, \* those that are stored at first
    Jobs,         \* what a page may be waiting for at once
    MaxVisits     \* bound on what the user and others do

VARIABLES
    section,  \* the page that is open
    stored,   \* the rows
    list,     \* the records as the page has them
    twice,    \* those it has twice
    filter,   \* what the list was last asked for
    form,     \* the form that is open
    job,
    visits,
    told,     \* history: the forms of creation that reported a failure
    astray    \* history: the list was overtaken

recordVars == <<section, stored, list, twice, filter, form, job, visits, told, astray>>

Named == {"members", "agenda", "ministries", "finance", "users", "tenants", "segments", "rules"}

ASSUME RecordPagesAssumption ==
    Sections \subseteq Named /\ FirstRecords \subseteq Records /\ "new" \notin Records /\ MaxVisits \in Nat
-----------------------------------------------------------------------------
\* The traits.  The list after a write: the answer is put into it, or it is
\* loaded again.
MembersList == [creates |-> "puts", updates |-> "puts", removes |-> "drops", filters |-> TRUE]
EventsList == [creates |-> "puts", updates |-> "puts", removes |-> "drops", filters |-> TRUE]
MinistriesList == [creates |-> "loads", updates |-> "puts", removes |-> "archives", filters |-> FALSE]
FinanceList == [creates |-> "loads", updates |-> "loads", removes |-> "archives", filters |-> FALSE]
UsersList == [creates |-> "loads", updates |-> "loads", removes |-> "archives", filters |-> FALSE]
TenantsList == [creates |-> "loads", updates |-> "loads", removes |-> "never", filters |-> FALSE]
SegmentsList == [creates |-> "puts", updates |-> "puts", removes |-> "drops", filters |-> FALSE]
RulesList == [creates |-> "puts", updates |-> "puts", removes |-> "drops", filters |-> FALSE]

\* The form: whether a second call follows the first, which forms cannot be
\* sent while one is awaited, whether the form closes before the list is loaded.
MembersForm == [second |-> TRUE, waits |-> "form", closesFirst |-> FALSE]
EventsForm == [second |-> FALSE, waits |-> "page", closesFirst |-> FALSE]
MinistriesForm == [second |-> FALSE, waits |-> "none", closesFirst |-> FALSE]
FinanceForm == [second |-> TRUE, waits |-> "page", closesFirst |-> TRUE]
UsersForm == [second |-> TRUE, waits |-> "form", closesFirst |-> FALSE]
TenantsForm == [second |-> TRUE, waits |-> "form", closesFirst |-> TRUE]
SegmentsForm == [second |-> FALSE, waits |-> "page", closesFirst |-> FALSE]
RulesForm == [second |-> FALSE, waits |-> "page", closesFirst |-> FALSE]

\* A form of creation that is sent again as it was: a unique key refuses it, or
\* finds the row that is there, or nothing does.
Repeated == CASE section \in {"users", "tenants", "segments"} -> "refused"
              [] section = "rules" -> "found"
              [] OTHER -> "made"

Lists == CASE section = "members" -> MembersList [] section = "agenda" -> EventsList
           [] section = "ministries" -> MinistriesList [] section = "finance" -> FinanceList
           [] section = "users" -> UsersList [] section = "tenants" -> TenantsList
           [] section = "segments" -> SegmentsList [] section = "rules" -> RulesList
Edits == CASE section = "members" -> MembersForm [] section = "agenda" -> EventsForm
           [] section = "ministries" -> MinistriesForm [] section = "finance" -> FinanceForm
           [] section = "users" -> UsersForm [] section = "tenants" -> TenantsForm
           [] section = "segments" -> SegmentsForm [] section = "rules" -> RulesForm
-----------------------------------------------------------------------------
\* A row: the part of it that a filter reads, what a second call adds, and the
\* form that made it.
Filters == {"all", "some"}
Contents == [value : {"in", "out"}, extra : BOOLEAN]
Row == [contents : Contents, maker : 0..MaxVisits, state : {"stored", "deleted"}]
Unmade == [state |-> "unmade"]
Absent == [value |-> "absent"]
NoRows == [r \in Records |-> Absent]
NoForm == [of |-> "closed"]
NoJob == [op |-> "none"]
Targets == Records \cup {"new"}

IsStored(r) == stored[r].state = "stored"
Matches(r, f) == IsStored(r) /\ (f = "all" \/ stored[r].contents.value = "in")
Listing(f) == [r \in Records |-> IF Matches(r, f) THEN stored[r].contents ELSE Absent]
MadeBy(id) == {r \in Records : IsStored(r) /\ stored[r].maker = id}

RecordPagesInit ==
    /\ section \in Sections
    /\ stored = [r \in Records |-> IF r \in FirstRecords
                                   THEN [contents |-> [value |-> "in", extra |-> FALSE], maker |-> 0, state |-> "stored"] ELSE Unmade]
    /\ list = Listing("all") /\ twice = {} /\ filter = "all" /\ form = NoForm
    /\ job = [j \in Jobs |-> NoJob]
    /\ visits = 0
    /\ told = {} /\ astray = FALSE

IsAt(j, step, answer) == job[j] # NoJob /\ job[j].step = step /\ job[j].answer = answer
-----------------------------------------------------------------------------
\* The server.

\* A write is served, and the answer may be lost.
Replies(j, r) ==
    \/ /\ job' = [job EXCEPT ![j].answer = "ok", ![j].of = r, ![j].data = stored'[r].contents]
       /\ UNCHANGED astray
    \/ /\ job' = [job EXCEPT ![j].answer = "failed", ![j].data = Absent]
       /\ astray' = TRUE

\* A rule that is gone when it is saved is made again.
createRecord(j) ==
    LET twins == MadeBy(job[j].form) IN
    /\ IsAt(j, "write", "none") /\ job[j].op = "save"
    /\ job[j].of \in {"new"} \cup {r \in Records : section = "rules" /\ ~IsStored(r)}
    /\ IF twins # {} /\ Repeated # "made"
       THEN Repeated = "found" /\ \E r \in twins : stored' = [stored EXCEPT ![r].contents.value = job[j].data.value] /\ Replies(j, r)
       ELSE \E r \in Records :
              /\ stored[r] = Unmade
              /\ stored' = [stored EXCEPT ![r] = [contents |-> job[j].data, maker |-> job[j].form, state |-> "stored"]]
              /\ Replies(j, r)
    /\ UNCHANGED <<section, list, twice, filter, form, visits, told>>

\* The update of a form, a change of status, or an archiving.
updateRecord(j) ==
    LET r == job[j].of IN
    /\ IsAt(j, "write", "none") /\ r \in {x \in Records : IsStored(x)}
    /\ job[j].op \in {"save", "status"} \/ (job[j].op = "remove" /\ Lists.removes = "archives")
    /\ stored' = [stored EXCEPT ![r].contents.value = job[j].data.value]
    /\ Replies(j, r)
    /\ UNCHANGED <<section, list, twice, filter, form, visits, told>>

deleteRecord(j) ==
    LET r == job[j].of IN
    /\ IsAt(j, "write", "none") /\ job[j].op = "remove" /\ Lists.removes = "drops" /\ IsStored(r)
    /\ stored' = [stored EXCEPT ![r].state = "deleted"]
    /\ Replies(j, r)
    /\ UNCHANGED <<section, list, twice, filter, form, visits, told>>

\* The second call: the photo, the receipt, the logo, the permission.
addToRecord(j) ==
    LET r == job[j].of IN
    /\ IsAt(j, "second", "none") /\ IsStored(r)
    /\ stored' = [stored EXCEPT ![r].contents.extra = TRUE]
    /\ Replies(j, r)
    /\ UNCHANGED <<section, list, twice, filter, form, visits, told>>

findRecords(j) ==
    /\ IsAt(j, "load", "none")
    /\ job' = [job EXCEPT ![j].answer = "ok", ![j].rows = Listing(job[j].filter)]
    /\ UNCHANGED <<section, stored, list, twice, filter, form, visits, told, astray>>

\* A call is refused, or lost before it is served.
failJob(j) ==
    /\ job[j] # NoJob /\ job[j].answer = "none"
    /\ job' = [job EXCEPT ![j].answer = "failed", ![j].data = Absent]
    /\ UNCHANGED <<section, stored, list, twice, filter, form, visits, told, astray>>

othersChange(r) ==
    /\ visits < MaxVisits /\ visits' = visits + 1
    /\ IsStored(r)
    /\ \/ stored' = [stored EXCEPT ![r].contents.value = IF @ = "in" THEN "out" ELSE "in"]
       \/ stored' = [stored EXCEPT ![r].state = "deleted"] /\ Lists.removes = "drops"
    /\ astray' = TRUE
    /\ UNCHANGED <<section, list, twice, filter, form, job, told>>
-----------------------------------------------------------------------------
\* The user.
Visit == visits < MaxVisits /\ visits' = visits + 1
Write(op, target, value, second) ==
    [op |-> op, step |-> "write", of |-> target, isNew |-> target = "new", data |-> [value |-> value, extra |-> FALSE],
     rows |-> NoRows, second |-> second, filter |-> "all", form |-> IF op = "save" THEN form.id ELSE 0, answer |-> "none"]
Load(f) == [op |-> "load", step |-> "load", of |-> "new", isNew |-> FALSE, data |-> Absent, rows |-> NoRows, second |-> FALSE, filter |-> f, form |-> 0, answer |-> "none"]
Begins(j, call) == job[j] = NoJob /\ job' = [job EXCEPT ![j] = call]

openForm(target) ==
    /\ Visit /\ form = NoForm
    /\ target \in {"new"} \cup {r \in Records : list[r] # Absent}
    /\ form' = [of |-> target, id |-> visits']
    /\ UNCHANGED <<section, stored, list, twice, filter, job, told, astray>>
closeForm ==
    /\ form # NoForm /\ form' = NoForm
    /\ UNCHANGED <<section, stored, list, twice, filter, job, visits, told, astray>>

Saving(j) == job[j].op = "save"
Confirming(j) == job[j].op \in {"remove", "status"}

\* Segments and rules have one flag for the form and for the removal.
OneFlag == section \in {"segments", "rules"}

\* A mutated form of MaySave, used by no action: the page waits for nothing.
MaySaveAgain == TRUE

\* The button of the form, which is of one form or of the page.
MaySave ==
    CASE Edits.waits = "page" -> \A j \in Jobs : ~Saving(j) /\ (OneFlag => ~Confirming(j))
      [] Edits.waits = "form" -> \A j \in Jobs : ~(Saving(j) /\ job[j].form = form.id)
      [] Edits.waits = "none" -> TRUE

handleSave(j, value, second) ==
    /\ Visit /\ form # NoForm /\ MaySave
    /\ second => Edits.second
    /\ Begins(j, Write("save", form.of, value, second))
    /\ UNCHANGED <<section, stored, list, twice, filter, form, told, astray>>

\* The dialogs that ask before a removal or a change of status: their button
\* waits.  Only the agenda changes the status in a dialog of its own.
confirmDialog(j, r, op, value) ==
    /\ Visit /\ form = NoForm /\ list[r] # Absent
    /\ \A k \in Jobs : ~Confirming(k) /\ (OneFlag => ~Saving(k))
    /\ op = "remove" => Lists.removes # "never" /\ value = "out"
    /\ op = "status" => section = "agenda"
    /\ Begins(j, Write(op, r, value, FALSE))
    /\ UNCHANGED <<section, stored, list, twice, filter, form, told, astray>>

\* The fields that are searched as they are typed wait, then apply.
applyFilter(j, f) ==
    /\ Visit /\ form = NoForm /\ Lists.filters
    /\ filter' = f
    /\ Begins(j, Load(f))
    /\ UNCHANGED <<section, stored, list, twice, form, told, astray>>
refetch(j) ==
    /\ Visit /\ form = NoForm
    /\ Begins(j, Load(filter))
    /\ UNCHANGED <<section, stored, list, twice, filter, form, told, astray>>
-----------------------------------------------------------------------------
\* The answers.

\* A mutated form of Put, used by no action: an update is put as a creation.
PutFirst(r, contents, isNew) == list' = [list EXCEPT ![r] = contents] /\ twice' = IF list[r] # Absent THEN twice \cup {r} ELSE twice

\* A record that was created is put before the others, and a rule that is there
\* is replaced; one that was updated is replaced where it is.
Put(r, contents, isNew) ==
    /\ list' = IF isNew \/ section = "rules" \/ list[r] # Absent THEN [list EXCEPT ![r] = contents] ELSE list
    /\ twice' = IF isNew /\ list[r] # Absent /\ section # "rules" THEN twice \cup {r} ELSE twice

Loads(c) == (IF c.op = "remove" THEN Lists.removes = "archives" ELSE (IF c.isNew THEN Lists.creates ELSE Lists.updates) = "loads")
JobGoes(j, step) == job' = [job EXCEPT ![j].step = step, ![j].answer = "none", ![j].data = Absent, ![j].filter = filter]
JobEnds(j) == job' = [job EXCEPT ![j] = NoJob]

\* The two dialogs of tenants, segments and rules close apart; the others are
\* one, that closes whichever record it holds.
Closes(c) ==
    form' = IF form = NoForm \/ c.op # "save" THEN form
            ELSE IF section \in {"tenants", "segments", "rules"} /\ c.isNew # (form.of = "new") THEN form ELSE NoForm

\* What follows the last write: the list is loaded, or the form closes.
Finishes(j) ==
    LET c == job[j] IN
    IF Loads(c)
    THEN /\ JobGoes(j, "load")
         /\ IF Edits.closesFirst THEN Closes(c) ELSE UNCHANGED form
    ELSE JobEnds(j) /\ Closes(c)

\* The row is another by now, or its record left the list while it was edited.
Overtaken(c) == ~IsStored(c.of) \/ stored[c.of].contents # c.data \/ (~c.isNew /\ section # "rules" /\ list[c.of] = Absent)

\* The first write, or the second, has been answered.
writeAnswered(j) ==
    LET c == job[j] IN
    /\ IsAt(j, "write", "ok") \/ IsAt(j, "second", "ok")
    /\ c.op # "remove"
    /\ IF Loads(c) THEN UNCHANGED <<list, twice, astray>>
       ELSE Put(c.of, c.data, c.isNew /\ c.step = "write") /\ astray' = (astray \/ Overtaken(c))
    /\ IF c.step = "write" /\ c.second THEN JobGoes(j, "second") /\ UNCHANGED form ELSE Finishes(j)
    /\ UNCHANGED <<section, stored, filter, visits, told>>

removalAnswered(j) ==
    LET c == job[j] IN
    /\ IsAt(j, "write", "ok") /\ c.op = "remove"
    /\ IF Loads(c) THEN UNCHANGED <<list, twice>>
       ELSE list' = [list EXCEPT ![c.of] = Absent] /\ twice' = twice \ {c.of}
    /\ Finishes(j)
    /\ UNCHANGED <<section, stored, filter, visits, told, astray>>

\* The form tells of the failure and stays as it is, one of creation too when
\* only the second call failed; the list is not loaded.
failureAnswered(j) ==
    LET c == job[j] IN
    /\ IsAt(j, "write", "failed") \/ IsAt(j, "second", "failed")
    /\ JobEnds(j)
    /\ told' = IF c.op = "save" /\ c.isNew THEN told \cup {c.form} ELSE told
    /\ astray' = (astray \/ (c.step = "second" /\ Loads(c)))
    /\ UNCHANGED <<section, stored, list, twice, filter, form, visits>>

\* A write that has been served and that the list may not have.
Unapplied(j) == \E k \in Jobs \ {j} :
    /\ job[k] # NoJob /\ job[k].step # "load"
    /\ job[k].answer # "none" \/ job[k].step = "second"

\* The list is replaced by whichever load is answered; one that fails is told
\* and fails nothing that awaited it.
listAnswered(j) ==
    LET c == job[j] IN
    /\ IsAt(j, "load", "ok") \/ IsAt(j, "load", "failed")
    /\ IF c.answer = "ok"
       THEN list' = c.rows /\ twice' = {} /\ astray' = (c.rows # Listing(filter) \/ Unapplied(j))
       ELSE UNCHANGED <<list, twice>> /\ astray' = TRUE
    /\ JobEnds(j)
    /\ IF Edits.closesFirst THEN UNCHANGED form ELSE Closes(c)
    /\ UNCHANGED <<section, stored, filter, visits, told>>

\* What a form may be sent with.  A list that is loaded again takes whatever was
\* written, so that one value will do.
Typed == IF Lists.updates = "loads" THEN {"out"} ELSE {"in", "out"}

RecordPagesNext ==
    \/ \E j \in Jobs :
         \/ createRecord(j) \/ updateRecord(j) \/ deleteRecord(j) \/ addToRecord(j) \/ findRecords(j) \/ failJob(j)
         \/ \E value \in Typed, second \in BOOLEAN : handleSave(j, value, second)
         \/ \E r \in Records, op \in {"remove", "status"}, value \in {"in", "out"} : confirmDialog(j, r, op, value)
         \/ \E f \in Filters : applyFilter(j, f)
         \/ refetch(j)
         \/ writeAnswered(j) \/ removalAnswered(j) \/ failureAnswered(j) \/ listAnswered(j)
    \/ \E r \in Records : othersChange(r)
    \/ \E target \in Targets : openForm(target)
    \/ closeForm

RecordPagesSpec == RecordPagesInit /\ [][RecordPagesNext]_recordVars
-----------------------------------------------------------------------------
RecordPagesTypeOK ==
    /\ section \in Sections
    /\ stored \in [Records -> Row \cup {Unmade}]
    /\ list \in [Records -> Contents \cup {Absent}] /\ twice \subseteq Records
    /\ filter \in Filters /\ form \in [of : Targets, id : 1..MaxVisits] \cup {NoForm}
    /\ \A j \in Jobs : job[j] # NoJob => job[j].step \in {"write", "second", "load"} /\ job[j].answer \in {"none", "ok", "failed"}
    /\ visits \in 0..MaxVisits /\ told \subseteq 0..MaxVisits /\ astray \in BOOLEAN

\* What a page lists is what is stored, once nothing is awaited: it lists each
\* record as it is, each that its filter asks for, and none twice, whether the
\* answers were put into the list or the list was loaded again.  Excused are the
\* writes of others, lost answers, and a load or an answer that was overtaken.
ListTellsTheTruth ==
    (~astray /\ \A j \in Jobs : job[j] = NoJob) =>
        /\ twice = {}
        /\ \A r \in Records :
             /\ list[r] # Absent => IsStored(r) /\ list[r] = stored[r].contents
             /\ Matches(r, filter) => list[r] # Absent

\* One form makes one record.  It makes a second only where no unique key refuses
\* it, and after a failure was told, which may have been that of the second call
\* or of an answer that was lost; the form of a ministry, whose button does not
\* wait, is the exception.
OneRecordPerForm ==
    \A id \in 1..MaxVisits :
        Cardinality(MadeBy(id)) > 1 => Repeated = "made" /\ (id \in told \/ Edits.waits = "none")
=============================================================================
