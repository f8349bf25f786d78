---------------------------- MODULE SettingsPages ----------------------------
(***************************************************************************)
(* The pages of the web application that keep settings: the profile of the *)
(* user, the preferences of notices, the automation rules and the media of *)
(* the tenant.                                                             *)
(*                                                                         *)
(* A page loads once and lives on the answers to what it sends.  Each part *)
(* of it has a button of its own, so that several calls are on their way   *)
(* at once, and each takes in something else of its answer: the whole row, *)
(* its own field, a copy it made before, or nothing.                       *)
(***************************************************************************)
EXTENDS Naturals

CONSTANTS
    Groups,     \* the pages an instance follows
    Parcels,    \* what a page may be waiting for at once
    Untyped,
    MaxEdits    \* bound on what the user and others do

VARIABLES
    group,      \* the page that is open
    kept,       \* the rows
    seen,       \* what the page has taken for the rows
    field,      \* what its fields hold
    pressed,    \* the button of the last toggle or reset, which waits
    parcel,
    edits,
    unsent,     \* history: what the user typed and neither sent nor dropped
    excused     \* history: the page cannot know better

settingVars == <<group, kept, seen, field, pressed, parcel, edits, unsent, excused>>

FieldsOf == [profile |-> {"name", "photo", "phone"}, preferences |-> {"birthdays", "events"},
             rules |-> {"first", "second"}, tenant |-> {"logo", "short", "icon"}]
ASSUME SettingsAssumption == Groups \subseteq DOMAIN FieldsOf /\ MaxEdits \in Nat /\ Untyped \notin {0, 1}

Fields == UNION {FieldsOf[g] : g \in DOMAIN FieldsOf}
Values == {0, 1}
Default == 0
Here == FieldsOf[group]
HasField == {"name", "phone", "first", "second", "short", "icon"}
Typing == HasField \ {"icon"}

NoParcel == [op |-> "none"]
SettingsInit ==
    /\ group \in Groups
    /\ kept = [f \in Fields |-> Default] /\ seen = kept /\ field = kept
    /\ pressed = "nothing"
    /\ parcel = [p \in Parcels |-> NoParcel]
    /\ edits = 0
    /\ unsent = [f \in Fields |-> Untyped] /\ excused = FALSE

Edit == edits < MaxEdits /\ edits' = edits + 1
Waiting(p, answer) == parcel[p] # NoParcel /\ parcel[p].answer = answer

\* What the answer of a save takes the page by: its fields are dropped.
Dropped(fs) == [f \in Fields |-> IF f \in fs THEN Untyped ELSE unsent[f]]
Taken(page, row, fs) == [f \in Fields |-> IF f \in fs THEN row[f] ELSE page[f]]

\* Sent with the page as it is now, which a photo will go back to; a rule that
\* is reset keeps what was typed until the answer.
Posts(p, op, fs, data) ==
    /\ parcel[p] = NoParcel
    /\ parcel' = [parcel EXCEPT ![p] = [op |-> op, of |-> fs, data |-> [f \in fs |-> data[f]], before |-> seen, row |-> kept, answer |-> "none"]]
    /\ unsent' = IF op = "reset" THEN unsent ELSE Dropped(fs)
Outstanding(op, f) == \E p \in Parcels : parcel[p] # NoParcel /\ parcel[p].op = op /\ f \in parcel[p].of
-----------------------------------------------------------------------------
\* The user.
handleFieldChange(f, v) ==
    /\ Edit /\ f \in Here \cap Typing /\ field[f] # v
    /\ field' = [field EXCEPT ![f] = v]
    /\ unsent' = [unsent EXCEPT ![f] = v]
    /\ UNCHANGED <<group, kept, seen, pressed, parcel, excused>>

handleResetProfileForm ==
    /\ group = "profile" /\ ~Outstanding("save", "name") /\ unsent["name"] # Untyped
    /\ field' = [field EXCEPT !["name"] = seen["name"]]
    /\ unsent' = Dropped({"name"})
    /\ UNCHANGED <<group, kept, seen, pressed, parcel, edits, excused>>

\* The name, the phone, or the short name; of the rules, all.
saveSettings(p, f) ==
    LET fs == IF group = "rules" THEN Here ELSE {f} IN
    /\ Edit /\ f \in Here \cap Typing
    /\ ~Outstanding("save", f)
    /\ Posts(p, "save", fs, field)
    /\ UNCHANGED <<group, kept, seen, field, pressed, excused>>

\* Photos and logos: one flag, or two that both stop either button.
SendsImage(p, f, v) ==
    /\ Edit /\ f \in Here
    /\ ~Outstanding("save", f)
    /\ Posts(p, "save", {f}, [seen EXCEPT ![f] = v])
    /\ UNCHANGED <<group, kept, seen, field, pressed, excused>>
handlePhoto(p, v) == SendsImage(p, "photo", v)
handleLogo(p, v) == SendsImage(p, "logo", v)

\* The icon is shown before it is sent, and one flag stops the upload and
\* another the removal.
uploadIcon(p, v) ==
    /\ Edit /\ group = "tenant" /\ ~Outstanding("save", "icon")
    /\ field' = [field EXCEPT !["icon"] = v]
    /\ Posts(p, "save", {"icon"}, field')
    /\ excused' = (excused \/ Outstanding("removal", "icon"))
    /\ UNCHANGED <<group, kept, seen, pressed>>
removeIcon(p) ==
    /\ Edit /\ group = "tenant" /\ ~Outstanding("removal", "icon") /\ field["icon"] # Default
    /\ Posts(p, "removal", {"icon"}, [field EXCEPT !["icon"] = Default])
    /\ excused' = (excused \/ Outstanding("save", "icon"))
    /\ UNCHANGED <<group, kept, seen, field, pressed>>

\* A preference is shown changed at once.  Only the last button waits, so that
\* another toggle frees the first.
handleTogglePreference(p, f) ==
    LET new == 1 - seen[f] IN
    /\ Edit /\ group = "preferences" /\ f \in Here /\ pressed # f
    /\ pressed' = f
    /\ seen' = [seen EXCEPT ![f] = new]
    /\ Posts(p, "toggle", {f}, seen')
    /\ excused' = (excused \/ Outstanding("toggle", f))
    /\ UNCHANGED <<group, kept, field>>

\* A rule that is not the standard one is restored.
handleReset(p, f) ==
    /\ Edit /\ group = "rules" /\ f \in Here /\ pressed # f
    /\ field[f] # Default \/ unsent[f] # Untyped
    /\ pressed' = f
    /\ Posts(p, "reset", {f}, [field EXCEPT ![f] = Default])
    /\ UNCHANGED <<group, kept, seen, field, excused>>

\* The page is opened anew; preferences that cannot be loaded are shown as the
\* standard ones.
openSettings(loads) ==
    LET row == IF loads THEN kept ELSE [f \in Fields |-> IF f \in FieldsOf.preferences THEN 1 ELSE kept[f]] IN
    /\ Edit /\ \A p \in Parcels : parcel[p] = NoParcel
    /\ loads \/ group = "preferences"
    /\ seen' = row /\ field' = row
    /\ unsent' = Dropped(Fields) /\ excused' = (row # kept)
    /\ UNCHANGED <<group, kept, pressed, parcel>>
-----------------------------------------------------------------------------
\* The API writes the fields that were sent and answers with the row.
writeSettings(p) ==
    /\ Waiting(p, "none")
    /\ kept' = [f \in Fields |-> IF f \in parcel[p].of THEN parcel[p].data[f] ELSE kept[f]]
    /\ \/ /\ parcel' = [parcel EXCEPT ![p].answer = "ok", ![p].row = kept']
          /\ UNCHANGED excused
       \/ /\ parcel' = [parcel EXCEPT ![p].answer = "failed"] \* the answer is lost
          /\ excused' = TRUE
    /\ UNCHANGED <<group, seen, field, pressed, edits, unsent>>

refuseSettings(p) ==
    /\ Waiting(p, "none")
    /\ parcel' = [parcel EXCEPT ![p].answer = "failed"]
    /\ UNCHANGED <<group, kept, seen, field, pressed, edits, unsent, excused>>

othersSet(f) ==
    /\ Edit /\ f \in Here
    /\ kept' = [kept EXCEPT ![f] = 1 - @]
    /\ excused' = TRUE
    /\ UNCHANGED <<group, seen, field, pressed, parcel, unsent>>
-----------------------------------------------------------------------------
\* The answers.

\* A mutated form of FieldsTaken, used by no action.
FieldsTakenAll(c) == IF group = "rules" THEN Here ELSE c.of \cap HasField

\* The fields that an answer writes over are those that were sent; the rules of
\* a reset, only the one.
FieldsTaken(c) == c.of \cap HasField

\* What the page takes for the row: of the profile, all, or the field of the
\* phone; for a photo, the copy of before with the photo; of rules, the ones
\* that were sent; of the tenant, all; of preferences nothing.
RowTaken(c) ==
    CASE group = "profile" /\ "name" \in c.of -> Taken(seen, c.row, Here)
      [] group = "profile" /\ "photo" \in c.of -> Taken(c.before, c.row, c.of)
      [] group = "tenant" -> Taken(seen, c.row, Here)
      [] group = "preferences" -> seen
      [] OTHER -> Taken(seen, c.row, c.of)

\* What was read is older than what is stored, or than what the page has.
Late(c) ==
    \/ group # "preferences" /\ \E f \in Here : c.row[f] # kept[f]
    \/ "photo" \in c.of /\ \E f \in Here \ c.of : c.before[f] # seen[f]

Freed(c) == pressed' = IF c.op \in {"toggle", "reset"} THEN "nothing" ELSE pressed

settingsAnswered(p) ==
    LET c == parcel[p] IN
    /\ Waiting(p, "ok")
    /\ seen' = RowTaken(c)
    /\ field' = Taken(field, c.row, FieldsTaken(c))
    /\ unsent' = Dropped(c.of)
    /\ excused' = (excused \/ Late(c))
    /\ Freed(c) /\ parcel' = [parcel EXCEPT ![p] = NoParcel]
    /\ UNCHANGED <<group, kept, edits>>

\* A toggle is turned back, and an icon is again the one of before; what was
\* typed stays to be sent again.
settingsFailed(p) ==
    LET c == parcel[p] IN
    /\ Waiting(p, "failed")
    /\ seen' = IF c.op = "toggle" THEN [f \in Fields |-> IF f \in c.of THEN 1 - c.data[f] ELSE seen[f]] ELSE seen
    /\ field' = IF c.op = "save" /\ c.of = {"icon"} THEN [field EXCEPT !["icon"] = c.before["icon"]] ELSE field
    /\ unsent' = [f \in Fields |-> IF c.op = "save" /\ f \in c.of \cap Typing /\ unsent[f] = Untyped /\ field[f] = c.data[f]
                                  THEN c.data[f] ELSE unsent[f]]
    /\ Freed(c) /\ parcel' = [parcel EXCEPT ![p] = NoParcel]
    /\ UNCHANGED <<group, kept, edits, excused>>

SettingsNext ==
    \/ \E f \in Fields, v \in Values : handleFieldChange(f, v)
    \/ handleResetProfileForm
    \/ \E p \in Parcels :
         \/ \E f \in Fields : saveSettings(p, f) \/ handleTogglePreference(p, f) \/ handleReset(p, f)
         \/ \E v \in Values : handlePhoto(p, v) \/ handleLogo(p, v) \/ uploadIcon(p, v)
         \/ removeIcon(p)
         \/ writeSettings(p) \/ refuseSettings(p) \/ settingsAnswered(p) \/ settingsFailed(p)
    \/ \E loads \in BOOLEAN : openSettings(loads)
    \/ \E f \in Fields : othersSet(f)

SettingsSpec == SettingsInit /\ [][SettingsNext]_settingVars
-----------------------------------------------------------------------------
SettingsTypeOK ==
    /\ group \in Groups
    /\ kept \in [Fields -> Values] /\ seen \in [Fields -> Values] /\ field \in [Fields -> Values]
    /\ pressed \in Fields \cup {"nothing"} /\ edits \in 0..MaxEdits
    /\ \A p \in Parcels : parcel[p] # NoParcel => parcel[p].of \subseteq Here /\ parcel[p].answer \in {"none", "ok", "failed"}
    /\ unsent \in [Fields -> Values \cup {Untyped}] /\ excused \in BOOLEAN

\* A page of settings shows what is stored once nothing is awaited, and in each
\* field what was typed and not yet sent: no answer to one part of the page
\* takes away what was typed into another, and what failed is shown as it was.
\* Excused are the writes of others, lost answers, and answers that cross.
SettingsTellTheTruth ==
    /\ \A f \in Here : unsent[f] # Untyped => field[f] = unsent[f]
    /\ (~excused /\ \A p \in Parcels : parcel[p] = NoParcel) =>
          \A f \in Here :
             /\ f \notin Typing \/ group # "rules" => seen[f] = kept[f]
             /\ f \in HasField /\ unsent[f] = Untyped => field[f] = kept[f]
=============================================================================
