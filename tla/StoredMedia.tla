------------------------------ MODULE StoredMedia ------------------------------
(***************************************************************************)
(* A file in the store and the column that names it: the receipt of a      *)
(* transaction, the photo of a member, the logo and the icon of a tenant   *)
(* (financial-transactions, membros and tenant-media services).            *)
(*                                                                         *)
(* The store and the database are two systems; each call of the store may  *)
(* fail, with or without its effect, and a request may be cut off between  *)
(* two calls.  A path holds the time of the upload, so it is never used    *)
(* twice.  An icon is five objects under one path; part of them may be     *)
(* there.                                                                  *)
(***************************************************************************)
EXTENDS Naturals

CONSTANTS
    Files,    \* paths
    Uploaders \* requests

NoFile == "none"
Kinds == {"receipt", "photo", "logo", "icon"}

ASSUME MediaAssumption == NoFile \notin Files

VARIABLES
    kind,     \* what the file is
    named,    \* the path in the row
    alive,    \* the transaction is not cancelled, the member not removed
    stored,   \* what the store has under each path
    upload,   \* where each request is, with the path it read and the one it brings
    broken,   \* history: paths deleted by a request that did not get to its write
    stranded  \* history: paths left behind by a failure, a loss or a race

mediaVars == <<kind, named, alive, stored, upload, broken, stranded>>

NoUpload == [op |-> "idle"]
Uploads == [op : {"store", "write", "drop", "cleanup"}, for : {"replace", "remove", "member"},
            old : Files \cup {NoFile}, path : Files \cup {NoFile}]

Fresh(f) ==
    /\ stored[f] = "absent" /\ named # f /\ f \notin broken \cup stranded
    /\ \A q \in Uploaders : upload[q] # NoUpload => f \notin {upload[q].old, upload[q].path}

MediaInit ==
    /\ kind \in Kinds
    /\ named = NoFile /\ alive = TRUE
    /\ stored = [f \in Files |-> "absent"]
    /\ upload = [q \in Uploaders |-> NoUpload]
    /\ broken = {} /\ stranded = {}

\* Only receipts are deleted before the row is written.
\* A mutated form of DeletesFirst, used by no action.
DeletesTheFormerFirst(purpose) == kind \in {"receipt", "photo"} \/ purpose = "member"

DeletesFirst(purpose) == kind = "receipt" \/ purpose = "member"

\* What follows the upload of the file, and what follows the write of the row.
AfterStore(u) == IF DeletesFirst(u.for) /\ u.old # NoFile THEN "drop" ELSE "write"

AfterWrite(u) == IF DeletesFirst(u.for) \/ u.old = NoFile THEN "idle" ELSE "drop"

UploadGoes(q, op) == upload' = [upload EXCEPT ![q] = IF op = "idle" THEN NoUpload ELSE [@ EXCEPT !.op = op]]
-----------------------------------------------------------------------------
\* uploadReceipt, uploadMemberPhoto, uploadTenantLogo, uploadTenantPwaIcon.
beginUpload(q, f) ==
    /\ upload[q] = NoUpload /\ alive /\ Fresh(f)
    /\ upload' = [upload EXCEPT ![q] = [op |-> "store", for |-> "replace", old |-> named, path |-> f]]
    /\ UNCHANGED <<kind, named, alive, stored, broken, stranded>>

\* removeReceipt looks at no status; removeMemberPhoto and remove need the member.
beginRemoval(q, purpose) ==
    /\ upload[q] = NoUpload
    /\ kind = "photo" => alive
    /\ purpose = "member" => kind = "photo"
    /\ upload' = [upload EXCEPT ![q] =
         [op |-> IF DeletesFirst(purpose) /\ named # NoFile THEN "drop" ELSE "write",
          for |-> purpose, old |-> named, path |-> NoFile]]
    /\ UNCHANGED <<kind, named, alive, stored, broken, stranded>>

uploadPublicObject(q) ==
    /\ upload[q].op = "store"
    /\ stored' = [stored EXCEPT ![upload[q].path] = "whole"]
    /\ UploadGoes(q, AfterStore(upload[q]))
    /\ UNCHANGED <<kind, named, alive, broken, stranded>>

\* The first objects of an icon.
uploadVariant(q) ==
    /\ upload[q].op = "store" /\ kind = "icon" /\ stored[upload[q].path] = "absent"
    /\ stored' = [stored EXCEPT ![upload[q].path] = "part"]
    /\ UNCHANGED <<kind, named, alive, upload, broken, stranded>>

uploadFails(q) ==
    /\ upload[q].op = "store"
    /\ UploadGoes(q, IF kind = "icon" THEN "cleanup" ELSE "idle")
    /\ UNCHANGED <<kind, named, alive, stored, broken, stranded>>

Paths(S) == S \ {NoFile}

\* Nobody deletes a path that another request has named meanwhile.
Overwritten(u) == Paths({named} \ {u.old})

writeRow(q) ==
    LET u == upload[q] IN
    /\ u.op = "write"
    /\ named' = u.path
    /\ alive' = (alive /\ u.for # "member")
    /\ stranded' = stranded \cup Overwritten(u)
    /\ UploadGoes(q, AfterWrite(u))
    /\ UNCHANGED <<kind, stored, broken>>

\* The write fails, or is done and not acknowledged.  An icon that was not
\* published is taken back.
writeFails(q, done) ==
    LET u == upload[q] IN
    /\ u.op = "write"
    /\ named' = IF done THEN u.path ELSE named
    /\ alive' = (alive /\ ~(done /\ u.for = "member"))
    /\ stranded' = stranded \cup Paths({u.old} \cup IF done THEN Overwritten(u) ELSE {u.path})
    /\ broken' = broken \cup Paths((IF DeletesFirst(u.for) THEN {u.old} ELSE {})
                                   \cup (IF kind = "icon" /\ done THEN {u.path} ELSE {}))
    /\ UploadGoes(q, IF kind = "icon" /\ u.path # NoFile THEN "cleanup" ELSE "idle")
    /\ UNCHANGED <<kind, stored>>

\* A deletion that is acknowledged: the file is gone.
deleteObject(q) ==
    LET u == upload[q] IN
    /\ u.op = "drop"
    /\ stored' = [stored EXCEPT ![u.old] = "absent"]
    /\ UploadGoes(q, IF DeletesFirst(u.for) THEN "write" ELSE "idle")
    /\ UNCHANGED <<kind, named, alive, broken, stranded>>

\* One that is refused, or not acknowledged: receipts and the removal of a
\* member end there, the others do not mind.
deleteFails(q, gone) ==
    LET u == upload[q] IN
    /\ u.op = "drop"
    /\ stored' = IF gone THEN [stored EXCEPT ![u.old] = "absent"] ELSE stored
    /\ broken' = IF gone /\ DeletesFirst(u.for) THEN broken \cup {u.old} ELSE broken
    /\ stranded' = stranded \cup Paths({u.old, u.path})
    /\ UploadGoes(q, "idle")
    /\ UNCHANGED <<kind, named, alive>>

\* The objects of an icon that was not published, each of which may stay.
discardVariants(q, gone) ==
    LET u == upload[q] IN
    /\ u.op = "cleanup"
    /\ stored' = IF gone THEN [stored EXCEPT ![u.path] = "absent"] ELSE stored
    /\ stranded' = stranded \cup {u.path}
    /\ UploadGoes(q, "idle")
    /\ UNCHANGED <<kind, named, alive, broken>>

\* The process dies.
uploadCutOff(q) ==
    LET u == upload[q] IN
    /\ u # NoUpload
    /\ broken' = IF u.op = "write" /\ DeletesFirst(u.for) THEN broken \cup Paths({u.old}) ELSE broken
    /\ stranded' = stranded \cup Paths({u.old, u.path})
    /\ UploadGoes(q, "idle")
    /\ UNCHANGED <<kind, named, alive, stored>>

\* cancel of the transaction.
cancelReceiptOwner ==
    /\ kind = "receipt" /\ alive
    /\ alive' = FALSE
    /\ UNCHANGED <<kind, named, stored, upload, broken, stranded>>

MediaNext ==
    \/ \E q \in Uploaders :
         \/ \E f \in Files : beginUpload(q, f)
         \/ \E purpose \in {"remove", "member"} : beginRemoval(q, purpose)
         \/ uploadPublicObject(q) \/ uploadVariant(q) \/ uploadFails(q)
         \/ writeRow(q) \/ deleteObject(q) \/ uploadCutOff(q)
         \/ \E sure \in BOOLEAN : writeFails(q, sure) \/ deleteFails(q, sure) \/ discardVariants(q, sure)
    \/ cancelReceiptOwner

MediaSpec == MediaInit /\ [][MediaNext]_mediaVars
-----------------------------------------------------------------------------
MediaTypeOK ==
    /\ kind \in Kinds
    /\ named \in Files \cup {NoFile} /\ alive \in BOOLEAN
    /\ stored \in [Files -> {"absent", "part", "whole"}]
    /\ upload \in [Uploaders -> Uploads \cup {NoUpload}]
    /\ broken \in SUBSET Files /\ stranded \in SUBSET Files

\* Nobody is shown a broken photo, logo, icon or receipt: the row names a whole
\* file, whatever requests race, fail or are cut off, but for a receipt (or the
\* photo of a member being removed) whose file is deleted before the row is
\* written, and for a request that ended in between.
PublishedFileIsStored ==
    named # NoFile /\ stored[named] # "whole" =>
        \/ named \in broken
        \/ \E q \in Uploaders : /\ upload[q].op = "write" /\ upload[q].old = named
                                /\ kind = "receipt" \/ upload[q].for = "member"

\* The store does not fill up with files nobody can reach: each is named by
\* the row or is in the hands of a request, or was left behind by a call that
\* failed, a request that was cut off or two requests that crossed.
EveryFileIsOwned ==
    \A f \in Files : stored[f] # "absent" =>
        \/ f = named \/ f \in stranded
        \/ \E q \in Uploaders : upload[q] # NoUpload /\ f \in {upload[q].old, upload[q].path}

\* The store and the rows, written one after the other with no transaction over
\* both (replacePhoto, replaceLogo, uploadReceipt), name the same files.
FilesAndRowsAgree == PublishedFileIsStored /\ EveryFileIsOwned
=============================================================================
