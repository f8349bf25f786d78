---------------------------- MODULE DeliveryContract ----------------------------
(***************************************************************************)
(* What the queue of notifications promises, whoever works on it and       *)
(* however often it fails: a user is told only of a row somebody has taken *)
(* up, a row is taken up only while it waits under a live notification, a  *)
(* row is reported as told only if the user was, a notification as         *)
(* completed only if somebody was, and a row that was told is not put back *)
(* by a request of the centre.                                             *)
(*                                                                         *)
(* It does not promise that a user is told once: who takes up a row that   *)
(* another still has may tell the user again (see NoDuplicateDelivery).    *)
(***************************************************************************)
EXTENDS Naturals

CONSTANTS
    Notifications,
    Users

VARIABLES
    phase,  \* each notification: absent, live, completed, stopped or deleted
    fate,   \* each row: absent, waiting, told or given up
    inHand, \* the rows that somebody has taken up
    told    \* how often the user of each row was told

contractVars == <<phase, fate, inHand, told>>

\* One row for each notification and user.
Rows == Notifications \X Users
NoticeOf(r) == r[1]
Fates == {"absent", "waiting", "told", "given up"}
RowsUnder(n) == {r \in Rows : NoticeOf(r) = n}

ContractInit ==
    /\ phase = [n \in Notifications |-> "absent"]
    /\ fate = [r \in Rows |-> "absent"]
    /\ inHand = {}
    /\ told = [r \in Rows |-> 0]

\* A notification without rows is completed at once.
Announce(n) ==
    /\ phase[n] = "absent"
    /\ fate' \in [Rows -> Fates]
    /\ \A r \in Rows : fate'[r] = fate[r] \/ (NoticeOf(r) = n /\ fate'[r] \in {"waiting", "given up"})
    /\ phase' = [phase EXCEPT ![n] = IF \A r \in RowsUnder(n) : fate'[r] = "absent" THEN "completed" ELSE "live"]
    /\ UNCHANGED <<inHand, told>>

TakeUp ==
    /\ inHand \subseteq inHand' /\ inHand' \subseteq Rows
    /\ \A r \in inHand' \ inHand : fate[r] = "waiting" /\ phase[NoticeOf(r)] = "live"
    /\ UNCHANGED <<phase, fate, told>>

Tell(r) ==
    /\ r \in inHand
    /\ told' = [told EXCEPT ![r] = @ + 1]
    /\ UNCHANGED <<phase, fate, inHand>>

\* Another may still have the row, and have concluded otherwise.
Conclude(r) ==
    /\ r \in inHand
    /\ fate[r] # "absent"
    /\ \E f \in Fates \ {"absent"} : fate' = [fate EXCEPT ![r] = f] /\ (f = "told" => told[r] > 0)
    /\ inHand' \in {inHand, inHand \ {r}}
    /\ UNCHANGED <<phase, told>>

\* Somebody dies, or finds that a row is gone.
LetGo == inHand' \subseteq inHand /\ UNCHANGED <<phase, fate, told>>

\* The notification is stopped, put back or settled.
Decide(n) ==
    /\ phase[n] \notin {"absent", "deleted"}
    /\ \E p \in {"live", "stopped", "completed"} :
         /\ phase' = [phase EXCEPT ![n] = p]
         /\ p = "completed" => \E r \in RowsUnder(n) : told[r] > 0
    /\ UNCHANGED <<fate, inHand, told>>

\* The rows that were given up are put back.
PutBack(n) ==
    /\ \E some \in SUBSET {r \in RowsUnder(n) : fate[r] = "given up"} :
         fate' = [r \in Rows |-> IF r \in some THEN "waiting" ELSE fate[r]]
    /\ UNCHANGED <<phase, inHand, told>>

Forget(n) ==
    /\ phase[n] \in {"completed", "stopped"}
    /\ phase' = [phase EXCEPT ![n] = "deleted"]
    /\ fate' = [r \in Rows |-> IF NoticeOf(r) = n THEN "absent" ELSE fate[r]]
    /\ UNCHANGED <<inHand, told>>

ContractNext ==
    \/ TakeUp \/ LetGo
    \/ \E r \in Rows : Tell(r) \/ Conclude(r)
    \/ \E n \in Notifications : Announce(n) \/ Decide(n) \/ PutBack(n) \/ Forget(n)

ContractSpec == ContractInit /\ [][ContractNext]_contractVars
=============================================================================
