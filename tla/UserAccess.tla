------------------------------ MODULE UserAccess ------------------------------
(***************************************************************************)
(* How a user comes in: the account (Accounts), and then the first access  *)
(* (FirstAccess).  The wizard is for whoever has signed in, and of the row *)
(* of the user it writes onboardingCompletedAt only, which no request of   *)
(* an account reads: they share nothing else, and an instance follows one  *)
(* or the other, the part.                                                 *)
(***************************************************************************)
EXTENDS Accounts, FirstAccess

CONSTANT Parts \* what an instance follows

ASSUME PartsAssumption == Parts \subseteq {"account", "first access"}

VARIABLE part

accessVars == <<part, vars, firstVars>>

\* A device that is not followed is of one kind only.
AccessInit ==
    /\ part \in Parts
    /\ Init /\ FirstAccessInit
    /\ part # "first access" => phone.platform = "android"

AccessNext ==
    /\ UNCHANGED part
    /\ IF part = "account" THEN Next ELSE UNCHANGED vars
    /\ IF part = "first access" THEN FirstAccessNext ELSE UNCHANGED firstVars

AccessSpec == AccessInit /\ [][AccessNext]_accessVars
-----------------------------------------------------------------------------
AccessTypeOK == part \in Parts /\ TypeOK /\ FirstAccessTypeOK
=============================================================================
