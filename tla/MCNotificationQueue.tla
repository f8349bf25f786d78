------------------------ MODULE MCNotificationQueue ------------------------
(***************************************************************************)
(* Instances of NotificationQueue for TLC.                                 *)
(***************************************************************************)
EXTENDS NotificationQueue, TLC

\* Users, endpoints, processes and requests are interchangeable.
Symmetry == Permutations(Users) \cup Permutations(Subs) \cup Permutations(Workers) \cup Permutations(Admins)
=============================================================================
