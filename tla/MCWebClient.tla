----------------------------- MODULE MCWebClient -----------------------------
(***************************************************************************)
(* An instance of WebClient for TLC.                                       *)
(***************************************************************************)
EXTENDS WebClient, TLC

CONSTANTS m1, m2, f1, f2, f3, d1, d2, r1, r2, r3, h1, h2, a1, a2

PositionsAtFirst == [m \in {m1, m2} |-> IF m = m1 THEN {f1, f2} ELSE {f2}]
DaysAtFirst == <<d1, d2>>

\* An account that signs in with its password, and one to be activated.
AccountsAtFirst ==
    [a \in {a1, a2} |-> [status |-> IF a = a1 THEN "ACTIVE" ELSE "PENDING", senha |-> a = a1, google |-> FALSE]]

\* What a page waits for is alike, and so are the tabs and the documents that are
\* made, which are the same model values in other scenes.
Symmetry == Permutations({h1, h2})
=============================================================================
