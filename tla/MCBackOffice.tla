----------------------------- MODULE MCBackOffice -----------------------------
(***************************************************************************)
(* An instance of BackOffice for TLC.                                      *)
(***************************************************************************)
EXTENDS BackOffice, TLC

Unchanged == [type |-> "omitted", category |-> "omitted", member |-> "omitted", status |-> "omitted"]

\* Creations of every consistency, and updates of one field.
LedgerForms ==
    {[Unchanged EXCEPT !.type = t, !.category = c, !.member = m] : t \in Types, c \in Categories, m \in Contributors \cup {Nobody}}
    \cup {[Unchanged EXCEPT !.type = t] : t \in Types}
    \cup {[Unchanged EXCEPT !.category = c] : c \in Categories}
    \cup {[Unchanged EXCEPT !.member = m] : m \in Contributors}
    \cup {[Unchanged EXCEPT !.status = s] : s \in {"CONFIRMED", "CANCELLED"}}

NothingAsked == [status |-> "omitted", future |-> "omitted", link |-> "omitted"]
AgendaForms ==
    {[NothingAsked EXCEPT !.status = s] : s \in {"CANCELADO", "AGENDADO"}}
    \cup {[NothingAsked EXCEPT !.future = "yes"]}
    \cup {[NothingAsked EXCEPT !.link = l] : l \in {"schedule", "part", "retyped"}}
SwitchForms == {[active |-> "yes", uses |-> "omitted"], [active |-> "omitted", uses |-> "no"], [active |-> "omitted", uses |-> "yes"]}

\* Two turns of two volunteers.
CONSTANTS turn1, turn2, volunteer1, volunteer2
HolderOfTurn == [t \in {turn1, turn2} |-> IF t = turn1 THEN volunteer1 ELSE volunteer2]

\* Only one part plays, so that rows of different tables and requests of
\* different parts may bear the same name.
CONSTANTS Callers, Pairs
Symmetry == Permutations(Callers) \cup Permutations(Pairs)
=============================================================================
