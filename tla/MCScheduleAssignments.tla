---- MODULE MCScheduleAssignments ----
EXTENDS ScheduleAssignments, FiniteSets, TLC

CONSTANTS e1, f1, f2, s1, s2, palco, cabine

\* Instants of one day and a half: 3 is midnight UTC, three hours before the
\* next day of America/Sao_Paulo begins.
ordemMC == [s \in Segmentos |-> IF s = s1 THEN 1 ELSE 2]
diaUtcMC == [t \in Instantes |-> t \div 3]
diaOperacionalMC == [t \in Instantes |-> t \div 5]
meiaNoiteMC == {t \in Instantes : t % 3 = 0}

\* One schedule, of one ministry.
escalaDeMC == [d \in Dias |-> e1]
UmMinisterio == [e \in Escalas |-> Funcoes]

\* Either function has a segment of its own, or both share the first.
SegmentacoesMC == {[f \in Funcoes |-> IF f = f2 THEN {s2} ELSE {s1}], [f \in Funcoes |-> {s1}]}
SegmentacoesIguais == {[f \in Funcoes |-> {s1}]}
\* f1 is on the stage, f2 is elsewhere.
LotacoesMC == {[f \in Funcoes |-> IF f = f1 THEN palco ELSE IF f = f2 THEN cabine ELSE NoLocal]}
SemLotacao == {[f \in Funcoes |-> NoLocal]}

\* Days as create leaves them: on a bare date, or linked to an event.
DiasSemEvento == [estado : {"existe"}, data : {0}, evento : {NoEvento}]
DiasComEvento == [estado : {"existe"}, data : Instantes, evento : Eventos]
DiasDeEventos == DiasComEvento \cup [estado : {"livre"}, data : {CHOOSE t \in Instantes : TRUE}, evento : {NoEvento}]

\* What is kept of a request that has ended is never read: the next one resets it.
EmCurso == [r \in Requests |-> IF req[r] = Livre THEN <<FALSE, FALSE, {}>> ELSE <<mudou[r], fechou[r], perdidos[r]>>]
\* The properties look at pairs of two assignments; an assignment with itself is none.
Pares2(H) == {p \in H : Cardinality(p) = 2}
View == <<banco, config, req, mudancas, EmCurso, Pares2(desculpados), Pares2(confirmados), atrasados>>

\* Where only days and the status are in question, so is their history.
ViewDias == <<banco, config, req, mudancas, [r \in Requests |-> req[r] # Livre /\ fechou[r]], atrasados>>

\* Requests are interchangeable.
Symmetric == Permutations(Requests)
====
