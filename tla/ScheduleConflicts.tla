-------------------------- MODULE ScheduleConflicts --------------------------
(***************************************************************************)
(* The conflict engine of the schedules (validador-conflitos.ts): may a    *)
(* member take one more function, given those taken already?  It is pure;  *)
(* what it is given is read from the database by addMembro (module         *)
(* ScheduleAssignments).                                                   *)
(*                                                                         *)
(* An assignment is a record of the function, its own segments, its place  *)
(* and the event of the day.  Names and messages are left out.  A place is *)
(* a value, equal for texts the code's trim and toLowerCase make equal.    *)
(***************************************************************************)
EXTENDS Integers

CONSTANTS
    Funcoes,    \* functions of all ministries
    Segmentos,  \* segments of a service, of one tenant
    ordem,      \* their order
    Locais,     \* places
    Eventos,    \* ids of events
    Instantes   \* moments of time

CONSTANTS Padrao, NoLocal, NoEvento, NoFim

ASSUME ConflictsAssumption ==
    /\ ordem \in [Segmentos -> Int]
    /\ Instantes \subseteq Int
    /\ Padrao \notin Segmentos /\ NoLocal \notin Locais /\ NoFim \notin Instantes
    /\ NoEvento \notin [id : Eventos, inicio : Instantes, fim : Instantes \cup {NoFim}]

EventoInfo == [id : Eventos, inicio : Instantes, fim : Instantes \cup {NoFim}]
Alocacao == [funcao : Funcoes, segmentos : SUBSET Segmentos,
             local : Locais \cup {NoLocal}, evento : EventoInfo \cup {NoEvento}]

\* normalizarParFuncoes: one key for a pair, whichever function comes first.
Par(f, g) == {f, g}
Pares == {Par(f, g) : f, g \in Funcoes}
Regras == {"NENHUMA", "PERMITIR", "AVISAR"}
Matriz == [Pares -> Regras]

-----------------------------------------------------------------------------
Fim(e) == IF e.fim = NoFim THEN e.inicio ELSE e.fim

\* eventosNaoSeSobrepoem: the same event, or a day without one, always overlaps.
NaoSeSobrepoem(a, b) ==
    /\ a # NoEvento /\ b # NoEvento
    /\ a.id # b.id
    /\ Fim(a) <= b.inicio \/ Fim(b) <= a.inicio

\* resolverSegmentosEfetivos: with no segment of its own a function takes all
\* of the tenant's, and the one default segment when the tenant has none.
SegmentosEfetivos(proprios, doTenant) ==
    IF proprios # {} THEN proprios ELSE IF doTenant # {} THEN doTenant ELSE {Padrao}

Ordem(s) == IF s = Padrao THEN 1 ELSE ordem[s]

Consecutivos(S, T) == \E s \in S, t \in T : Ordem(s) + 1 = Ordem(t) \/ Ordem(t) + 1 = Ordem(s)

\* Common segments: no rule blocks, AVISAR warns, PERMITIR lets pass.
DaRegra == [NENHUMA |-> "SEM_REGRA", AVISAR |-> "REGRA_AVISAR", PERMITIR |-> "NENHUM"]

\* What one existing assignment of the same member has against the new one: an
\* iteration of the loop of validarConflitosEscala.
Motivo(novo, item, matriz, doTenant) ==
    LET S == SegmentosEfetivos(novo.segmentos, doTenant)
        T == SegmentosEfetivos(item.segmentos, doTenant)
        regra == matriz[Par(item.funcao, novo.funcao)] IN
    IF NaoSeSobrepoem(item.evento, novo.evento) THEN "NENHUM"
    ELSE IF item.funcao = novo.funcao THEN "FUNCAO_REPETIDA"
    ELSE IF S \cap T # {} THEN DaRegra[regra]
    ELSE IF /\ item.local # NoLocal /\ novo.local # NoLocal /\ item.local # novo.local
            /\ Consecutivos(T, S)
         THEN "TRANSICAO_LOCAL"
    ELSE "NENHUM"

Bloqueio == {"FUNCAO_REPETIDA", "SEM_REGRA"}
Aviso == {"REGRA_AVISAR", "TRANSICAO_LOCAL"}

Bloqueiam(novo, item, matriz, doTenant) == Motivo(novo, item, matriz, doTenant) \in Bloqueio
Avisam(novo, item, matriz, doTenant) == Motivo(novo, item, matriz, doTenant) \in Aviso

\* validarConflitosEscala over the existing assignments of the member.
requerConfirmacao(novo, itens, matriz, doTenant) ==
    /\ \A item \in itens : ~Bloqueiam(novo, item, matriz, doTenant)
    /\ \E item \in itens : Avisam(novo, item, matriz, doTenant)

valido(novo, itens, matriz, doTenant) ==
    \A item \in itens : Motivo(novo, item, matriz, doTenant) = "NENHUM"
==============================================================================
