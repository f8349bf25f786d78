------------------------- MODULE ScheduleAssignments -------------------------
(***************************************************************************)
(* Assigning members to the days of the monthly schedules                  *)
(* (escalas.service.ts), against the conflict engine of ScheduleConflicts. *)
(*                                                                         *)
(* No handler holds a transaction: addMembro reads the day, the function,  *)
(* the member's other assignments, and the rules, and then writes.  Other  *)
(* requests, and changes of the rules, of the functions and of the events, *)
(* come in between.  Reads that only serve access control, the tables of   *)
(* ministries and members, and the eligibility of an event are the free    *)
(* choice of recusar.  Order and title of a day are left out.              *)
(***************************************************************************)
EXTENDS ScheduleConflicts

CONSTANTS
    Requests,
    Escalas, Dias, Membros,
    escalaDe,       \* the schedule of each day
    funcoesDe,      \* the functions of the ministry of each schedule
    diaServidor,    \* civil day of an instant, in the time zone of the process
    diaOperacional, \* civil day of an instant in America/Sao_Paulo
    meiaNoiteUtc,   \* instants that are midnight UTC: dates without a time
    diaUtc,         \* civil day of an instant in UTC
    Duracoes,       \* lengths of events; NoFim for an event with no end
    Iniciais,       \* days as created: records of estado, data and evento
    Segmentacoes,   \* segments the functions may have at first
    Lotacoes,       \* places the functions may have at first
    RegrasIniciais, \* rules a pair may have at first
    Confirmacoes,   \* bound: the values of confirmarAvisos
    Operacoes,      \* bound: the operations requested in this instance
    MaxMudancas     \* bound on the changes of configuration

ASSUME AssignmentsAssumption ==
    /\ escalaDe \in [Dias -> Escalas]
    /\ funcoesDe \in [Escalas -> SUBSET Funcoes]
    /\ meiaNoiteUtc \subseteq Instantes
    /\ DOMAIN diaServidor = Instantes
    /\ Iniciais \subseteq [estado : {"livre", "existe"}, data : Instantes, evento : Eventos \cup {NoEvento}]
    /\ Segmentacoes \subseteq [Funcoes -> SUBSET Segmentos]
    /\ Lotacoes \subseteq [Funcoes -> Locais \cup {NoLocal}]
    /\ RegrasIniciais \subseteq Regras
    /\ Confirmacoes \subseteq BOOLEAN
    /\ MaxMudancas \in Nat

VARIABLES
    status,      \* StatusEscala of each schedule
    dia,         \* the days: whether they exist, scheduled_date and event_id
    evento,      \* start and end of each event
    itens,       \* the assignments: day, member and function
    segmentos,   \* segments of each function
    local,       \* place of each function
    matriz,      \* rules of compatibility
    doTenant,    \* segments of the tenant
    req,         \* where each request is, and what it has read
    mudancas,    \* changes of configuration begun so far
    mudou,       \* history: the configuration changed under the request
    fechou,      \* history: a schedule was closed under the request
    perdidos,    \* history: assignments written under the request
    desculpados, \* history: pairs written by overlapping requests or changed since
    confirmados, \* history: pairs whose warnings were confirmed
    atrasados    \* history: days linked while their event was changed

banco == <<status, dia, evento, itens>>
config == <<segmentos, local, matriz, doTenant>>
historia == <<mudou, fechou, perdidos, desculpados, confirmados, atrasados>>
vars == <<banco, config, req, mudancas, historia>>

Status == {"RASCUNHO", "PUBLICADA", "ENCERRADA", "REMOVIDA"}
Dia == [estado : {"livre", "existe", "removido"}, data : Instantes, evento : Eventos \cup {NoEvento}]
Horario == [inicio : Instantes, fim : Instantes \cup {NoFim}]
Removido == [inicio |-> NoFim, fim |-> NoFim]
Itens == Dias \X Membros \X Funcoes

\* A request is free, or has read some rows and is about to take its next step.
Livre == [pc |-> "livre"]
PedidoDeMembro ==
    [pc : {"funcao", "itens", "regras", "gravar"}, item : Itens, confirma : BOOLEAN,
     data : Instantes, novo : Alocacao, existentes : SUBSET [item : Itens, aloc : Alocacao]]
PedidoDeRemocao == [pc : {"apagarItem"}, item : Itens] \cup [pc : {"apagarDia"}, dia : Dias]
PedidoDeVinculo ==
    [pc : {"elegivel"}, dia : Dias, chave : Instantes \X (Eventos \cup {NoEvento}), evento : Eventos, data : Instantes]
    \cup [pc : {"gravarVinculo"}, dia : Dias, chave : Instantes \X (Eventos \cup {NoEvento}),
          evento : Eventos \cup {NoEvento}, data : Instantes]
PedidoDeDia ==
    [pc : {"elegivelNovo"}, escala : Escalas, evento : Eventos, data : Instantes]
    \cup [pc : {"criarDia"}, escala : Escalas, evento : Eventos \cup {NoEvento}, data : Instantes]
PedidoDeStatus == [pc : {"gravarStatus"}, escala : Escalas, status : Status]
PedidoDeEvento ==
    [pc : {"gravarEvento"}, evento : Eventos, dias : SUBSET Dias, inicio : Instantes, fim : Instantes \cup {NoFim}]
    \cup [pc : {"gravarEvento"}, evento : Eventos, dias : {{}}, inicio : {NoFim}, fim : Instantes \cup {NoFim}]
Pedido ==
    {Livre} \cup PedidoDeMembro \cup PedidoDeRemocao \cup PedidoDeVinculo \cup PedidoDeDia
    \cup PedidoDeStatus \cup PedidoDeEvento

-----------------------------------------------------------------------------
Existe(d) == dia[d].estado = "existe"
Do(d) == escalaDe[d]

\* A mutated form of Aberta, used by no action.
AbertaSempre(e) == e \in Escalas

\* assertEscalaAbertaParaEdicao
Aberta(e) == status[e] # "ENCERRADA"

EventoDe(d) ==
    LET v == dia[d].evento IN
    IF v = NoEvento THEN NoEvento ELSE [id |-> v, inicio |-> evento[v].inicio, fim |-> evento[v].fim]

AlocacaoDe(x) ==
    [funcao |-> x[3], segmentos |-> segmentos[x[3]], local |-> local[x[3]], evento |-> EventoDe(x[1])]

Segue(r, passo) == req' = [req EXCEPT ![r] = passo]
Termina(r) == Segue(r, Livre)

\* A request that holds the id of a row that is deleted can only fail.
SemItens(rs, X) == [q \in Requests |-> IF rs[q].pc = "apagarItem" /\ rs[q].item \in X THEN Livre ELSE rs[q]]

Comeca(r, passo) ==
    /\ req[r] = Livre
    /\ Segue(r, passo)
    /\ mudou' = [mudou EXCEPT ![r] = FALSE]
    /\ fechou' = [fechou EXCEPT ![r] = FALSE]
    /\ perdidos' = [perdidos EXCEPT ![r] = {}]

\* The configuration the pairs were checked under is no longer the one in force.
Reconfigura ==
    /\ mudou' = [q \in Requests |-> TRUE]
    /\ desculpados' = {{x, y} : x, y \in itens}
    /\ UNCHANGED <<fechou, perdidos, confirmados>>

PodeMudar == mudancas < MaxMudancas /\ mudancas' = mudancas + 1

Fins(i) == {t \in Instantes : \E n \in Duracoes \ {NoFim} : t = i + n} \cup (Duracoes \cap {NoFim})

Init ==
    /\ status = [e \in Escalas |-> "RASCUNHO"]
    /\ evento \in [Eventos -> {h \in Horario : h.fim \in Fins(h.inicio)}]
    /\ dia \in [Dias -> Iniciais]
    /\ \A d \in Dias : dia[d].evento # NoEvento => dia[d].data = evento[dia[d].evento].inicio
    /\ \A c, d \in Dias : c # d /\ Do(c) = Do(d) /\ dia[c].evento = dia[d].evento => dia[c].evento = NoEvento
    /\ itens = {}
    /\ segmentos \in Segmentacoes
    /\ local \in Lotacoes
    /\ matriz \in [Pares -> RegrasIniciais]
    /\ \A f \in Funcoes : matriz[Par(f, f)] = "NENHUMA"
    /\ doTenant = Segmentos
    /\ req = [r \in Requests |-> Livre]
    /\ mudancas = 0
    /\ mudou = [r \in Requests |-> FALSE] /\ fechou = [r \in Requests |-> FALSE]
    /\ perdidos = [r \in Requests |-> {}]
    /\ desculpados = {} /\ confirmados = {} /\ atrasados = {}

-----------------------------------------------------------------------------
\* addMembro reads the day with its schedule and event.
addMembro(r, x, confirma) ==
    /\ "addMembro" \in Operacoes
    /\ Existe(x[1]) /\ Aberta(Do(x[1]))
    /\ Comeca(r, [pc |-> "funcao", item |-> x, confirma |-> confirma, data |-> dia[x[1]].data,
                  novo |-> [funcao |-> x[3], segmentos |-> {}, local |-> NoLocal, evento |-> EventoDe(x[1])],
                  existentes |-> {}])
    /\ UNCHANGED <<banco, config, mudancas, desculpados, confirmados, atrasados>>

\* Then the function, which must be of the ministry of the schedule.
lerFuncao(r) ==
    /\ req[r].pc = "funcao"
    /\ LET f == req[r].novo.funcao IN
       IF f \in funcoesDe[Do(req[r].item[1])]
       THEN Segue(r, [req[r] EXCEPT !.pc = "itens", !.novo.segmentos = segmentos[f], !.novo.local = local[f]])
       ELSE Termina(r)
    /\ UNCHANGED <<banco, config, mudancas, historia>>

NoMesmoDia(x, data) == diaServidor[dia[x[1]].data] = diaServidor[data]

\* A mutated form of Existentes, used by no action.
ExistentesDeOutrosDias(x, data) == {y \in itens : y[2] = x[2] /\ y[1] # x[1] /\ NoMesmoDia(y, data)}

\* The member's assignments of that civil day, but for the one being written.
Existentes(x, data) ==
    {y \in itens : y[2] = x[2] /\ NoMesmoDia(y, data) /\ ~(y[1] = x[1] /\ y[3] = x[3])}

lerItens(r) ==
    /\ req[r].pc = "itens"
    /\ LET E == {[item |-> y, aloc |-> AlocacaoDe(y)] : y \in Existentes(req[r].item, req[r].data)} IN
       Segue(r, [req[r] EXCEPT !.pc = IF E = {} THEN "gravar" ELSE "regras", !.existentes = E])
    /\ UNCHANGED <<banco, config, mudancas, historia>>

\* A mutated form of Aceita, used by no action.
AceitaSemConfirmar(q) ==
    LET E == {y.aloc : y \in q.existentes} IN
    valido(q.novo, E, matriz, doTenant) \/ requerConfirmacao(q.novo, E, matriz, doTenant)

\* Neither blocked, nor warned without the user's confirmation.
Aceita(q) ==
    LET E == {y.aloc : y \in q.existentes} IN
    \/ valido(q.novo, E, matriz, doTenant)
    \/ requerConfirmacao(q.novo, E, matriz, doTenant) /\ q.confirma

\* Then the rules and the tenant's segments, and the engine decides.
validar(r) ==
    /\ req[r].pc = "regras"
    /\ IF Aceita(req[r]) THEN Segue(r, [req[r] EXCEPT !.pc = "gravar"]) ELSE Termina(r)
    /\ UNCHANGED <<banco, config, mudancas, historia>>

\* The upsert, on the unique key of day, member and function: writing an
\* assignment that is there changes nothing here.  A deleted day fails it.
gravar(r) ==
    /\ req[r].pc = "gravar"
    /\ LET q == req[r]
           x == q.item IN
       IF Existe(x[1])
       THEN /\ itens' = itens \cup {x}
            /\ perdidos' = [p \in Requests |-> IF p = r THEN perdidos[p] ELSE perdidos[p] \cup {x}]
            /\ desculpados' = desculpados \cup {{x, y} : y \in IF mudou[r] THEN itens ELSE perdidos[r]}
            /\ confirmados' = confirmados \cup {{x, y.item} : y \in IF q.confirma THEN q.existentes ELSE {}}
       ELSE UNCHANGED <<itens, perdidos, desculpados, confirmados>>
    /\ Termina(r)
    /\ UNCHANGED <<status, dia, evento, config, mudancas, mudou, fechou, atrasados>>

\* removeMembro reads the assignment and its schedule, then deletes it.
removeMembro(r, x) ==
    /\ "removeMembro" \in Operacoes
    /\ x \in itens /\ Aberta(Do(x[1]))
    /\ Comeca(r, [pc |-> "apagarItem", item |-> x])
    /\ UNCHANGED <<banco, config, mudancas, desculpados, confirmados, atrasados>>

Apaga(X) ==
    /\ itens' = itens \ X
    /\ desculpados' = {p \in desculpados : p \cap X = {}}
    /\ confirmados' = {p \in confirmados : p \cap X = {}}

apagarItem(r) ==
    /\ req[r].pc = "apagarItem"
    /\ Apaga({req[r].item})
    /\ req' = SemItens([req EXCEPT ![r] = Livre], {req[r].item})
    /\ UNCHANGED <<status, dia, evento, config, mudancas, mudou, fechou, perdidos, atrasados>>

\* removeDia reads the day and its schedule, then deletes it with its
\* assignments, or fails on a day already deleted.
removeDia(r, d) ==
    /\ "removeDia" \in Operacoes
    /\ Existe(d) /\ Aberta(Do(d))
    /\ Comeca(r, [pc |-> "apagarDia", dia |-> d])
    /\ UNCHANGED <<banco, config, mudancas, desculpados, confirmados, atrasados>>

ApagaDias(D, rs) ==
    LET X == {x \in itens : x[1] \in D} IN
    /\ Apaga(X)
    /\ dia' = [d \in Dias |-> IF d \in D THEN [dia[d] EXCEPT !.estado = "removido", !.evento = NoEvento]
                              ELSE dia[d]]
    /\ req' = SemItens(rs, X)

apagarDia(r) ==
    /\ req[r].pc = "apagarDia"
    /\ IF Existe(req[r].dia)
       THEN ApagaDias({req[r].dia}, [req EXCEPT ![r] = Livre])
       ELSE Termina(r) /\ UNCHANGED <<dia, itens, desculpados, confirmados>>
    /\ UNCHANGED <<status, evento, config, mudancas, mudou, fechou, perdidos, atrasados>>

-----------------------------------------------------------------------------
\* addDia reads the schedule; a day for an event then reads the event.
addDia(r, e, v, data) ==
    /\ "addDia" \in Operacoes
    /\ status[e] # "REMOVIDA" /\ Aberta(e)
    /\ Comeca(r, [pc |-> IF v = NoEvento THEN "criarDia" ELSE "elegivelNovo", escala |-> e, evento |-> v, data |-> data])
    /\ UNCHANGED <<banco, config, mudancas, desculpados, confirmados, atrasados>>

Vinculado(e, v, D) == \E d \in D : Existe(d) /\ Do(d) = e /\ dia[d].evento = v

\* findEligibleEventForSchedule, for a new day.
elegivelNovo(r) ==
    /\ req[r].pc = "elegivelNovo"
    /\ LET v == req[r].evento IN
       IF evento[v] # Removido /\ ~Vinculado(req[r].escala, v, Dias)
       THEN Segue(r, [req[r] EXCEPT !.pc = "criarDia", !.data = evento[v].inicio])
       ELSE Termina(r)
    /\ UNCHANGED <<banco, config, mudancas, historia>>

\* The new row needs its schedule and its event, and the event only once in a
\* schedule.
criarDia(r) ==
    /\ req[r].pc = "criarDia"
    /\ LET e == req[r].escala
           v == req[r].evento IN
       IF /\ status[e] # "REMOVIDA"
          /\ v # NoEvento => evento[v] # Removido /\ ~Vinculado(e, v, Dias)
       THEN \E d \in Dias :
              /\ dia[d].estado = "livre" /\ Do(d) = e
              /\ dia' = [dia EXCEPT ![d] = [estado |-> "existe", data |-> req[r].data, evento |-> v]]
              /\ atrasados' = IF mudou[r] THEN atrasados \cup {d} ELSE atrasados
              /\ mudou' = [q \in Requests |-> mudou[q] \/ req[q].pc = "gravarEvento"]
       ELSE UNCHANGED <<dia, atrasados, mudou>>
    /\ Termina(r)
    /\ UNCHANGED <<status, evento, itens, config, mudancas, fechou, perdidos, desculpados, confirmados>>

\* getEscalaDiaDateKey: a day with no event at midnight UTC is a bare date.
ChaveDoDia(data, v) ==
    IF v = NoEvento /\ data \in meiaNoiteUtc THEN diaUtc[data] ELSE diaOperacional[data]

\* updateDiaEvento reads the day and its schedule; to link an event it reads
\* the event, which must be of the day's date.
updateDiaEvento(r, d, v) ==
    /\ "updateDiaEvento" \in Operacoes /\ PodeMudar
    /\ Existe(d) /\ Aberta(Do(d))
    /\ Comeca(r, [pc |-> IF v = NoEvento THEN "gravarVinculo" ELSE "elegivel", dia |-> d,
                  chave |-> <<dia[d].data, dia[d].evento>>, evento |-> v, data |-> dia[d].data])
    /\ UNCHANGED <<banco, config, desculpados, confirmados, atrasados>>

elegivel(r) ==
    /\ req[r].pc = "elegivel"
    /\ LET q == req[r] IN
       IF /\ evento[q.evento] # Removido
          /\ ~Vinculado(Do(q.dia), q.evento, Dias \ {q.dia})
          /\ diaOperacional[evento[q.evento].inicio] = ChaveDoDia(q.chave[1], q.chave[2])
       THEN Segue(r, [q EXCEPT !.pc = "gravarVinculo", !.data = evento[q.evento].inicio])
       ELSE Termina(r)
    /\ UNCHANGED <<banco, config, mudancas, historia>>

gravarVinculo(r) ==
    /\ req[r].pc = "gravarVinculo"
    /\ LET q == req[r] IN
       IF /\ Existe(q.dia)
          /\ q.evento # NoEvento => /\ evento[q.evento] # Removido
                                    /\ ~Vinculado(Do(q.dia), q.evento, Dias \ {q.dia})
       THEN /\ dia' = [dia EXCEPT ![q.dia].evento = q.evento,
                                  ![q.dia].data = IF q.evento = NoEvento THEN @ ELSE q.data]
            /\ atrasados' = IF mudou[r] THEN atrasados \cup {q.dia} ELSE atrasados
            /\ Reconfigura
       ELSE UNCHANGED <<dia, historia>>
    /\ Termina(r)
    /\ UNCHANGED <<status, evento, itens, config, mudancas>>

-----------------------------------------------------------------------------
LegalTransition(a, b) ==
    <<a, b>> \in {<<"RASCUNHO", "PUBLICADA">>, <<"PUBLICADA", "ENCERRADA">>,
                  <<"PUBLICADA", "RASCUNHO">>, <<"ENCERRADA", "PUBLICADA">>}

\* update of a schedule reads its status, then writes the new one.
update(r, e, s) ==
    /\ "update" \in Operacoes
    /\ LegalTransition(status[e], s)
    /\ Comeca(r, [pc |-> "gravarStatus", escala |-> e, status |-> s])
    /\ UNCHANGED <<banco, config, mudancas, desculpados, confirmados, atrasados>>

gravarStatus(r) ==
    /\ req[r].pc = "gravarStatus"
    /\ status' = [status EXCEPT ![req[r].escala] = IF @ = "REMOVIDA" THEN @ ELSE req[r].status]
    /\ fechou' = IF req[r].status = "ENCERRADA" THEN [q \in Requests |-> TRUE] ELSE fechou
    /\ Termina(r)
    /\ UNCHANGED <<dia, evento, itens, config, mudancas, mudou, perdidos, desculpados, confirmados, atrasados>>

\* remove of a schedule asks nothing of its status.
remove(e) ==
    /\ "remove" \in Operacoes
    /\ status[e] # "REMOVIDA"
    /\ status' = [status EXCEPT ![e] = "REMOVIDA"]
    /\ ApagaDias({d \in Dias : Do(d) = e /\ Existe(d)}, req)
    /\ UNCHANGED <<evento, config, mudancas, mudou, fechou, perdidos, atrasados>>

-----------------------------------------------------------------------------
\* A mutated form of LinkedDays, used by no action.
LinkedDaysElsewhere(v, inicio) == {d \in Dias : Existe(d) /\ dia[d].evento = v /\ dia[d].data = inicio}

LinkedDays(v, inicio) == IF inicio = NoFim THEN {} ELSE {d \in Dias : Existe(d) /\ dia[d].evento = v}

\* update of an event (eventos.service.ts) reads the days linked to it, then
\* moves the event and those days in one commit.  NoFim: the field is not
\* given.  All instants are of one month, so the check of the month passes.
updateEvento(r, v, inicio, fim) ==
    /\ "updateEvento" \in Operacoes /\ PodeMudar
    /\ evento[v] # Removido
    /\ inicio # NoFim /\ fim # NoFim => inicio <= fim
    /\ Comeca(r, [pc |-> "gravarEvento", evento |-> v, dias |-> LinkedDays(v, inicio), inicio |-> inicio, fim |-> fim])
    /\ UNCHANGED <<banco, config, desculpados, confirmados, atrasados>>

gravarEvento(r) ==
    /\ req[r].pc = "gravarEvento"
    /\ LET q == req[r]
           v == q.evento IN
       IF evento[v] # Removido
       THEN /\ evento' = [evento EXCEPT ![v].inicio = IF q.inicio = NoFim THEN @ ELSE q.inicio,
                                        ![v].fim = IF q.fim = NoFim THEN @ ELSE q.fim]
            /\ dia' = [d \in Dias |-> IF d \in q.dias /\ Existe(d) THEN [dia[d] EXCEPT !.data = q.inicio] ELSE dia[d]]
            /\ atrasados' = IF mudou[r] THEN atrasados \cup q.dias \cup {d \in Dias : dia[d].evento = v} ELSE atrasados
            /\ Reconfigura
       ELSE UNCHANGED <<evento, dia, historia>>
    /\ Termina(r)
    /\ UNCHANGED <<status, itens, config, mudancas>>

\* The foreign key of the days is set to null.
SemVinculo(v) == [d \in Dias |-> IF dia[d].evento = v THEN [dia[d] EXCEPT !.evento = NoEvento] ELSE dia[d]]

\* remove of an event: the days linked to it keep their date.
removeEvento(v) ==
    /\ "removeEvento" \in Operacoes /\ PodeMudar
    /\ evento[v] # Removido
    /\ evento' = [evento EXCEPT ![v] = Removido]
    /\ dia' = SemVinculo(v)
    /\ Reconfigura
    /\ UNCHANGED <<status, itens, config, req, atrasados>>

\* The configuration (configuracao-escalas.service.ts): each handler checks
\* its input, then writes in one transaction.  No handler looks at what is
\* already assigned.  NENHUMA is the removal of a rule, deleteCompatibilidade.
upsertCompatibilidade(f, g, regra) ==
    /\ "upsertCompatibilidade" \in Operacoes /\ PodeMudar
    /\ f # g
    /\ matriz' = [matriz EXCEPT ![Par(f, g)] = regra]
    /\ Reconfigura
    /\ UNCHANGED <<banco, segmentos, local, doTenant, req, atrasados>>

updateFuncaoConfiguracao(f, S, l) ==
    /\ "updateFuncaoConfiguracao" \in Operacoes /\ PodeMudar
    /\ S \subseteq doTenant
    /\ segmentos' = [segmentos EXCEPT ![f] = S]
    /\ local' = [local EXCEPT ![f] = l]
    /\ Reconfigura
    /\ UNCHANGED <<banco, matriz, doTenant, req, atrasados>>

\* The segment goes from every function too: one left with none takes all.
deleteSegmento(s) ==
    /\ "deleteSegmento" \in Operacoes /\ PodeMudar
    /\ s \in doTenant
    /\ doTenant' = doTenant \ {s}
    /\ segmentos' = [f \in Funcoes |-> segmentos[f] \ {s}]
    /\ Reconfigura
    /\ UNCHANGED <<banco, local, matriz, req, atrasados>>

\* A check this module leaves out fails, or the process dies before the write.
recusar(r) ==
    /\ req[r] # Livre
    /\ Termina(r)
    /\ UNCHANGED <<banco, config, mudancas, historia>>

-----------------------------------------------------------------------------
Assignment(r) ==
    \/ \E x \in Itens, confirma \in Confirmacoes : addMembro(r, x, confirma)
    \/ lerFuncao(r) \/ lerItens(r) \/ validar(r) \/ gravar(r)
    \/ \E x \in itens : removeMembro(r, x)
    \/ apagarItem(r)
    \/ recusar(r)

Day(r) ==
    \/ \E d \in Dias : removeDia(r, d)
    \/ apagarDia(r)
    \/ \E e \in Escalas, v \in Eventos \cup {NoEvento}, t \in Instantes : addDia(r, e, v, t)
    \/ elegivelNovo(r) \/ criarDia(r)
    \/ \E d \in Dias, v \in Eventos \cup {NoEvento} : updateDiaEvento(r, d, v)
    \/ elegivel(r) \/ gravarVinculo(r)

Lifecycle(r) ==
    \/ \E e \in Escalas, s \in Status : update(r, e, s)
    \/ gravarStatus(r)
    \/ \E e \in Escalas : remove(e)

Agenda(r) ==
    \/ \E v \in Eventos, i, f \in Instantes \cup {NoFim} : updateEvento(r, v, i, f)
    \/ gravarEvento(r)
    \/ \E v \in Eventos : removeEvento(v)

Configuration ==
    \/ \E f, g \in Funcoes, regra \in Regras : upsertCompatibilidade(f, g, regra)
    \/ \E f \in Funcoes, S \in SUBSET Segmentos, l \in Locais \cup {NoLocal} : updateFuncaoConfiguracao(f, S, l)
    \/ \E s \in Segmentos : deleteSegmento(s)

Next ==
    \/ \E r \in Requests : Assignment(r) \/ Day(r) \/ Lifecycle(r) \/ Agenda(r)
    \/ Configuration

Spec == Init /\ [][Next]_vars

-----------------------------------------------------------------------------
TypeOK ==
    /\ status \in [Escalas -> Status]
    /\ dia \in [Dias -> Dia]
    /\ evento \in [Eventos -> Horario \cup {Removido}]
    /\ itens \subseteq Itens
    /\ segmentos \in [Funcoes -> SUBSET Segmentos]
    /\ local \in [Funcoes -> Locais \cup {NoLocal}]
    /\ matriz \in Matriz
    /\ doTenant \subseteq Segmentos
    /\ req \in [Requests -> Pedido]
    /\ mudancas \in 0..MaxMudancas
    /\ mudou \in [Requests -> BOOLEAN] /\ fechou \in [Requests -> BOOLEAN]
    /\ perdidos \in [Requests -> SUBSET Itens]
    /\ \A p \in desculpados \cup confirmados : p \subseteq Itens
    /\ atrasados \subseteq Dias

\* Two assignments of one member on one civil day.
Juntos(x, y) == x # y /\ x[2] = y[2] /\ NoMesmoDia(x, dia[y[1]].data)

\* A member holds two assignments that the engine blocks only if they were
\* written by overlapping requests, or if a rule, a function, a segment, an
\* event or a link was changed since: addMembro checked one against the other.
BlockedPairIsExcused ==
    \A x, y \in itens :
        Juntos(x, y) /\ Bloqueiam(AlocacaoDe(x), AlocacaoDe(y), matriz, doTenant) => {x, y} \in desculpados

\* Likewise two assignments that the engine warns of: somebody confirmed the
\* warning, whichever of the two came first.
WarnedPairWasConfirmed ==
    \A x, y \in itens :
        Juntos(x, y) /\ Avisam(AlocacaoDe(x), AlocacaoDe(y), matriz, doTenant)
            => {x, y} \in desculpados \cup confirmados

\* A day linked to an event has its date, however the event is moved and the
\* day linked again, unless the two overlapped.
LinkedDayFollowsEvent ==
    \A d \in Dias \ atrasados :
        Existe(d) /\ dia[d].evento # NoEvento => dia[d].data = evento[dia[d].evento].inicio

\* A step changes the assignments or the links of a schedule that is closed
\* and stays so.
ChangesClosed(e) ==
    /\ status[e] = "ENCERRADA" /\ status'[e] = "ENCERRADA"
    /\ \/ {x \in itens' : Do(x[1]) = e} # {x \in itens : Do(x[1]) = e}
       \/ \E d \in Dias : Do(d) = e /\ (dia'[d].evento # dia[d].evento \/ dia'[d].estado # dia[d].estado)

\* Once closed, a schedule is changed only by a request that was under way
\* when it was closed, or through the removal of an event.
ClosedScheduleChangesLate ==
    [][\A e \in Escalas : ChangesClosed(e) =>
         \/ evento' # evento
         \/ \E r \in Requests : fechou[r] /\ req[r] # Livre /\ req'[r] = Livre]_vars
=============================================================================
