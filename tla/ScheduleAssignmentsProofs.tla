---------------------- MODULE ScheduleAssignmentsProofs ----------------------
(***************************************************************************)
(* Proofs about ScheduleAssignments and the conflict engine it uses        *)
(* (ScheduleConflicts), for any number of requests, days, members,         *)
(* functions, segments and events, and any rules and times.                *)
(***************************************************************************)
EXTENDS ScheduleAssignments, TLAPS

-----------------------------------------------------------------------------
\* The conflict engine.

LEMMA ParSimetrico == ASSUME NEW f, NEW g PROVE Par(f, g) = Par(g, f)
  BY DEF Par

LEMMA TempoSimetrico == ASSUME NEW a, NEW b PROVE NaoSeSobrepoem(a, b) = NaoSeSobrepoem(b, a)
  BY DEF NaoSeSobrepoem

LEMMA SegmentosSimetricos == ASSUME NEW S, NEW T PROVE Consecutivos(S, T) = Consecutivos(T, S)
  BY DEF Consecutivos

\* The engine says the same of two assignments whichever of them came first:
\* who is assigned in which order decides nothing.
THEOREM OrderIsIrrelevant ==
  ASSUME NEW a, NEW b, NEW m, NEW D
  PROVE  Motivo(a, b, m, D) = Motivo(b, a, m, D)
  <1> DEFINE S == SegmentosEfetivos(a.segmentos, D)
             T == SegmentosEfetivos(b.segmentos, D)
  <1>1. NaoSeSobrepoem(b.evento, a.evento) = NaoSeSobrepoem(a.evento, b.evento)
    BY TempoSimetrico
  <1>2. m[Par(b.funcao, a.funcao)] = m[Par(a.funcao, b.funcao)]
    BY ParSimetrico
  <1>3. Consecutivos(T, S) = Consecutivos(S, T)
    BY SegmentosSimetricos
  <1>4. S \cap T = T \cap S
    OBVIOUS
  <1> HIDE DEF S, T
  <1>5. Motivo(a, b, m, D) =
          IF NaoSeSobrepoem(b.evento, a.evento) THEN "NENHUM"
          ELSE IF b.funcao = a.funcao THEN "FUNCAO_REPETIDA"
          ELSE IF S \cap T # {} THEN DaRegra[m[Par(b.funcao, a.funcao)]]
          ELSE IF b.local # NoLocal /\ a.local # NoLocal /\ b.local # a.local /\ Consecutivos(T, S)
               THEN "TRANSICAO_LOCAL" ELSE "NENHUM"
    BY DEF Motivo, S, T
  <1>6. Motivo(b, a, m, D) =
          IF NaoSeSobrepoem(a.evento, b.evento) THEN "NENHUM"
          ELSE IF a.funcao = b.funcao THEN "FUNCAO_REPETIDA"
          ELSE IF T \cap S # {} THEN DaRegra[m[Par(a.funcao, b.funcao)]]
          ELSE IF a.local # NoLocal /\ b.local # NoLocal /\ a.local # b.local /\ Consecutivos(S, T)
               THEN "TRANSICAO_LOCAL" ELSE "NENHUM"
    BY DEF Motivo, S, T
  <1> QED BY <1>1, <1>2, <1>3, <1>4, <1>5, <1>6

COROLLARY BloqueioSimetrico ==
  ASSUME NEW a, NEW b, NEW m, NEW D
  PROVE  /\ Bloqueiam(a, b, m, D) = Bloqueiam(b, a, m, D)
         /\ Avisam(a, b, m, D) = Avisam(b, a, m, D)
  BY OrderIsIrrelevant DEF Bloqueiam, Avisam

-----------------------------------------------------------------------------
\* The event of a day is stored.
Ligados == \A d \in Dias : dia[d].evento # NoEvento => evento[dia[d].evento] # Removido

Tipos == TypeOK /\ Ligados

USE ConflictsAssumption, AssignmentsAssumption

-----------------------------------------------------------------------------
\* What a request is, by where it is.
LEMMA PedidoPorPasso ==
  ASSUME NEW q \in Pedido
  PROVE  /\ q.pc \in {"funcao", "itens", "regras", "gravar"} <=> q \in PedidoDeMembro
         /\ q.pc \in {"apagarItem", "apagarDia"} <=> q \in PedidoDeRemocao
         /\ q.pc \in {"elegivel", "gravarVinculo"} <=> q \in PedidoDeVinculo
         /\ q.pc \in {"elegivelNovo", "criarDia"} <=> q \in PedidoDeDia
         /\ q.pc = "gravarStatus" <=> q \in PedidoDeStatus
         /\ q.pc = "gravarEvento" <=> q \in PedidoDeEvento
         /\ q.pc = "livre" <=> q = Livre
  BY DEF Pedido, Livre, PedidoDeMembro, PedidoDeRemocao, PedidoDeVinculo, PedidoDeDia, PedidoDeStatus, PedidoDeEvento

\* The event of a stored day, and so an assignment of it, has its type.
LEMMA TipoDeEvento ==
  ASSUME Tipos, NEW d \in Dias
  PROVE  EventoDe(d) \in EventoInfo \cup {NoEvento}
  BY DEF Tipos, TypeOK, Ligados, EventoDe, Dia, Horario, Removido, EventoInfo

LEMMA TipoDeAlocacao ==
  ASSUME Tipos, NEW x \in Itens
  PROVE  AlocacaoDe(x) \in Alocacao
  <1>1. x[1] \in Dias /\ x[3] \in Funcoes
    BY DEF Itens
  <1>2. EventoDe(x[1]) \in EventoInfo \cup {NoEvento}
    BY <1>1, TipoDeEvento
  <1>3. segmentos[x[3]] \in SUBSET Segmentos /\ local[x[3]] \in Locais \cup {NoLocal}
    BY <1>1 DEF Tipos, TypeOK
  <1> QED BY <1>1, <1>2, <1>3 DEF AlocacaoDe, Alocacao

\* A request that moves to a step of the right type.
LEMMA TipoDePasso ==
  ASSUME req \in [Requests -> Pedido], NEW r \in Requests, NEW passo \in Pedido, Segue(r, passo)
  PROVE  req' \in [Requests -> Pedido]
  BY DEF Segue

LEMMA TipoDoInicio ==
  ASSUME TypeOK, NEW r \in Requests, NEW passo \in Pedido, Comeca(r, passo)
  PROVE  /\ req' \in [Requests -> Pedido]
         /\ mudou' \in [Requests -> BOOLEAN] /\ fechou' \in [Requests -> BOOLEAN]
         /\ perdidos' \in [Requests -> SUBSET Itens]
  BY TipoDePasso DEF TypeOK, Comeca

LEMMA TipoDoFim ==
  ASSUME req \in [Requests -> Pedido], NEW r \in Requests, Termina(r)
  PROVE  req' \in [Requests -> Pedido]
  BY TipoDePasso DEF Termina, Pedido

LEMMA TipoDeSemItens ==
  ASSUME NEW rs \in [Requests -> Pedido], NEW X
  PROVE  SemItens(rs, X) \in [Requests -> Pedido]
  BY DEF SemItens, Pedido

\* A step that writes no table.
LEMMA SoPedidos ==
  ASSUME Tipos, UNCHANGED <<banco, config>>, req' \in [Requests -> Pedido],
         mudou' \in [Requests -> BOOLEAN], fechou' \in [Requests -> BOOLEAN],
         perdidos' \in [Requests -> SUBSET Itens],
         UNCHANGED <<desculpados, confirmados, atrasados>>, mudancas' \in 0..MaxMudancas
  PROVE  Tipos'
  BY DEF Tipos, TypeOK, Ligados, banco, config

\* A step that begins a request.
LEMMA TiposDoInicio ==
  ASSUME Tipos, NEW r \in Requests, NEW passo \in Pedido, Comeca(r, passo), UNCHANGED <<banco, config>>,
         UNCHANGED <<desculpados, confirmados, atrasados>>, mudancas' \in 0..MaxMudancas
  PROVE  Tipos'
  BY SoPedidos, TipoDoInicio DEF Tipos

\* A step that only takes a request to its next one.
LEMMA TiposDoPasso ==
  ASSUME Tipos, NEW r \in Requests, NEW passo \in Pedido, Segue(r, passo),
         UNCHANGED <<banco, config, mudancas, historia>>
  PROVE  Tipos'
  <1>1. req' \in [Requests -> Pedido]
    BY TipoDePasso DEF Tipos, TypeOK
  <1> QED BY <1>1, SoPedidos DEF Tipos, TypeOK, historia

LEMMA LivreEPedido == Livre \in Pedido
  BY DEF Pedido

\* The history of a change of configuration.
LEMMA TiposDaMudanca ==
  ASSUME TypeOK, Reconfigura
  PROVE  /\ mudou' \in [Requests -> BOOLEAN] /\ fechou' \in [Requests -> BOOLEAN]
         /\ perdidos' \in [Requests -> SUBSET Itens]
         /\ \A p \in desculpados' \cup confirmados' : p \subseteq Itens
  BY DEF TypeOK, Reconfigura

LEMMA TiposDoContador == TypeOK /\ PodeMudar => mudancas' \in 0..MaxMudancas
  BY DEF TypeOK, PodeMudar

-----------------------------------------------------------------------------
LEMMA TiposAddMembro ==
  ASSUME Tipos, NEW r \in Requests, NEW x \in Itens, NEW confirma \in Confirmacoes, addMembro(r, x, confirma)
  PROVE  Tipos'
  <1> DEFINE novo == [funcao |-> x[3], segmentos |-> {}, local |-> NoLocal, evento |-> EventoDe(x[1])]
             passo == [pc |-> "funcao", item |-> x, confirma |-> confirma, data |-> dia[x[1]].data,
                       novo |-> novo, existentes |-> {}]
  <1>1. x[1] \in Dias /\ x[3] \in Funcoes
    BY DEF Itens
  <1>2. novo \in Alocacao
    BY <1>1, TipoDeEvento DEF Alocacao
  <1>3. dia[x[1]].data \in Instantes
    BY <1>1 DEF Tipos, TypeOK, Dia
  <1>4. passo \in Pedido
    BY <1>2, <1>3 DEF Pedido, PedidoDeMembro
  <1> QED BY <1>4, TiposDoInicio DEF addMembro, Tipos, TypeOK

LEMMA TiposLerFuncao ==
  ASSUME Tipos, NEW r \in Requests, lerFuncao(r)
  PROVE  Tipos'
  <1> DEFINE q == req[r]
             f == q.novo.funcao
             passo == [q EXCEPT !.pc = "itens", !.novo.segmentos = segmentos[f], !.novo.local = local[f]]
  <1>1. q \in PedidoDeMembro
    BY PedidoPorPasso DEF lerFuncao, Tipos, TypeOK
  <1>2. f \in Funcoes
    BY <1>1 DEF PedidoDeMembro, Alocacao
  <1>3. segmentos[f] \in SUBSET Segmentos /\ local[f] \in Locais \cup {NoLocal}
    BY <1>2 DEF Tipos, TypeOK
  <1>4. passo \in Pedido
    <2>1. [q.novo EXCEPT !.segmentos = segmentos[f], !.local = local[f]] \in Alocacao
      BY <1>1, <1>3 DEF PedidoDeMembro, Alocacao
    <2>2. passo \in PedidoDeMembro
      BY <1>1, <2>1 DEF PedidoDeMembro
    <2> QED BY <2>2 DEF Pedido
  <1>5. Segue(r, passo) \/ Segue(r, Livre)
    BY DEF lerFuncao, Termina
  <1> QED BY <1>4, <1>5, TiposDoPasso, LivreEPedido DEF lerFuncao

LEMMA TiposLerItens ==
  ASSUME Tipos, NEW r \in Requests, lerItens(r)
  PROVE  Tipos'
  <1> DEFINE q == req[r]
             E == {[item |-> y, aloc |-> AlocacaoDe(y)] : y \in Existentes(q.item, q.data)}
             passo == [q EXCEPT !.pc = IF E = {} THEN "gravar" ELSE "regras", !.existentes = E]
  <1>1. q \in PedidoDeMembro
    BY PedidoPorPasso DEF lerItens, Tipos, TypeOK
  <1>2. E \in SUBSET [item : Itens, aloc : Alocacao]
    BY TipoDeAlocacao DEF Existentes, Tipos, TypeOK
  <1>3. passo \in PedidoDeMembro
    BY <1>1, <1>2 DEF PedidoDeMembro
  <1>4. passo \in Pedido
    BY <1>3 DEF Pedido
  <1> QED BY <1>4, TiposDoPasso DEF lerItens

LEMMA TiposValidar ==
  ASSUME Tipos, NEW r \in Requests, validar(r)
  PROVE  Tipos'
  <1> DEFINE passo == [req[r] EXCEPT !.pc = "gravar"]
  <1>1. req[r] \in PedidoDeMembro
    BY PedidoPorPasso DEF validar, Tipos, TypeOK
  <1>2. passo \in Pedido
    BY <1>1 DEF PedidoDeMembro, Pedido
  <1>3. Segue(r, passo) \/ Segue(r, Livre)
    BY DEF validar, Termina
  <1> QED BY <1>2, <1>3, TiposDoPasso, LivreEPedido DEF validar

LEMMA TiposGravar ==
  ASSUME Tipos, NEW r \in Requests, gravar(r)
  PROVE  Tipos'
  <1> DEFINE q == req[r]
             x == q.item
  <1>1. q \in PedidoDeMembro
    BY PedidoPorPasso DEF gravar, Tipos, TypeOK
  <1>2. x \in Itens /\ \A y \in q.existentes : y.item \in Itens
    BY <1>1 DEF PedidoDeMembro
  <1>3. req' \in [Requests -> Pedido]
    BY TipoDoFim DEF gravar, Tipos, TypeOK
  <1>4. ASSUME Existe(x[1]) PROVE itens' \subseteq Itens /\ perdidos' \in [Requests -> SUBSET Itens]
    BY <1>2, <1>4 DEF gravar, Tipos, TypeOK
  <1>5. ASSUME Existe(x[1]) PROVE \A p \in desculpados' \cup confirmados' : p \subseteq Itens
    BY <1>2, <1>5 DEF gravar, Tipos, TypeOK
  <1>6. ASSUME ~Existe(x[1]) PROVE UNCHANGED <<itens, perdidos, desculpados, confirmados>>
    BY <1>6 DEF gravar
  <1> QED BY <1>3, <1>4, <1>5, <1>6 DEF gravar, Tipos, TypeOK, Ligados, config

LEMMA TiposRemoveMembro ==
  ASSUME Tipos, NEW r \in Requests, NEW x \in itens, removeMembro(r, x)
  PROVE  Tipos'
  <1>1. [pc |-> "apagarItem", item |-> x] \in Pedido
    BY DEF Tipos, TypeOK, Pedido, PedidoDeRemocao
  <1> QED BY <1>1, TiposDoInicio DEF removeMembro, Tipos, TypeOK

LEMMA TiposApagarItem ==
  ASSUME Tipos, NEW r \in Requests, apagarItem(r)
  PROVE  Tipos'
  <1>1. [req EXCEPT ![r] = Livre] \in [Requests -> Pedido]
    BY LivreEPedido DEF Tipos, TypeOK
  <1>2. req' \in [Requests -> Pedido]
    BY <1>1, TipoDeSemItens DEF apagarItem
  <1> QED BY <1>2 DEF apagarItem, Apaga, Tipos, TypeOK, Ligados, config

LEMMA TiposRecusar ==
  ASSUME Tipos, NEW r \in Requests, recusar(r)
  PROVE  Tipos'
  BY TiposDoPasso, LivreEPedido DEF recusar, Termina

-----------------------------------------------------------------------------
LEMMA TiposRemoveDia ==
  ASSUME Tipos, NEW r \in Requests, NEW d \in Dias, removeDia(r, d)
  PROVE  Tipos'
  <1>1. [pc |-> "apagarDia", dia |-> d] \in Pedido
    BY DEF Pedido, PedidoDeRemocao
  <1> QED BY <1>1, TiposDoInicio DEF removeDia, Tipos, TypeOK

\* Days that go with their assignments.
LEMMA TiposApagaDias ==
  ASSUME Tipos, NEW D \in SUBSET Dias, NEW rs \in [Requests -> Pedido], ApagaDias(D, rs),
         status' \in [Escalas -> Status], UNCHANGED <<evento, config, mudancas, mudou, fechou, perdidos, atrasados>>
  PROVE  Tipos'
  <1>1. req' \in [Requests -> Pedido]
    BY TipoDeSemItens DEF ApagaDias
  <1>2. \A d \in Dias :
          LET c == IF d \in D THEN [dia[d] EXCEPT !.estado = "removido", !.evento = NoEvento] ELSE dia[d] IN
          c \in Dia /\ c.evento \in {dia[d].evento, NoEvento}
    <2> TAKE d \in Dias
    <2>1. dia[d] \in Dia
      BY DEF Tipos, TypeOK
    <2> QED BY <2>1 DEF Dia
  <1>3. dia' \in [Dias -> Dia] /\ \A d \in Dias : dia'[d].evento \in {dia[d].evento, NoEvento}
    BY <1>2 DEF ApagaDias
  <1>4. Ligados'
    BY <1>3 DEF Tipos, Ligados
  <1> QED BY <1>1, <1>3, <1>4 DEF ApagaDias, Apaga, Tipos, TypeOK, config

LEMMA TiposApagarDia ==
  ASSUME Tipos, NEW r \in Requests, apagarDia(r)
  PROVE  Tipos'
  <1>1. req[r] \in PedidoDeRemocao /\ req[r].pc = "apagarDia"
    BY PedidoPorPasso DEF apagarDia, Tipos, TypeOK
  <1>2. {req[r].dia} \in SUBSET Dias
    BY <1>1 DEF PedidoDeRemocao
  <1>3. [req EXCEPT ![r] = Livre] \in [Requests -> Pedido]
    BY LivreEPedido DEF Tipos, TypeOK
  <1>4. ASSUME Existe(req[r].dia) PROVE Tipos'
    <2>1. ApagaDias({req[r].dia}, [req EXCEPT ![r] = Livre])
      BY <1>4 DEF apagarDia
    <2>2. status' \in [Escalas -> Status]
      BY DEF apagarDia, Tipos, TypeOK
    <2> QED BY <1>2, <1>3, <2>1, <2>2, TiposApagaDias DEF apagarDia
  <1>5. ASSUME ~Existe(req[r].dia) PROVE Tipos'
    <2>1. Segue(r, Livre) /\ UNCHANGED <<banco, config, mudancas, historia>>
      BY <1>5 DEF apagarDia, Termina, banco, historia
    <2> QED BY <2>1, TiposDoPasso, LivreEPedido
  <1> QED BY <1>4, <1>5

LEMMA TiposAddDia ==
  ASSUME Tipos, NEW r \in Requests, NEW e \in Escalas, NEW v \in Eventos \cup {NoEvento}, NEW t \in Instantes,
         addDia(r, e, v, t)
  PROVE  Tipos'
  <1> DEFINE passo == [pc |-> IF v = NoEvento THEN "criarDia" ELSE "elegivelNovo", escala |-> e, evento |-> v, data |-> t]
  <1>1. passo \in Pedido
    BY DEF Pedido, PedidoDeDia
  <1> QED BY <1>1, TiposDoInicio DEF addDia, Tipos, TypeOK

LEMMA TiposElegivelNovo ==
  ASSUME Tipos, NEW r \in Requests, elegivelNovo(r)
  PROVE  Tipos'
  <1> DEFINE q == req[r]
             passo == [q EXCEPT !.pc = "criarDia", !.data = evento[q.evento].inicio]
  <1>1. q \in PedidoDeDia /\ q.pc = "elegivelNovo"
    BY PedidoPorPasso DEF elegivelNovo, Tipos, TypeOK
  <1>2. ASSUME evento[q.evento] # Removido PROVE passo \in Pedido
    <2>1. q.evento \in Eventos
      BY <1>1 DEF PedidoDeDia
    <2>2. evento[q.evento].inicio \in Instantes
      BY <1>2, <2>1 DEF Tipos, TypeOK, Horario
    <2>3. passo \in PedidoDeDia
      BY <1>1, <2>2 DEF PedidoDeDia
    <2> QED BY <2>3 DEF Pedido
  <1>3. (evento[q.evento] # Removido /\ Segue(r, passo)) \/ Segue(r, Livre)
    BY DEF elegivelNovo, Termina
  <1> QED BY <1>2, <1>3, TiposDoPasso, LivreEPedido DEF elegivelNovo

LEMMA TiposCriarDia ==
  ASSUME Tipos, NEW r \in Requests, criarDia(r)
  PROVE  Tipos'
  <1> DEFINE e == req[r].escala
             v == req[r].evento
             Pode == /\ status[e] # "REMOVIDA"
                     /\ v # NoEvento => evento[v] # Removido /\ ~Vinculado(e, v, Dias)
  <1>1. req[r] \in PedidoDeDia
    BY PedidoPorPasso DEF criarDia, Tipos, TypeOK
  <1>2. v \in Eventos \cup {NoEvento} /\ req[r].data \in Instantes
    BY <1>1 DEF PedidoDeDia
  <1>3. req' \in [Requests -> Pedido]
    BY TipoDoFim DEF criarDia, Tipos, TypeOK
  <1>4. ASSUME Pode PROVE Tipos'
    <2>1. PICK d \in Dias :
             /\ dia[d].estado = "livre" /\ Do(d) = e
             /\ dia' = [dia EXCEPT ![d] = [estado |-> "existe", data |-> req[r].data, evento |-> v]]
             /\ atrasados' = IF mudou[r] THEN atrasados \cup {d} ELSE atrasados
             /\ mudou' = [q \in Requests |-> mudou[q] \/ req[q].pc = "gravarEvento"]
      BY <1>4 DEF criarDia
    <2>2. dia' \in [Dias -> Dia] /\ Ligados'
      BY <1>2, <1>4, <2>1 DEF criarDia, Tipos, TypeOK, Ligados, Dia
    <2>3. mudou' \in [Requests -> BOOLEAN] /\ atrasados' \subseteq Dias
      BY <2>1 DEF Tipos, TypeOK
    <2> QED BY <1>3, <2>2, <2>3 DEF criarDia, Tipos, TypeOK, config
  <1>5. ASSUME ~Pode PROVE Tipos'
    <2>1. UNCHANGED <<banco, config, mudancas, historia>>
      BY <1>5 DEF criarDia, banco, historia
    <2>2. Segue(r, Livre)
      BY DEF criarDia, Termina
    <2> QED BY <2>1, <2>2, TiposDoPasso, LivreEPedido
  <1> QED BY <1>4, <1>5

LEMMA TiposUpdateDiaEvento ==
  ASSUME Tipos, NEW r \in Requests, NEW d \in Dias, NEW v \in Eventos \cup {NoEvento}, updateDiaEvento(r, d, v)
  PROVE  Tipos'
  <1> DEFINE passo == [pc |-> IF v = NoEvento THEN "gravarVinculo" ELSE "elegivel", dia |-> d,
                       chave |-> <<dia[d].data, dia[d].evento>>, evento |-> v, data |-> dia[d].data]
  <1>1. dia[d].data \in Instantes /\ dia[d].evento \in Eventos \cup {NoEvento}
    BY DEF Tipos, TypeOK, Dia
  <1>2. passo \in Pedido
    BY <1>1 DEF Pedido, PedidoDeVinculo
  <1>3. mudancas' \in 0..MaxMudancas
    BY TiposDoContador DEF updateDiaEvento, Tipos
  <1> QED BY <1>2, <1>3, TiposDoInicio DEF updateDiaEvento

LEMMA TiposElegivel ==
  ASSUME Tipos, NEW r \in Requests, elegivel(r)
  PROVE  Tipos'
  <1> DEFINE q == req[r]
             passo == [q EXCEPT !.pc = "gravarVinculo", !.data = evento[q.evento].inicio]
  <1>1. q \in PedidoDeVinculo /\ q.pc = "elegivel"
    BY PedidoPorPasso DEF elegivel, Tipos, TypeOK
  <1>2. ASSUME evento[q.evento] # Removido PROVE passo \in Pedido
    <2>1. q.evento \in Eventos
      BY <1>1 DEF PedidoDeVinculo
    <2>2. evento[q.evento].inicio \in Instantes
      BY <1>2, <2>1 DEF Tipos, TypeOK, Horario
    <2>3. passo \in PedidoDeVinculo
      BY <1>1, <2>2 DEF PedidoDeVinculo
    <2> QED BY <2>3 DEF Pedido
  <1>3. (evento[q.evento] # Removido /\ Segue(r, passo)) \/ Segue(r, Livre)
    BY DEF elegivel, Termina
  <1> QED BY <1>2, <1>3, TiposDoPasso, LivreEPedido DEF elegivel

LEMMA TiposGravarVinculo ==
  ASSUME Tipos, NEW r \in Requests, gravarVinculo(r)
  PROVE  Tipos'
  <1> DEFINE q == req[r]
             Pode == /\ Existe(q.dia)
                     /\ q.evento # NoEvento => /\ evento[q.evento] # Removido
                                               /\ ~Vinculado(Do(q.dia), q.evento, Dias \ {q.dia})
  <1>1. q \in PedidoDeVinculo
    BY PedidoPorPasso DEF gravarVinculo, Tipos, TypeOK
  <1>2. q.dia \in Dias /\ q.evento \in Eventos \cup {NoEvento} /\ q.data \in Instantes
    BY <1>1 DEF PedidoDeVinculo
  <1>3. req' \in [Requests -> Pedido]
    BY TipoDoFim DEF gravarVinculo, Tipos, TypeOK
  <1>4. ASSUME Pode PROVE Tipos'
    <2>1. dia' = [dia EXCEPT ![q.dia].evento = q.evento,
                             ![q.dia].data = IF q.evento = NoEvento THEN @ ELSE q.data]
      BY <1>4 DEF gravarVinculo
    <2> DEFINE c == [dia[q.dia] EXCEPT !.evento = q.evento, !.data = IF q.evento = NoEvento THEN dia[q.dia].data ELSE q.data]
    <2>4. dia[q.dia] \in Dia /\ dia[q.dia].data \in Instantes
      BY <1>2 DEF Tipos, TypeOK, Dia
    <2>5. c \in Dia /\ c.evento = q.evento
      BY <1>2, <2>4 DEF Dia
    <2>6. dia' = [dia EXCEPT ![q.dia] = c]
      BY <1>2, <2>1, <2>4 DEF Tipos, TypeOK, Dia
    <2> HIDE DEF c
    <2>2. dia' \in [Dias -> Dia] /\ Ligados'
      BY <1>2, <1>4, <2>5, <2>6 DEF gravarVinculo, Tipos, TypeOK, Ligados
    <2>3. Reconfigura /\ atrasados' \subseteq Dias
      BY <1>2, <1>4 DEF gravarVinculo, Tipos, TypeOK
    <2> QED BY <1>3, <2>2, <2>3, TiposDaMudanca DEF gravarVinculo, Tipos, TypeOK, config
  <1>5. ASSUME ~Pode PROVE Tipos'
    <2>1. UNCHANGED <<banco, config, mudancas, historia>>
      BY <1>5 DEF gravarVinculo, banco, historia
    <2>2. Segue(r, Livre)
      BY DEF gravarVinculo, Termina
    <2> QED BY <2>1, <2>2, TiposDoPasso, LivreEPedido
  <1> QED BY <1>4, <1>5

-----------------------------------------------------------------------------
LEMMA TiposUpdate ==
  ASSUME Tipos, NEW r \in Requests, NEW e \in Escalas, NEW s \in Status, update(r, e, s)
  PROVE  Tipos'
  <1>1. [pc |-> "gravarStatus", escala |-> e, status |-> s] \in Pedido
    BY DEF Pedido, PedidoDeStatus
  <1> QED BY <1>1, TiposDoInicio DEF update, Tipos, TypeOK

LEMMA TiposGravarStatus ==
  ASSUME Tipos, NEW r \in Requests, gravarStatus(r)
  PROVE  Tipos'
  <1>1. req[r] \in PedidoDeStatus
    BY PedidoPorPasso DEF gravarStatus, Tipos, TypeOK
  <1>2. status' \in [Escalas -> Status]
    BY <1>1 DEF gravarStatus, Tipos, TypeOK, PedidoDeStatus, Status
  <1>3. req' \in [Requests -> Pedido]
    BY TipoDoFim DEF gravarStatus, Tipos, TypeOK
  <1> QED BY <1>2, <1>3 DEF gravarStatus, Tipos, TypeOK, Ligados, config

LEMMA TiposRemove ==
  ASSUME Tipos, NEW e \in Escalas, remove(e)
  PROVE  Tipos'
  <1> DEFINE D == {d \in Dias : Do(d) = e /\ Existe(d)}
  <1>1. ApagaDias(D, req) /\ D \in SUBSET Dias /\ req \in [Requests -> Pedido]
    BY DEF remove, Tipos, TypeOK
  <1>2. status' \in [Escalas -> Status]
    BY DEF remove, Tipos, TypeOK, Status
  <1> QED BY <1>1, <1>2, TiposApagaDias DEF remove

LEMMA TiposUpdateEvento ==
  ASSUME Tipos, NEW r \in Requests, NEW v \in Eventos,
         NEW i \in Instantes \cup {NoFim}, NEW f \in Instantes \cup {NoFim}, updateEvento(r, v, i, f)
  PROVE  Tipos'
  <1> DEFINE passo == [pc |-> "gravarEvento", evento |-> v, dias |-> LinkedDays(v, i), inicio |-> i, fim |-> f]
  <1>1. LinkedDays(v, i) \subseteq Dias /\ (i = NoFim => LinkedDays(v, i) = {})
    BY DEF LinkedDays
  <1>2. passo \in Pedido
    BY <1>1 DEF Pedido, PedidoDeEvento
  <1>3. mudancas' \in 0..MaxMudancas
    BY TiposDoContador DEF updateEvento, Tipos
  <1> QED BY <1>2, <1>3, TiposDoInicio DEF updateEvento

LEMMA TiposGravarEvento ==
  ASSUME Tipos, NEW r \in Requests, gravarEvento(r)
  PROVE  Tipos'
  <1> DEFINE q == req[r]
             v == q.evento
  <1>1. q \in PedidoDeEvento
    BY PedidoPorPasso DEF gravarEvento, Tipos, TypeOK
  <1>2. v \in Eventos /\ q.inicio \in Instantes \cup {NoFim} /\ q.fim \in Instantes \cup {NoFim}
    BY <1>1 DEF PedidoDeEvento
  <1>3. q.dias \subseteq Dias /\ (q.dias # {} => q.inicio \in Instantes)
    BY <1>1 DEF PedidoDeEvento
  <1>4. req' \in [Requests -> Pedido]
    BY TipoDoFim DEF gravarEvento, Tipos, TypeOK
  <1>5. ASSUME evento[v] # Removido PROVE Tipos'
    <2>1. evento[v] \in Horario
      BY <1>2, <1>5 DEF Tipos, TypeOK
    <2> DEFINE h == [inicio |-> IF q.inicio = NoFim THEN evento[v].inicio ELSE q.inicio,
                     fim |-> IF q.fim = NoFim THEN evento[v].fim ELSE q.fim]
    <2>2. h \in Horario /\ h # Removido
      BY <1>2, <2>1 DEF Horario, Removido
    <2>3. evento' = [evento EXCEPT ![v] = h]
      BY <1>2, <1>5, <2>1 DEF gravarEvento, Tipos, TypeOK, Horario
    <2>4. evento' \in [Eventos -> Horario \cup {Removido}]
      BY <1>2, <2>2, <2>3 DEF Tipos, TypeOK
    <2> DEFINE c(d) == IF d \in q.dias /\ Existe(d) THEN [dia[d] EXCEPT !.data = q.inicio] ELSE dia[d]
    <2>9. \A d \in Dias : c(d) \in Dia /\ c(d).evento = dia[d].evento
      <3> TAKE d \in Dias
      <3>1. dia[d] \in Dia
        BY DEF Tipos, TypeOK
      <3> QED BY <1>3, <3>1 DEF Dia
    <2>10. dia' = [d \in Dias |-> c(d)]
      BY <1>5 DEF gravarEvento
    <2> HIDE DEF c
    <2>5. dia' \in [Dias -> Dia]
      BY <2>9, <2>10
    <2>6. \A d \in Dias : dia'[d].evento = dia[d].evento
      BY <2>9, <2>10
    <2>7. Ligados'
      BY <2>2, <2>3, <2>6 DEF Tipos, TypeOK, Ligados, Dia
    <2>8. Reconfigura /\ atrasados' \subseteq Dias
      BY <1>3, <1>5 DEF gravarEvento, Tipos, TypeOK
    <2> QED BY <1>4, <2>4, <2>5, <2>7, <2>8, TiposDaMudanca DEF gravarEvento, Tipos, TypeOK, config
  <1>6. ASSUME evento[v] = Removido PROVE Tipos'
    <2>1. UNCHANGED <<banco, config, mudancas, historia>>
      BY <1>6 DEF gravarEvento, banco, historia
    <2>2. Segue(r, Livre)
      BY DEF gravarEvento, Termina
    <2> QED BY <2>1, <2>2, TiposDoPasso, LivreEPedido
  <1> QED BY <1>5, <1>6

LEMMA TiposRemoveEvento ==
  ASSUME Tipos, NEW v \in Eventos, removeEvento(v)
  PROVE  Tipos'
  <1> DEFINE c(d) == IF dia[d].evento = v THEN [dia[d] EXCEPT !.evento = NoEvento] ELSE dia[d]
  <1>4. \A d \in Dias : c(d) \in Dia /\ c(d).evento = IF dia[d].evento = v THEN NoEvento ELSE dia[d].evento
    <2> TAKE d \in Dias
    <2>1. dia[d] \in Dia
      BY DEF Tipos, TypeOK
    <2> QED BY <2>1 DEF Dia
  <1>5. dia' = [d \in Dias |-> c(d)]
    BY DEF removeEvento, SemVinculo
  <1> HIDE DEF c
  <1>6. dia' \in [Dias -> Dia]
    BY <1>4, <1>5
  <1>7. \A d \in Dias : dia[d].evento \in Eventos \cup {NoEvento}
    BY DEF Tipos, TypeOK, Dia
  <1>8. Ligados'
    BY <1>4, <1>5, <1>7 DEF removeEvento, Tipos, TypeOK, Ligados
  <1>1. dia' \in [Dias -> Dia] /\ Ligados'
    BY <1>6, <1>8
  <1>2. evento' \in [Eventos -> Horario \cup {Removido}]
    BY DEF removeEvento, Tipos, TypeOK
  <1>3. mudancas' \in 0..MaxMudancas
    BY TiposDoContador DEF removeEvento, Tipos
  <1> QED BY <1>1, <1>2, <1>3, TiposDaMudanca DEF removeEvento, Tipos, TypeOK, config

\* The tables of the configuration.
LEMMA TiposConfiguration ==
  ASSUME Tipos, Configuration
  PROVE  Tipos'
  <1>1. mudancas' \in 0..MaxMudancas
    BY TiposDoContador DEF Configuration, upsertCompatibilidade, updateFuncaoConfiguracao, deleteSegmento, Tipos
  <1>2. ASSUME NEW f \in Funcoes, NEW g \in Funcoes, NEW regra \in Regras, upsertCompatibilidade(f, g, regra)
        PROVE  Tipos'
    <2>1. matriz' \in Matriz
      BY <1>2 DEF upsertCompatibilidade, Tipos, TypeOK, Matriz
    <2> QED BY <1>1, <1>2, <2>1, TiposDaMudanca DEF upsertCompatibilidade, Tipos, TypeOK, Ligados, banco
  <1>3. ASSUME NEW f \in Funcoes, NEW S \in SUBSET Segmentos, NEW l \in Locais \cup {NoLocal},
               updateFuncaoConfiguracao(f, S, l)
        PROVE  Tipos'
    BY <1>1, <1>3, TiposDaMudanca DEF updateFuncaoConfiguracao, Tipos, TypeOK, Ligados, banco
  <1>4. ASSUME NEW s \in Segmentos, deleteSegmento(s)
        PROVE  Tipos'
    BY <1>1, <1>4, TiposDaMudanca DEF deleteSegmento, Tipos, TypeOK, Ligados, banco
  <1> QED BY <1>2, <1>3, <1>4 DEF Configuration

-----------------------------------------------------------------------------
LEMMA TiposNoInicio == Init => Tipos
  <1> SUFFICES ASSUME Init PROVE Tipos
    OBVIOUS
  <1>1. evento \in [Eventos -> Horario] /\ \A v \in Eventos : evento[v] # Removido
    BY DEF Init, Horario, Removido
  <1>2. dia \in [Dias -> Dia]
    BY DEF Init, Dia
  <1>3. Ligados
    BY <1>1, <1>2 DEF Ligados, Dia
  <1> QED BY <1>1, <1>2, <1>3, LivreEPedido DEF Tipos, TypeOK, Init, Matriz, Status

LEMMA TiposEmCadaPasso == Tipos /\ [Next]_vars => Tipos'
  <1> SUFFICES ASSUME Tipos, [Next]_vars PROVE Tipos'
    OBVIOUS
  <1>1. ASSUME NEW r \in Requests, Assignment(r) PROVE Tipos'
    BY <1>1, TiposAddMembro, TiposLerFuncao, TiposLerItens, TiposValidar, TiposGravar, TiposRemoveMembro,
       TiposApagarItem, TiposRecusar DEF Assignment
  <1>2. ASSUME NEW r \in Requests, Day(r) PROVE Tipos'
    BY <1>2, TiposRemoveDia, TiposApagarDia, TiposAddDia, TiposElegivelNovo, TiposCriarDia,
       TiposUpdateDiaEvento, TiposElegivel, TiposGravarVinculo DEF Day
  <1>3. ASSUME NEW r \in Requests, Lifecycle(r) PROVE Tipos'
    BY <1>3, TiposUpdate, TiposGravarStatus, TiposRemove DEF Lifecycle
  <1>4. ASSUME NEW r \in Requests, Agenda(r) PROVE Tipos'
    BY <1>4, TiposUpdateEvento, TiposGravarEvento, TiposRemoveEvento DEF Agenda
  <1>5. ASSUME UNCHANGED vars PROVE Tipos'
    BY <1>5 DEF vars, banco, config, historia, Tipos, TypeOK, Ligados
  <1> QED BY <1>1, <1>2, <1>3, <1>4, <1>5, TiposConfiguration DEF Next

\* Type correctness of the tables, of the requests and of the history, however
\* many requests interleave.
THEOREM TypeCorrect == Spec => []TypeOK
  <1>1. Tipos => TypeOK
    BY DEF Tipos
  <1> QED BY <1>1, TiposNoInicio, TiposEmCadaPasso, PTL DEF Spec

-----------------------------------------------------------------------------
\* An assignment is of a stored day.
ItensEmDias == \A x \in itens : Existe(x[1])

\* What an addMembro has read is still so, unless the configuration changed (m)
\* or the assignment was written since (p); past the engine, it is blocked by
\* none of the others, and what warns of it was read and confirmed.
Passa(q, y) ==
    /\ ~Bloqueiam(q.novo, AlocacaoDe(y), matriz, doTenant)
    /\ Avisam(q.novo, AlocacaoDe(y), matriz, doTenant) => q.confirma /\ y \in {e.item : e \in q.existentes}

Confere(q, m, p) ==
    /\ dia[q.item[1]].estado # "livre"
    /\ q.novo.funcao = q.item[3]
    /\ ~m =>
        /\ Existe(q.item[1]) => q.data = dia[q.item[1]].data /\ q.novo.evento = EventoDe(q.item[1])
        /\ q.pc # "funcao" => q.novo.segmentos = segmentos[q.item[3]] /\ q.novo.local = local[q.item[3]]
        /\ q.pc = "regras" =>
             \A y \in Existentes(q.item, q.data) : y \in p \/ [item |-> y, aloc |-> AlocacaoDe(y)] \in q.existentes
        /\ q.pc = "gravar" =>
             \A y \in Existentes(q.item, q.data) : y \in p \/ Passa(q, y)

Conferidos == \A r \in Requests : req[r] \in PedidoDeMembro => Confere(req[r], mudou[r], perdidos[r])

ParesEmOrdem == BlockedPairIsExcused /\ WarnedPairWasConfirmed

IInv == Tipos /\ ItensEmDias /\ Conferidos /\ ParesEmOrdem

\* A step that creates or removes days and changes nothing of a day that stays.
NaoRenasce == \A d \in Dias : dia[d].estado # "livre" => dia'[d].estado # "livre"
Quieto ==
    /\ UNCHANGED <<evento, config>>
    /\ \A d \in Dias : dia[d].estado # "livre" /\ dia'[d].estado = "existe" => dia'[d] = dia[d]

LEMMA AlocacaoEstavel ==
  ASSUME Quieto, NEW y \in Itens, dia[y[1]].estado # "livre", dia'[y[1]].estado = "existe"
  PROVE  AlocacaoDe(y)' = AlocacaoDe(y) /\ dia'[y[1]] = dia[y[1]]
  <1>1. y[1] \in Dias
    BY DEF Itens
  <1>2. dia'[y[1]] = dia[y[1]]
    BY <1>1 DEF Quieto
  <1> QED BY <1>2 DEF Quieto, config, AlocacaoDe, EventoDe

LEMMA ConfereEstavel ==
  ASSUME Tipos, ItensEmDias, ItensEmDias', itens' \subseteq Itens, NaoRenasce,
         NEW q \in PedidoDeMembro, NEW m, NEW p, NEW m2, NEW p2, Confere(q, m, p),
         m => m2, p \cup (itens' \ itens) \subseteq p2, ~m2 => Quieto
  PROVE  Confere(q, m2, p2)'
  <1> DEFINE x == q.item
  <1>1. x \in Itens /\ x[1] \in Dias /\ x[3] \in Funcoes
    BY DEF PedidoDeMembro, Itens
  <1>2. dia'[x[1]].estado # "livre" /\ q.novo.funcao = x[3]
    BY <1>1 DEF Confere, NaoRenasce
  <1>3. ASSUME ~m2
        PROVE  /\ Existe(x[1])' => q.data = dia'[x[1]].data /\ q.novo.evento = EventoDe(x[1])'
               /\ q.pc # "funcao" => q.novo.segmentos = segmentos'[x[3]] /\ q.novo.local = local'[x[3]]
    <2>1. Quieto /\ ~m
      BY <1>3
    <2>2. ASSUME Existe(x[1])' PROVE Existe(x[1]) /\ dia'[x[1]] = dia[x[1]] /\ EventoDe(x[1])' = EventoDe(x[1])
      BY <1>1, <2>1, <2>2 DEF Confere, Quieto, Existe, EventoDe
    <2> QED BY <2>1, <2>2 DEF Confere, Quieto, config
  <1>4. ASSUME ~m2, NEW y \in Existentes(x, q.data)', y \notin p2
        PROVE  y \in Existentes(x, q.data) /\ y \notin p /\ AlocacaoDe(y)' = AlocacaoDe(y)
    <2>1. y \in itens' /\ y \in itens /\ y \in Itens /\ y \notin p
      BY <1>4 DEF Existentes
    <2>2. dia[y[1]].estado = "existe" /\ dia'[y[1]].estado = "existe"
      BY <2>1 DEF ItensEmDias, Existe
    <2>3. AlocacaoDe(y)' = AlocacaoDe(y) /\ dia'[y[1]] = dia[y[1]]
      BY <1>4, <2>1, <2>2, AlocacaoEstavel
    <2>4. y \in Existentes(x, q.data)
      BY <2>1, <2>3 DEF Existentes, NoMesmoDia
    <2> QED BY <2>1, <2>3, <2>4
  <1>5. ~m2 => ~m /\ matriz' = matriz /\ doTenant' = doTenant
    BY DEF Quieto, config
  <1>6. ASSUME ~m2, q.pc = "regras", NEW y \in Existentes(x, q.data)', y \notin p2
        PROVE  [item |-> y, aloc |-> AlocacaoDe(y)'] \in q.existentes
    BY <1>4, <1>5, <1>6 DEF Confere
  <1>7. ASSUME ~m2, q.pc = "gravar", NEW y \in Existentes(x, q.data)', y \notin p2
        PROVE  Passa(q, y)'
    BY <1>4, <1>5, <1>7 DEF Confere, Passa
  <1> QED BY <1>2, <1>3, <1>6, <1>7 DEF Confere

\* The requests after a step: each is elsewhere, or as it was, or has just read.
LEMMA ConferidosDepois ==
  ASSUME Tipos, ItensEmDias, ItensEmDias', itens' \subseteq Itens, NaoRenasce, Conferidos,
         \A r \in Requests :
           \/ req'[r] \notin PedidoDeMembro
           \/ /\ req'[r] = req[r] /\ (mudou[r] => mudou'[r]) /\ perdidos[r] \cup (itens' \ itens) \subseteq perdidos'[r]
              /\ ~mudou'[r] => Quieto
           \/ Confere(req[r], mudou[r], perdidos[r])' 
  PROVE  Conferidos'
  <1> SUFFICES ASSUME NEW r \in Requests, req'[r] \in PedidoDeMembro
               PROVE  Confere(req[r], mudou[r], perdidos[r])'
    BY DEF Conferidos
  <1>1. ASSUME req'[r] = req[r], mudou[r] => mudou'[r],
               perdidos[r] \cup (itens' \ itens) \subseteq perdidos'[r], ~mudou'[r] => Quieto
        PROVE  Confere(req[r], mudou[r], perdidos[r])'
    <2>1. Confere(req[r], mudou[r], perdidos[r]) /\ req[r] \in PedidoDeMembro
      BY <1>1 DEF Conferidos
    <2>2. ASSUME NEW q \in PedidoDeMembro, Confere(q, mudou[r], perdidos[r])
          PROVE  Confere(q, mudou[r], perdidos[r])'
      BY <1>1, <2>2, ConfereEstavel
    <2> QED BY <1>1, <2>1, <2>2
  <1> QED BY <1>1

\* A step that writes no assignment keeps the pairs in order.
LEMMA ParesDepois ==
  ASSUME Tipos, ItensEmDias, ItensEmDias', itens' \subseteq itens, Quieto, ParesEmOrdem,
         \A x, y \in itens' : {x, y} \in desculpados => {x, y} \in desculpados',
         \A x, y \in itens' : {x, y} \in confirmados => {x, y} \in confirmados'
  PROVE  ParesEmOrdem'
  <1> SUFFICES ASSUME NEW x \in itens', NEW y \in itens', Juntos(x, y)'
               PROVE  /\ Bloqueiam(AlocacaoDe(x), AlocacaoDe(y), matriz, doTenant)' => {x, y} \in desculpados'
                      /\ Avisam(AlocacaoDe(x), AlocacaoDe(y), matriz, doTenant)' =>
                           {x, y} \in desculpados' \cup confirmados'
    BY DEF ParesEmOrdem, BlockedPairIsExcused, WarnedPairWasConfirmed
  <1>1. x \in itens /\ y \in itens /\ x \in Itens /\ y \in Itens
    BY DEF Tipos, TypeOK
  <1>2. /\ dia[x[1]].estado = "existe" /\ dia'[x[1]].estado = "existe"
        /\ dia[y[1]].estado = "existe" /\ dia'[y[1]].estado = "existe"
    BY <1>1 DEF ItensEmDias, Existe
  <1>3. /\ AlocacaoDe(x)' = AlocacaoDe(x) /\ dia'[x[1]] = dia[x[1]]
        /\ AlocacaoDe(y)' = AlocacaoDe(y) /\ dia'[y[1]] = dia[y[1]]
    BY <1>1, <1>2, AlocacaoEstavel
  <1>4. Juntos(x, y) /\ matriz' = matriz /\ doTenant' = doTenant
    BY <1>3 DEF Juntos, NoMesmoDia, Quieto, config
  <1> QED BY <1>1, <1>3, <1>4 DEF ParesEmOrdem, BlockedPairIsExcused, WarnedPairWasConfirmed

\* A change of configuration excuses every pair, and every request.
LEMMA Mudanca ==
  ASSUME IInv, Tipos', Reconfigura, ItensEmDias', NaoRenasce, itens' = itens,
         \A r \in Requests : req'[r] \notin PedidoDeMembro \/ req'[r] = req[r]
  PROVE  IInv'
  <1>1. \A r \in Requests : mudou'[r] /\ perdidos'[r] = perdidos[r]
    BY DEF Reconfigura
  <1>2. Conferidos'
    BY <1>1, ConferidosDepois DEF IInv, Tipos, TypeOK
  <1>3. ParesEmOrdem'
    BY DEF Reconfigura, ParesEmOrdem, BlockedPairIsExcused, WarnedPairWasConfirmed
  <1> QED BY <1>2, <1>3 DEF IInv

\* A step that writes no table, where each request is elsewhere, or as it was,
\* or has just read.
LEMMA SemEscrita ==
  ASSUME IInv, Tipos', UNCHANGED <<banco, config, desculpados, confirmados>>,
         \A r \in Requests :
           \/ req'[r] \notin PedidoDeMembro
           \/ req'[r] = req[r] /\ (mudou[r] => mudou'[r]) /\ perdidos[r] \subseteq perdidos'[r]
           \/ Confere(req[r], mudou[r], perdidos[r])'
  PROVE  IInv'
  <1>1. Quieto /\ NaoRenasce /\ ItensEmDias'
    BY DEF banco, Quieto, NaoRenasce, IInv, ItensEmDias, Existe
  <1>2. itens' = itens
    BY DEF banco
  <1>3. Conferidos'
    BY <1>1, <1>2, ConferidosDepois DEF IInv, Tipos, TypeOK
  <1>4. ParesEmOrdem'
    BY <1>1, <1>2, ParesDepois DEF IInv
  <1> QED BY <1>1, <1>3, <1>4 DEF IInv

LEMMA OutroPasso ==
  ASSUME Tipos, NEW r \in Requests, NEW passo, passo \notin PedidoDeMembro, Segue(r, passo)
  PROVE  \A p \in Requests : req'[p] \notin PedidoDeMembro \/ req'[p] = req[p]
  BY DEF Segue, Tipos, TypeOK

LEMMA LivreNaoEDeMembro == Livre \notin PedidoDeMembro
  BY DEF Livre, PedidoDeMembro

\* A request that ends, or goes on to a step that assigns nobody.
LEMMA PassoAlheio ==
  ASSUME IInv, Tipos', NEW r \in Requests, NEW passo, passo \notin PedidoDeMembro, Segue(r, passo),
         UNCHANGED <<banco, config, historia>>
  PROVE  IInv'
  BY OutroPasso, SemEscrita DEF IInv, historia

\* A request that begins, and assigns nobody.
LEMMA InicioAlheio ==
  ASSUME IInv, Tipos', NEW r \in Requests, NEW passo, passo \notin PedidoDeMembro, Comeca(r, passo),
         UNCHANGED <<banco, config, desculpados, confirmados>>
  PROVE  IInv'
  <1>1. \A p \in Requests : p # r => req'[p] = req[p] /\ mudou'[p] = mudou[p] /\ perdidos'[p] = perdidos[p]
    BY DEF Comeca, Segue, IInv, Tipos, TypeOK
  <1>2. req'[r] = passo
    BY DEF Comeca, Segue, IInv, Tipos, TypeOK
  <1> QED BY <1>1, <1>2, SemEscrita

-----------------------------------------------------------------------------
LEMMA InvAddMembro ==
  ASSUME IInv, Tipos', NEW r \in Requests, NEW x \in Itens, NEW confirma \in Confirmacoes, addMembro(r, x, confirma)
  PROVE  IInv'
  <1> DEFINE passo == [pc |-> "funcao", item |-> x, confirma |-> confirma, data |-> dia[x[1]].data,
                       novo |-> [funcao |-> x[3], segmentos |-> {}, local |-> NoLocal, evento |-> EventoDe(x[1])],
                       existentes |-> {}]
  <1>1. req'[r] = passo
    BY DEF addMembro, Comeca, Segue, IInv, Tipos, TypeOK
  <1>2. \A p \in Requests : p # r => req'[p] = req[p] /\ mudou'[p] = mudou[p] /\ perdidos'[p] = perdidos[p]
    BY DEF addMembro, Comeca, Segue, IInv, Tipos, TypeOK
  <1>3. UNCHANGED <<banco, config, desculpados, confirmados>>
    BY DEF addMembro
  <1>4. dia' = dia /\ evento' = evento /\ dia[x[1]].estado = "existe"
    BY <1>3 DEF banco, addMembro, Existe
  <1>5. /\ req'[r].pc = "funcao" /\ req'[r].item = x /\ req'[r].data = dia[x[1]].data
        /\ req'[r].novo.funcao = x[3] /\ req'[r].novo.evento = EventoDe(x[1])
    BY <1>1
  <1>6. Confere(req[r], mudou[r], perdidos[r])'
    BY <1>4, <1>5 DEF Confere, EventoDe
  <1> QED BY <1>2, <1>3, <1>6, SemEscrita

\* A request that has just read, or ended.
LEMMA Leitura ==
  ASSUME IInv, Tipos', NEW r \in Requests, NEW passo, Segue(r, passo), UNCHANGED <<banco, config, historia>>,
         passo \notin PedidoDeMembro \/ Confere(passo, mudou[r], perdidos[r])
  PROVE  IInv'
  <1>1. req'[r] = passo /\ \A p \in Requests : p # r => req'[p] = req[p]
    BY DEF Segue, IInv, Tipos, TypeOK
  <1>2. UNCHANGED <<status, dia, evento, itens, segmentos, local, matriz, doTenant, mudou, perdidos, desculpados, confirmados>>
    BY DEF banco, config, historia
  <1>3. ASSUME NEW q, Confere(q, mudou[r], perdidos[r]) PROVE Confere(q, mudou[r], perdidos[r])'
    BY <1>2, <1>3 DEF Confere, Passa, Existe, EventoDe, Existentes, NoMesmoDia, AlocacaoDe
  <1>4. req'[r] \notin PedidoDeMembro \/ Confere(req[r], mudou[r], perdidos[r])'
    BY <1>1, <1>3
  <1> QED BY <1>1, <1>2, <1>4, SemEscrita DEF banco, config

LEMMA InvLerFuncao ==
  ASSUME IInv, Tipos', NEW r \in Requests, lerFuncao(r)
  PROVE  IInv'
  <1> DEFINE q == req[r]
             f == q.novo.funcao
             passo == [q EXCEPT !.pc = "itens", !.novo.segmentos = segmentos[f], !.novo.local = local[f]]
  <1>1. q \in PedidoDeMembro /\ q.pc = "funcao"
    BY PedidoPorPasso DEF lerFuncao, IInv, Tipos, TypeOK
  <1>2. Confere(q, mudou[r], perdidos[r])
    BY <1>1 DEF IInv, Conferidos
  <1>3. /\ passo.pc = "itens" /\ passo.item = q.item /\ passo.data = q.data
        /\ passo.novo.funcao = f /\ passo.novo.evento = q.novo.evento
        /\ passo.novo.segmentos = segmentos[f] /\ passo.novo.local = local[f]
    BY <1>1 DEF PedidoDeMembro, Alocacao
  <1> HIDE DEF passo
  <1>4. Confere(passo, mudou[r], perdidos[r])
    BY <1>1, <1>2, <1>3 DEF Confere
  <1>5. Segue(r, passo) \/ Segue(r, Livre)
    BY DEF lerFuncao, Termina, passo
  <1> QED BY <1>4, <1>5, Leitura, LivreNaoEDeMembro DEF lerFuncao

LEMMA InvLerItens ==
  ASSUME IInv, Tipos', NEW r \in Requests, lerItens(r)
  PROVE  IInv'
  <1> DEFINE q == req[r]
             E == {[item |-> y, aloc |-> AlocacaoDe(y)] : y \in Existentes(q.item, q.data)}
             passo == [q EXCEPT !.pc = IF E = {} THEN "gravar" ELSE "regras", !.existentes = E]
  <1>1. q \in PedidoDeMembro /\ q.pc = "itens"
    BY PedidoPorPasso DEF lerItens, IInv, Tipos, TypeOK
  <1>2. Confere(q, mudou[r], perdidos[r])
    BY <1>1 DEF IInv, Conferidos
  <1>3. /\ passo.pc = (IF E = {} THEN "gravar" ELSE "regras")
        /\ passo.item = q.item /\ passo.data = q.data /\ passo.novo = q.novo /\ passo.existentes = E
    BY <1>1 DEF PedidoDeMembro
  <1>4. \A y \in Existentes(q.item, q.data) : [item |-> y, aloc |-> AlocacaoDe(y)] \in E
    OBVIOUS
  <1>6. Segue(r, passo) /\ UNCHANGED <<banco, config, historia>>
    BY DEF lerItens
  <1> HIDE DEF passo, E
  <1>5. Confere(passo, mudou[r], perdidos[r])
    BY <1>1, <1>2, <1>3, <1>4 DEF Confere
  <1> QED BY <1>5, <1>6, Leitura

LEMMA InvValidar ==
  ASSUME IInv, Tipos', NEW r \in Requests, validar(r)
  PROVE  IInv'
  <1> DEFINE q == req[r]
             passo == [q EXCEPT !.pc = "gravar"]
             E == {y.aloc : y \in q.existentes}
  <1>1. q \in PedidoDeMembro /\ q.pc = "regras"
    BY PedidoPorPasso DEF validar, IInv, Tipos, TypeOK
  <1>2. Confere(q, mudou[r], perdidos[r])
    BY <1>1 DEF IInv, Conferidos
  <1>3. /\ passo.pc = "gravar" /\ passo.item = q.item /\ passo.data = q.data /\ passo.novo = q.novo
        /\ passo.confirma = q.confirma /\ passo.existentes = q.existentes
    BY <1>1 DEF PedidoDeMembro
  <1>4. ASSUME Aceita(q), NEW y, [item |-> y, aloc |-> AlocacaoDe(y)] \in q.existentes
        PROVE  Passa(q, y)
    <2>1. AlocacaoDe(y) \in E /\ y \in {e.item : e \in q.existentes}
      BY <1>4
    <2>2. \/ valido(q.novo, E, matriz, doTenant)
          \/ requerConfirmacao(q.novo, E, matriz, doTenant) /\ q.confirma
      BY <1>4 DEF Aceita
    <2> QED BY <2>1, <2>2 DEF Passa, valido, requerConfirmacao, Bloqueiam, Bloqueio, Avisam, Aviso
  <1>6. \/ Aceita(q) /\ Segue(r, passo)
        \/ Segue(r, Livre)
    BY DEF validar, Termina
  <1> HIDE DEF passo, E
  <1>5. Aceita(q) => Confere(passo, mudou[r], perdidos[r])
    BY <1>1, <1>2, <1>3, <1>4 DEF Confere, Passa
  <1> QED BY <1>5, <1>6, Leitura, LivreNaoEDeMembro DEF validar

\* The heart of the argument: what is written is blocked by no assignment but
\* one the request could not have seen, and warned of by none but those it
\* could not have seen or has confirmed.
LEMMA ParNovo ==
  ASSUME IInv, NEW r \in Requests, req[r] \in PedidoDeMembro, req[r].pc = "gravar", ~mudou[r],
         NEW x \in Itens, x = req[r].item, Existe(x[1]),
         NEW y \in itens, Juntos(x, y), y \notin perdidos[r]
  PROVE  /\ ~Bloqueiam(AlocacaoDe(x), AlocacaoDe(y), matriz, doTenant)
         /\ Avisam(AlocacaoDe(x), AlocacaoDe(y), matriz, doTenant) =>
              req[r].confirma /\ y \in {e.item : e \in req[r].existentes}
  <1> DEFINE q == req[r]
  <1>1. Confere(q, mudou[r], perdidos[r])
    BY DEF IInv, Conferidos
  <1>2. q.novo \in Alocacao
    BY DEF PedidoDeMembro
  <1>3. /\ q.data = dia[x[1]].data /\ q.novo.evento = EventoDe(x[1]) /\ q.novo.funcao = x[3]
        /\ q.novo.segmentos = segmentos[x[3]] /\ q.novo.local = local[x[3]]
    BY <1>1 DEF Confere
  <1>4. q.novo = AlocacaoDe(x)
    BY <1>2, <1>3 DEF Alocacao, AlocacaoDe
  <1>5. y \in Itens
    BY DEF IInv, Tipos, TypeOK
  <1>6. ~(y[1] = x[1] /\ y[3] = x[3])
    BY <1>5 DEF Juntos, Itens
  <1>7. y \in Existentes(x, q.data)
    BY <1>3, <1>6 DEF Existentes, Juntos, NoMesmoDia
  <1> QED BY <1>1, <1>4, <1>7 DEF Confere, Passa

LEMMA InvGravar ==
  ASSUME IInv, Tipos', NEW r \in Requests, gravar(r)
  PROVE  IInv'
  <1> DEFINE x == req[r].item
  <1>1. req[r] \in PedidoDeMembro /\ req[r].pc = "gravar"
    BY PedidoPorPasso DEF gravar, IInv, Tipos, TypeOK
  <1>2. x \in Itens /\ x[1] \in Dias
    BY <1>1 DEF PedidoDeMembro, Itens
  <1>3. Segue(r, Livre)
    BY DEF gravar, Termina
  <1>4. ASSUME ~Existe(x[1]) PROVE IInv'
    <2>1. UNCHANGED <<banco, config, historia>>
      BY <1>4 DEF gravar, banco, historia
    <2> QED BY <1>3, <2>1, PassoAlheio, LivreNaoEDeMembro
  <1>5. ASSUME Existe(x[1]) PROVE IInv'
    <2>1. /\ itens' = itens \cup {x}
          /\ perdidos' = [p \in Requests |-> IF p = r THEN perdidos[p] ELSE perdidos[p] \cup {x}]
          /\ desculpados' = desculpados \cup {{x, y} : y \in IF mudou[r] THEN itens ELSE perdidos[r]}
          /\ confirmados' = confirmados \cup {{x, y.item} : y \in IF req[r].confirma THEN req[r].existentes ELSE {}}
          /\ UNCHANGED <<dia, evento, config, mudou>>
      BY <1>5 DEF gravar
    <2>2. Quieto /\ NaoRenasce /\ ItensEmDias'
      BY <1>5, <2>1 DEF Quieto, NaoRenasce, IInv, ItensEmDias, Existe
    <2>3. itens' \subseteq Itens
      BY <1>2, <2>1 DEF IInv, Tipos, TypeOK
    <2>4. \A p \in Requests : req'[p] \notin PedidoDeMembro \/ (p # r /\ req'[p] = req[p])
      BY <1>3, LivreNaoEDeMembro DEF Segue, IInv, Tipos, TypeOK
    <2>5. \A p \in Requests : p # r => perdidos[p] \cup (itens' \ itens) \subseteq perdidos'[p]
      BY <2>1
    <2>6. Conferidos'
      BY <2>1, <2>2, <2>3, <2>4, <2>5, ConferidosDepois DEF IInv
    <2>7. ASSUME NEW y \in itens, Juntos(x, y)
          PROVE  /\ Bloqueiam(AlocacaoDe(x), AlocacaoDe(y), matriz, doTenant) => {x, y} \in desculpados'
                 /\ Avisam(AlocacaoDe(x), AlocacaoDe(y), matriz, doTenant) => {x, y} \in desculpados' \cup confirmados'
      <3>1. CASE mudou[r] \/ y \in perdidos[r]
        BY <2>1, <2>7, <3>1
      <3>2. CASE ~mudou[r] /\ y \notin perdidos[r]
        BY <1>1, <1>2, <1>5, <2>1, <2>7, <3>2, ParNovo
      <3> QED BY <3>1, <3>2
    <2>8. ASSUME NEW y \in itens', NEW z \in itens', Juntos(y, z)
          PROVE  /\ Bloqueiam(AlocacaoDe(y), AlocacaoDe(z), matriz, doTenant) => {y, z} \in desculpados'
                 /\ Avisam(AlocacaoDe(y), AlocacaoDe(z), matriz, doTenant) => {y, z} \in desculpados' \cup confirmados'
      <3>1. CASE y \in itens /\ z \in itens
        BY <2>1, <2>8, <3>1 DEF IInv, ParesEmOrdem, BlockedPairIsExcused, WarnedPairWasConfirmed
      <3>2. CASE y = x /\ z \in itens
        BY <2>7, <2>8, <3>2
      <3>3. CASE z = x /\ y \in itens
        <4>1. Juntos(x, y)
          BY <2>8, <3>3 DEF Juntos, NoMesmoDia
        <4>2. {y, z} = {x, y}
          BY <3>3
        <4> QED BY <2>7, <3>3, <4>1, <4>2, BloqueioSimetrico
      <3>4. ~(y = x /\ z = x)
        BY <2>8 DEF Juntos
      <3> QED BY <2>1, <3>1, <3>2, <3>3, <3>4
    <2>9. ASSUME NEW y, NEW z PROVE Juntos(y, z)' = Juntos(y, z)
      BY <2>1 DEF Juntos, NoMesmoDia
    <2>10. ASSUME NEW y PROVE AlocacaoDe(y)' = AlocacaoDe(y)
      BY <2>1 DEF AlocacaoDe, EventoDe, config
    <2>11. matriz' = matriz /\ doTenant' = doTenant
      BY <2>1 DEF config
    <2>12. ParesEmOrdem'
      BY <2>8, <2>9, <2>10, <2>11 DEF ParesEmOrdem, BlockedPairIsExcused, WarnedPairWasConfirmed
    <2> QED BY <2>2, <2>6, <2>12 DEF IInv
  <1> QED BY <1>4, <1>5

\* Assignments that go take their pairs with them.
LEMMA InvApaga ==
  ASSUME IInv, Tipos', NEW X, Apaga(X), Quieto, NaoRenasce, ItensEmDias', UNCHANGED <<mudou, perdidos>>,
         \A p \in Requests : req'[p] \notin PedidoDeMembro \/ req'[p] = req[p]
  PROVE  IInv'
  <1>1. itens' \subseteq itens /\ itens' \ itens = {} /\ itens' \subseteq Itens
    BY DEF Apaga, IInv, Tipos, TypeOK
  <1>2. \A x, y \in itens' : /\ {x, y} \in desculpados => {x, y} \in desculpados'
                             /\ {x, y} \in confirmados => {x, y} \in confirmados'
    BY DEF Apaga
  <1>3. Conferidos'
    BY <1>1, ConferidosDepois DEF IInv
  <1>4. ParesEmOrdem'
    BY <1>1, <1>2, ParesDepois DEF IInv
  <1> QED BY <1>3, <1>4 DEF IInv

LEMMA PedidosSemItens ==
  ASSUME NEW rs \in [Requests -> Pedido], NEW X, req' = SemItens(rs, X),
         \A p \in Requests : rs[p] = Livre \/ rs[p] = req[p]
  PROVE  \A p \in Requests : req'[p] \notin PedidoDeMembro \/ req'[p] = req[p]
  BY LivreNaoEDeMembro DEF SemItens

LEMMA InvApagarItem ==
  ASSUME IInv, Tipos', NEW r \in Requests, apagarItem(r)
  PROVE  IInv'
  <1> DEFINE rs == [req EXCEPT ![r] = Livre]
             X == {req[r].item}
  <1>1. rs \in [Requests -> Pedido] /\ \A p \in Requests : rs[p] = Livre \/ rs[p] = req[p]
    BY LivreEPedido DEF IInv, Tipos, TypeOK
  <1>2. Apaga(X) /\ req' = SemItens(rs, X) /\ UNCHANGED <<dia, evento, config, mudou, perdidos>>
    BY DEF apagarItem
  <1>3. Quieto /\ NaoRenasce /\ ItensEmDias'
    BY <1>2 DEF Apaga, Quieto, NaoRenasce, IInv, ItensEmDias, Existe
  <1> HIDE DEF rs, X
  <1>4. \A p \in Requests : req'[p] \notin PedidoDeMembro \/ req'[p] = req[p]
    BY <1>1, <1>2, PedidosSemItens
  <1> QED BY <1>2, <1>3, <1>4, InvApaga

LEMMA InvApagaDias ==
  ASSUME IInv, Tipos', NEW D \in SUBSET Dias, NEW rs \in [Requests -> Pedido], ApagaDias(D, rs),
         \A p \in Requests : rs[p] = Livre \/ rs[p] = req[p],
         UNCHANGED <<evento, config, mudou, perdidos>>
  PROVE  IInv'
  <1> DEFINE X == {x \in itens : x[1] \in D}
  <1>1. Apaga(X) /\ req' = SemItens(rs, X)
    BY DEF ApagaDias
  <1>2. \A d \in Dias : dia'[d] = IF d \in D THEN [dia[d] EXCEPT !.estado = "removido", !.evento = NoEvento] ELSE dia[d]
    BY DEF ApagaDias
  <1>3. \A d \in Dias : IF d \in D THEN dia'[d].estado = "removido" ELSE dia'[d] = dia[d]
    <2> TAKE d \in Dias
    <2>1. dia[d] \in Dia
      BY DEF IInv, Tipos, TypeOK
    <2> QED BY <1>2, <2>1 DEF Dia
  <1>4. Quieto /\ NaoRenasce
    BY <1>3 DEF Quieto, NaoRenasce
  <1>5. \A x \in itens' : x \in itens /\ x[1] \in Dias \ D
    BY <1>1 DEF Apaga, IInv, Tipos, TypeOK, Itens
  <1>6. ItensEmDias'
    BY <1>3, <1>5 DEF IInv, ItensEmDias, Existe
  <1>7. \A p \in Requests : req'[p] \notin PedidoDeMembro \/ req'[p] = req[p]
    BY <1>1, PedidosSemItens
  <1> QED BY <1>1, <1>4, <1>6, <1>7, InvApaga

LEMMA InvApagarDia ==
  ASSUME IInv, Tipos', NEW r \in Requests, apagarDia(r)
  PROVE  IInv'
  <1> DEFINE rs == [req EXCEPT ![r] = Livre]
  <1>1. rs \in [Requests -> Pedido] /\ \A p \in Requests : rs[p] = Livre \/ rs[p] = req[p]
    BY LivreEPedido DEF IInv, Tipos, TypeOK
  <1>2. ASSUME Existe(req[r].dia) PROVE IInv'
    <2>1. req[r] \in PedidoDeRemocao /\ req[r].pc = "apagarDia"
      BY PedidoPorPasso DEF apagarDia, IInv, Tipos, TypeOK
    <2>2. {req[r].dia} \in SUBSET Dias
      BY <2>1 DEF PedidoDeRemocao
    <2>3. ApagaDias({req[r].dia}, rs)
      BY <1>2 DEF apagarDia
    <2> HIDE DEF rs
    <2> QED BY <1>1, <2>2, <2>3, InvApagaDias DEF apagarDia
  <1>3. ASSUME ~Existe(req[r].dia) PROVE IInv'
    <2>1. Segue(r, Livre) /\ UNCHANGED <<banco, config, historia>>
      BY <1>3 DEF apagarDia, Termina, banco, historia
    <2> QED BY <2>1, PassoAlheio, LivreNaoEDeMembro
  <1> QED BY <1>2, <1>3

LEMMA InvRemove ==
  ASSUME IInv, Tipos', NEW e \in Escalas, remove(e)
  PROVE  IInv'
  <1> DEFINE D == {d \in Dias : Do(d) = e /\ Existe(d)}
  <1>1. ApagaDias(D, req) /\ D \in SUBSET Dias /\ req \in [Requests -> Pedido]
    BY DEF remove, IInv, Tipos, TypeOK
  <1> HIDE DEF D
  <1> QED BY <1>1, InvApagaDias DEF remove

\* A new day takes the place of none.
LEMMA InvCriarDia ==
  ASSUME IInv, Tipos', NEW r \in Requests, criarDia(r)
  PROVE  IInv'
  <1> DEFINE e == req[r].escala
             v == req[r].evento
             Pode == /\ status[e] # "REMOVIDA"
                     /\ v # NoEvento => evento[v] # Removido /\ ~Vinculado(e, v, Dias)
  <1>1. Segue(r, Livre)
    BY DEF criarDia, Termina
  <1>2. ASSUME Pode PROVE IInv'
    <2>1. PICK d \in Dias :
             /\ dia[d].estado = "livre"
             /\ dia' = [dia EXCEPT ![d] = [estado |-> "existe", data |-> req[r].data, evento |-> v]]
             /\ mudou' = [q \in Requests |-> mudou[q] \/ req[q].pc = "gravarEvento"]
      BY <1>2 DEF criarDia
    <2>2. UNCHANGED <<evento, itens, config, perdidos, desculpados, confirmados>>
      BY DEF criarDia
    <2>3. Quieto /\ NaoRenasce
      BY <2>1, <2>2 DEF Quieto, NaoRenasce, IInv, Tipos, TypeOK
    <2>4. ItensEmDias'
      BY <2>1, <2>2 DEF IInv, ItensEmDias, Existe, Tipos, TypeOK, Itens
    <2>5. \A p \in Requests : mudou[p] => mudou'[p]
      BY <2>1
    <2>6. \A p \in Requests : req'[p] \notin PedidoDeMembro \/ req'[p] = req[p]
      BY <1>1, OutroPasso, LivreNaoEDeMembro DEF IInv
    <2>7. itens' \subseteq Itens /\ itens' \subseteq itens
      BY <2>2 DEF IInv, Tipos, TypeOK
    <2>8. Conferidos'
      BY <2>2, <2>3, <2>4, <2>5, <2>6, <2>7, ConferidosDepois DEF IInv
    <2>9. ParesEmOrdem'
      BY <2>2, <2>3, <2>4, <2>7, ParesDepois DEF IInv
    <2> QED BY <2>4, <2>8, <2>9 DEF IInv
  <1>3. ASSUME ~Pode PROVE IInv'
    <2>1. UNCHANGED <<banco, config, historia>>
      BY <1>3 DEF criarDia, banco, historia
    <2> QED BY <1>1, <2>1, PassoAlheio, LivreNaoEDeMembro
  <1> QED BY <1>2, <1>3

LEMMA InvGravarStatus ==
  ASSUME IInv, Tipos', NEW r \in Requests, gravarStatus(r)
  PROVE  IInv'
  <1>1. Quieto /\ NaoRenasce /\ ItensEmDias' /\ itens' = itens
    BY DEF gravarStatus, Quieto, NaoRenasce, IInv, ItensEmDias, Existe
  <1>2. UNCHANGED <<mudou, perdidos, desculpados, confirmados>>
    BY DEF gravarStatus
  <1>3. \A p \in Requests : req'[p] \notin PedidoDeMembro \/ req'[p] = req[p]
    BY OutroPasso, LivreNaoEDeMembro DEF gravarStatus, Termina, IInv
  <1>4. Conferidos'
    BY <1>1, <1>2, <1>3, ConferidosDepois DEF IInv, Tipos, TypeOK
  <1>5. ParesEmOrdem'
    BY <1>1, <1>2, ParesDepois DEF IInv
  <1> QED BY <1>1, <1>4, <1>5 DEF IInv

\* A change that leaves every day where it is.
LEMMA MudancaDeDias ==
  ASSUME IInv, Tipos', Reconfigura, itens' = itens, \A d \in Dias : dia'[d].estado = dia[d].estado,
         \A p \in Requests : req'[p] \notin PedidoDeMembro \/ req'[p] = req[p]
  PROVE  IInv'
  <1>1. NaoRenasce
    BY DEF NaoRenasce
  <1>2. ItensEmDias'
    BY DEF IInv, ItensEmDias, Existe, Tipos, TypeOK, Itens
  <1> QED BY <1>1, <1>2, Mudanca

LEMMA InvGravarVinculo ==
  ASSUME IInv, Tipos', NEW r \in Requests, gravarVinculo(r)
  PROVE  IInv'
  <1> DEFINE q == req[r]
             Pode == /\ Existe(q.dia)
                     /\ q.evento # NoEvento => /\ evento[q.evento] # Removido
                                               /\ ~Vinculado(Do(q.dia), q.evento, Dias \ {q.dia})
  <1>1. Segue(r, Livre)
    BY DEF gravarVinculo, Termina
  <1>2. ASSUME Pode PROVE IInv'
    <2>1. /\ dia' = [dia EXCEPT ![q.dia].evento = q.evento,
                                ![q.dia].data = IF q.evento = NoEvento THEN @ ELSE q.data]
          /\ Reconfigura
      BY <1>2 DEF gravarVinculo
    <2>2. itens' = itens
      BY DEF gravarVinculo
    <2>3. q \in PedidoDeVinculo
      BY PedidoPorPasso DEF gravarVinculo, IInv, Tipos, TypeOK
    <2>4. q.dia \in Dias
      BY <2>3 DEF PedidoDeVinculo
    <2>5. dia[q.dia] \in Dia
      BY <2>4 DEF IInv, Tipos, TypeOK
    <2>6. \A d \in Dias : dia'[d].estado = dia[d].estado
      BY <2>1, <2>4, <2>5 DEF Dia, IInv, Tipos, TypeOK
    <2>7. \A p \in Requests : req'[p] \notin PedidoDeMembro \/ req'[p] = req[p]
      BY <1>1, OutroPasso, LivreNaoEDeMembro DEF IInv
    <2> QED BY <2>1, <2>2, <2>6, <2>7, MudancaDeDias
  <1>3. ASSUME ~Pode PROVE IInv'
    <2>1. UNCHANGED <<banco, config, historia>>
      BY <1>3 DEF gravarVinculo, banco, historia
    <2> QED BY <1>1, <2>1, PassoAlheio, LivreNaoEDeMembro
  <1> QED BY <1>2, <1>3

LEMMA InvGravarEvento ==
  ASSUME IInv, Tipos', NEW r \in Requests, gravarEvento(r)
  PROVE  IInv'
  <1> DEFINE q == req[r]
  <1>1. Segue(r, Livre)
    BY DEF gravarEvento, Termina
  <1>2. ASSUME evento[q.evento] # Removido PROVE IInv'
    <2>1. /\ dia' = [d \in Dias |-> IF d \in q.dias /\ Existe(d) THEN [dia[d] EXCEPT !.data = q.inicio] ELSE dia[d]]
          /\ Reconfigura
      BY <1>2 DEF gravarEvento
    <2>2. itens' = itens
      BY DEF gravarEvento
    <2>3. \A d \in Dias : dia'[d].estado = dia[d].estado
      <3> TAKE d \in Dias
      <3>1. dia[d] \in Dia
        BY DEF IInv, Tipos, TypeOK
      <3> QED BY <2>1, <3>1 DEF Dia
    <2>4. \A p \in Requests : req'[p] \notin PedidoDeMembro \/ req'[p] = req[p]
      BY <1>1, OutroPasso, LivreNaoEDeMembro DEF IInv
    <2> QED BY <2>1, <2>2, <2>3, <2>4, MudancaDeDias
  <1>3. ASSUME evento[q.evento] = Removido PROVE IInv'
    <2>1. UNCHANGED <<banco, config, historia>>
      BY <1>3 DEF gravarEvento, banco, historia
    <2> QED BY <1>1, <2>1, PassoAlheio, LivreNaoEDeMembro
  <1> QED BY <1>2, <1>3

LEMMA InvRemoveEvento ==
  ASSUME IInv, Tipos', NEW v \in Eventos, removeEvento(v)
  PROVE  IInv'
  <1>1. \A d \in Dias : dia'[d].estado = dia[d].estado
    <2> TAKE d \in Dias
    <2>1. dia[d] \in Dia
      BY DEF IInv, Tipos, TypeOK
    <2> QED BY <2>1 DEF Dia, removeEvento, SemVinculo
  <1>2. Reconfigura /\ itens' = itens /\ req' = req
    BY DEF removeEvento
  <1> QED BY <1>1, <1>2, MudancaDeDias

LEMMA InvConfiguration ==
  ASSUME IInv, Tipos', Configuration
  PROVE  IInv'
  <1>1. Reconfigura /\ UNCHANGED <<banco, req>>
    BY DEF Configuration, upsertCompatibilidade, updateFuncaoConfiguracao, deleteSegmento
  <1> QED BY <1>1, MudancaDeDias DEF banco

-----------------------------------------------------------------------------
\* Requests that begin, read or end, and assign nobody.
LEMMA InvInicios ==
  ASSUME IInv, Tipos', NEW r \in Requests,
         \/ \E x \in itens : removeMembro(r, x)
         \/ \E d \in Dias : removeDia(r, d)
         \/ \E e \in Escalas, v \in Eventos \cup {NoEvento}, t \in Instantes : addDia(r, e, v, t)
         \/ \E d \in Dias, v \in Eventos \cup {NoEvento} : updateDiaEvento(r, d, v)
         \/ \E e \in Escalas, s \in Status : update(r, e, s)
         \/ \E v \in Eventos, i, f \in Instantes \cup {NoFim} : updateEvento(r, v, i, f)
  PROVE  IInv'
  <1>1. \E passo : passo \notin PedidoDeMembro /\ Comeca(r, passo) /\ UNCHANGED <<banco, config, desculpados, confirmados>>
    BY DEF removeMembro, removeDia, addDia, updateDiaEvento, update, updateEvento, PedidoDeMembro
  <1> QED BY <1>1, InicioAlheio

LEMMA InvPassos ==
  ASSUME IInv, Tipos', NEW r \in Requests, elegivelNovo(r) \/ elegivel(r) \/ recusar(r)
  PROVE  IInv'
  <1>1. ASSUME recusar(r) PROVE IInv'
    BY <1>1, PassoAlheio, LivreNaoEDeMembro DEF recusar, Termina
  <1>2. ASSUME elegivelNovo(r) PROVE IInv'
    <2> DEFINE passo == [req[r] EXCEPT !.pc = "criarDia", !.data = evento[req[r].evento].inicio]
    <2>1. req[r] \in PedidoDeDia
      BY <1>2, PedidoPorPasso DEF elegivelNovo, IInv, Tipos, TypeOK
    <2>2. passo \notin PedidoDeMembro
      BY <2>1 DEF PedidoDeDia, PedidoDeMembro
    <2> QED BY <1>2, <2>2, PassoAlheio, LivreNaoEDeMembro DEF elegivelNovo, Termina
  <1>3. ASSUME elegivel(r) PROVE IInv'
    <2> DEFINE passo == [req[r] EXCEPT !.pc = "gravarVinculo", !.data = evento[req[r].evento].inicio]
    <2>1. req[r] \in PedidoDeVinculo
      BY <1>3, PedidoPorPasso DEF elegivel, IInv, Tipos, TypeOK
    <2>2. passo \notin PedidoDeMembro
      BY <2>1 DEF PedidoDeVinculo, PedidoDeMembro
    <2> QED BY <1>3, <2>2, PassoAlheio, LivreNaoEDeMembro DEF elegivel, Termina
  <1> QED BY <1>1, <1>2, <1>3

LEMMA InvNoInicio == Init => IInv
  <1> SUFFICES ASSUME Init PROVE IInv
    OBVIOUS
  <1>1. \A r \in Requests : req[r] \notin PedidoDeMembro
    BY LivreNaoEDeMembro DEF Init
  <1>2. ItensEmDias /\ ParesEmOrdem
    BY DEF Init, ItensEmDias, ParesEmOrdem, BlockedPairIsExcused, WarnedPairWasConfirmed
  <1> QED BY <1>1, <1>2, TiposNoInicio DEF IInv, Conferidos

LEMMA InvEmCadaPasso == IInv /\ [Next]_vars => IInv'
  <1> SUFFICES ASSUME IInv, [Next]_vars PROVE IInv'
    OBVIOUS
  <1>0. Tipos'
    BY TiposEmCadaPasso DEF IInv
  <1>1. ASSUME NEW r \in Requests, Assignment(r) PROVE IInv'
    BY <1>0, <1>1, InvAddMembro, InvLerFuncao, InvLerItens, InvValidar, InvGravar, InvInicios, InvApagarItem,
       InvPassos DEF Assignment
  <1>2. ASSUME NEW r \in Requests, Day(r) PROVE IInv'
    BY <1>0, <1>2, InvInicios, InvApagarDia, InvPassos, InvCriarDia, InvGravarVinculo DEF Day
  <1>3. ASSUME NEW r \in Requests, Lifecycle(r) PROVE IInv'
    BY <1>0, <1>3, InvInicios, InvGravarStatus, InvRemove DEF Lifecycle
  <1>4. ASSUME NEW r \in Requests, Agenda(r) PROVE IInv'
    BY <1>0, <1>4, InvInicios, InvGravarEvento, InvRemoveEvento DEF Agenda
  <1>5. ASSUME UNCHANGED vars PROVE IInv'
    <2>1. UNCHANGED <<banco, config, desculpados, confirmados, req, mudou, perdidos>>
      BY <1>5 DEF vars, historia
    <2> QED BY <1>0, <2>1, SemEscrita
  <1> QED BY <1>0, <1>1, <1>2, <1>3, <1>4, <1>5, InvConfiguration DEF Next

\* However the requests interleave, a member holds two assignments of one civil
\* day that the engine blocks only if the two were written by overlapping
\* requests or the configuration changed meanwhile (escalas.service.ts,
\* addMembro).
THEOREM BlockedPairsAreExcused == Spec => []BlockedPairIsExcused
  <1>1. IInv => BlockedPairIsExcused
    BY DEF IInv, ParesEmOrdem
  <1> QED BY <1>1, InvNoInicio, InvEmCadaPasso, PTL DEF Spec

\* Likewise, two that the engine warns of were confirmed by somebody, whichever
\* of the two came first (addMembro with confirmarAvisos).
THEOREM WarnedPairsWereConfirmed == Spec => []WarnedPairWasConfirmed
  <1>1. IInv => WarnedPairWasConfirmed
    BY DEF IInv, ParesEmOrdem
  <1> QED BY <1>1, InvNoInicio, InvEmCadaPasso, PTL DEF Spec

-----------------------------------------------------------------------------
\* What a request that links or moves days has read is still so, unless the
\* agenda or the links changed since (m).
DataLida(q, m) ==
    ~m =>
      /\ q.pc \in {"criarDia", "gravarVinculo"} /\ q.evento # NoEvento => q.data = evento[q.evento].inicio
      /\ q.pc = "gravarEvento" /\ q.inicio # NoFim =>
           \A d \in Dias : Existe(d) => (d \in q.dias <=> dia[d].evento = q.evento)

DatasLidas == \A r \in Requests : DataLida(req[r], mudou[r])

VinculosInv == Tipos /\ DatasLidas /\ LinkedDayFollowsEvent

\* A step that leaves the events alone, and of the days takes some away.
Encolhe ==
    /\ evento' = evento
    /\ \A d \in Dias : dia'[d].estado = "existe" => dia'[d] = dia[d]

LEMMA DataEstavel ==
  ASSUME Encolhe, NEW q, NEW m, NEW m2, DataLida(q, m), m => m2
  PROVE  DataLida(q, m2)'
  BY DEF DataLida, Encolhe, Existe

LEMMA VinculosDepois ==
  ASSUME VinculosInv, Tipos', Encolhe, atrasados \subseteq atrasados',
         \A r \in Requests : \/ req'[r] = Livre
                             \/ req'[r] = req[r] /\ (mudou[r] => mudou'[r])
                             \/ DataLida(req[r], mudou[r])'
  PROVE  VinculosInv'
  <1>1. LinkedDayFollowsEvent'
    BY DEF VinculosInv, LinkedDayFollowsEvent, Encolhe, Existe
  <1>2. ASSUME NEW r \in Requests PROVE DataLida(req[r], mudou[r])'
    <2>1. CASE req'[r] = Livre
      BY <2>1 DEF DataLida, Livre
    <2>2. CASE req'[r] = req[r] /\ (mudou[r] => mudou'[r])
      <3>1. DataLida(req[r], mudou[r])
        BY DEF VinculosInv, DatasLidas
      <3>2. ASSUME NEW q, DataLida(q, mudou[r]) PROVE DataLida(q, mudou[r])'
        BY <2>2, <3>2, DataEstavel
      <3> QED BY <2>2, <3>1, <3>2
    <2>3. CASE DataLida(req[r], mudou[r])'
      BY <2>3
    <2> QED BY <2>1, <2>2, <2>3
  <1> QED BY <1>1, <1>2 DEF VinculosInv, DatasLidas

\* A change of configuration, of the agenda or of the links: no request goes by
\* what it has read.
LEMMA VinculosDaMudanca ==
  ASSUME VinculosInv, Tipos', Reconfigura, LinkedDayFollowsEvent'
  PROVE  VinculosInv'
  BY DEF VinculosInv, DatasLidas, DataLida, Reconfigura

\* A request that begins with the links it sees.
LEMMA VinculosDoInicio ==
  ASSUME VinculosInv, Tipos', NEW r \in Requests, NEW passo, Comeca(r, passo), DataLida(passo, FALSE),
         UNCHANGED <<dia, evento, atrasados>>
  PROVE  VinculosInv'
  <1>1. \A p \in Requests : p # r => req'[p] = req[p] /\ mudou'[p] = mudou[p]
    BY DEF Comeca, Segue, VinculosInv, Tipos, TypeOK
  <1>2. req'[r] = passo /\ mudou'[r] = FALSE
    BY DEF Comeca, Segue, VinculosInv, Tipos, TypeOK
  <1>3. Encolhe
    BY DEF Encolhe
  <1>4. ASSUME NEW q, DataLida(q, FALSE) PROVE DataLida(q, FALSE)'
    BY <1>3, <1>4, DataEstavel
  <1>5. DataLida(req[r], mudou[r])'
    <2>1. DataLida(passo, FALSE)'
      BY <1>4
    <2> QED BY <1>2, <2>1 DEF DataLida
  <1> QED BY <1>1, <1>3, <1>5, VinculosDepois

\* A request that has just read, or ended.
LEMMA VinculosDoPasso ==
  ASSUME VinculosInv, Tipos', NEW r \in Requests, NEW passo, Segue(r, passo), UNCHANGED mudou,
         passo = Livre \/ DataLida(passo, mudou[r]), Encolhe, atrasados \subseteq atrasados'
  PROVE  VinculosInv'
  <1>1. req'[r] = passo /\ \A p \in Requests : p # r => req'[p] = req[p]
    BY DEF Segue, VinculosInv, Tipos, TypeOK
  <1>2. ASSUME NEW q, DataLida(q, mudou[r]) PROVE DataLida(q, mudou[r])'
    BY <1>2, DataEstavel
  <1>3. passo = Livre \/ DataLida(req[r], mudou[r])'
    BY <1>1, <1>2
  <1> QED BY <1>1, <1>3, VinculosDepois

LEMMA VinculosCriarDia ==
  ASSUME VinculosInv, Tipos', NEW r \in Requests, criarDia(r)
  PROVE  VinculosInv'
  <1> DEFINE e == req[r].escala
             v == req[r].evento
             Pode == /\ status[e] # "REMOVIDA"
                     /\ v # NoEvento => evento[v] # Removido /\ ~Vinculado(e, v, Dias)
  <1>1. Segue(r, Livre) /\ evento' = evento
    BY DEF criarDia, Termina
  <1>2. ASSUME Pode PROVE VinculosInv'
    <2>1. PICK d \in Dias :
             /\ dia[d].estado = "livre"
             /\ dia' = [dia EXCEPT ![d] = [estado |-> "existe", data |-> req[r].data, evento |-> v]]
             /\ atrasados' = IF mudou[r] THEN atrasados \cup {d} ELSE atrasados
             /\ mudou' = [q \in Requests |-> mudou[q] \/ req[q].pc = "gravarEvento"]
      BY <1>2 DEF criarDia
    <2>2. /\ dia'[d].data = req[r].data /\ dia'[d].evento = v
          /\ \A c \in Dias : c # d => dia'[c] = dia[c]
      BY <2>1 DEF VinculosInv, Tipos, TypeOK
    <2>3. LinkedDayFollowsEvent'
      <3>1. DataLida(req[r], mudou[r]) /\ req[r].pc = "criarDia"
        BY DEF VinculosInv, DatasLidas, criarDia
      <3> QED BY <1>1, <2>1, <2>2, <3>1 DEF VinculosInv, LinkedDayFollowsEvent, Existe, DataLida
    <2>4. ASSUME NEW p \in Requests PROVE DataLida(req[p], mudou[p])'
      <3>1. CASE p = r
        BY <1>1, <3>1 DEF Segue, Livre, DataLida, VinculosInv, Tipos, TypeOK
      <3>2. CASE p # r
        <4>1. req'[p] = req[p] /\ DataLida(req[p], mudou[p])
          BY <1>1, <3>2 DEF Segue, VinculosInv, DatasLidas, Tipos, TypeOK
        <4>2. mudou'[p] = (mudou[p] \/ req[p].pc = "gravarEvento")
          BY <2>1
        <4> QED BY <1>1, <4>1, <4>2 DEF DataLida
      <3> QED BY <3>1, <3>2
    <2> QED BY <2>3, <2>4 DEF VinculosInv, DatasLidas
  <1>3. ASSUME ~Pode PROVE VinculosInv'
    BY <1>1, <1>3, VinculosDoPasso DEF criarDia, Encolhe
  <1> QED BY <1>2, <1>3

LEMMA VinculosGravarVinculo ==
  ASSUME VinculosInv, Tipos', NEW r \in Requests, gravarVinculo(r)
  PROVE  VinculosInv'
  <1> DEFINE q == req[r]
             Pode == /\ Existe(q.dia)
                     /\ q.evento # NoEvento => /\ evento[q.evento] # Removido
                                               /\ ~Vinculado(Do(q.dia), q.evento, Dias \ {q.dia})
  <1>1. Segue(r, Livre) /\ evento' = evento
    BY DEF gravarVinculo, Termina
  <1>2. ASSUME Pode PROVE VinculosInv'
    <2>1. /\ dia' = [dia EXCEPT ![q.dia].evento = q.evento,
                                ![q.dia].data = IF q.evento = NoEvento THEN @ ELSE q.data]
          /\ atrasados' = IF mudou[r] THEN atrasados \cup {q.dia} ELSE atrasados
          /\ Reconfigura
      BY <1>2 DEF gravarVinculo
    <2>2. q \in PedidoDeVinculo /\ q.pc = "gravarVinculo"
      BY PedidoPorPasso DEF gravarVinculo, VinculosInv, Tipos, TypeOK
    <2>3. q.dia \in Dias
      BY <2>2 DEF PedidoDeVinculo
    <2>4. /\ dia'[q.dia].evento = q.evento
          /\ q.evento # NoEvento => dia'[q.dia].data = q.data
          /\ \A c \in Dias : c # q.dia => dia'[c] = dia[c]
      BY <2>1, <2>3 DEF VinculosInv, Tipos, TypeOK, Dia
    <2>5. DataLida(q, mudou[r])
      BY DEF VinculosInv, DatasLidas
    <2>6. ASSUME NEW d \in Dias \ atrasados', Existe(d)', dia'[d].evento # NoEvento
          PROVE  dia'[d].data = evento'[dia'[d].evento].inicio
      <3>1. CASE d = q.dia
        <4>1. ~mudou[r]
          BY <2>1, <2>6, <3>1
        <4>2. q.data = evento[q.evento].inicio
          BY <2>2, <2>4, <2>5, <2>6, <3>1, <4>1 DEF DataLida
        <4> QED BY <1>1, <2>4, <2>6, <3>1, <4>2
      <3>2. CASE d # q.dia
        <4>1. dia'[d] = dia[d] /\ d \notin atrasados
          BY <2>1, <2>4, <2>6, <3>2
        <4>2. Existe(d) /\ dia[d].evento # NoEvento
          BY <2>6, <4>1 DEF Existe
        <4> QED BY <1>1, <4>1, <4>2 DEF VinculosInv, LinkedDayFollowsEvent
      <3> QED BY <3>1, <3>2
    <2>7. LinkedDayFollowsEvent'
      BY <2>6 DEF LinkedDayFollowsEvent
    <2> QED BY <2>1, <2>7, VinculosDaMudanca
  <1>3. ASSUME ~Pode PROVE VinculosInv'
    BY <1>1, <1>3, VinculosDoPasso DEF gravarVinculo, historia, Encolhe
  <1> QED BY <1>2, <1>3

LEMMA VinculosGravarEvento ==
  ASSUME VinculosInv, Tipos', NEW r \in Requests, gravarEvento(r)
  PROVE  VinculosInv'
  <1> DEFINE q == req[r]
             v == q.evento
  <1>1. Segue(r, Livre)
    BY DEF gravarEvento, Termina
  <1>2. q.pc = "gravarEvento" /\ v \in Eventos /\ (q.dias # {} => q.inicio # NoFim)
    <2>1. q \in Pedido /\ q.pc = "gravarEvento"
      BY DEF gravarEvento, VinculosInv, Tipos, TypeOK
    <2>2. q \in PedidoDeEvento
      BY <2>1, PedidoPorPasso
    <2> QED BY <2>1, <2>2, ConflictsAssumption DEF PedidoDeEvento
  <1>3. ASSUME evento[v] # Removido PROVE VinculosInv'
    <2>1. /\ dia' = [d \in Dias |-> IF d \in q.dias /\ Existe(d) THEN [dia[d] EXCEPT !.data = q.inicio] ELSE dia[d]]
          /\ evento' = [evento EXCEPT ![v].inicio = IF q.inicio = NoFim THEN @ ELSE q.inicio,
                                      ![v].fim = IF q.fim = NoFim THEN @ ELSE q.fim]
          /\ atrasados' = IF mudou[r] THEN atrasados \cup q.dias \cup {d \in Dias : dia[d].evento = v} ELSE atrasados
          /\ Reconfigura
      BY <1>3 DEF gravarEvento
    <2>2. /\ evento'[v].inicio = IF q.inicio = NoFim THEN evento[v].inicio ELSE q.inicio
          /\ \A w \in Eventos : w # v => evento'[w] = evento[w]
      BY <1>2, <1>3, <2>1 DEF VinculosInv, Tipos, TypeOK, Horario
    <2>3. \A d \in Dias : /\ dia'[d].estado = dia[d].estado /\ dia'[d].evento = dia[d].evento
                          /\ dia'[d].data = IF d \in q.dias /\ Existe(d) THEN q.inicio ELSE dia[d].data
                          /\ dia[d].evento \in Eventos \cup {NoEvento}
      <3> TAKE d \in Dias
      <3>1. dia[d] \in Dia
        BY DEF VinculosInv, Tipos, TypeOK
      <3> QED BY <2>1, <3>1 DEF Dia
    <2>4. DataLida(q, mudou[r])
      BY DEF VinculosInv, DatasLidas
    <2>5. ASSUME NEW d \in Dias \ atrasados', Existe(d)', dia'[d].evento # NoEvento
          PROVE  dia'[d].data = evento'[dia'[d].evento].inicio
      <3>1. d \notin atrasados /\ Existe(d) /\ dia[d].evento # NoEvento /\ dia[d].evento \in Eventos
        BY <2>1, <2>3, <2>5 DEF Existe
      <3>2. dia[d].data = evento[dia[d].evento].inicio
        BY <3>1 DEF VinculosInv, LinkedDayFollowsEvent
      <3>3. CASE mudou[r]
        <4>1. d \notin q.dias /\ dia[d].evento # v
          BY <2>1, <2>5, <3>3
        <4> QED BY <2>2, <2>3, <3>1, <3>2, <4>1
      <3>4. CASE ~mudou[r] /\ q.inicio # NoFim
        BY <1>2, <2>2, <2>3, <2>4, <3>1, <3>2, <3>4 DEF DataLida
      <3>5. CASE ~mudou[r] /\ q.inicio = NoFim
        BY <1>2, <2>2, <2>3, <3>1, <3>2, <3>5
      <3> QED BY <3>3, <3>4, <3>5, <2>1 DEF VinculosInv, Tipos, TypeOK
    <2>6. LinkedDayFollowsEvent'
      BY <2>5 DEF LinkedDayFollowsEvent
    <2> QED BY <2>1, <2>6, VinculosDaMudanca
  <1>4. ASSUME evento[v] = Removido PROVE VinculosInv'
    BY <1>1, <1>4, VinculosDoPasso DEF gravarEvento, historia, Encolhe
  <1> QED BY <1>3, <1>4

LEMMA VinculosRemoveEvento ==
  ASSUME VinculosInv, Tipos', NEW v \in Eventos, removeEvento(v)
  PROVE  VinculosInv'
  <1>1. \A d \in Dias : /\ dia'[d].estado = dia[d].estado /\ dia'[d].data = dia[d].data
                        /\ dia'[d].evento = IF dia[d].evento = v THEN NoEvento ELSE dia[d].evento
                        /\ dia[d].evento \in Eventos \cup {NoEvento}
    <2> TAKE d \in Dias
    <2>1. dia[d] \in Dia
      BY DEF VinculosInv, Tipos, TypeOK
    <2> QED BY <2>1 DEF Dia, removeEvento, SemVinculo
  <1>2. Reconfigura /\ atrasados' = atrasados /\ \A w \in Eventos : w # v => evento'[w] = evento[w]
    BY DEF removeEvento, VinculosInv, Tipos, TypeOK
  <1>3. LinkedDayFollowsEvent'
    BY <1>1, <1>2 DEF VinculosInv, LinkedDayFollowsEvent, Existe
  <1> QED BY <1>2, <1>3, VinculosDaMudanca

\* Days that go.
LEMMA VinculosApagaDias ==
  ASSUME VinculosInv, Tipos', NEW D \in SUBSET Dias, NEW rs \in [Requests -> Pedido], ApagaDias(D, rs),
         \A p \in Requests : rs[p] = Livre \/ rs[p] = req[p], UNCHANGED <<evento, mudou, atrasados>>
  PROVE  VinculosInv'
  <1>1. \A d \in Dias : IF d \in D THEN dia'[d].estado = "removido" ELSE dia'[d] = dia[d]
    <2> TAKE d \in Dias
    <2>1. dia[d] \in Dia
      BY DEF VinculosInv, Tipos, TypeOK
    <2> QED BY <2>1 DEF Dia, ApagaDias
  <1>2. Encolhe
    BY <1>1 DEF Encolhe
  <1>3. \A p \in Requests : req'[p] = Livre \/ req'[p] = req[p]
    BY DEF ApagaDias, SemItens
  <1> QED BY <1>2, <1>3, VinculosDepois

LEMMA VinculosNasRemocoes ==
  ASSUME VinculosInv, Tipos', NEW r \in Requests, apagarItem(r) \/ apagarDia(r) \/ \E e \in Escalas : remove(e)
  PROVE  VinculosInv'
  <1> DEFINE rs == [req EXCEPT ![r] = Livre]
  <1>1. rs \in [Requests -> Pedido] /\ \A p \in Requests : rs[p] = Livre \/ rs[p] = req[p]
    BY LivreEPedido DEF VinculosInv, Tipos, TypeOK
  <1>2. CASE apagarItem(r)
    <2>1. req' = SemItens(rs, {req[r].item}) /\ UNCHANGED <<dia, evento, mudou, atrasados>>
      BY <1>2 DEF apagarItem
    <2>2. \A p \in Requests : req'[p] = Livre \/ req'[p] = req[p]
      BY <1>1, <2>1 DEF SemItens
    <2> QED BY <2>1, <2>2, VinculosDepois DEF Encolhe
  <1>3. CASE apagarDia(r) /\ Existe(req[r].dia)
    <2>1. req[r] \in PedidoDeRemocao /\ req[r].pc = "apagarDia"
      BY <1>3, PedidoPorPasso DEF apagarDia, VinculosInv, Tipos, TypeOK
    <2>2. {req[r].dia} \in SUBSET Dias
      BY <2>1 DEF PedidoDeRemocao
    <2>3. ApagaDias({req[r].dia}, rs) /\ UNCHANGED <<evento, mudou, atrasados>>
      BY <1>3 DEF apagarDia
    <2> HIDE DEF rs
    <2> QED BY <1>1, <2>2, <2>3, VinculosApagaDias
  <1>4. CASE apagarDia(r) /\ ~Existe(req[r].dia)
    BY <1>4, VinculosDoPasso DEF apagarDia, Termina, Encolhe
  <1>5. ASSUME NEW e \in Escalas, remove(e) PROVE VinculosInv'
    <2> DEFINE D == {d \in Dias : Do(d) = e /\ Existe(d)}
    <2>1. ApagaDias(D, req) /\ D \in SUBSET Dias /\ req \in [Requests -> Pedido] /\ UNCHANGED <<evento, mudou, atrasados>>
      BY <1>5 DEF remove, VinculosInv, Tipos, TypeOK
    <2> HIDE DEF D
    <2> QED BY <2>1, VinculosApagaDias
  <1> QED BY <1>2, <1>3, <1>4, <1>5

LEMMA VinculosNosInicios ==
  ASSUME VinculosInv, Tipos', NEW r \in Requests,
         \/ \E x \in Itens, confirma \in Confirmacoes : addMembro(r, x, confirma)
         \/ \E x \in itens : removeMembro(r, x)
         \/ \E d \in Dias : removeDia(r, d)
         \/ \E e \in Escalas, v \in Eventos \cup {NoEvento}, t \in Instantes : addDia(r, e, v, t)
         \/ \E d \in Dias, v \in Eventos \cup {NoEvento} : updateDiaEvento(r, d, v)
         \/ \E e \in Escalas, s \in Status : update(r, e, s)
         \/ \E v \in Eventos, i, f \in Instantes \cup {NoFim} : updateEvento(r, v, i, f)
  PROVE  VinculosInv'
  <1>1. \E passo : Comeca(r, passo) /\ DataLida(passo, FALSE) /\ UNCHANGED <<dia, evento, atrasados>>
    BY DEF addMembro, removeMembro, removeDia, addDia, updateDiaEvento, update, updateEvento, LinkedDays, DataLida, banco
  <1> QED BY <1>1, VinculosDoInicio

LEMMA VinculosNosPassos ==
  ASSUME VinculosInv, Tipos', NEW r \in Requests,
         \/ lerFuncao(r) \/ lerItens(r) \/ validar(r) \/ gravar(r) \/ recusar(r) \/ elegivelNovo(r) \/ elegivel(r)
         \/ gravarStatus(r)
  PROVE  VinculosInv'
  <1>1. Encolhe /\ UNCHANGED <<mudou, atrasados>>
    BY DEF lerFuncao, lerItens, validar, gravar, recusar, elegivelNovo, elegivel, gravarStatus, banco, historia, Encolhe
  <1>2. req[r] \in Pedido
    BY DEF VinculosInv, Tipos, TypeOK
  <1>3. CASE lerFuncao(r)
    <2>1. req[r] \in PedidoDeMembro
      BY <1>2, <1>3, PedidoPorPasso DEF lerFuncao
    <2> DEFINE f == req[r].novo.funcao
               passo == [req[r] EXCEPT !.pc = "itens", !.novo.segmentos = segmentos[f], !.novo.local = local[f]]
    <2>2. Segue(r, passo) \/ Segue(r, Livre)
      BY <1>3 DEF lerFuncao, Termina
    <2>3. passo.pc = "itens"
      BY <2>1 DEF PedidoDeMembro
    <2> HIDE DEF passo
    <2> QED BY <1>1, <2>2, <2>3, VinculosDoPasso DEF DataLida
  <1>4. CASE lerItens(r)
    <2>1. req[r] \in PedidoDeMembro
      BY <1>2, <1>4, PedidoPorPasso DEF lerItens
    <2> DEFINE E == {[item |-> y, aloc |-> AlocacaoDe(y)] : y \in Existentes(req[r].item, req[r].data)}
               passo == [req[r] EXCEPT !.pc = IF E = {} THEN "gravar" ELSE "regras", !.existentes = E]
    <2>2. Segue(r, passo)
      BY <1>4 DEF lerItens
    <2>3. passo.pc \in {"gravar", "regras"}
      BY <2>1 DEF PedidoDeMembro
    <2> HIDE DEF passo
    <2> QED BY <1>1, <2>2, <2>3, VinculosDoPasso DEF DataLida
  <1>5. CASE validar(r)
    <2>1. req[r] \in PedidoDeMembro
      BY <1>2, <1>5, PedidoPorPasso DEF validar
    <2>2. PICK passo : Segue(r, passo) /\ (passo = Livre \/ passo.pc = "gravar")
      BY <1>5, <2>1 DEF validar, Termina, PedidoDeMembro
    <2> QED BY <1>1, <2>2, VinculosDoPasso DEF DataLida
  <1>6. CASE gravar(r) \/ recusar(r) \/ gravarStatus(r)
    BY <1>1, <1>6, VinculosDoPasso DEF gravar, recusar, gravarStatus, Termina
  <1>7. CASE elegivelNovo(r)
    <2>1. req[r] \in PedidoDeDia /\ req[r].pc = "elegivelNovo"
      BY <1>2, <1>7, PedidoPorPasso DEF elegivelNovo
    <2>2. PICK passo : /\ Segue(r, passo)
                       /\ \/ passo = Livre
                          \/ passo = [req[r] EXCEPT !.pc = "criarDia", !.data = evento[req[r].evento].inicio]
      BY <1>7 DEF elegivelNovo, Termina
    <2>3. passo = Livre \/ (passo.pc = "criarDia" /\ passo.evento = req[r].evento /\ passo.data = evento[req[r].evento].inicio)
      BY <2>1, <2>2 DEF PedidoDeDia
    <2> QED BY <1>1, <2>2, <2>3, VinculosDoPasso DEF DataLida
  <1>8. CASE elegivel(r)
    <2>1. req[r] \in PedidoDeVinculo /\ req[r].pc = "elegivel"
      BY <1>2, <1>8, PedidoPorPasso DEF elegivel
    <2>2. PICK passo : /\ Segue(r, passo)
                       /\ \/ passo = Livre
                          \/ passo = [req[r] EXCEPT !.pc = "gravarVinculo", !.data = evento[req[r].evento].inicio]
      BY <1>8 DEF elegivel, Termina
    <2>3. passo = Livre \/ (passo.pc = "gravarVinculo" /\ passo.evento = req[r].evento /\ passo.data = evento[req[r].evento].inicio)
      BY <2>1, <2>2 DEF PedidoDeVinculo
    <2> QED BY <1>1, <2>2, <2>3, VinculosDoPasso DEF DataLida
  <1> QED BY <1>3, <1>4, <1>5, <1>6, <1>7, <1>8

LEMMA VinculosNaConfiguracao ==
  ASSUME VinculosInv, Tipos', Configuration
  PROVE  VinculosInv'
  <1>1. Reconfigura /\ UNCHANGED <<dia, evento, atrasados>>
    BY DEF Configuration, upsertCompatibilidade, updateFuncaoConfiguracao, deleteSegmento, banco
  <1>2. LinkedDayFollowsEvent'
    BY <1>1 DEF VinculosInv, LinkedDayFollowsEvent, Existe
  <1> QED BY <1>1, <1>2, VinculosDaMudanca

LEMMA VinculosNoInicio == Init => VinculosInv
  <1> SUFFICES ASSUME Init PROVE VinculosInv
    OBVIOUS
  <1>1. Tipos
    BY TiposNoInicio
  <1>2. LinkedDayFollowsEvent
    BY DEF Init, LinkedDayFollowsEvent
  <1>3. DatasLidas
    BY DEF Init, DatasLidas, DataLida, Livre
  <1> QED BY <1>1, <1>2, <1>3 DEF VinculosInv

LEMMA VinculosEmCadaPasso == VinculosInv /\ [Next]_vars => VinculosInv'
  <1> SUFFICES ASSUME VinculosInv, [Next]_vars PROVE VinculosInv'
    OBVIOUS
  <1>0. Tipos'
    BY TiposEmCadaPasso DEF VinculosInv
  <1>1. ASSUME NEW r \in Requests, Assignment(r) PROVE VinculosInv'
    BY <1>0, <1>1, VinculosNosInicios, VinculosNosPassos, VinculosNasRemocoes DEF Assignment
  <1>2. ASSUME NEW r \in Requests, Day(r) PROVE VinculosInv'
    BY <1>0, <1>2, VinculosNosInicios, VinculosNosPassos, VinculosNasRemocoes, VinculosCriarDia, VinculosGravarVinculo
    DEF Day
  <1>3. ASSUME NEW r \in Requests, Lifecycle(r) PROVE VinculosInv'
    BY <1>0, <1>3, VinculosNosInicios, VinculosNosPassos, VinculosNasRemocoes DEF Lifecycle
  <1>4. ASSUME NEW r \in Requests, Agenda(r) PROVE VinculosInv'
    BY <1>0, <1>4, VinculosNosInicios, VinculosGravarEvento, VinculosRemoveEvento DEF Agenda
  <1>5. CASE UNCHANGED vars
    BY <1>0, <1>5, VinculosDepois DEF vars, banco, historia, Encolhe
  <1> QED BY <1>0, <1>1, <1>2, <1>3, <1>4, <1>5, VinculosNaConfiguracao DEF Next

\* A day linked to an event has the event's date, through every move of the
\* event and every new link, unless the two overlapped (escalas.service.ts,
\* addDia and updateDiaEvento; eventos.service.ts, update).
THEOREM LinkedDaysFollowEvents == Spec => []LinkedDayFollowsEvent
  <1>1. VinculosInv => LinkedDayFollowsEvent
    BY DEF VinculosInv
  <1> QED BY <1>1, VinculosNoInicio, VinculosEmCadaPasso, PTL DEF Spec

-----------------------------------------------------------------------------
\* The schedule a request is about to change.
Alvo(q, e) ==
    \/ q.pc \in {"funcao", "itens", "regras", "gravar", "apagarItem"} /\ Do(q.item[1]) = e
    \/ q.pc \in {"apagarDia", "elegivel", "gravarVinculo"} /\ Do(q.dia) = e
    \/ q.pc \in {"elegivelNovo", "criarDia"} /\ q.escala = e

\* A request found the schedule it is about to change open, or the schedule was
\* closed under it.
FechadosInv ==
    /\ Tipos
    /\ \A r \in Requests, e \in Escalas : Alvo(req[r], e) /\ status[e] = "ENCERRADA" => fechou[r]

\* No step closes a schedule, and requests go on with the schedule they had.
LEMMA FechadosDepois ==
  ASSUME FechadosInv, Tipos',
         \A e \in Escalas : status'[e] = "ENCERRADA" => status[e] = "ENCERRADA",
         \A p \in Requests : fechou[p] => fechou'[p],
         \A p \in Requests, e \in Escalas : Alvo(req'[p], e) => Alvo(req[p], e)
  PROVE  FechadosInv'
  BY DEF FechadosInv, Alvo, Do

LEMMA LivreSemAlvo == \A e : ~Alvo(Livre, e)
  BY DEF Livre, Alvo

LEMMA FechadosDoPasso ==
  ASSUME FechadosInv, Tipos', NEW r \in Requests, NEW passo, Segue(r, passo), UNCHANGED <<status, fechou>>,
         \A e \in Escalas : Alvo(passo, e) => Alvo(req[r], e)
  PROVE  FechadosInv'
  <1>1. \A p \in Requests : req'[p] = IF p = r THEN passo ELSE req[p]
    BY DEF Segue, FechadosInv, Tipos, TypeOK
  <1>2. \A p \in Requests, e \in Escalas : Alvo(req'[p], e) => Alvo(req[p], e)
    BY <1>1
  <1> QED BY <1>2, FechadosDepois

LEMMA FechadosDoInicio ==
  ASSUME FechadosInv, Tipos', NEW r \in Requests, NEW passo, Comeca(r, passo), UNCHANGED status,
         \A e \in Escalas : Alvo(passo, e) => Aberta(e)
  PROVE  FechadosInv'
  <1>1. \A p \in Requests : req'[p] = IF p = r THEN passo ELSE req[p]
    BY DEF Comeca, Segue, FechadosInv, Tipos, TypeOK
  <1>2. \A p \in Requests : p # r => fechou'[p] = fechou[p]
    BY DEF Comeca, FechadosInv, Tipos, TypeOK
  <1>3. ASSUME NEW p \in Requests, NEW e \in Escalas, Alvo(req'[p], e), status[e] = "ENCERRADA" PROVE fechou'[p]
    <2>1. p # r
      BY <1>1, <1>3 DEF Aberta
    <2> QED BY <1>1, <1>2, <1>3, <2>1 DEF FechadosInv
  <1> QED BY <1>3 DEF FechadosInv, Alvo, Do

LEMMA FechadosNosInicios ==
  ASSUME FechadosInv, Tipos', NEW r \in Requests,
         \/ \E x \in Itens, confirma \in Confirmacoes : addMembro(r, x, confirma)
         \/ \E x \in itens : removeMembro(r, x)
         \/ \E d \in Dias : removeDia(r, d)
         \/ \E e \in Escalas, v \in Eventos \cup {NoEvento}, t \in Instantes : addDia(r, e, v, t)
         \/ \E d \in Dias, v \in Eventos \cup {NoEvento} : updateDiaEvento(r, d, v)
         \/ \E e \in Escalas, s \in Status : update(r, e, s)
         \/ \E v \in Eventos, i, f \in Instantes \cup {NoFim} : updateEvento(r, v, i, f)
  PROVE  FechadosInv'
  <1>1. ASSUME NEW passo, Comeca(r, passo), UNCHANGED banco, \A e \in Escalas : Alvo(passo, e) => Aberta(e)
        PROVE  FechadosInv'
    BY <1>1, FechadosDoInicio DEF banco
  <1>2. CASE \E x \in Itens, confirma \in Confirmacoes : addMembro(r, x, confirma)
    BY <1>1, <1>2 DEF addMembro, Alvo
  <1>3. CASE \E x \in itens : removeMembro(r, x)
    BY <1>1, <1>3 DEF removeMembro, Alvo
  <1>4. CASE \E d \in Dias : removeDia(r, d)
    BY <1>1, <1>4 DEF removeDia, Alvo
  <1>5. CASE \E e \in Escalas, v \in Eventos \cup {NoEvento}, t \in Instantes : addDia(r, e, v, t)
    BY <1>1, <1>5 DEF addDia, Alvo
  <1>6. CASE \E d \in Dias, v \in Eventos \cup {NoEvento} : updateDiaEvento(r, d, v)
    BY <1>1, <1>6 DEF updateDiaEvento, Alvo
  <1>7. CASE \E e \in Escalas, s \in Status : update(r, e, s)
    BY <1>1, <1>7 DEF update, Alvo
  <1>8. CASE \E v \in Eventos, i, f \in Instantes \cup {NoFim} : updateEvento(r, v, i, f)
    BY <1>1, <1>8 DEF updateEvento, Alvo
  <1> QED BY <1>2, <1>3, <1>4, <1>5, <1>6, <1>7, <1>8

LEMMA FechadosNosPassos ==
  ASSUME FechadosInv, Tipos', NEW r \in Requests,
         lerFuncao(r) \/ lerItens(r) \/ validar(r) \/ elegivelNovo(r) \/ elegivel(r)
  PROVE  FechadosInv'
  <1>1. req[r] \in Pedido
    BY DEF FechadosInv, Tipos, TypeOK
  <1>2. UNCHANGED <<status, fechou>>
    BY DEF lerFuncao, lerItens, validar, elegivelNovo, elegivel, banco, historia
  <1>3. CASE lerFuncao(r)
    <2> DEFINE f == req[r].novo.funcao
               passo == [req[r] EXCEPT !.pc = "itens", !.novo.segmentos = segmentos[f], !.novo.local = local[f]]
    <2>1. req[r] \in PedidoDeMembro /\ req[r].pc = "funcao"
      BY <1>1, <1>3, PedidoPorPasso DEF lerFuncao
    <2>2. Segue(r, passo) \/ Segue(r, Livre)
      BY <1>3 DEF lerFuncao, Termina
    <2>3. passo.pc = "itens" /\ passo.item = req[r].item
      BY <2>1 DEF PedidoDeMembro
    <2> HIDE DEF passo
    <2> QED BY <1>2, <2>1, <2>2, <2>3, FechadosDoPasso, LivreSemAlvo DEF Alvo
  <1>4. CASE lerItens(r)
    <2> DEFINE E == {[item |-> y, aloc |-> AlocacaoDe(y)] : y \in Existentes(req[r].item, req[r].data)}
               passo == [req[r] EXCEPT !.pc = IF E = {} THEN "gravar" ELSE "regras", !.existentes = E]
    <2>1. req[r] \in PedidoDeMembro /\ req[r].pc = "itens"
      BY <1>1, <1>4, PedidoPorPasso DEF lerItens
    <2>2. Segue(r, passo)
      BY <1>4 DEF lerItens
    <2>3. passo.pc \in {"gravar", "regras"} /\ passo.item = req[r].item
      BY <2>1 DEF PedidoDeMembro
    <2> HIDE DEF passo
    <2> QED BY <1>2, <2>1, <2>2, <2>3, FechadosDoPasso DEF Alvo
  <1>5. CASE validar(r)
    <2> DEFINE passo == [req[r] EXCEPT !.pc = "gravar"]
    <2>1. req[r] \in PedidoDeMembro /\ req[r].pc = "regras"
      BY <1>1, <1>5, PedidoPorPasso DEF validar
    <2>2. Segue(r, passo) \/ Segue(r, Livre)
      BY <1>5 DEF validar, Termina
    <2>3. passo.pc = "gravar" /\ passo.item = req[r].item
      BY <2>1 DEF PedidoDeMembro
    <2> HIDE DEF passo
    <2> QED BY <1>2, <2>1, <2>2, <2>3, FechadosDoPasso, LivreSemAlvo DEF Alvo
  <1>6. CASE elegivelNovo(r)
    <2> DEFINE passo == [req[r] EXCEPT !.pc = "criarDia", !.data = evento[req[r].evento].inicio]
    <2>1. req[r] \in PedidoDeDia /\ req[r].pc = "elegivelNovo"
      BY <1>1, <1>6, PedidoPorPasso DEF elegivelNovo
    <2>2. Segue(r, passo) \/ Segue(r, Livre)
      BY <1>6 DEF elegivelNovo, Termina
    <2>3. passo.pc = "criarDia" /\ passo.escala = req[r].escala
      BY <2>1 DEF PedidoDeDia
    <2> HIDE DEF passo
    <2> QED BY <1>2, <2>1, <2>2, <2>3, FechadosDoPasso, LivreSemAlvo DEF Alvo
  <1>7. CASE elegivel(r)
    <2> DEFINE passo == [req[r] EXCEPT !.pc = "gravarVinculo", !.data = evento[req[r].evento].inicio]
    <2>1. req[r] \in PedidoDeVinculo /\ req[r].pc = "elegivel"
      BY <1>1, <1>7, PedidoPorPasso DEF elegivel
    <2>2. Segue(r, passo) \/ Segue(r, Livre)
      BY <1>7 DEF elegivel, Termina
    <2>3. passo.pc = "gravarVinculo" /\ passo.dia = req[r].dia
      BY <2>1 DEF PedidoDeVinculo
    <2> HIDE DEF passo
    <2> QED BY <1>2, <2>1, <2>2, <2>3, FechadosDoPasso, LivreSemAlvo DEF Alvo
  <1> QED BY <1>3, <1>4, <1>5, <1>6, <1>7

LEMMA FechadosNosFins ==
  ASSUME FechadosInv, Tipos', NEW r \in Requests,
         \/ gravar(r) \/ recusar(r) \/ criarDia(r) \/ gravarVinculo(r) \/ gravarEvento(r)
         \/ apagarDia(r) /\ ~Existe(req[r].dia)
  PROVE  FechadosInv'
  <1>1. Segue(r, Livre) /\ UNCHANGED <<status, fechou>>
    BY DEF gravar, recusar, criarDia, gravarVinculo, gravarEvento, apagarDia, Termina, Reconfigura, banco, historia
  <1> QED BY <1>1, FechadosDoPasso, LivreSemAlvo

LEMMA FechadosNasRemocoes ==
  ASSUME FechadosInv, Tipos', NEW r \in Requests, apagarItem(r) \/ apagarDia(r) \/ \E e \in Escalas : remove(e)
  PROVE  FechadosInv'
  <1> DEFINE rs == [req EXCEPT ![r] = Livre]
  <1>1. \A p \in Requests : rs[p] = Livre \/ rs[p] = req[p]
    BY DEF FechadosInv, Tipos, TypeOK
  <1>2. CASE apagarDia(r) /\ ~Existe(req[r].dia)
    BY <1>2, FechadosNosFins
  <1>3. CASE apagarItem(r) \/ (apagarDia(r) /\ Existe(req[r].dia))
    <2>1. PICK X : req' = SemItens(rs, X) /\ UNCHANGED <<status, fechou>>
      BY <1>3 DEF apagarItem, apagarDia, ApagaDias
    <2>2. \A p \in Requests : req'[p] = Livre \/ req'[p] = req[p]
      BY <1>1, <2>1 DEF SemItens
    <2>3. \A p \in Requests, e \in Escalas : Alvo(req'[p], e) => Alvo(req[p], e)
      BY <2>2, LivreSemAlvo
    <2> QED BY <2>1, <2>3, FechadosDepois
  <1>4. ASSUME NEW e \in Escalas, remove(e) PROVE FechadosInv'
    <2>1. PICK X : req' = SemItens(req, X) /\ UNCHANGED fechou
      BY <1>4 DEF remove, ApagaDias
    <2>2. \A p \in Requests : req'[p] = Livre \/ req'[p] = req[p]
      BY <2>1 DEF SemItens
    <2>3. \A p \in Requests, c \in Escalas : Alvo(req'[p], c) => Alvo(req[p], c)
      BY <2>2, LivreSemAlvo
    <2>4. \A c \in Escalas : status'[c] = "ENCERRADA" => status[c] = "ENCERRADA"
      BY <1>4 DEF remove, FechadosInv, Tipos, TypeOK
    <2> QED BY <2>1, <2>3, <2>4, FechadosDepois
  <1> QED BY <1>2, <1>3, <1>4

LEMMA FechadosGravarStatus ==
  ASSUME FechadosInv, Tipos', NEW r \in Requests, gravarStatus(r)
  PROVE  FechadosInv'
  <1>1. \A p \in Requests : req'[p] = IF p = r THEN Livre ELSE req[p]
    BY DEF gravarStatus, Termina, Segue, FechadosInv, Tipos, TypeOK
  <1>2. \A p \in Requests, e \in Escalas : Alvo(req'[p], e) => Alvo(req[p], e)
    BY <1>1, LivreSemAlvo
  <1>3. CASE req[r].status = "ENCERRADA"
    <2>1. \A p \in Requests : fechou'[p]
      BY <1>3 DEF gravarStatus
    <2> QED BY <2>1 DEF FechadosInv
  <1>4. CASE req[r].status # "ENCERRADA"
    <2>1. \A e \in Escalas : status'[e] = "ENCERRADA" => status[e] = "ENCERRADA"
      BY <1>4 DEF gravarStatus, FechadosInv, Tipos, TypeOK
    <2> QED BY <1>2, <1>4, <2>1, FechadosDepois DEF gravarStatus
  <1> QED BY <1>3, <1>4

LEMMA FechadosNasMudancas ==
  ASSUME FechadosInv, Tipos', Configuration \/ (\E v \in Eventos : removeEvento(v)) \/ UNCHANGED vars
  PROVE  FechadosInv'
  <1>1. UNCHANGED <<status, req, fechou>>
    BY DEF Configuration, upsertCompatibilidade, updateFuncaoConfiguracao, deleteSegmento, removeEvento, Reconfigura,
           banco, vars, historia
  <1> QED BY <1>1, FechadosDepois

LEMMA FechadosNoInicio == Init => FechadosInv
  BY TiposNoInicio DEF Init, FechadosInv, Alvo, Livre

LEMMA FechadosEmCadaPasso == FechadosInv /\ [Next]_vars => FechadosInv'
  <1> SUFFICES ASSUME FechadosInv, [Next]_vars PROVE FechadosInv'
    OBVIOUS
  <1>0. Tipos'
    BY TiposEmCadaPasso DEF FechadosInv
  <1>1. ASSUME NEW r \in Requests, Assignment(r) PROVE FechadosInv'
    BY <1>0, <1>1, FechadosNosInicios, FechadosNosPassos, FechadosNosFins, FechadosNasRemocoes DEF Assignment
  <1>2. ASSUME NEW r \in Requests, Day(r) PROVE FechadosInv'
    BY <1>0, <1>2, FechadosNosInicios, FechadosNosPassos, FechadosNosFins, FechadosNasRemocoes DEF Day
  <1>3. ASSUME NEW r \in Requests, Lifecycle(r) PROVE FechadosInv'
    BY <1>0, <1>3, FechadosNosInicios, FechadosGravarStatus, FechadosNasRemocoes DEF Lifecycle
  <1>4. ASSUME NEW r \in Requests, Agenda(r) PROVE FechadosInv'
    BY <1>0, <1>4, FechadosNosInicios, FechadosNosFins, FechadosNasMudancas DEF Agenda
  <1> QED BY <1>0, <1>1, <1>2, <1>3, <1>4, FechadosNasMudancas DEF Next

-----------------------------------------------------------------------------
\* A request that ends with a change of the schedule it had chosen.
Atrasada == \E r \in Requests : fechou[r] /\ req[r] # Livre /\ req'[r] = Livre

LEMMA PorAlvo ==
  ASSUME FechadosInv, NEW r \in Requests, NEW e \in Escalas, Alvo(req[r], e), status[e] = "ENCERRADA",
         req'[r] = Livre
  PROVE  Atrasada
  BY LivreSemAlvo DEF Atrasada, FechadosInv

LEMMA MudaSeAlgoMuda ==
  ASSUME NEW e \in Escalas, itens' = itens,
         \A d \in Dias : Do(d) = e => dia'[d].evento = dia[d].evento /\ dia'[d].estado = dia[d].estado
  PROVE  ~ChangesClosed(e)
  BY DEF ChangesClosed

LEMMA FimDeTermina ==
  ASSUME FechadosInv, NEW r \in Requests, Termina(r)
  PROVE  req'[r] = Livre
  BY DEF Termina, Segue, FechadosInv, Tipos, TypeOK

LEMMA MudaGravar ==
  ASSUME FechadosInv, NEW r \in Requests, gravar(r), NEW e \in Escalas, ChangesClosed(e)
  PROVE  Atrasada
  <1>1. req'[r] = Livre /\ dia' = dia
    BY FimDeTermina DEF gravar
  <1>2. itens' \subseteq itens \cup {req[r].item} /\ itens \subseteq itens'
    BY DEF gravar
  <1>3. Do(req[r].item[1]) = e
    BY <1>1, <1>2 DEF ChangesClosed
  <1>4. Alvo(req[r], e)
    BY <1>3 DEF Alvo, gravar
  <1> QED BY <1>1, <1>4, PorAlvo DEF ChangesClosed

LEMMA MudaApagarItem ==
  ASSUME FechadosInv, NEW r \in Requests, apagarItem(r), NEW e \in Escalas, ChangesClosed(e)
  PROVE  Atrasada
  <1>1. req'[r] = Livre /\ dia' = dia /\ itens' = itens \ {req[r].item}
    BY DEF apagarItem, SemItens, Livre, Apaga, FechadosInv, Tipos, TypeOK
  <1>2. Do(req[r].item[1]) = e
    BY <1>1 DEF ChangesClosed
  <1>3. Alvo(req[r], e)
    BY <1>2 DEF Alvo, apagarItem
  <1> QED BY <1>1, <1>3, PorAlvo DEF ChangesClosed

\* Days that go take only their own assignments.
LEMMA MudaApagaDias ==
  ASSUME NEW D \in SUBSET Dias, NEW rs, ApagaDias(D, rs), NEW e \in Escalas, \A d \in D : Do(d) # e
  PROVE  ~ChangesClosed(e)
  <1>1. \A d \in Dias : Do(d) = e => dia'[d] = dia[d]
    BY DEF ApagaDias
  <1>2. {x \in itens' : Do(x[1]) = e} = {x \in itens : Do(x[1]) = e}
    BY DEF ApagaDias, Apaga
  <1> QED BY <1>1, <1>2 DEF ChangesClosed

LEMMA MudaApagarDia ==
  ASSUME FechadosInv, NEW r \in Requests, apagarDia(r), NEW e \in Escalas, ChangesClosed(e)
  PROVE  Atrasada
  <1>1. CASE Existe(req[r].dia)
    <2>1. req[r] \in PedidoDeRemocao /\ req[r].pc = "apagarDia"
      BY PedidoPorPasso DEF apagarDia, FechadosInv, Tipos, TypeOK
    <2>2. {req[r].dia} \in SUBSET Dias
      BY <2>1 DEF PedidoDeRemocao
    <2>3. PICK rs : rs = [req EXCEPT ![r] = Livre] /\ ApagaDias({req[r].dia}, rs)
      BY <1>1 DEF apagarDia
    <2>4. Do(req[r].dia) = e
      BY <2>2, <2>3, MudaApagaDias
    <2>5. Alvo(req[r], e)
      BY <2>1, <2>4 DEF Alvo
    <2>6. req'[r] = Livre
      BY <2>3 DEF ApagaDias, SemItens, Livre, FechadosInv, Tipos, TypeOK
    <2> QED BY <2>5, <2>6, PorAlvo DEF ChangesClosed
  <1>2. CASE ~Existe(req[r].dia)
    BY <1>2 DEF apagarDia, ChangesClosed
  <1> QED BY <1>1, <1>2

LEMMA MudaCriarDia ==
  ASSUME FechadosInv, NEW r \in Requests, criarDia(r), NEW e \in Escalas, ChangesClosed(e)
  PROVE  Atrasada
  <1>1. req'[r] = Livre /\ itens' = itens
    BY FimDeTermina DEF criarDia
  <1>2. dia' # dia
    BY <1>1 DEF ChangesClosed
  <1>3. PICK d \in Dias : Do(d) = req[r].escala /\ \E novo : dia' = [dia EXCEPT ![d] = novo]
    BY <1>2 DEF criarDia
  <1>4. \A c \in Dias : c # d => dia'[c] = dia[c]
    BY <1>3 DEF FechadosInv, Tipos, TypeOK
  <1>5. req[r].escala = e
    BY <1>1, <1>3, <1>4, MudaSeAlgoMuda
  <1>6. Alvo(req[r], e)
    BY <1>5 DEF Alvo, criarDia
  <1> QED BY <1>1, <1>6, PorAlvo DEF ChangesClosed

LEMMA MudaGravarVinculo ==
  ASSUME FechadosInv, NEW r \in Requests, gravarVinculo(r), NEW e \in Escalas, ChangesClosed(e)
  PROVE  Atrasada
  <1>1. req'[r] = Livre /\ itens' = itens
    BY FimDeTermina DEF gravarVinculo
  <1>2. \A c \in Dias : c # req[r].dia => dia'[c] = dia[c]
    BY DEF gravarVinculo, FechadosInv, Tipos, TypeOK
  <1>3. Do(req[r].dia) = e
    BY <1>1, <1>2, MudaSeAlgoMuda
  <1>4. Alvo(req[r], e)
    BY <1>3 DEF Alvo, gravarVinculo
  <1> QED BY <1>1, <1>4, PorAlvo DEF ChangesClosed

\* The other steps leave a closed schedule as it is.
LEMMA MudaGravarEvento ==
  ASSUME FechadosInv, NEW r \in Requests, gravarEvento(r), NEW e \in Escalas
  PROVE  ~ChangesClosed(e)
  <1>1. itens' = itens
    BY DEF gravarEvento
  <1>2. \A d \in Dias : dia'[d].evento = dia[d].evento /\ dia'[d].estado = dia[d].estado
    <2> TAKE d \in Dias
    <2>1. dia[d] \in Dia
      BY DEF FechadosInv, Tipos, TypeOK
    <2> QED BY <2>1 DEF Dia, gravarEvento
  <1> QED BY <1>1, <1>2, MudaSeAlgoMuda

LEMMA MudaRemove ==
  ASSUME FechadosInv, NEW c \in Escalas, remove(c), NEW e \in Escalas
  PROVE  ~ChangesClosed(e)
  <1> DEFINE D == {d \in Dias : Do(d) = c /\ Existe(d)}
  <1>1. CASE e = c
    BY <1>1 DEF remove, ChangesClosed, FechadosInv, Tipos, TypeOK
  <1>2. CASE e # c
    <2>1. ApagaDias(D, req) /\ D \in SUBSET Dias /\ \A d \in D : Do(d) # e
      BY <1>2 DEF remove
    <2> HIDE DEF D
    <2> QED BY <2>1, MudaApagaDias
  <1> QED BY <1>1, <1>2

LEMMA MudaRemoveEvento ==
  ASSUME FechadosInv, NEW v \in Eventos, removeEvento(v)
  PROVE  evento' # evento
  BY DEF removeEvento, FechadosInv, Tipos, TypeOK

LEMMA NadaMuda ==
  ASSUME NEW e \in Escalas,
         \/ UNCHANGED vars
         \/ Configuration
         \/ \E r \in Requests :
              \/ lerFuncao(r) \/ lerItens(r) \/ validar(r) \/ recusar(r) \/ elegivelNovo(r) \/ elegivel(r)
              \/ gravarStatus(r)
              \/ \E x \in Itens, confirma \in Confirmacoes : addMembro(r, x, confirma)
              \/ \E x \in itens : removeMembro(r, x)
              \/ \E d \in Dias : removeDia(r, d)
              \/ \E c \in Escalas, v \in Eventos \cup {NoEvento}, t \in Instantes : addDia(r, c, v, t)
              \/ \E d \in Dias, v \in Eventos \cup {NoEvento} : updateDiaEvento(r, d, v)
              \/ \E c \in Escalas, s \in Status : update(r, c, s)
              \/ \E v \in Eventos, i, f \in Instantes \cup {NoFim} : updateEvento(r, v, i, f)
  PROVE  ~ChangesClosed(e)
  <1>1. UNCHANGED <<dia, itens>>
    BY DEF vars, banco, Configuration, upsertCompatibilidade, updateFuncaoConfiguracao, deleteSegmento, lerFuncao, lerItens,
           validar, recusar, elegivelNovo, elegivel, gravarStatus, addMembro, removeMembro, removeDia, addDia,
           updateDiaEvento, update, updateEvento
  <1> QED BY <1>1, MudaSeAlgoMuda

LEMMA FechadosMudamTarde ==
  ASSUME FechadosInv, [Next]_vars, NEW e \in Escalas, ChangesClosed(e)
  PROVE  evento' # evento \/ Atrasada
  <1>1. ASSUME NEW r \in Requests, Assignment(r) PROVE Atrasada
    BY <1>1, NadaMuda, MudaGravar, MudaApagarItem DEF Assignment
  <1>2. ASSUME NEW r \in Requests, Day(r) PROVE Atrasada
    BY <1>2, NadaMuda, MudaApagarDia, MudaCriarDia, MudaGravarVinculo DEF Day
  <1>3. ASSUME NEW r \in Requests, Lifecycle(r) PROVE FALSE
    BY <1>3, NadaMuda, MudaRemove DEF Lifecycle
  <1>4. ASSUME NEW r \in Requests, Agenda(r) PROVE evento' # evento
    BY <1>4, NadaMuda, MudaGravarEvento, MudaRemoveEvento DEF Agenda
  <1> QED BY <1>1, <1>2, <1>3, <1>4, NadaMuda DEF Next

\* Once a schedule is closed, its assignments and links change only through a
\* request that had found it open, or through the removal of an event
\* (assertEscalaAbertaParaEdicao in escalas.service.ts).
THEOREM ClosedSchedulesChangeLate == Spec => ClosedScheduleChangesLate
  <1>1. FechadosInv /\ [Next]_vars =>
          [\A e \in Escalas : ChangesClosed(e) =>
             \/ evento' # evento
             \/ \E r \in Requests : fechou[r] /\ req[r] # Livre /\ req'[r] = Livre]_vars
    BY FechadosMudamTarde DEF Atrasada
  <1> QED BY <1>1, FechadosNoInicio, FechadosEmCadaPasso, PTL DEF Spec, ClosedScheduleChangesLate
=============================================================================
