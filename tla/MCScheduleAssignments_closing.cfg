SPECIFICATION Spec
CONSTANTS
    e1 = e1  f1 = f1  f2 = f2
    s1 = s1  s2 = s2  palco = palco  cabine = cabine
    Padrao = Padrao  NoLocal = NoLocal  NoEvento = NoEvento  NoFim = NoFim
    Requests = {r1, r2}
    Escalas = {e1}
    Dias = {d1}
    Membros = {m1}
    Funcoes = {f1}
    Segmentos = {s1}
    Locais = {}
    Eventos = {v1}
    Instantes = {2, 4}
    ordem <- ordemMC
    escalaDe <- escalaDeMC
    funcoesDe <- UmMinisterio
    diaServidor <- diaUtcMC
    diaOperacional <- diaOperacionalMC
    diaUtc <- diaUtcMC
    meiaNoiteUtc <- meiaNoiteMC
    Duracoes = {NoFim}
    Iniciais <- DiasDeEventos
    Segmentacoes <- SegmentacoesIguais
    Lotacoes <- SemLotacao
    RegrasIniciais = {"NENHUMA"}
    Confirmacoes = {FALSE}
    Operacoes = {"addMembro", "removeMembro", "removeDia", "addDia", "updateDiaEvento", "updateEvento", "removeEvento", "update", "remove"}
    MaxMudancas = 2
SYMMETRY Symmetric
VIEW ViewDias
INVARIANTS
    LinkedDayFollowsEvent
PROPERTY ClosedScheduleChangesLate
CHECK_DEADLOCK FALSE
