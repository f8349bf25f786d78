SPECIFICATION Spec
CONSTANTS
    e1 = e1  f1 = f1  f2 = f2
    s1 = s1  s2 = s2  palco = palco  cabine = cabine
    Padrao = Padrao  NoLocal = NoLocal  NoEvento = NoEvento  NoFim = NoFim
    Requests = {r1, r2}
    Escalas = {e1}
    Dias = {d1}
    Membros = {m1}
    Funcoes = {f1, f2}
    Segmentos = {s1, s2}
    Locais = {palco, cabine}
    Eventos = {}
    Instantes = {0}
    ordem <- ordemMC
    escalaDe <- escalaDeMC
    funcoesDe <- UmMinisterio
    diaServidor <- diaUtcMC
    diaOperacional <- diaOperacionalMC
    diaUtc <- diaUtcMC
    meiaNoiteUtc <- meiaNoiteMC
    Duracoes = {NoFim}
    Iniciais <- DiasSemEvento
    Segmentacoes <- SegmentacoesMC
    Lotacoes <- LotacoesMC
    RegrasIniciais = {"NENHUMA"}
    Confirmacoes = {TRUE, FALSE}
    Operacoes = {"addMembro", "removeMembro", "upsertCompatibilidade", "updateFuncaoConfiguracao", "deleteSegmento"}
    MaxMudancas = 1
SYMMETRY Symmetric
VIEW View
INVARIANTS
    BlockedPairIsExcused
    WarnedPairWasConfirmed
CHECK_DEADLOCK FALSE
