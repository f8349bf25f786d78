--------------------------- MODULE AccountsProofs ---------------------------
(***************************************************************************)
(* That every active account has a way in, and that activation and linking *)
(* go by what is stored, for any number of accounts, e-mails and requests; *)
(* and that the first access tells what is so.                             *)
(*                                                                         *)
(* WayIn is not inductive: a request writes on the strength of what it has *)
(* read.  Pedidos says what remains true of that whatever happens since: a *)
(* password is never removed, so that the account that is about to lose    *)
(* its provider keeps one, and a way in that the administrator saw is only *)
(* ever lost to a password.  Leituras says what is true while nobody has   *)
(* written the account.  Nor are the properties of the first access:       *)
(* BrandsInv follows the versions of the icon that pages, tabs and the     *)
(* installation hold, InstallInv and StepsInv what the wizard awaits, and  *)
(* CompletionInv the requests that finish it.                              *)
(***************************************************************************)
EXTENDS UserAccess, TLAPS

Acesso(u) == user[u].senha \/ Vinculado(u)

PedidoOK(r) ==
    req[r] # Livre =>
        /\ Existe(req[r].user)
        /\ req[r].pc = "gravarDesvinculo" =>
               user[req[r].user].senha /\ provider[req[r].user] # SemProvedor
        /\ req[r].pc = "gravarUsuario" =>
               /\ req[r].limpa => req[r].dto.ativo = "sim"
               /\ req[r].dto.ativo = "sim" => req[r].dto.senha \/ Acesso(req[r].user)
        /\ req[r].pc = "usuario" => req[r].token = Null

PeloLink(r) == user[req[r].user].status = "PENDING" /\ user[req[r].user].token = req[r].token

LeituraOK(r) ==
    req[r] # Livre /\ ~atropelado[r] =>
        /\ req[r].pc = "gravarSenha" => PeloLink(r)
        /\ req[r].pc \in {"vinculo", "provedor", "gravarVinculo"} =>
               /\ user[req[r].user].email = req[r].conta
               /\ req[r].token # Null => PeloLink(r)

Pedidos == \A r \in Requests : PedidoOK(r)
Leituras == \A r \in Requests : LeituraOK(r)

IInv == TypeOK /\ WayIn /\ Pedidos /\ Leituras

-----------------------------------------------------------------------------
\* What the union of records in Pedido says of each step.
LEMMA PedidoPorPc ==
    ASSUME NEW q \in Pedido
    PROVE  /\ q = Livre <=> q.pc = "livre"
           /\ q # Livre => q.user \in Users
           /\ q.pc = "gravarSenha" => q \in PedidoDeSenha
           /\ q.pc \in {"gravarNovaSenha", "gravarDesvinculo", "gravarToken"} => q \in PedidoSimples
           /\ q.pc \in {"usuario", "vinculo", "provedor", "gravarVinculo"} => q \in PedidoDeVinculo
           /\ q.pc = "gravarUsuario" => q \in PedidoDeAdmin
<1>1. CASE q = Livre
      BY <1>1 DEF Livre
<1>2. CASE q \in PedidoDeSenha
      BY <1>2 DEF PedidoDeSenha, Livre
<1>3. CASE q \in PedidoSimples
      BY <1>3 DEF PedidoSimples, Livre
<1>4. CASE q \in PedidoDeVinculo
      BY <1>4 DEF PedidoDeVinculo, Livre
<1>5. CASE q \in PedidoDeAdmin
      BY <1>5 DEF PedidoDeAdmin, Livre
<1> QED BY <1>1, <1>2, <1>3, <1>4, <1>5 DEF Pedido

\* What the union of records in Conta says of an account.
LEMMA ContaExistente ==
    ASSUME NEW c \in Conta, c # Ausente
    PROVE  /\ c.status \in {"PENDING", "ACTIVE", "DISABLED"}
           /\ c.ativo = (c.status = "ACTIVE")
           /\ c.senha \in BOOLEAN
           /\ c.token \in Tokens \cup {Null}
           /\ c.status = "PENDING" => c.token \in Tokens
           /\ c.email \in Emails
           /\ c = [status |-> c.status, ativo |-> c.ativo, senha |-> c.senha,
                   token |-> c.token, email |-> c.email]
  BY DEF Conta

\* An account built field by field.
LEMMA ContaFeita ==
    ASSUME NEW s \in {"PENDING", "ACTIVE", "DISABLED"}, NEW a, a = (s = "ACTIVE"),
           NEW p \in BOOLEAN, NEW t \in Tokens \cup {Null}, s = "PENDING" => t \in Tokens,
           NEW e \in Emails
    PROVE  LET c == [status |-> s, ativo |-> a, senha |-> p, token |-> t, email |-> e]
           IN  c \in Conta /\ c # Ausente
<1> DEFINE c == [status |-> s, ativo |-> a, senha |-> p, token |-> t, email |-> e]
<1>1. c # Ausente
      BY DEF Ausente
<1>2. c \in Conta
      BY DEF Conta
<1> QED BY <1>1, <1>2

\* The three kinds of account that exist.
Pendente == [status : {"PENDING"}, ativo : {FALSE}, senha : BOOLEAN, token : Tokens, email : Emails]
Ativa == [status : {"ACTIVE"}, ativo : {TRUE}, senha : BOOLEAN, token : Tokens \cup {Null}, email : Emails]
Desativada == [status : {"DISABLED"}, ativo : {FALSE}, senha : BOOLEAN, token : Tokens \cup {Null}, email : Emails]

LEMMA ContaDe ==
    /\ Conta = {Ausente} \cup Pendente \cup Ativa \cup Desativada
    /\ Ausente \notin Pendente \cup Ativa \cup Desativada
  BY DEF Conta, Pendente, Ativa, Desativada, Ausente

\* What each write makes of an account that exists.
LEMMA AtivadaOK ==
    ASSUME NEW c \in Conta, c # Ausente
    PROVE  /\ Ativada(c) \in Conta /\ Ativada(c) # Ausente
           /\ Ativada(c).senha = c.senha /\ Ativada(c).email = c.email
           /\ Ativada(c).status = "ACTIVE"
<1> DEFINE n == [c EXCEPT !.status = "ACTIVE", !.ativo = TRUE, !.token = Null]
<1>1. n \in Ativa /\ n.senha = c.senha /\ n.email = c.email /\ n.status = "ACTIVE"
  <2>1. CASE c \in Pendente
        BY <2>1 DEF Pendente, Ativa
  <2>2. CASE c \in Ativa
        BY <2>2 DEF Ativa
  <2>3. CASE c \in Desativada
        BY <2>3 DEF Desativada, Ativa
  <2> QED BY <2>1, <2>2, <2>3, ContaDe
<1>2. Ativada(c) = n
      BY DEF Ativada
<1> HIDE DEF n
<1> QED BY <1>1, <1>2, ContaDe

LEMMA ComSenhaOK ==
    ASSUME NEW c \in Conta, c # Ausente
    PROVE  LET n == [c EXCEPT !.senha = TRUE]
           IN  /\ n \in Conta /\ n # Ausente
               /\ n.senha /\ n.status = c.status /\ n.token = c.token /\ n.email = c.email
<1> DEFINE n == [c EXCEPT !.senha = TRUE]
<1>1. CASE c \in Pendente
      BY <1>1, ContaDe DEF Pendente
<1>2. CASE c \in Ativa
      BY <1>2, ContaDe DEF Ativa
<1>3. CASE c \in Desativada
      BY <1>3, ContaDe DEF Desativada
<1> QED BY <1>1, <1>2, <1>3, ContaDe

LEMMA ComTokenOK ==
    ASSUME NEW c \in Conta, c # Ausente, NEW t \in Tokens
    PROVE  LET n == [c EXCEPT !.token = t]
           IN  /\ n \in Conta /\ n # Ausente
               /\ n.senha = c.senha /\ n.status = c.status
<1>1. CASE c \in Pendente
      BY <1>1, ContaDe DEF Pendente
<1>2. CASE c \in Ativa
      BY <1>2, ContaDe DEF Ativa
<1>3. CASE c \in Desativada
      BY <1>3, ContaDe DEF Desativada
<1> QED BY <1>1, <1>2, <1>3, ContaDe

LEMMA DesativadaOK ==
    ASSUME NEW c \in Conta, c # Ausente
    PROVE  LET n == [c EXCEPT !.ativo = FALSE, !.status = "DISABLED"]
           IN  /\ n \in Conta /\ n # Ausente
               /\ n.senha = c.senha /\ n.status = "DISABLED"
<1>0. Tokens \subseteq Tokens \cup {Null}
      OBVIOUS
<1>1. CASE c \in Pendente
      BY <1>0, <1>1, ContaDe DEF Pendente, Desativada
<1>2. CASE c \in Ativa
      BY <1>2, ContaDe DEF Ativa, Desativada
<1>3. CASE c \in Desativada
      BY <1>3, ContaDe DEF Desativada
<1> QED BY <1>1, <1>2, <1>3, ContaDe

LEMMA AtualizadaOK ==
    ASSUME NEW c \in Conta, c # Ausente, NEW dto \in Formulario, NEW limpa \in BOOLEAN,
           limpa => dto.ativo = "sim"
    PROVE  LET n == Atualizada(c, dto, limpa)
           IN  /\ n \in Conta /\ n # Ausente
               /\ n.senha = (c.senha \/ dto.senha)
               /\ n.status = "ACTIVE" => dto.ativo = "sim" \/ (dto.ativo = "omitido" /\ c.status = "ACTIVE")
<1> DEFINE s == IF dto.ativo = "sim" THEN "ACTIVE" ELSE IF dto.ativo = "nao" THEN "DISABLED" ELSE c.status
           a == IF dto.ativo = "omitido" THEN c.ativo ELSE dto.ativo = "sim"
           p == c.senha \/ dto.senha
           t == IF limpa THEN Null ELSE c.token
           e == IF dto.email = NoEmail THEN c.email ELSE dto.email
<1>1. dto.ativo \in {"sim", "nao", "omitido"} /\ dto.senha \in BOOLEAN /\ dto.email \in Emails \cup {NoEmail}
      BY DEF Formulario
<1>2. s \in {"PENDING", "ACTIVE", "DISABLED"} /\ a = (s = "ACTIVE")
      BY <1>1, ContaExistente
<1>3. p \in BOOLEAN /\ t \in Tokens \cup {Null} /\ e \in Emails
      BY <1>1, ContaExistente
<1>4. s = "PENDING" => t \in Tokens
      BY <1>1, ContaExistente
<1>5. Atualizada(c, dto, limpa) = [status |-> s, ativo |-> a, senha |-> p, token |-> t, email |-> e]
      BY DEF Atualizada
<1>6. s = "ACTIVE" => dto.ativo = "sim" \/ (dto.ativo = "omitido" /\ c.status = "ACTIVE")
      BY <1>1
<1> HIDE DEF s, a, p, t, e
<1>7. Atualizada(c, dto, limpa) \in Conta /\ Atualizada(c, dto, limpa) # Ausente
      BY <1>2, <1>3, <1>4, <1>5, ContaFeita
<1>8. Atualizada(c, dto, limpa).senha = p /\ Atualizada(c, dto, limpa).status = s
      BY <1>5
<1> QED BY <1>6, <1>7, <1>8 DEF p

-----------------------------------------------------------------------------
\* What a request has read stays true while others write: no account goes, no
\* password is removed, no row of a provider is deleted.
LEMMA Demais ==
    ASSUME NEW q \in Requests, req[q] # Livre, req'[q] = req[q], req[q].user \in Users,
           PedidoOK(q), LeituraOK(q),
           \A v \in Users : Existe(v) => Existe(v)' /\ (user[v].senha => user'[v].senha),
           \A v \in Users : provider[v] # SemProvedor => provider'[v] # SemProvedor,
           \A v \in Users : Existe(v) /\ Acesso(v) => Acesso(v)',
           \/ atropelado'[q]
           \/ atropelado'[q] = atropelado[q] /\ user'[req[q].user] = user[req[q].user]
    PROVE  PedidoOK(q)' /\ LeituraOK(q)'
<1> DEFINE u == req[q].user
<1>1. Existe(u) /\ Existe(u)'
      BY DEF PedidoOK
<1>2. Acesso(u) => Acesso(u)'
      BY <1>1
<1>3. PedidoOK(q)'
      BY <1>1, <1>2 DEF PedidoOK
<1>4. LeituraOK(q)'
      BY DEF LeituraOK, PeloLink
<1> QED BY <1>3, <1>4

\* A step that only reads.
LEMMA Leitura ==
    ASSUME IInv, NEW r \in Requests, NEW passo \in Pedido, Segue(r, passo),
           UNCHANGED <<user, provider, emitidos>>,
           \/ atropelado' = atropelado
           \/ atropelado' = [atropelado EXCEPT ![r] = FALSE],
           PedidoOK(r)', LeituraOK(r)'
    PROVE  IInv'
<1>1. req \in [Requests -> Pedido] /\ atropelado \in [Requests -> BOOLEAN]
      BY DEF IInv, TypeOK
<1>2. TypeOK'
      BY <1>1 DEF IInv, TypeOK, Segue
<1>3. WayIn'
      BY DEF IInv, WayIn, Ativo, Existe, Vinculado
<1>4. ASSUME NEW q \in Requests \ {r}
      PROVE  PedidoOK(q)' /\ LeituraOK(q)'
  <2>1. req'[q] = req[q] /\ atropelado'[q] = atropelado[q]
        BY <1>1 DEF Segue
  <2>2. PedidoOK(q) /\ LeituraOK(q)
        BY DEF IInv, Pedidos, Leituras
  <2> QED BY <2>1, <2>2 DEF PedidoOK, LeituraOK, PeloLink, Existe, Acesso, Vinculado
<1> QED BY <1>2, <1>3, <1>4 DEF IInv, Pedidos, Leituras

\* A step that writes.
LEMMA Gravacao ==
    ASSUME IInv, TypeOK', WayIn',
           \A v \in Users : Existe(v) => Existe(v)' /\ (user[v].senha => user'[v].senha),
           \A v \in Users : provider[v] # SemProvedor => provider'[v] # SemProvedor,
           \A v \in Users : Existe(v) /\ Acesso(v) => Acesso(v)',
           \A q \in Requests :
               \/ req'[q] = Livre
               \/ req'[q] = req[q] /\ \/ atropelado'[q]
                                      \/ /\ atropelado'[q] = atropelado[q]
                                         /\ user'[req[q].user] = user[req[q].user]
    PROVE  IInv'
<1>1. ASSUME NEW q \in Requests
      PROVE  PedidoOK(q)' /\ LeituraOK(q)'
  <2>1. CASE req'[q] = Livre
        BY <2>1 DEF PedidoOK, LeituraOK
  <2>2. CASE req'[q] # Livre
    <3>1. PedidoOK(q) /\ LeituraOK(q)
          BY DEF IInv, Pedidos, Leituras
    <3>2. req[q] # Livre /\ req'[q] = req[q]
          BY <2>2
    <3>3. req[q].user \in Users
          BY <3>2, PedidoPorPc DEF IInv, TypeOK
    <3> QED BY <2>2, <3>1, <3>2, <3>3, Demais
  <2> QED BY <2>1, <2>2
<1> QED BY <1>1 DEF IInv, Pedidos, Leituras

\* A step that writes one account, keeping its password, and may link it.
LEMMA Escrita ==
    ASSUME IInv, NEW u \in Users, NEW c \in Conta, c # Ausente, Escreve(u, c),
           Existe(u) /\ user[u].senha => c.senha,
           c.status = "ACTIVE" => c.senha \/ Vinculado(u)',
           emitidos' \in 0..MaxTokens,
           provider' \in [Users -> Provedor],
           \A v \in Users : provider'[v] = provider[v] \/ provider'[v].estado = "ativo",
           \/ req' = req
           \/ \E r \in Requests : Termina(r)
    PROVE  IInv'
<1>1. /\ user \in [Users -> Conta] /\ req \in [Requests -> Pedido]
      /\ atropelado \in [Requests -> BOOLEAN]
      BY DEF IInv, TypeOK
<1>2. /\ user' = [user EXCEPT ![u] = c]
      /\ \A q \in Requests :
             atropelado'[q] = (atropelado[q] \/ (c # user[u] /\ req[q] # Livre /\ req[q].user = u))
      BY DEF Escreve
<1>3. user' \in [Users -> Conta] /\ user'[u] = c /\ \A v \in Users \ {u} : user'[v] = user[v]
      BY <1>1, <1>2
<1>4. req' \in [Requests -> Pedido] /\ \A q \in Requests : req'[q] = req[q] \/ req'[q] = Livre
      BY <1>1 DEF Termina, Segue, Pedido
<1>5. atropelado' \in [Requests -> BOOLEAN]
      BY <1>1 DEF Escreve
<1>6. TypeOK'
      BY <1>3, <1>4, <1>5 DEF TypeOK
<1>7. ASSUME NEW v \in Users, Existe(v)
      PROVE  Existe(v)' /\ (user[v].senha => user'[v].senha)
      BY <1>3, <1>7 DEF Existe
<1>8. ASSUME NEW v \in Users
      PROVE  /\ provider[v] # SemProvedor => provider'[v] # SemProvedor
             /\ Vinculado(v) => Vinculado(v)'
      BY DEF Vinculado, SemProvedor
<1>9. ASSUME NEW v \in Users, Existe(v), Acesso(v)
      PROVE  Acesso(v)'
      BY <1>7, <1>8, <1>9 DEF Acesso
<1>10. WayIn'
  <2> SUFFICES ASSUME NEW v \in Users, Ativo(v)'
               PROVE  user'[v].senha \/ Vinculado(v)'
      BY DEF WayIn
  <2>1. CASE v = u
        BY <2>1, <1>3 DEF Ativo
  <2>2. CASE v # u
    <3>1. Ativo(v)
          BY <2>2, <1>3 DEF Ativo, Existe
    <3> QED BY <3>1, <2>2, <1>3, <1>8 DEF IInv, WayIn
  <2> QED BY <2>1, <2>2
<1>11. ASSUME NEW q \in Requests, req'[q] # Livre
       PROVE  /\ req'[q] = req[q]
              /\ \/ atropelado'[q]
                 \/ atropelado'[q] = atropelado[q] /\ user'[req[q].user] = user[req[q].user]
  <2>1. req'[q] = req[q] /\ req[q] # Livre
        BY <1>4, <1>11
  <2>2. req[q].user \in Users
        BY <2>1, <1>1, PedidoPorPc
  <2>3. CASE c # user[u] /\ req[q].user = u
        BY <2>1, <2>3, <1>2
  <2>4. CASE c = user[u] \/ req[q].user # u
    <3>1. atropelado'[q] = (atropelado[q] \/ FALSE) /\ atropelado[q] \in BOOLEAN
          BY <2>4, <1>1, <1>2
    <3>2. user'[req[q].user] = user[req[q].user]
          BY <2>2, <2>4, <1>3
    <3> QED BY <2>1, <3>1, <3>2
  <2> QED BY <2>1, <2>3, <2>4
<1> QED BY <1>6, <1>7, <1>8, <1>9, <1>10, <1>11, Gravacao

-----------------------------------------------------------------------------
\* Steps of activation and of passwords.
LEMMA InicioOK ==
    ASSUME Init
    PROVE  IInv
<1>1. TypeOK
      BY AccountsAssumption DEF Init, TypeOK, Conta, Provedor, Pedido
<1>2. WayIn
      BY DEF Init, WayIn, Ativo, Existe
<1>3. Pedidos /\ Leituras
      BY DEF Init, Pedidos, PedidoOK, Leituras, LeituraOK
<1> QED BY <1>1, <1>2, <1>3 DEF IInv

LEMMA createUserOK ==
    ASSUME IInv, NEW u \in Users, NEW e \in Emails, NEW s \in BOOLEAN, NEW a \in BOOLEAN,
           createUser(u, e, s, a)
    PROVE  IInv'
<1> DEFINE status == IF ~a THEN "DISABLED" ELSE IF s THEN "ACTIVE" ELSE "PENDING"
           link == status = "PENDING"
           t == IF link THEN emitidos + 1 ELSE Null
           c == [status |-> status, ativo |-> status = "ACTIVE", senha |-> s, token |-> t, email |-> e]
<1>1. emitidos \in 0..MaxTokens /\ MaxTokens \in Nat /\ provider \in [Users -> Provedor]
      BY AccountsAssumption DEF IInv, TypeOK
<1>2. /\ ~Existe(u) /\ Escreve(u, c)
      /\ link => emitidos < MaxTokens
      /\ emitidos' = IF link THEN emitidos + 1 ELSE emitidos
      /\ UNCHANGED <<provider, req>>
      BY DEF createUser
<1>3. emitidos' \in 0..MaxTokens
      BY <1>1, <1>2
<1>4. t \in Tokens \cup {Null} /\ (link => t \in Tokens)
      BY <1>1, <1>2 DEF Tokens
<1>5. status \in {"PENDING", "ACTIVE", "DISABLED"} /\ (status = "ACTIVE" => s)
      OBVIOUS
<1> HIDE DEF status, t
<1>6. c \in Conta /\ c # Ausente
      BY <1>4, <1>5, ContaFeita
<1>7. c.status = status /\ c.senha = s
      OBVIOUS
<1> HIDE DEF c
<1> QED BY <1>1, <1>2, <1>3, <1>5, <1>6, <1>7, Escrita

LEMMA deleteUserOK ==
    ASSUME IInv, NEW u \in Users, deleteUser(u)
    PROVE  IInv'
<1> DEFINE c == [user[u] EXCEPT !.ativo = FALSE, !.status = "DISABLED"]
<1>1. user[u] \in Conta /\ user[u] # Ausente /\ emitidos \in 0..MaxTokens
      /\ provider \in [Users -> Provedor]
      BY DEF deleteUser, Existe, IInv, TypeOK
<1>2. Escreve(u, c) /\ UNCHANGED <<provider, emitidos, req>>
      BY DEF deleteUser
<1>3. c \in Conta /\ c # Ausente /\ c.senha = user[u].senha /\ c.status = "DISABLED"
      BY <1>1, DesativadaOK
<1> HIDE DEF c
<1> QED BY <1>1, <1>2, <1>3, Escrita

LEMMA regenerateActivationLinkOK ==
    ASSUME IInv, NEW r \in Requests, NEW u \in Users, regenerateActivationLink(r, u)
    PROVE  IInv'
<1> DEFINE p == [pc |-> "gravarToken", user |-> u]
<1>1. p \in Pedido /\ p.pc = "gravarToken" /\ p.user = u
      BY DEF Pedido, PedidoSimples
<1>2. /\ Existe(u) /\ Segue(r, p) /\ atropelado' = [atropelado EXCEPT ![r] = FALSE]
      /\ UNCHANGED <<user, provider, emitidos>>
      BY DEF regenerateActivationLink, Comeca
<1> HIDE DEF p
<1>3. req'[r] = p
      BY <1>2 DEF Segue, IInv, TypeOK
<1>4. PedidoOK(r)' /\ LeituraOK(r)'
      BY <1>1, <1>2, <1>3 DEF PedidoOK, LeituraOK, Existe
<1> QED BY <1>1, <1>2, <1>4, Leitura

LEMMA gravarTokenOK ==
    ASSUME IInv, NEW r \in Requests, gravarToken(r)
    PROVE  IInv'
<1>1. req[r] \in Pedido /\ req[r].pc = "gravarToken" /\ PedidoOK(r) /\ emitidos \in 0..MaxTokens
      /\ provider \in [Users -> Provedor]
      BY DEF gravarToken, IInv, TypeOK, Pedidos
<1>2. PICK u \in Users : u = req[r].user
      BY <1>1, PedidoPorPc DEF Livre
<1> DEFINE c == [user[u] EXCEPT !.token = emitidos + 1]
<1>3. user[u] \in Conta /\ user[u] # Ausente
      BY <1>1, <1>2 DEF PedidoOK, Existe, IInv, TypeOK, Livre
<1>4. /\ Escreve(u, c) /\ emitidos < MaxTokens /\ emitidos' = emitidos + 1 /\ Termina(r)
      /\ UNCHANGED provider
      BY <1>2 DEF gravarToken
<1>5. emitidos + 1 \in Tokens /\ emitidos' \in 0..MaxTokens
      BY <1>1, <1>4, AccountsAssumption DEF Tokens
<1>6. c \in Conta /\ c # Ausente /\ c.senha = user[u].senha /\ c.status = user[u].status
      BY <1>3, <1>5, ComTokenOK
<1>7. user[u].status = "ACTIVE" => user[u].senha \/ Vinculado(u)
      BY <1>2, <1>3, ContaExistente DEF IInv, WayIn, Ativo, Existe
<1>8. Vinculado(u)' = Vinculado(u)
      BY <1>4 DEF Vinculado
<1> HIDE DEF c
<1> QED BY <1>1, <1>2, <1>4, <1>5, <1>6, <1>7, <1>8, Escrita

LEMMA activateWithPasswordOK ==
    ASSUME IInv, NEW r \in Requests, NEW t \in Tokens, activateWithPassword(r, t)
    PROVE  IInv'
<1>1. PICK u \in PorLink(t) : Comeca(r, [pc |-> "gravarSenha", user |-> u, token |-> t])
      BY DEF activateWithPassword
<1> DEFINE p == [pc |-> "gravarSenha", user |-> u, token |-> t]
<1>2. /\ u \in Users /\ Existe(u) /\ user[u].status = "PENDING" /\ user[u].token = t
      /\ UNCHANGED <<user, provider, emitidos>>
      BY DEF PorLink, activateWithPassword
<1>3. p \in Pedido /\ p.pc = "gravarSenha" /\ p.user = u /\ p.token = t
      BY <1>2 DEF Pedido, PedidoDeSenha
<1>4. Segue(r, p) /\ atropelado' = [atropelado EXCEPT ![r] = FALSE]
      BY <1>1 DEF Comeca
<1> HIDE DEF p
<1>5. req'[r] = p
      BY <1>4 DEF Segue, IInv, TypeOK
<1>6. PedidoOK(r)' /\ LeituraOK(r)'
      BY <1>2, <1>3, <1>5 DEF PedidoOK, LeituraOK, PeloLink, Existe
<1> QED BY <1>2, <1>3, <1>4, <1>6, Leitura

LEMMA gravarSenhaOK ==
    ASSUME IInv, NEW r \in Requests, gravarSenha(r)
    PROVE  IInv'
<1> DEFINE u == req[r].user
           a == Ativada(user[u])
           c == [a EXCEPT !.senha = TRUE]
<1>1. req[r] \in Pedido /\ req[r].pc = "gravarSenha" /\ PedidoOK(r) /\ emitidos \in 0..MaxTokens
      /\ provider \in [Users -> Provedor]
      BY DEF gravarSenha, IInv, TypeOK, Pedidos
<1>2. u \in Users /\ req[r] # Livre
      BY <1>1, PedidoPorPc
<1>3. user[u] \in Conta /\ user[u] # Ausente
      BY <1>1, <1>2 DEF PedidoOK, Existe, IInv, TypeOK
<1>4. Escreve(u, c) /\ Termina(r) /\ UNCHANGED <<provider, emitidos>>
      BY DEF gravarSenha
<1>5. a \in Conta /\ a # Ausente
      BY <1>3, AtivadaOK
<1> HIDE DEF a
<1>6. c \in Conta /\ c # Ausente /\ c.senha
      BY <1>5, ComSenhaOK
<1> HIDE DEF c, u
<1> QED BY <1>1, <1>2, <1>4, <1>6, Escrita

LEMMA changePasswordOK ==
    ASSUME IInv, NEW r \in Requests, NEW u \in Users, changePassword(r, u)
    PROVE  IInv'
<1> DEFINE p == [pc |-> "gravarNovaSenha", user |-> u]
<1>1. p \in Pedido /\ p.pc = "gravarNovaSenha" /\ p.user = u
      BY DEF Pedido, PedidoSimples
<1>2. /\ Existe(u) /\ Segue(r, p) /\ atropelado' = [atropelado EXCEPT ![r] = FALSE]
      /\ UNCHANGED <<user, provider, emitidos>>
      BY DEF changePassword, Comeca, Ativo
<1> HIDE DEF p
<1>3. req'[r] = p
      BY <1>2 DEF Segue, IInv, TypeOK
<1>4. PedidoOK(r)' /\ LeituraOK(r)'
      BY <1>1, <1>2, <1>3 DEF PedidoOK, LeituraOK, Existe
<1> QED BY <1>1, <1>2, <1>4, Leitura

LEMMA gravarNovaSenhaOK ==
    ASSUME IInv, NEW r \in Requests, gravarNovaSenha(r)
    PROVE  IInv'
<1> DEFINE u == req[r].user
           c == [user[u] EXCEPT !.senha = TRUE]
<1>1. req[r] \in Pedido /\ req[r].pc = "gravarNovaSenha" /\ PedidoOK(r) /\ emitidos \in 0..MaxTokens
      /\ provider \in [Users -> Provedor]
      BY DEF gravarNovaSenha, IInv, TypeOK, Pedidos
<1>2. u \in Users /\ req[r] # Livre
      BY <1>1, PedidoPorPc
<1>3. user[u] \in Conta /\ user[u] # Ausente
      BY <1>1, <1>2 DEF PedidoOK, Existe, IInv, TypeOK
<1>4. Escreve(u, c) /\ Termina(r) /\ UNCHANGED <<provider, emitidos>>
      BY DEF gravarNovaSenha
<1>5. c \in Conta /\ c # Ausente /\ c.senha
      BY <1>3, ComSenhaOK
<1> HIDE DEF c, u
<1> QED BY <1>1, <1>2, <1>4, <1>5, Escrita

-----------------------------------------------------------------------------
\* Steps of Google.
LEMMA handleGoogleCallbackOK ==
    ASSUME IInv, NEW r \in Requests, NEW g \in Emails, handleGoogleCallback(r, g)
    PROVE  IInv'
<1>1. PICK u \in Users :
          /\ Ativo(u)
          /\ Comeca(r, [pc |-> "usuario", user |-> u, conta |-> g, token |-> Null, achado |-> FALSE])
      BY DEF handleGoogleCallback
<1> DEFINE p == [pc |-> "usuario", user |-> u, conta |-> g, token |-> Null, achado |-> FALSE]
<1>2. p \in Pedido /\ p.pc = "usuario" /\ p.user = u /\ p.token = Null
      BY DEF Pedido, PedidoDeVinculo
<1>3. /\ Existe(u) /\ Segue(r, p) /\ atropelado' = [atropelado EXCEPT ![r] = FALSE]
      /\ UNCHANGED <<user, provider, emitidos>>
      BY <1>1 DEF handleGoogleCallback, Comeca, Ativo
<1> HIDE DEF p
<1>4. req'[r] = p
      BY <1>3 DEF Segue, IInv, TypeOK
<1>5. PedidoOK(r)' /\ LeituraOK(r)'
      BY <1>2, <1>3, <1>4 DEF PedidoOK, LeituraOK, Existe
<1> QED BY <1>2, <1>3, <1>5, Leitura

\* A request that ends on what it has read.
LEMMA TerminaOK ==
    ASSUME IInv, NEW r \in Requests, Termina(r), UNCHANGED <<user, provider, emitidos>>,
           \/ atropelado' = atropelado
           \/ atropelado' = [atropelado EXCEPT ![r] = FALSE]
    PROVE  IInv'
<1>1. Segue(r, Livre) /\ Livre \in Pedido
      BY DEF Termina, Pedido
<1>2. req'[r] = Livre
      BY <1>1 DEF Segue, IInv, TypeOK
<1>3. PedidoOK(r)' /\ LeituraOK(r)'
      BY <1>2 DEF PedidoOK, LeituraOK
<1> QED BY <1>1, <1>3, Leitura

LEMMA confirmPendingLinkOK ==
    ASSUME IInv, NEW r \in Requests, confirmPendingLink(r)
    PROVE  IInv'
<1>1. req[r] \in Pedido /\ req[r].pc = "usuario" /\ PedidoOK(r) /\ req[r] # Livre
      BY DEF confirmPendingLink, IInv, TypeOK, Pedidos, Livre
<1>2. /\ UNCHANGED <<user, provider, emitidos>>
      /\ atropelado' = [atropelado EXCEPT ![r] = FALSE]
      BY DEF confirmPendingLink
<1>3. CASE Termina(r)
      BY <1>2, <1>3, TerminaOK
<1>4. CASE ~Termina(r)
  <2> DEFINE p == [req[r] EXCEPT !.pc = "vinculo"]
  <2>1. Segue(r, p) /\ user[req[r].user].email = req[r].conta
        BY <1>4 DEF confirmPendingLink
  <2>2. req[r] \in PedidoDeVinculo /\ req[r].token = Null
        BY <1>1, PedidoPorPc DEF PedidoOK
  <2>3. /\ p \in PedidoDeVinculo /\ p.pc = "vinculo" /\ p.user = req[r].user
        /\ p.token = Null /\ p.conta = req[r].conta
        BY <2>2 DEF PedidoDeVinculo
  <2> HIDE DEF p
  <2>4. p \in Pedido
        BY <2>3 DEF Pedido
  <2>5. req'[r] = p
        BY <2>1 DEF Segue, IInv, TypeOK
  <2>6. PedidoOK(r)'
        BY <1>1, <1>2, <2>3, <2>5 DEF PedidoOK, Existe
  <2>7. LeituraOK(r)'
        BY <1>2, <2>1, <2>3, <2>5 DEF LeituraOK
  <2> QED BY <1>2, <2>1, <2>4, <2>6, <2>7, Leitura
<1> QED BY <1>3, <1>4

LEMMA activatePendingUserWithGoogleOK ==
    ASSUME IInv, NEW r \in Requests, NEW t \in Tokens, NEW g \in Emails,
           activatePendingUserWithGoogle(r, t, g)
    PROVE  IInv'
<1>1. PICK u \in PorLink(t) :
          /\ user[u].email = g
          /\ Comeca(r, [pc |-> "vinculo", user |-> u, conta |-> g, token |-> t, achado |-> FALSE])
      BY DEF activatePendingUserWithGoogle
<1> DEFINE p == [pc |-> "vinculo", user |-> u, conta |-> g, token |-> t, achado |-> FALSE]
<1>2. /\ u \in Users /\ Existe(u) /\ user[u].status = "PENDING" /\ user[u].token = t
      /\ UNCHANGED <<user, provider, emitidos>>
      BY DEF PorLink, activatePendingUserWithGoogle
<1>3. p \in Pedido /\ p.pc = "vinculo" /\ p.user = u /\ p.token = t /\ p.conta = g
      BY <1>2 DEF Pedido, PedidoDeVinculo
<1>4. Segue(r, p) /\ atropelado' = [atropelado EXCEPT ![r] = FALSE]
      BY <1>1 DEF Comeca
<1> HIDE DEF p
<1>5. req'[r] = p
      BY <1>4 DEF Segue, IInv, TypeOK
<1>6. PedidoOK(r)' /\ LeituraOK(r)'
      BY <1>1, <1>2, <1>3, <1>5 DEF PedidoOK, LeituraOK, PeloLink, Existe
<1> QED BY <1>2, <1>3, <1>4, <1>6, Leitura

\* The two reads of the rows of providers, which go on or end.
LEMMA ProsseguirOK ==
    ASSUME IInv, NEW r \in Requests, req[r].pc \in {"vinculo", "provedor"},
           NEW passo \in {"provedor", "gravarVinculo"}, NEW b \in BOOLEAN,
           Segue(r, [req[r] EXCEPT !.pc = passo, !.achado = b]),
           UNCHANGED <<user, provider, emitidos, atropelado>>
    PROVE  IInv'
<1> DEFINE p == [req[r] EXCEPT !.pc = passo, !.achado = b]
<1>1. req[r] \in Pedido /\ PedidoOK(r) /\ LeituraOK(r) /\ req[r] # Livre
      BY DEF IInv, TypeOK, Pedidos, Leituras, Livre
<1>2. req[r] \in PedidoDeVinculo
      BY <1>1, PedidoPorPc
<1>3. /\ p \in PedidoDeVinculo /\ p.pc = passo /\ p.user = req[r].user
      /\ p.token = req[r].token /\ p.conta = req[r].conta
      BY <1>2 DEF PedidoDeVinculo
<1> HIDE DEF p
<1>4. p \in Pedido
      BY <1>3 DEF Pedido
<1>5. Segue(r, p) /\ req'[r] = p
      BY DEF p, Segue, IInv, TypeOK
<1>6. PedidoOK(r)'
      BY <1>1, <1>3, <1>5 DEF PedidoOK, Existe
<1>7. LeituraOK(r)'
      BY <1>1, <1>3, <1>5 DEF LeituraOK, PeloLink
<1> QED BY <1>4, <1>5, <1>6, <1>7, Leitura

LEMMA lerVinculoOK ==
    ASSUME IInv, NEW r \in Requests, lerVinculo(r)
    PROVE  IInv'
<1>1. CASE Termina(r)
      BY <1>1, TerminaOK DEF lerVinculo
<1>2. CASE ~Termina(r)
      BY <1>2, ProsseguirOK DEF lerVinculo
<1> QED BY <1>1, <1>2

LEMMA lerProvedorOK ==
    ASSUME IInv, NEW r \in Requests, lerProvedor(r)
    PROVE  IInv'
<1>1. CASE Termina(r)
      BY <1>1, TerminaOK DEF lerProvedor
<1>2. CASE ~Termina(r)
      BY <1>2, ProsseguirOK DEF lerProvedor
<1> QED BY <1>1, <1>2

LEMMA gravarVinculoOK ==
    ASSUME IInv, NEW r \in Requests, gravarVinculo(r)
    PROVE  IInv'
<1>1. /\ req[r] \in Pedido /\ req[r].pc = "gravarVinculo" /\ PedidoOK(r) /\ req[r] # Livre
      /\ emitidos \in 0..MaxTokens /\ user \in [Users -> Conta] /\ provider \in [Users -> Provedor]
      BY DEF gravarVinculo, IInv, TypeOK, Pedidos, Livre
<1>2. PICK u \in Users : u = req[r].user
      BY <1>1, PedidoPorPc
<1>3. req[r].conta \in Emails
      BY <1>1, PedidoPorPc DEF PedidoDeVinculo
<1>4. user[u] \in Conta /\ user[u] # Ausente
      BY <1>1, <1>2 DEF PedidoOK, Existe
<1>5. Termina(r) /\ UNCHANGED emitidos
      BY DEF gravarVinculo
<1>6. CASE UNCHANGED <<user, provider, atropelado>>
      BY <1>5, <1>6, TerminaOK
<1>7. CASE ~UNCHANGED <<user, provider, atropelado>>
  <2> DEFINE p == [estado |-> "ativo", conta |-> req[r].conta]
  <2>1. /\ provider' = [provider EXCEPT ![u] = p]
        /\ UNCHANGED <<user, atropelado>> \/ Escreve(u, Ativada(user[u]))
        BY <1>2, <1>7 DEF gravarVinculo
  <2>2. p \in Provedor /\ p.estado = "ativo"
        BY <1>3 DEF Provedor
  <2> HIDE DEF p
  <2>3. /\ provider' \in [Users -> Provedor] /\ provider'[u].estado = "ativo"
        /\ \A v \in Users : provider'[v] = provider[v] \/ provider'[v].estado = "ativo"
        BY <1>1, <2>1, <2>2
  <2>4. CASE Escreve(u, Ativada(user[u]))
    <3>1. /\ Ativada(user[u]) \in Conta /\ Ativada(user[u]) # Ausente
          /\ Ativada(user[u]).senha = user[u].senha
          BY <1>4, AtivadaOK
    <3>2. Vinculado(u)'
          BY <2>3 DEF Vinculado
    <3> QED BY <1>1, <1>5, <2>3, <2>4, <3>1, <3>2, Escrita
  <2>5. CASE UNCHANGED <<user, atropelado>>
    <3>1. Escreve(u, user[u])
          BY <1>1, <2>5 DEF Escreve, IInv, TypeOK
    <3>2. Vinculado(u)'
          BY <2>3 DEF Vinculado
    <3> QED BY <1>1, <1>4, <1>5, <2>3, <3>1, <3>2, Escrita
  <2> QED BY <2>1, <2>4, <2>5
<1> QED BY <1>6, <1>7

LEMMA unlinkProviderOK ==
    ASSUME IInv, NEW r \in Requests, NEW u \in Users, unlinkProvider(r, u)
    PROVE  IInv'
<1> DEFINE p == [pc |-> "gravarDesvinculo", user |-> u]
<1>1. p \in Pedido /\ p.pc = "gravarDesvinculo" /\ p.user = u
      BY DEF Pedido, PedidoSimples
<1>2. /\ Existe(u) /\ user[u].senha /\ Vinculado(u)
      /\ Segue(r, p) /\ atropelado' = [atropelado EXCEPT ![r] = FALSE]
      /\ UNCHANGED <<user, provider, emitidos>>
      BY DEF unlinkProvider, Comeca, Ativo
<1> HIDE DEF p
<1>3. provider[u] # SemProvedor
      BY <1>2 DEF Vinculado, SemProvedor
<1>4. req'[r] = p
      BY <1>2 DEF Segue, IInv, TypeOK
<1>5. PedidoOK(r)' /\ LeituraOK(r)'
      BY <1>1, <1>2, <1>3, <1>4 DEF PedidoOK, LeituraOK, Existe
<1> QED BY <1>1, <1>2, <1>5, Leitura

\* The account that loses its provider has a password.
LEMMA gravarDesvinculoOK ==
    ASSUME IInv, NEW r \in Requests, gravarDesvinculo(r)
    PROVE  IInv'
<1>1. /\ req[r] \in Pedido /\ req[r].pc = "gravarDesvinculo" /\ PedidoOK(r) /\ req[r] # Livre
      /\ provider \in [Users -> Provedor] /\ req \in [Requests -> Pedido]
      BY DEF gravarDesvinculo, IInv, TypeOK, Pedidos, Livre
<1>2. PICK u \in Users : u = req[r].user
      BY <1>1, PedidoPorPc
<1>3. user[u].senha /\ provider[u] # SemProvedor
      BY <1>1, <1>2 DEF PedidoOK
<1> DEFINE p == [provider[u] EXCEPT !.estado = "revogado"]
<1>4. provider[u] \in [estado : {"ativo", "revogado"}, conta : Emails]
      BY <1>1, <1>3 DEF Provedor
<1>5. p \in Provedor /\ p # SemProvedor
      BY <1>4 DEF Provedor, SemProvedor
<1>6. /\ provider' = [provider EXCEPT ![u] = p] /\ UNCHANGED <<user, emitidos, atropelado>>
      /\ Termina(r)
      BY <1>2 DEF gravarDesvinculo
<1> HIDE DEF p
<1>7. req' \in [Requests -> Pedido] /\ \A q \in Requests : req'[q] = req[q] \/ req'[q] = Livre
      BY <1>1, <1>6 DEF Termina, Segue, Pedido
<1>8. provider' \in [Users -> Provedor] /\ \A v \in Users \ {u} : provider'[v] = provider[v]
      BY <1>1, <1>5, <1>6
<1>9. TypeOK'
      BY <1>6, <1>7, <1>8 DEF IInv, TypeOK
<1>10. WayIn'
       BY <1>3, <1>6, <1>8 DEF IInv, WayIn, Ativo, Existe, Vinculado
<1>11. \A v \in Users : provider[v] # SemProvedor => provider'[v] # SemProvedor
       BY <1>1, <1>5, <1>6
<1>12. \A v \in Users : Existe(v) => Existe(v)' /\ (user[v].senha => user'[v].senha)
       BY <1>6 DEF Existe
<1>13. \A v \in Users : Acesso(v) => Acesso(v)'
       BY <1>3, <1>6, <1>8 DEF Acesso, Vinculado
<1>14. \A q \in Requests : atropelado'[q] = atropelado[q] /\ user'[req[q].user] = user[req[q].user]
       BY <1>6
<1> QED BY <1>7, <1>9, <1>10, <1>11, <1>12, <1>13, <1>14, Gravacao

-----------------------------------------------------------------------------
\* Steps of the administrator.
LEMMA updateUserOK ==
    ASSUME IInv, NEW r \in Requests, NEW u \in Users, NEW dto \in Formularios, updateUser(r, u, dto)
    PROVE  IInv'
<1> DEFINE l == dto.ativo = "sim" /\ user[u].status = "PENDING"
           p == [pc |-> "gravarUsuario", user |-> u, dto |-> dto, limpa |-> l]
<1>1. dto \in Formulario
      BY AccountsAssumption
<1>2. p \in Pedido /\ p.pc = "gravarUsuario" /\ p.user = u /\ p.dto = dto /\ p.limpa = l
      BY <1>1 DEF Pedido, PedidoDeAdmin
<1>3. /\ Existe(u)
      /\ dto.ativo = "sim" => dto.senha \/ Acesso(u)
      /\ Segue(r, p) /\ atropelado' = [atropelado EXCEPT ![r] = FALSE]
      /\ UNCHANGED <<user, provider, emitidos>>
      BY DEF updateUser, Comeca, Acesso
<1>4. l => dto.ativo = "sim"
      OBVIOUS
<1> HIDE DEF p, l
<1>5. req'[r] = p
      BY <1>3 DEF Segue, IInv, TypeOK
<1>6. PedidoOK(r)' /\ LeituraOK(r)'
      BY <1>2, <1>3, <1>4, <1>5 DEF PedidoOK, LeituraOK, Existe, Acesso, Vinculado
<1> QED BY <1>2, <1>3, <1>6, Leitura

LEMMA gravarUsuarioOK ==
    ASSUME IInv, NEW r \in Requests, gravarUsuario(r)
    PROVE  IInv'
<1>1. /\ req[r] \in Pedido /\ req[r].pc = "gravarUsuario" /\ PedidoOK(r) /\ req[r] # Livre
      /\ emitidos \in 0..MaxTokens /\ user \in [Users -> Conta] /\ provider \in [Users -> Provedor]
      BY DEF gravarUsuario, IInv, TypeOK, Pedidos, Livre
<1>2. PICK u \in Users : u = req[r].user
      BY <1>1, PedidoPorPc
<1>3. PICK dto \in Formulario, limpa \in BOOLEAN : dto = req[r].dto /\ limpa = req[r].limpa
      BY <1>1, PedidoPorPc DEF PedidoDeAdmin
<1>4. user[u] \in Conta /\ user[u] # Ausente
      BY <1>1, <1>2 DEF PedidoOK, Existe
<1>5. Termina(r) /\ UNCHANGED <<provider, emitidos>>
      BY DEF gravarUsuario
<1>6. CASE UNCHANGED <<user, atropelado>>
      BY <1>5, <1>6, TerminaOK
<1>7. CASE ~UNCHANGED <<user, atropelado>>
  <2> DEFINE c == Atualizada(user[u], dto, limpa)
  <2>1. Escreve(u, c)
        BY <1>2, <1>3, <1>7 DEF gravarUsuario
  <2>2. /\ limpa => dto.ativo = "sim"
        /\ dto.ativo = "sim" => dto.senha \/ Acesso(u)
        BY <1>1, <1>2, <1>3 DEF PedidoOK
  <2>3. /\ c \in Conta /\ c # Ausente
        /\ c.senha = (user[u].senha \/ dto.senha)
        /\ c.status = "ACTIVE" => dto.ativo = "sim" \/ (dto.ativo = "omitido" /\ user[u].status = "ACTIVE")
        BY <1>4, <2>2, AtualizadaOK
  <2>4. user[u].status = "ACTIVE" => user[u].senha \/ Vinculado(u)
        BY <1>4, ContaExistente DEF IInv, WayIn, Ativo, Existe
  <2>5. Vinculado(u)' = Vinculado(u)
        BY <1>5 DEF Vinculado
  <2> HIDE DEF c
  <2>6. c.status = "ACTIVE" => c.senha \/ Vinculado(u)'
        BY <2>2, <2>3, <2>4, <2>5 DEF Acesso
  <2> QED BY <1>1, <1>5, <2>1, <2>3, <2>6, Escrita
<1> QED BY <1>6, <1>7

-----------------------------------------------------------------------------
\* Every handler keeps the invariant.
LEMMA PassoOK ==
    ASSUME IInv, [Next]_vars
    PROVE  IInv'
<1>1. ASSUME NEW r \in Requests, Activation(r)
      PROVE  IInv'
      BY <1>1, regenerateActivationLinkOK, gravarTokenOK, activateWithPasswordOK, gravarSenhaOK,
         activatePendingUserWithGoogleOK DEF Activation
<1>2. ASSUME NEW r \in Requests, Google(r)
      PROVE  IInv'
      BY <1>2, handleGoogleCallbackOK, confirmPendingLinkOK, lerVinculoOK, lerProvedorOK,
         gravarVinculoOK, unlinkProviderOK, gravarDesvinculoOK DEF Google
<1>3. ASSUME NEW r \in Requests, Password(r)
      PROVE  IInv'
      BY <1>3, changePasswordOK, gravarNovaSenhaOK DEF Password
<1>4. ASSUME NEW r \in Requests, Admin(r)
      PROVE  IInv'
      BY <1>4, updateUserOK, gravarUsuarioOK DEF Admin
<1>5. ASSUME NEW r \in Requests, recusar(r)
      PROVE  IInv'
      BY <1>5, TerminaOK DEF recusar
<1>6. CASE Tables
      BY <1>6, createUserOK, deleteUserOK DEF Tables
<1>7. CASE UNCHANGED vars
      BY <1>7 DEF vars, IInv, TypeOK, WayIn, Pedidos, PedidoOK, Leituras, LeituraOK, PeloLink,
                  Ativo, Existe, Vinculado, Acesso
<1> QED BY <1>1, <1>2, <1>3, <1>4, <1>5, <1>6, <1>7 DEF Next

\* The strengthening of WayIn, with what every request may still rely on, holds
\* of every state the handlers can reach.
THEOREM Invariante == Spec => []IInv
<1>1. Init => IInv
      BY InicioOK
<1>2. IInv /\ [Next]_vars => IInv'
      BY PassoOK
<1> QED BY <1>1, <1>2, PTL DEF Spec

\* The tables, the requests in progress and the history keep their types: no
\* interleaving leaves an account whose status and flag disagree, or a pending
\* one with no link.
THEOREM TypeCorrect == Spec => []TypeOK
<1>1. IInv => TypeOK
      BY DEF IInv
<1> QED BY <1>1, Invariante, PTL

\* Whatever interleaves, an active account has a password or is linked to
\* Google (the checks of unlinkProvider and updateUser).
THEOREM ActiveAccountsHaveAWayIn == Spec => []WayIn
<1>1. IInv => WayIn
      BY DEF IInv
<1> QED BY <1>1, Invariante, PTL

-----------------------------------------------------------------------------
\* What a step writes: the accounts but one are as they were.
LEMMA EscritaUma ==
    ASSUME TypeOK, NEW u \in Users, NEW v \in Users, NEW c, Escreve(v, c), user'[u] # user[u]
    PROVE  u = v
  BY DEF Escreve, TypeOK

\* The steps that make an existing account active.
LEMMA AtivacaoPeloLink ==
    ASSUME IInv, [Next]_vars, NEW u \in Users, Existe(u), ~Ativo(u), Ativo(u)'
    PROVE  \E r \in Requests :
             /\ Conclui(r, u)
             /\ \/ req[r].pc = "gravarUsuario"
                \/ atropelado[r]
                \/ (user[u].status = "PENDING" /\ user[u].token = req[r].token)
<1> DEFINE Certo(r) == /\ Conclui(r, u)
                       /\ \/ req[r].pc = "gravarUsuario"
                          \/ atropelado[r]
                          \/ (user[u].status = "PENDING" /\ user[u].token = req[r].token)
<1>1. /\ user \in [Users -> Conta] /\ req \in [Requests -> Pedido] /\ TypeOK
      /\ user[u] \in Conta /\ user[u] # Ausente /\ user[u].status # "ACTIVE"
      BY ContaExistente DEF IInv, TypeOK, Existe, Ativo
<1>2. user'[u] # user[u] /\ user'[u].status = "ACTIVE" /\ ~UNCHANGED user
      BY DEF Ativo, Existe
<1>3. ASSUME NEW r \in Requests
      PROVE  /\ Termina(r) => req'[r] = Livre
             /\ req[r].pc # "livre" => req[r] # Livre /\ req[r].user \in Users
             /\ PedidoOK(r) /\ LeituraOK(r)
      BY <1>1, PedidoPorPc DEF Termina, Segue, IInv, Pedidos, Leituras, Livre
<1>4. ASSUME NEW r \in Requests, gravarToken(r)
      PROVE  FALSE
  <2>1. u = req[r].user
        BY <1>1, <1>2, <1>3, <1>4, EscritaUma DEF gravarToken
  <2>2. user'[u] = [user[u] EXCEPT !.token = emitidos + 1]
        BY <1>1, <2>1, <1>4 DEF gravarToken, Escreve
  <2> QED BY <1>1, <1>2, <2>2, ContaExistente
<1>5. ASSUME NEW r \in Requests, gravarSenha(r)
      PROVE  Certo(r)
  <2>1. u = req[r].user /\ req[r] # Livre
        BY <1>1, <1>2, <1>3, <1>5, EscritaUma DEF gravarSenha
  <2>2. Conclui(r, u)
        BY <2>1, <1>3, <1>5 DEF gravarSenha, Conclui
  <2> QED BY <2>1, <2>2, <1>3, <1>5 DEF gravarSenha, LeituraOK, PeloLink
<1>6. ASSUME NEW r \in Requests, gravarNovaSenha(r)
      PROVE  FALSE
  <2>1. u = req[r].user
        BY <1>1, <1>2, <1>3, <1>6, EscritaUma DEF gravarNovaSenha
  <2>2. user'[u] = [user[u] EXCEPT !.senha = TRUE]
        BY <1>1, <2>1, <1>6 DEF gravarNovaSenha, Escreve
  <2> QED BY <1>1, <1>2, <2>2, ComSenhaOK
<1>7. ASSUME NEW r \in Requests, gravarVinculo(r)
      PROVE  Certo(r)
  <2>1. Escreve(req[r].user, Ativada(user[req[r].user])) /\ req[r].token # Null
        BY <1>2, <1>7 DEF gravarVinculo
  <2>2. u = req[r].user /\ req[r] # Livre
        BY <1>1, <1>2, <1>3, <1>7, <2>1, EscritaUma DEF gravarVinculo
  <2>3. Conclui(r, u)
        BY <2>2, <1>3, <1>7 DEF gravarVinculo, Conclui
  <2> QED BY <2>1, <2>2, <2>3, <1>3, <1>7 DEF gravarVinculo, LeituraOK, PeloLink
<1>8. ASSUME NEW r \in Requests, gravarUsuario(r)
      PROVE  Certo(r)
  <2>1. \E c : Escreve(req[r].user, c)
        BY <1>2, <1>8 DEF gravarUsuario
  <2>2. u = req[r].user /\ req[r] # Livre
        BY <1>1, <1>2, <1>3, <1>8, <2>1, EscritaUma DEF gravarUsuario
  <2>3. Conclui(r, u)
        BY <2>2, <1>3, <1>8 DEF gravarUsuario, Conclui
  <2> QED BY <2>3, <1>8 DEF gravarUsuario
<1>9. ASSUME NEW v \in Users, deleteUser(v)
      PROVE  FALSE
  <2>1. u = v
        BY <1>1, <1>2, <1>9, EscritaUma DEF deleteUser
  <2>2. user'[u] = [user[u] EXCEPT !.ativo = FALSE, !.status = "DISABLED"]
        BY <1>1, <2>1, <1>9 DEF deleteUser, Escreve
  <2> QED BY <1>1, <1>2, <2>2, DesativadaOK
<1>10. ASSUME NEW v \in Users, NEW e \in Emails, NEW s \in BOOLEAN, NEW a \in BOOLEAN,
              createUser(v, e, s, a)
       PROVE  FALSE
       BY <1>1, <1>2, <1>10, EscritaUma DEF createUser, Existe
<1> HIDE DEF Certo
<1>11. \E r \in Requests : Certo(r)
  <2>1. ASSUME NEW r \in Requests, Activation(r)
        PROVE  Certo(r)
        BY <2>1, <1>2, <1>4, <1>5 DEF Activation, regenerateActivationLink, activateWithPassword,
           activatePendingUserWithGoogle
  <2>2. ASSUME NEW r \in Requests, Google(r)
        PROVE  Certo(r)
        BY <2>2, <1>2, <1>7 DEF Google, handleGoogleCallback, confirmPendingLink, lerVinculo,
           lerProvedor, unlinkProvider, gravarDesvinculo
  <2>3. ASSUME NEW r \in Requests, Password(r)
        PROVE  FALSE
        BY <2>3, <1>2, <1>6 DEF Password, changePassword
  <2>4. ASSUME NEW r \in Requests, Admin(r)
        PROVE  Certo(r)
        BY <2>4, <1>2, <1>8 DEF Admin, updateUser
  <2>5. ASSUME NEW r \in Requests, recusar(r)
        PROVE  FALSE
        BY <2>5, <1>2 DEF recusar
  <2>6. ~Tables
        BY <1>9, <1>10 DEF Tables
  <2>7. Next
        BY <1>2 DEF vars
  <2> QED BY <2>1, <2>2, <2>3, <2>4, <2>5, <2>6, <2>7 DEF Next
<1> QED BY <1>11 DEF Certo

\* A link that was used or replaced, or of an account since disabled, activates
\* nothing, unless the account was written under a request that had found it.
THEOREM ActivationIsByLiveLink == Spec => ActivationUsesLiveLink
<1>1. IInv /\ [Next]_vars =>
        [\A u \in Users : Existe(u) /\ ~Ativo(u) /\ Ativo(u)' =>
           \E r \in Requests :
             /\ Conclui(r, u)
             /\ \/ req[r].pc = "gravarUsuario"
                \/ atropelado[r]
                \/ (user[u].status = "PENDING" /\ user[u].token = req[r].token)]_vars
      BY AtivacaoPeloLink
<1> QED BY <1>1, Invariante, PTL DEF Spec, ActivationUsesLiveLink

\* The one step that links an account.
LEMMA VinculoDoEmail ==
    ASSUME IInv, [Next]_vars, NEW u \in Users, ~Vinculado(u), Vinculado(u)'
    PROVE  \/ user[u].email = provider'[u].conta
           \/ \E r \in Requests : Conclui(r, u) /\ atropelado[r]
<1>1. /\ provider \in [Users -> Provedor] /\ req \in [Requests -> Pedido]
      /\ provider'[u] # provider[u] /\ ~UNCHANGED provider
      BY DEF IInv, TypeOK, Vinculado
<1>2. ASSUME NEW r \in Requests, gravarVinculo(r)
      PROVE  \/ user[u].email = provider'[u].conta
             \/ Conclui(r, u) /\ atropelado[r]
  <2>1. LeituraOK(r) /\ req[r].pc = "gravarVinculo" /\ req[r] # Livre
        BY <1>2 DEF gravarVinculo, IInv, Leituras, Livre
  <2>2. req[r].user \in Users
        BY <1>1, <2>1, PedidoPorPc
  <2>3. /\ provider' = [provider EXCEPT ![req[r].user] = [estado |-> "ativo", conta |-> req[r].conta]]
        /\ Termina(r)
        BY <1>1, <1>2 DEF gravarVinculo
  <2>4. u = req[r].user /\ provider'[u].conta = req[r].conta
        BY <1>1, <2>2, <2>3
  <2>5. Conclui(r, u)
        BY <1>1, <2>1, <2>3, <2>4 DEF Conclui, Termina, Segue
  <2> QED BY <2>1, <2>4, <2>5 DEF LeituraOK
<1>3. ASSUME NEW r \in Requests, gravarDesvinculo(r)
      PROVE  FALSE
  <2>1. req[r].user \in Users /\ PedidoOK(r) /\ req[r] # Livre /\ req[r].pc = "gravarDesvinculo"
        BY <1>1, <1>3, PedidoPorPc DEF gravarDesvinculo, IInv, Pedidos, Livre
  <2>2. u = req[r].user
        BY <1>1, <1>3, <2>1 DEF gravarDesvinculo
  <2>3. provider[u] \in [estado : {"ativo", "revogado"}, conta : Emails]
        BY <1>1, <2>1, <2>2 DEF PedidoOK, Provedor
  <2>4. provider'[u] = [provider[u] EXCEPT !.estado = "revogado"]
        BY <1>1, <1>3, <2>2 DEF gravarDesvinculo
  <2>5. provider'[u].estado = "revogado"
        BY <2>3, <2>4
  <2> QED BY <2>5 DEF Vinculado
<1>4. Next
      BY <1>1 DEF vars
<1>5. \E r \in Requests : gravarVinculo(r)
      BY <1>1, <1>3, <1>4 DEF Next, Activation, Google, Password, Admin, Tables, recusar,
         regenerateActivationLink, gravarToken, activateWithPassword, gravarSenha,
         activatePendingUserWithGoogle, handleGoogleCallback, confirmPendingLink, lerVinculo,
         lerProvedor, unlinkProvider, changePassword, gravarNovaSenha, updateUser, gravarUsuario,
         createUser, deleteUser
<1> QED BY <1>2, <1>5

\* However late the user confirms, an account is linked to the account of
\* Google of its own e-mail, unless that changed after the last read.
THEOREM LinkIsOfTheEmail == Spec => LinkMatchesEmail
<1>1. IInv /\ [Next]_vars =>
        [\A u \in Users : ~Vinculado(u) /\ Vinculado(u)' =>
           \/ user[u].email = provider'[u].conta
           \/ \E r \in Requests : Conclui(r, u) /\ atropelado[r]]_vars
      BY VinculoDoEmail
<1> QED BY <1>1, Invariante, PTL DEF Spec, LinkMatchesEmail

-----------------------------------------------------------------------------
\* The first access.

Phones == [platform : {"safari", "android"}, installed : BOOLEAN, brand : Brands, by : Ways,
           coming : [brand : Brands, by : Ways], event : BOOLEAN, endpoint : BOOLEAN,
           permission : {"default", "granted", "denied"}, registered : BOOLEAN]
Locals == [dismissed : SUBSET Brands, brand : Brands]
Pages == [name : {"wizard", "app", "login"}, window : {"tab", "app"}, brand : Brands, standalone : BOOLEAN,
          prompt : BOOLEAN, asked : BOOLEAN, askedAs : Brands]
Wizards == [shown : BOOLEAN, step : Steps, push : Pushes, pushing : BOOLEAN, finishing : Patches \cup {NoPatch}]
MarksSet == [Steps -> {"pending", "done", "skipped"}]
ChecksSet == SUBSET [first : BOOLEAN, value : Pushes \cup {"none"}]
PatchSet == [Patches -> {"idle", "sent", "found", "done"}]

LEMMA FirstTypeIs ==
  FirstAccessTypeOK <=>
    /\ phone \in Phones /\ brandNow \in Brands /\ local \in Locals /\ completion \in [done : BOOLEAN, audits : Nat]
    /\ patch \in PatchSet /\ page \in Pages /\ wizard \in Wizards /\ marks \in MarksSet /\ checks \in ChecksSet
    /\ enabling \in {"none", "key", "post"} /\ offer \in [dismissed : BOOLEAN, notice : BOOLEAN]
    /\ turns \in 0..MaxTurns /\ outdated \in BOOLEAN /\ overlapped \in BOOLEAN
BY DEF FirstAccessTypeOK, Phones, Locals, Pages, Wizards, MarksSet, ChecksSet, PatchSet

LEMMA BrandsAre == 0 \in Brands /\ MaxBrand \in Nat /\ \A b : ManifestOf(b) \in {0, b}
BY FirstAccessAssumption DEF Brands, ManifestOf

LEMMA SpendIs == FirstAccessTypeOK /\ Spend => turns' \in 0..MaxTurns
BY FirstAccessAssumption DEF FirstAccessTypeOK, Spend

LEMMA WizardOpens ==
  ASSUME FirstAccessTypeOK, NEW window \in {"tab", "app"}, OpensWizard(window)
  PROVE  /\ page' \in Pages /\ page'.name = "wizard" /\ page'.window = window /\ page'.standalone = (window = "app")
         /\ page'.brand = 0 /\ ~page'.asked /\ ~page'.prompt /\ page'.askedAs = 0
         /\ wizard' \in Wizards /\ ~wizard'.shown /\ wizard'.pushing /\ wizard'.push = "blocked" /\ wizard'.finishing = NoPatch
         /\ marks' \in MarksSet /\ marks'["notifications"] = "pending"
         /\ marks'["install"] = "done" => phone.platform = "safari" /\ window = "app"
         /\ checks' = {Check(TRUE)} /\ checks' \in ChecksSet
         /\ enabling' = "none" /\ outdated' = FALSE /\ UNCHANGED <<local, offer>>
BY BrandsAre DEF OpensWizard, PageOf, Pages, WizardOf, Wizards, MarksOf, MarksSet, Check, ChecksSet, Steps, Pushes, StepIsOver

LEMMA AppOpens ==
  ASSUME FirstAccessTypeOK, NEW window \in {"tab", "app"}, OpensApp(window)
  PROVE  /\ page' \in Pages /\ page'.name = "app" /\ page'.window = window /\ page'.standalone = (window = "app")
         /\ page'.brand = brandNow /\ ~page'.asked /\ ~page'.prompt /\ page'.askedAs = 0
         /\ wizard' = [wizard EXCEPT !.finishing = NoPatch] /\ wizard' \in Wizards
         /\ offer' = OfferOf(window, brandNow) /\ offer' \in [dismissed : BOOLEAN, notice : BOOLEAN]
         /\ local' = LocalOf(window, brandNow) /\ local' \in Locals
         /\ checks' = {} /\ checks' \in ChecksSet /\ enabling' = "none" /\ UNCHANGED <<marks, outdated>>
<1>1. page' \in Pages /\ page'.name = "app" /\ page'.window = window /\ page'.standalone = (window = "app")
         /\ page'.brand = brandNow /\ ~page'.asked /\ ~page'.prompt /\ page'.askedAs = 0
  BY BrandsAre, FirstTypeIs DEF OpensApp, PageOf, Pages
<1>2. wizard' = [wizard EXCEPT !.finishing = NoPatch] /\ wizard' \in Wizards
  BY FirstTypeIs DEF OpensApp, Wizards
<1>3. offer' = OfferOf(window, brandNow) /\ offer' \in [dismissed : BOOLEAN, notice : BOOLEAN]
  BY DEF OpensApp, OfferOf
<1>4. local' = LocalOf(window, brandNow) /\ local' \in Locals
  BY FirstTypeIs DEF OpensApp, LocalOf, Locals
<1> QED BY <1>1, <1>2, <1>3, <1>4 DEF OpensApp, ChecksSet

LEMMA FirstTypeNext == FirstAccessTypeOK /\ [FirstAccessNext]_firstVars => FirstAccessTypeOK'
<1> SUFFICES ASSUME FirstAccessTypeOK, [FirstAccessNext]_firstVars PROVE FirstAccessTypeOK'
  OBVIOUS
<1> DEFINE TypesNext ==
    /\ phone' \in Phones /\ brandNow' \in Brands /\ local' \in Locals /\ completion' \in [done : BOOLEAN, audits : Nat]
    /\ patch' \in PatchSet /\ page' \in Pages /\ wizard' \in Wizards /\ marks' \in MarksSet /\ checks' \in ChecksSet
    /\ enabling' \in {"none", "key", "post"} /\ offer' \in [dismissed : BOOLEAN, notice : BOOLEAN]
    /\ turns' \in 0..MaxTurns /\ outdated' \in BOOLEAN /\ overlapped' \in BOOLEAN
<1>s. SUFFICES TypesNext
  BY DEF FirstAccessTypeOK, Phones, Locals, Pages, Wizards, MarksSet, ChecksSet, PatchSet
<1>t. /\ phone \in Phones /\ brandNow \in Brands /\ local \in Locals /\ completion \in [done : BOOLEAN, audits : Nat]
      /\ patch \in PatchSet /\ page \in Pages /\ wizard \in Wizards /\ marks \in MarksSet /\ checks \in ChecksSet
      /\ enabling \in {"none", "key", "post"} /\ offer \in [dismissed : BOOLEAN, notice : BOOLEAN]
      /\ turns \in 0..MaxTurns /\ outdated \in BOOLEAN /\ overlapped \in BOOLEAN
  BY FirstTypeIs
<1> USE DEF firstVars, serverVars, wizardVars
<1>1. ASSUME NEW name \in {"wizard", "app"}, NEW window \in {"tab", "app"}, visit(name, window) PROVE TypesNext
  <2>1. patch' \in PatchSet
    BY <1>1, <1>t DEF visit, Forgotten, PatchSet
  <2> QED BY <1>1, <1>t, <2>1, SpendIs, WizardOpens, AppOpens DEF visit
<1>2. CASE userRead
  <2>1. page.window \in {"tab", "app"}
    BY <1>t DEF Pages
  <2>2. CASE completion.done
    BY <1>2, <1>t, <2>1, <2>2, AppOpens DEF userRead
  <2>3. CASE ~completion.done
    BY <1>2, <1>t, <2>3 DEF userRead, Wizards
  <2> QED BY <2>2, <2>3
<1>3. CASE userNotRead
  <2>1. page' \in Pages /\ checks' \in ChecksSet
    BY <1>3, <1>t, BrandsAre DEF userNotRead, PageOf, Pages, ChecksSet
  <2> QED BY <1>3, <1>t, <2>1, SpendIs DEF userNotRead
<1>4. CASE beforeInstallPrompt
  <2>1. page' \in Pages
    BY <1>4, <1>t DEF beforeInstallPrompt, Pages
  <2>2. offer' \in [dismissed : BOOLEAN, notice : BOOLEAN]
    <3> DEFINE b == page.brand \in local.dismissed
    <3>1. offer' = offer \/ offer' = [offer EXCEPT !.dismissed = b]
      BY <1>4 DEF beforeInstallPrompt
    <3>2. b \in BOOLEAN
      OBVIOUS
    <3> HIDE DEF b
    <3> QED BY <1>t, <3>1, <3>2
  <2> QED BY <1>4, <1>t, <2>1, <2>2, SpendIs DEF beforeInstallPrompt
<1>5. CASE handleInstall
  BY <1>5, <1>t DEF handleInstall, Pages
<1>6. ASSUME NEW b \in 0..MaxBrand, NEW accepted \in BOOLEAN, choose(accepted, b) PROVE TypesNext
  <2>1. page' \in Pages /\ page.askedAs \in Brands
    BY <1>6, <1>t DEF choose, Pages
  <2>2. phone' \in Phones
    <3>1. ManifestOf(b) \in Brands
      BY BrandsAre DEF Brands
    <3> QED BY <1>6, <1>t, <3>1, BrandsAre DEF choose, Phones, Ways
  <2>3. LocalInstalled(page.askedAs) \in Locals
    BY <1>t, <2>1 DEF LocalInstalled, Locals
  <2>4. local' \in Locals /\ offer' \in [dismissed : BOOLEAN, notice : BOOLEAN]
    <3>1. local' = local \/ local' = LocalInstalled(page.askedAs)
      BY <1>6 DEF choose
    <3>2. offer' = offer \/ offer' = [dismissed |-> TRUE, notice |-> FALSE]
      BY <1>6 DEF choose
    <3>3. [dismissed |-> TRUE, notice |-> FALSE] \in [dismissed : BOOLEAN, notice : BOOLEAN]
      OBVIOUS
    <3> QED BY <1>t, <2>3, <3>1, <3>2, <3>3, Zenon
  <2>5. marks' \in MarksSet /\ wizard' \in Wizards
    BY <1>6, <1>t DEF choose, Marked, MarksSet, Wizards, StepAfter, Steps
  <2> QED BY <1>6, <1>t, <2>1, <2>2, <2>4, <2>5 DEF choose
<1>7. CASE promptFails
  BY <1>7, <1>t, SpendIs DEF promptFails, Pages
<1>8. CASE installByMenu
  <2>1. phone' \in Phones
    <3>1. ManifestOf(page.brand) \in Brands
      BY <1>t, BrandsAre DEF Pages
    <3> QED BY <1>8, <1>t, <3>1 DEF installByMenu, Phones, Ways
  <2> QED BY <1>8, <1>t, <2>1, SpendIs DEF installByMenu
<1>9. ASSUME NEW done \in BOOLEAN, installEnds(done) PROVE TypesNext
  <2>1. phone' \in Phones
    BY <1>9, <1>t, BrandsAre DEF installEnds, Phones, Ways, NotComing
  <2> QED BY <1>9, <1>t, <2>1 DEF installEnds
<1>10. ASSUME NEW heard \in BOOLEAN, appInstalled(heard) PROVE TypesNext
  <2>1. phone' \in Phones /\ page' \in Pages
    BY <1>10, <1>t DEF appInstalled, Phones, Pages
  <2>2. LocalInstalled(page.brand) \in Locals
    BY <1>t DEF LocalInstalled, Locals, Pages
  <2>3. local' \in Locals /\ offer' \in [dismissed : BOOLEAN, notice : BOOLEAN]
    BY <1>10, <1>t, <2>2 DEF appInstalled
  <2>4. marks' \in MarksSet /\ wizard' \in Wizards
    BY <1>10, <1>t DEF appInstalled, Marked, MarksSet, Wizards, StepAfter, Steps
  <2> QED BY <1>10, <1>t, <2>1, <2>3, <2>4 DEF appInstalled
<1>11. CASE leaveInstall
  <2>1. marks' \in MarksSet /\ wizard' \in Wizards
    BY <1>11, <1>t DEF leaveInstall, Marked, MarksSet, Wizards, StepAfter, Steps
  <2> QED BY <1>11, <1>t, <2>1 DEF leaveInstall
<1>12. ASSUME NEW s \in Steps, visitStep(s) PROVE TypesNext
  BY <1>12, <1>t DEF visitStep, Wizards
<1>13. ASSUME NEW c \in checks, pushRead(c) PROVE TypesNext
  <2>1. PushStatusNow \in Pushes
    BY DEF PushStatusNow, Pushes
  <2>2. checks' \in ChecksSet
    BY <1>13, <1>t, <2>1 DEF pushRead, ChecksSet
  <2> QED BY <1>13, <1>t, <2>2 DEF pushRead
<1>14. ASSUME NEW c \in checks, pushShown(c) PROVE TypesNext
  <2>1. checks' \in ChecksSet /\ c.value \in Pushes
    BY <1>14, <1>t DEF pushShown, ChecksSet
  <2>2. marks' \in MarksSet /\ wizard' \in Wizards
    BY <1>14, <1>t, <2>1 DEF pushShown, MarksSet, Wizards, Steps
  <2>3. outdated' \in BOOLEAN
    BY <1>14, <1>t DEF pushShown
  <2> QED BY <1>14, <1>t, <2>1, <2>2, <2>3 DEF pushShown
<1>15. CASE handleEnablePush
  BY <1>15, <1>t, SpendIs DEF handleEnablePush, Wizards
<1>16. CASE subscribed
  BY <1>16, <1>t DEF subscribed, Phones
<1>17. CASE pushEnabled
  <2>1. marks' \in MarksSet /\ wizard' \in Wizards /\ phone' \in Phones
    BY <1>17, <1>t DEF pushEnabled, Marked, MarksSet, Wizards, StepAfter, Steps, Pushes, Phones
  <2> QED BY <1>17, <1>t, <2>1 DEF pushEnabled
<1>18. ASSUME NEW refused \in BOOLEAN, pushFails(refused) PROVE TypesNext
  <2>1. phone' \in Phones /\ wizard' \in Wizards /\ checks' \in ChecksSet
    <3>1. phone' \in Phones
      BY <1>18, <1>t DEF pushFails, Phones
    <3>2. wizard' \in Wizards
      BY <1>18, <1>t DEF pushFails, Wizards
    <3>3. checks' \in ChecksSet
      <4>1. Check(FALSE) \in [first : BOOLEAN, value : Pushes \cup {"none"}]
        BY DEF Check
      <4> QED BY <1>18, <1>t, <4>1 DEF pushFails, ChecksSet
    <3> QED BY <3>1, <3>2, <3>3
  <2> QED BY <1>18, <1>t, <2>1, SpendIs DEF pushFails
<1>19. CASE leaveNotifications
  <2>1. marks' \in MarksSet /\ wizard' \in Wizards
    BY <1>19, <1>t DEF leaveNotifications, Marked, MarksSet, Wizards, StepAfter, Steps
  <2> QED BY <1>19, <1>t, <2>1 DEF leaveNotifications
<1>20. ASSUME NEW p \in Patches, completeOnboarding(p) PROVE TypesNext
  <2>1. marks' \in MarksSet /\ wizard' \in Wizards /\ patch' \in PatchSet
    BY <1>20, <1>t DEF completeOnboarding, Marked, MarksSet, Wizards, PatchGoes, PatchSet, Steps
  <2> QED BY <1>20, <1>t, <2>1, SpendIs DEF completeOnboarding
<1>21. ASSUME NEW p \in Patches, lookUpCompletion(p) PROVE TypesNext
  <2>1. patch' \in PatchSet /\ overlapped' \in BOOLEAN
    BY <1>21, <1>t DEF lookUpCompletion, PatchGoes, AfterLookUp, PatchSet
  <2> QED BY <1>21, <1>t, <2>1 DEF lookUpCompletion
<1>22. ASSUME NEW p \in Patches, writeCompletion(p) \/ auditFails(p) PROVE TypesNext
  <2>1. patch' \in PatchSet /\ wizard' \in Wizards /\ completion' \in [done : BOOLEAN, audits : Nat]
    <3>1. patch' \in PatchSet
      BY <1>22, <1>t DEF writeCompletion, auditFails, PatchGoes, PatchSet
    <3>2. wizard' \in Wizards
      BY <1>22, <1>t DEF writeCompletion, auditFails, Wizards
    <3>3. completion' \in [done : BOOLEAN, audits : Nat]
      <4>1. CASE writeCompletion(p)
        <5>1. completion.audits + 1 \in Nat
          BY <1>t
        <5> QED BY <4>1, <5>1 DEF writeCompletion
      <4>2. CASE auditFails(p)
        BY <4>2, <1>t DEF auditFails
      <4> QED BY <1>22, <4>1, <4>2
    <3> QED BY <3>1, <3>2, <3>3
  <2> QED BY <1>22, <1>t, <2>1, SpendIs DEF writeCompletion, auditFails
<1>23. ASSUME NEW p \in Patches, finished(p) PROVE TypesNext
  <2>1. patch' \in PatchSet /\ page.window \in {"tab", "app"}
    BY <1>23, <1>t DEF finished, PatchSet, Pages
  <2> QED BY <1>23, <1>t, <2>1, AppOpens DEF finished
<1>24. ASSUME NEW p \in Patches, NEW reached \in BOOLEAN, notFinished(p, reached) PROVE TypesNext
  <2>1. patch' \in PatchSet /\ wizard' \in Wizards
    BY <1>24, <1>t DEF notFinished, PatchSet, Wizards
  <2> QED BY <1>24, <1>t, <2>1, SpendIs DEF notFinished
<1>25. CASE handleDismiss \/ \E sure \in BOOLEAN : answerNotice(sure)
  <2>1. page.brand \in Brands
    BY <1>t DEF Pages
  <2>2. local' \in Locals /\ offer' \in [dismissed : BOOLEAN, notice : BOOLEAN]
    <3>1. local' \in {local, [local EXCEPT !.dismissed = @ \cup {page.brand}], [local EXCEPT !.brand = page.brand]}
      BY <1>25 DEF handleDismiss, answerNotice
    <3>2. offer' \in {[offer EXCEPT !.dismissed = TRUE], [offer EXCEPT !.notice = FALSE]}
      BY <1>25 DEF handleDismiss, answerNotice
    <3>3. local' \in Locals
      BY <1>t, <2>1, <3>1 DEF Locals
    <3> QED BY <1>t, <3>2, <3>3
  <2> QED BY <1>25, <1>t, <2>2 DEF handleDismiss, answerNotice
<1>26. CASE brandChanges
  <2>1. brandNow' \in Brands
    BY <1>26, <1>t, BrandsAre DEF brandChanges, Brands
  <2> QED BY <1>26, <1>t, <2>1, SpendIs DEF brandChanges
<1>27. CASE brandTaken
  <2>1. page' \in Pages /\ page.window \in {"tab", "app"}
    BY <1>27, <1>t DEF brandTaken, Pages
  <2>2. local' \in Locals /\ offer' \in [dismissed : BOOLEAN, notice : BOOLEAN]
    BY <1>27, <1>t DEF brandTaken, OfferOf, LocalOf, Locals
  <2> QED BY <1>27, <1>t, <2>1, <2>2 DEF brandTaken
<1>28. CASE UNCHANGED firstVars
  BY <1>28, <1>t
<1> HIDE DEF TypesNext
<1> QED BY <1>1, <1>2, <1>3, <1>4, <1>5, <1>6, <1>7, <1>8, <1>9, <1>10, <1>11, <1>12, <1>13, <1>14, <1>15, <1>16, <1>17,
           <1>18, <1>19, <1>20, <1>21, <1>22, <1>23, <1>24, <1>25, <1>26, <1>27, <1>28 DEF FirstAccessNext

-----------------------------------------------------------------------------
\* What the prompt of the application has installed, or is installing, is no newer
\* than the version kept, nor than the one being asked about.
PromptSafe(i) == i.by = "prompt" => i.brand <= local.brand /\ (OnApp /\ page.asked => i.brand <= page.askedAs)
BrandsInv ==
    /\ local.brand <= brandNow /\ page.brand <= brandNow
    /\ OnApp => local.brand <= page.brand
    /\ page.asked => (OnWizard \/ OnApp) /\ page.askedAs <= page.brand
    /\ OnApp /\ offer.notice => local.brand # page.brand
    /\ PromptSafe(phone) /\ PromptSafe(phone.coming)

LEMMA BrandNumbers ==
  FirstAccessTypeOK => /\ local.brand \in Nat /\ brandNow \in Nat /\ page.brand \in Nat /\ page.askedAs \in Nat
                       /\ phone.brand \in Nat /\ phone.coming.brand \in Nat
BY FirstAccessAssumption DEF FirstAccessTypeOK, Brands

\* A step that leaves the versions and the question alone.
LEMMA BrandsQuiet ==
  ASSUME FirstAccessTypeOK, FirstAccessTypeOK', BrandsInv,
         page'.name = page.name, page'.brand = page.brand, page'.asked = page.asked, page'.askedAs = page.askedAs,
         offer'.notice => offer.notice, local'.brand = local.brand, brandNow' \in {brandNow, brandNow + 1},
         phone'.brand = phone.brand, phone'.by = phone.by, phone'.coming = phone.coming
  PROVE  BrandsInv'
BY BrandNumbers DEF BrandsInv, PromptSafe, OnApp, OnWizard

\* What is kept moves to the version of the page, which asks nothing more.
LEMMA BrandsSettle ==
  ASSUME FirstAccessTypeOK, FirstAccessTypeOK', BrandsInv, page'.asked => page.asked /\ page'.name = page.name /\ page'.askedAs = page.askedAs,
         brandNow' = brandNow, local'.brand \in {local.brand, brandNow}, page'.brand \in {0, page.brand, brandNow},
         page.asked /\ page'.asked => page.brand <= page'.brand,
         page'.name = "app" => local'.brand <= page'.brand, page'.name = "app" /\ offer'.notice => local'.brand # page'.brand,
         UNCHANGED phone
  PROVE  BrandsInv'
BY BrandNumbers DEF BrandsInv, PromptSafe, OnApp, OnWizard

LEMMA LocalBrands ==
  ASSUME FirstAccessTypeOK, NEW b, NEW window \in {"tab", "app"}
  PROVE  /\ LocalOf(window, b).brand \in {local.brand, b}
         /\ OfferOf(window, b).notice => LocalOf(window, b).brand # b /\ LocalOf(window, b).brand = local.brand
         /\ LocalInstalled(b).brand = IF b = 0 THEN local.brand ELSE b
<1>1. local \in Locals
  BY FirstTypeIs
<1>2. LocalOf(window, b).brand \in {local.brand, b}
  BY <1>1 DEF LocalOf, Locals
<1>3. OfferOf(window, b).notice => window = "app" /\ local.brand # b
  BY DEF OfferOf
<1>4. window = "app" => LocalOf(window, b) = local
  BY DEF LocalOf
<1>5. LocalInstalled(b).brand = IF b = 0 THEN local.brand ELSE b
  BY DEF LocalInstalled
<1> QED BY <1>2, <1>3, <1>4, <1>5

LEMMA BrandsNext ==
  ASSUME FirstAccessTypeOK, FirstAccessTypeOK', BrandsInv, [FirstAccessNext]_firstVars
  PROVE  BrandsInv'
<1>t. page \in Pages /\ page.window \in {"tab", "app"} /\ phone \in Phones /\ phone.coming \in [brand : Brands, by : Ways] /\ local \in Locals /\ offer \in [dismissed : BOOLEAN, notice : BOOLEAN]
  BY FirstTypeIs DEF Pages, Phones
<1>w. ASSUME NEW window \in {"tab", "app"}, OpensWizard(window), UNCHANGED <<phone, brandNow>> PROVE BrandsInv'
  <2>1. page'.name = "wizard" /\ page'.brand = 0 /\ ~page'.asked /\ local' = local
    BY <1>w, WizardOpens
  <2> QED BY <1>w, <2>1, BrandsSettle
<1>a. ASSUME NEW window \in {"tab", "app"}, OpensApp(window), UNCHANGED <<phone, brandNow>> PROVE BrandsInv'
  <2>1. page'.name = "app" /\ page'.brand = brandNow /\ ~page'.asked /\ local' = LocalOf(window, brandNow) /\ offer' = OfferOf(window, brandNow)
    BY <1>a, AppOpens
  <2>2. local'.brand \in {local.brand, brandNow} /\ (offer'.notice => local'.brand # brandNow)
    BY <2>1, LocalBrands
  <2>3. local'.brand <= page'.brand
    BY <2>1, <2>2, BrandNumbers DEF BrandsInv
  <2> QED BY <1>a, <2>1, <2>2, <2>3, BrandsSettle
<1> USE DEF firstVars, serverVars, wizardVars
<1>1. ASSUME NEW name \in {"wizard", "app"}, NEW window \in {"tab", "app"}, visit(name, window) PROVE BrandsInv'
  BY <1>1, <1>w, <1>a DEF visit
<1>2. CASE userRead
  <2>1. CASE completion.done
    BY <1>2, <1>t, <1>a, <2>1 DEF userRead
  <2>2. CASE ~completion.done
    BY <1>2, <2>2, BrandsQuiet DEF userRead
  <2> QED BY <2>1, <2>2
<1>3. CASE userNotRead
  <2>1. page'.name = "login" /\ page'.brand = 0 /\ ~page'.asked /\ local' = local /\ phone' = phone /\ brandNow' = brandNow
    BY <1>3 DEF userNotRead, PageOf
  <2> QED BY <2>1, BrandsSettle
<1>4. CASE beforeInstallPrompt
  <2>1. /\ page'.name = page.name /\ page'.brand = page.brand /\ page'.asked = page.asked /\ page'.askedAs = page.askedAs
        /\ UNCHANGED <<phone, brandNow, local>>
    BY <1>4, <1>t DEF beforeInstallPrompt, Pages
  <2>2. offer'.notice = offer.notice
    BY <1>4, <1>t DEF beforeInstallPrompt
  <2> QED BY <2>1, <2>2, BrandsQuiet
<1>5. CASE handleInstall
  <2>1. /\ page'.name = page.name /\ page'.brand = page.brand /\ page'.asked /\ page'.askedAs = page.brand
        /\ UNCHANGED <<phone, brandNow, local, offer>> /\ (OnApp \/ OnWizard)
    BY <1>5, <1>t DEF handleInstall, Pages, Offers, CanShowPrompt
  <2> QED BY <2>1, BrandNumbers DEF BrandsInv, PromptSafe, OnApp, OnWizard
<1>6. ASSUME NEW b \in 0..MaxBrand, NEW accepted \in BOOLEAN, choose(accepted, b) PROVE BrandsInv'
  <2>1. /\ page'.name = page.name /\ page'.brand = page.brand /\ ~page'.asked /\ brandNow' = brandNow /\ page.asked
        /\ OnWizard => local' = local /\ offer' = offer
        /\ ~OnWizard => OnApp /\ (IF accepted THEN local' = LocalInstalled(page.askedAs) /\ offer'.notice = FALSE ELSE local' = local /\ offer' = offer)
    BY <1>6, <1>t DEF choose, Pages, BrandsInv
  <2>2. LocalInstalled(page.askedAs).brand = IF page.askedAs = 0 THEN local.brand ELSE page.askedAs
    BY LocalBrands
  <2>3. CASE ~accepted
    <3>1. UNCHANGED <<phone, local, offer>>
      BY <1>6, <2>1, <2>3 DEF choose, BrandsInv, OnApp, OnWizard
    <3> QED BY <2>1, <3>1, BrandNumbers DEF BrandsInv, PromptSafe, OnApp, OnWizard
  <2>4. CASE accepted
    <3> DEFINE coming == [brand |-> IF OnWizard THEN 0 ELSE ManifestOf(b),
                          by |-> IF OnApp /\ b = page.askedAs THEN "prompt" ELSE "other"]
    <3>1. phone'.coming = coming /\ phone'.brand = phone.brand /\ phone'.by = phone.by
      BY <1>6, <1>t, <2>4 DEF choose, Phones
    <3>2. coming.by = "prompt" => OnApp /\ coming.brand \in {0, page.askedAs}
      BY BrandsAre DEF OnApp, OnWizard
    <3> HIDE DEF coming
    <3>3. CASE OnWizard
      BY <2>1, <3>1, <3>2, <3>3, BrandNumbers DEF BrandsInv, PromptSafe, OnApp, OnWizard
    <3>4. CASE ~OnWizard
      <4>1. /\ local'.brand = (IF page.askedAs = 0 THEN local.brand ELSE page.askedAs) /\ ~offer'.notice /\ OnApp
        BY <2>1, <2>2, <2>4, <3>4
      <4>2. page.askedAs <= page.brand /\ page.brand <= brandNow /\ local.brand <= page.brand
        BY <2>1, <4>1 DEF BrandsInv
      <4>3. local'.brand <= page.brand /\ page.askedAs <= local'.brand /\ local'.brand <= brandNow
        BY <4>1, <4>2, BrandNumbers
      <4>4. (phone.by = "prompt" => phone.brand <= page.askedAs) /\ (coming.by = "prompt" => coming.brand <= page.askedAs)
        BY <2>1, <3>2, <4>1, BrandNumbers DEF BrandsInv, PromptSafe
      <4>5. (phone.by = "prompt" => phone.brand <= local'.brand) /\ (coming.by = "prompt" => coming.brand <= local'.brand)
        <5>1. coming.by = "prompt" => coming.brand \in Nat
          BY <3>2, BrandNumbers
        <5>2. local'.brand \in Nat
          BY <4>1, BrandNumbers
        <5> QED BY <4>3, <4>4, <5>1, <5>2, BrandNumbers
      <4> QED BY <2>1, <3>1, <4>1, <4>2, <4>3, <4>5 DEF BrandsInv, PromptSafe
    <3> QED BY <3>3, <3>4
  <2> QED BY <2>3, <2>4
<1>7. CASE promptFails
  <2>1. /\ page'.name = page.name /\ page'.brand = page.brand /\ ~page'.asked /\ UNCHANGED <<phone, brandNow, local, offer>>
    BY <1>7, <1>t DEF promptFails, Pages
  <2> QED BY <2>1, BrandNumbers DEF BrandsInv, PromptSafe, OnApp, OnWizard
<1>8. CASE installByMenu
  <2>1. phone'.coming.by = "other" /\ phone'.brand = phone.brand /\ phone'.by = phone.by /\ UNCHANGED <<brandNow, local, offer, page>>
    BY <1>8, <1>t DEF installByMenu, Phones
  <2> QED BY <2>1 DEF BrandsInv, PromptSafe, OnApp, OnWizard
<1>9. ASSUME NEW done \in BOOLEAN, installEnds(done) PROVE BrandsInv'
  <2>1. phone'.coming = NotComing /\ UNCHANGED <<brandNow, local, offer, page>>
    BY <1>9, <1>t DEF installEnds, Phones
  <2>2. \/ phone'.brand = phone.coming.brand /\ phone'.by = phone.coming.by
        \/ phone'.brand = phone.brand /\ phone'.by \in {phone.by, "failed"}
    BY <1>9, <1>t DEF installEnds, Phones
  <2> QED BY <2>1, <2>2 DEF BrandsInv, PromptSafe, OnApp, OnWizard, NotComing
<1>10. ASSUME NEW heard \in BOOLEAN, appInstalled(heard) PROVE BrandsInv'
  <2>1. /\ page'.name = page.name /\ page'.brand = page.brand /\ page'.asked = page.asked /\ page'.askedAs = page.askedAs
        /\ phone'.brand = phone.brand /\ phone'.by = phone.by /\ phone'.coming = phone.coming /\ brandNow' = brandNow
    BY <1>10, <1>t DEF appInstalled, Pages, Phones
  <2>2. CASE local' = local /\ offer' = offer
    BY <2>1, <2>2, BrandsQuiet
  <2>3. CASE ~(local' = local /\ offer' = offer)
    <3>1. local' = LocalInstalled(page.brand) /\ ~offer'.notice /\ OnApp
      BY <1>10, <1>t, <2>3, FirstTypeIs DEF appInstalled, Pages, OnApp, OnWizard
    <3>2. local'.brand = IF page.brand = 0 THEN local.brand ELSE page.brand
      BY <3>1, LocalBrands
    <3> QED BY <2>1, <3>1, <3>2, BrandNumbers DEF BrandsInv, PromptSafe, OnApp, OnWizard
  <2> QED BY <2>2, <2>3
<1>11. CASE subscribed \/ pushEnabled \/ \E refused \in BOOLEAN : pushFails(refused)
  <2>1. /\ phone'.brand = phone.brand /\ phone'.by = phone.by /\ phone'.coming = phone.coming
        /\ UNCHANGED <<brandNow, page, local, offer>>
    BY <1>11, <1>t DEF subscribed, pushEnabled, pushFails, Phones
  <2> QED BY <2>1, BrandsQuiet
<1>12. ASSUME NEW p \in Patches, finished(p) PROVE BrandsInv'
  BY <1>12, <1>t, <1>a DEF finished
<1>13. CASE handleDismiss \/ \E sure \in BOOLEAN : answerNotice(sure)
  <2>1. UNCHANGED <<phone, brandNow, page>>
    BY <1>13 DEF handleDismiss, answerNotice
  <2>2. CASE handleDismiss
    <3>1. local'.brand = local.brand /\ offer'.notice = offer.notice
      BY <1>t, <2>2 DEF handleDismiss, Locals
    <3> QED BY <2>1, <3>1, BrandsQuiet
  <2>3. ASSUME NEW sure \in BOOLEAN, answerNotice(sure) PROVE BrandsInv'
    <3>1. ~offer'.notice /\ local'.brand \in {local.brand, page.brand} /\ OnApp
      BY <1>t, <2>3 DEF answerNotice, Locals
    <3> QED BY <2>1, <3>1, BrandNumbers DEF BrandsInv, PromptSafe, OnApp, OnWizard
  <2> QED BY <1>13, <2>2, <2>3
<1>14. CASE brandChanges
  BY <1>14, BrandsQuiet DEF brandChanges
<1>15. CASE brandTaken
  <2>1. page'.name = page.name /\ page'.brand = brandNow /\ page'.asked = page.asked /\ page'.askedAs = page.askedAs /\ UNCHANGED <<phone, brandNow>>
    BY <1>15, <1>t DEF brandTaken, Pages
  <2>2. local'.brand \in {local.brand, brandNow} /\ (offer'.notice => local'.brand # brandNow)
    BY <1>15, <1>t, LocalBrands DEF brandTaken
  <2>3. local'.brand <= page'.brand /\ page.brand <= page'.brand
    BY <2>1, <2>2, BrandNumbers DEF BrandsInv
  <2> QED BY <2>1, <2>2, <2>3, BrandsSettle
<1>16. ASSUME UNCHANGED <<phone, brandNow, page, local, offer>> PROVE BrandsInv'
  BY <1>16, BrandsQuiet
<1>17. CASE \/ leaveInstall \/ \E s \in Steps : visitStep(s)
            \/ \E c \in checks : pushRead(c) \/ pushShown(c)
            \/ handleEnablePush \/ leaveNotifications
            \/ \E p \in Patches : \/ completeOnboarding(p) \/ lookUpCompletion(p) \/ writeCompletion(p) \/ auditFails(p)
                                  \/ \E reached \in BOOLEAN : notFinished(p, reached)
            \/ UNCHANGED firstVars
  BY <1>16, <1>17 DEF leaveInstall, visitStep, pushRead, pushShown, handleEnablePush, leaveNotifications,
                      completeOnboarding, lookUpCompletion, writeCompletion, auditFails, notFinished
<1> QED BY <1>1, <1>2, <1>3, <1>4, <1>5, <1>6, <1>7, <1>8, <1>9, <1>10, <1>11, <1>12, <1>13, <1>14, <1>15, <1>17 DEF FirstAccessNext

-----------------------------------------------------------------------------
\* An installation was accepted, or has failed since.
Accepted == phone.installed \/ phone.coming # NotComing \/ phone.by = "failed"
InstallInv ==
    /\ page.standalone \/ page.window = "app" \/ phone.event => phone.installed
    /\ phone.platform = "safari" => ~phone.event /\ (page.standalone <=> page.window = "app")
    /\ OnWizard /\ marks["install"] = "done" => Accepted

LEMMA InstallQuiet ==
  ASSUME InstallInv, phone'.platform = phone.platform, phone'.installed = phone.installed, phone'.event = phone.event,
         phone'.coming = phone.coming, phone'.by = phone.by, page'.window = page.window,
         page'.standalone = page.standalone \/ page'.standalone = (page.window = "app"),
         OnWizard' /\ marks'["install"] = "done" => OnWizard /\ marks["install"] = "done"
  PROVE  InstallInv'
BY DEF InstallInv, Accepted

LEMMA InstallNext ==
  ASSUME FirstAccessTypeOK, FirstAccessTypeOK', InstallInv, [FirstAccessNext]_firstVars
  PROVE  InstallInv'
<1>t. page \in Pages /\ page.window \in {"tab", "app"} /\ phone \in Phones /\ marks \in MarksSet /\ "install" \in Steps
  BY FirstTypeIs DEF Pages, Steps
<1>w. ASSUME NEW window \in {"tab", "app"}, OpensWizard(window), window = "app" => phone.installed, UNCHANGED phone PROVE InstallInv'
  <2>1. /\ page'.window = window /\ page'.standalone = (window = "app")
        /\ marks'["install"] = "done" => phone.platform = "safari" /\ window = "app"
    BY <1>w, WizardOpens
  <2> QED BY <1>w, <2>1 DEF InstallInv, Accepted
<1>a. ASSUME NEW window \in {"tab", "app"}, OpensApp(window), window = "app" => phone.installed, UNCHANGED phone PROVE InstallInv'
  <2>1. page'.name = "app" /\ page'.window = window /\ page'.standalone = (window = "app")
    BY <1>a, AppOpens
  <2> QED BY <1>a, <2>1 DEF InstallInv, OnWizard
<1>b. page.window = "app" => phone.installed
  BY DEF InstallInv
<1> USE DEF firstVars, serverVars, wizardVars
<1>1. ASSUME NEW name \in {"wizard", "app"}, NEW window \in {"tab", "app"}, visit(name, window) PROVE InstallInv'
  BY <1>1, <1>w, <1>a DEF visit
<1>2. CASE userRead
  <2>1. CASE completion.done
    BY <1>2, <1>t, <1>a, <1>b, <2>1 DEF userRead
  <2>2. CASE ~completion.done
    BY <1>2, <2>2, InstallQuiet DEF userRead, OnWizard
  <2> QED BY <2>1, <2>2
<1>3. CASE userNotRead
  <2>1. page'.name = "login" /\ page'.window = page.window /\ page'.standalone = (page.window = "app") /\ phone' = phone
    BY <1>3 DEF userNotRead, PageOf
  <2> QED BY <2>1, InstallQuiet DEF OnWizard
<1>4. CASE beforeInstallPrompt
  <2>1. page'.name = page.name /\ page'.window = page.window /\ ~page'.standalone /\ UNCHANGED <<phone, marks>> /\ phone.platform = "android"
    BY <1>4, <1>t DEF beforeInstallPrompt, Pages
  <2> QED BY <2>1 DEF InstallInv, Accepted, OnWizard
<1>5. CASE handleInstall \/ promptFails
  <2>1. page'.name = page.name /\ page'.window = page.window /\ page'.standalone = page.standalone /\ UNCHANGED <<phone, marks>>
    BY <1>5, <1>t DEF handleInstall, promptFails, Pages
  <2> QED BY <2>1, InstallQuiet DEF OnWizard
<1>6. ASSUME NEW b \in 0..MaxBrand, NEW accepted \in BOOLEAN, choose(accepted, b) PROVE InstallInv'
  <2>1. page'.name = page.name /\ page'.window = page.window /\ page'.standalone = page.standalone
    BY <1>6, <1>t DEF choose, Pages
  <2>2. /\ phone'.platform = phone.platform /\ phone'.installed = phone.installed /\ phone'.event = phone.event /\ phone'.by = phone.by
        /\ IF accepted THEN phone'.coming # NotComing ELSE phone' = phone
    <3>1. CASE accepted
      <4> DEFINE coming == [brand |-> IF OnWizard THEN 0 ELSE ManifestOf(b),
                            by |-> IF OnApp /\ b = page.askedAs THEN "prompt" ELSE "other"]
      <4>1. phone' = [phone EXCEPT !.coming = coming]
        BY <1>6, <3>1 DEF choose
      <4>2. coming # NotComing
        BY DEF NotComing
      <4> HIDE DEF coming
      <4> QED BY <1>t, <3>1, <4>1, <4>2 DEF Phones
    <3>2. CASE ~accepted
      BY <1>6, <3>2 DEF choose
    <3> QED BY <3>1, <3>2
  <2>3. OnWizard /\ ~accepted => marks'["install"] = "skipped"
    BY <1>6, <1>t DEF choose, Marked, MarksSet
  <2> QED BY <2>1, <2>2, <2>3 DEF InstallInv, Accepted, OnWizard
<1>7. CASE installByMenu
  <2>1. /\ phone'.platform = phone.platform /\ phone'.installed = phone.installed /\ phone'.event = phone.event
        /\ phone'.coming # NotComing /\ UNCHANGED <<page, marks>>
    <3> DEFINE coming == [brand |-> ManifestOf(page.brand), by |-> "other"]
    <3>1. phone' = [phone EXCEPT !.coming = coming]
      BY <1>7 DEF installByMenu
    <3>2. coming # NotComing
      BY DEF NotComing
    <3> HIDE DEF coming
    <3> QED BY <1>7, <1>t, <3>1, <3>2 DEF Phones, installByMenu
  <2> QED BY <2>1 DEF InstallInv, Accepted, OnWizard
<1>8. ASSUME NEW done \in BOOLEAN, installEnds(done) PROVE InstallInv'
  <2>1. phone'.platform = phone.platform /\ UNCHANGED <<page, marks>>
    BY <1>8, <1>t DEF installEnds, Phones
  <2>2. \/ phone'.installed /\ phone'.event = (phone.platform = "android")
        \/ phone'.installed = phone.installed /\ phone'.event = phone.event /\ (phone.installed \/ phone'.by = "failed")
    BY <1>8, <1>t DEF installEnds, Phones
  <2> QED BY <2>1, <2>2 DEF InstallInv, Accepted, OnWizard
<1>9. ASSUME NEW heard \in BOOLEAN, appInstalled(heard) PROVE InstallInv'
  <2>1. /\ phone'.platform = phone.platform /\ phone'.installed = phone.installed /\ ~phone'.event /\ phone.event
        /\ page'.window = page.window
    BY <1>9, <1>t DEF appInstalled, Phones, Pages
  <2>2. phone'.installed /\ phone.platform # "safari"
    BY <2>1 DEF InstallInv
  <2> QED BY <2>1, <2>2 DEF InstallInv, Accepted
<1>10. CASE leaveInstall
  <2>1. /\ UNCHANGED <<phone, page>>
        /\ marks'["install"] = "done" => page.standalone
    BY <1>10, <1>t DEF leaveInstall, Marked, MarksSet
  <2> QED BY <2>1 DEF InstallInv, Accepted
<1>11. ASSUME NEW c \in checks, pushShown(c) PROVE InstallInv'
  <2>1. UNCHANGED <<phone, page>> /\ marks'["install"] = marks["install"]
    BY <1>11, <1>t DEF pushShown, MarksSet
  <2> QED BY <2>1, InstallQuiet DEF OnWizard
<1>12. CASE subscribed \/ pushEnabled \/ \E refused \in BOOLEAN : pushFails(refused)
  <2>1. /\ phone'.platform = phone.platform /\ phone'.installed = phone.installed /\ phone'.event = phone.event
        /\ phone'.coming = phone.coming /\ phone'.by = phone.by /\ page' = page
    BY <1>12, <1>t DEF subscribed, pushEnabled, pushFails, Phones
  <2>2. marks'["install"] = marks["install"]
    BY <1>12, <1>t DEF subscribed, pushEnabled, pushFails, Marked, MarksSet
  <2> QED BY <2>1, <2>2, InstallQuiet DEF OnWizard
<1>13. CASE leaveNotifications \/ \E p \in Patches : completeOnboarding(p)
  <2>1. UNCHANGED <<phone, page>> /\ marks'["install"] = marks["install"]
    BY <1>13, <1>t DEF leaveNotifications, completeOnboarding, Marked, MarksSet
  <2> QED BY <2>1, InstallQuiet DEF OnWizard
<1>14. ASSUME NEW p \in Patches, finished(p) PROVE InstallInv'
  BY <1>14, <1>t, <1>a, <1>b DEF finished
<1>15. CASE brandTaken
  <2>1. page'.name = page.name /\ page'.window = page.window /\ page'.standalone = (page.window = "app") /\ UNCHANGED <<phone, marks>>
    BY <1>15, <1>t DEF brandTaken, Pages
  <2> QED BY <2>1, InstallQuiet DEF OnWizard
<1>16. ASSUME UNCHANGED <<phone, page, marks>> PROVE InstallInv'
  BY <1>16, InstallQuiet DEF OnWizard
<1>17. CASE \/ \E s \in Steps : visitStep(s)
            \/ \E c \in checks : pushRead(c)
            \/ handleEnablePush \/ handleDismiss \/ brandChanges \/ \E sure \in BOOLEAN : answerNotice(sure)
            \/ \E p \in Patches : \/ lookUpCompletion(p) \/ writeCompletion(p) \/ auditFails(p)
                                  \/ \E reached \in BOOLEAN : notFinished(p, reached)
            \/ UNCHANGED firstVars
  BY <1>16, <1>17 DEF visitStep, pushRead, handleEnablePush, handleDismiss, brandChanges, answerNotice,
                      lookUpCompletion, writeCompletion, auditFails, notFinished
<1> QED BY <1>1, <1>2, <1>3, <1>4, <1>5, <1>6, <1>7, <1>8, <1>9, <1>10, <1>11, <1>12, <1>13, <1>14, <1>15, <1>17 DEF FirstAccessNext

-----------------------------------------------------------------------------
\* Who is in the application has finished, and a request that has found the user
\* unfinished is alone to write, unless two were past their read.
CompletionInv ==
    /\ OnApp \/ completion.audits > 0 \/ (\E p \in Patches : patch[p] = "done") => completion.done
    /\ ~overlapped => /\ completion.audits <= 1
                      /\ \A p \in Patches : patch[p] = "found" => completion.audits = 0 /\ \A q \in Patches \ {p} : patch[q] # "found"

LEMMA CompletionQuiet ==
  ASSUME CompletionInv, UNCHANGED <<completion, overlapped>>, OnApp' => OnApp \/ completion.done,
         \A p \in Patches : patch'[p] \in {patch[p], "idle", "sent"}
  PROVE  CompletionInv'
BY DEF CompletionInv

LEMMA CompletionNext ==
  ASSUME FirstAccessTypeOK, FirstAccessTypeOK', CompletionInv, [FirstAccessNext]_firstVars
  PROVE  CompletionInv'
<1>t. /\ page \in Pages /\ page.window \in {"tab", "app"} /\ patch \in PatchSet
      /\ completion.audits \in Nat /\ completion \in [done : BOOLEAN, audits : Nat]
  BY FirstTypeIs DEF Pages
<1>a. ASSUME NEW window \in {"tab", "app"}, OpensWizard(window) PROVE ~OnApp'
  BY <1>a, WizardOpens DEF OnApp
<1> USE DEF firstVars, serverVars, wizardVars
<1>1. ASSUME NEW name \in {"wizard", "app"}, NEW window \in {"tab", "app"}, visit(name, window) PROVE CompletionInv'
  <2>1. OnApp' => completion.done
    BY <1>1, <1>a DEF visit
  <2>2. \A p \in Patches : patch'[p] \in {patch[p], "idle", "sent"}
    BY <1>1, <1>t DEF visit, Forgotten
  <2> QED BY <1>1, <2>1, <2>2, CompletionQuiet DEF visit
<1>2. CASE userRead
  BY <1>2, CompletionQuiet DEF userRead, OnApp
<1>3. CASE userNotRead
  <2>1. ~OnApp'
    BY <1>3 DEF userNotRead, PageOf, OnApp
  <2> QED BY <1>3, <2>1, CompletionQuiet DEF userNotRead
<1>4. ASSUME UNCHANGED <<completion, overlapped, patch>>, page'.name = page.name PROVE CompletionInv'
  BY <1>4, CompletionQuiet DEF OnApp
<1>5. CASE \/ beforeInstallPrompt \/ handleInstall \/ promptFails \/ \E b \in 0..MaxBrand, sure \in BOOLEAN : choose(sure, b)
           \/ \E heard \in BOOLEAN : appInstalled(heard) \/ brandTaken
  <2>1. page'.name = page.name /\ UNCHANGED serverVars
    BY <1>5, <1>t DEF beforeInstallPrompt, handleInstall, promptFails, choose, appInstalled, brandTaken, Pages
  <2> QED BY <1>4, <2>1
<1>6. CASE \/ installByMenu \/ leaveInstall \/ \E s \in Steps : visitStep(s)
           \/ \E sure \in BOOLEAN : installEnds(sure) \/ pushFails(sure) \/ answerNotice(sure)
           \/ \E c \in checks : pushRead(c) \/ pushShown(c)
           \/ handleEnablePush \/ subscribed \/ pushEnabled \/ leaveNotifications \/ handleDismiss \/ brandChanges
           \/ UNCHANGED firstVars
  <2>1. UNCHANGED page /\ UNCHANGED serverVars
    BY <1>6 DEF installByMenu, leaveInstall, visitStep, installEnds, pushFails, answerNotice, pushRead, pushShown,
                handleEnablePush, subscribed, pushEnabled, leaveNotifications, handleDismiss, brandChanges
  <2> QED BY <1>4, <2>1
<1>7. ASSUME NEW p \in Patches, completeOnboarding(p) PROVE CompletionInv'
  <2>1. \A q \in Patches : patch'[q] \in {patch[q], "idle", "sent"}
    BY <1>7, <1>t DEF completeOnboarding, PatchGoes, PatchSet
  <2> QED BY <1>7, <2>1, CompletionQuiet DEF completeOnboarding, OnApp
<1>8. ASSUME NEW p \in Patches, lookUpCompletion(p) PROVE CompletionInv'
  <2>1. /\ UNCHANGED <<page, completion>> /\ \A q \in Patches \ {p} : patch'[q] = patch[q]
        /\ patch'[p] = "found" => ~completion.done
        /\ patch'[p] = "done" => completion.done
        /\ overlapped' = (overlapped \/ \E q \in Patches : patch[q] = "found")
        /\ patch[p] = "sent"
    BY <1>8, <1>t DEF lookUpCompletion, PatchGoes, AfterLookUp, PatchSet
  <2>2. OnApp' \/ completion'.audits > 0 \/ (\E q \in Patches : patch'[q] = "done") => completion'.done
    BY <2>1 DEF CompletionInv, OnApp
  <2>3. patch'[p] = "found" => completion.audits = 0
    BY <1>t, <2>1 DEF CompletionInv
  <2>4. ~overlapped' => \A q \in Patches : patch[q] # "found"
    BY <2>1
  <2> QED BY <2>1, <2>2, <2>3, <2>4 DEF CompletionInv
<1>9. ASSUME NEW p \in Patches, writeCompletion(p) PROVE CompletionInv'
  <2>1. /\ UNCHANGED <<page, overlapped>> /\ \A q \in Patches \ {p} : patch'[q] = patch[q]
        /\ patch'[p] \in {"done", "idle"} /\ patch[p] = "found" /\ completion'.done /\ completion'.audits = completion.audits + 1
    BY <1>9, <1>t DEF writeCompletion, PatchGoes, PatchSet
  <2> QED BY <1>t, <2>1 DEF CompletionInv, OnApp
<1>10. ASSUME NEW p \in Patches, auditFails(p) PROVE CompletionInv'
  <2>1. /\ UNCHANGED <<page, overlapped>> /\ \A q \in Patches \ {p} : patch'[q] = patch[q]
        /\ patch'[p] = "idle" /\ completion'.done /\ completion'.audits = completion.audits
    BY <1>10, <1>t DEF auditFails, PatchSet
  <2> QED BY <1>t, <2>1 DEF CompletionInv, OnApp
<1>11. ASSUME NEW p \in Patches, finished(p) PROVE CompletionInv'
  <2>1. completion.done
    BY <1>11 DEF finished, CompletionInv
  <2>2. \A q \in Patches : patch'[q] \in {patch[q], "idle", "sent"}
    BY <1>11, <1>t DEF finished, PatchSet
  <2> QED BY <1>11, <2>1, <2>2, CompletionQuiet DEF finished
<1>12. ASSUME NEW p \in Patches, NEW reached \in BOOLEAN, notFinished(p, reached) PROVE CompletionInv'
  <2>1. \A q \in Patches : patch'[q] \in {patch[q], "idle", "sent"}
    BY <1>12, <1>t DEF notFinished, PatchSet
  <2> QED BY <1>12, <2>1, CompletionQuiet DEF notFinished, OnApp
<1> QED BY <1>1, <1>2, <1>3, <1>5, <1>6, <1>7, <1>8, <1>9, <1>10, <1>11, <1>12 DEF FirstAccessNext

-----------------------------------------------------------------------------
\* The notifications of the device, as the wizard has them and as they are.

\* The wizard is at a status that tells of the registration, or will come to one.
KnowsPush ==
    \/ outdated \/ wizard.push = "enabled"
    \/ \E c \in checks : c.first /\ c.value \in {"none", "enabled"}
NoticesAreOff == phone.platform = "safari" /\ page.window = "tab"
StepsInv ==
    /\ phone.registered => phone.endpoint
    /\ phone.endpoint => phone.permission = "granted"
    /\ enabling = "post" => phone.endpoint
    /\ \A c \in checks : c.value = "enabled" => phone.endpoint
    /\ (\E c \in checks : c.first) => wizard.pushing /\ enabling = "none"
    /\ \A c, d \in checks : c.first /\ d.first => c = d
    /\ enabling # "none" => OnWizard
    /\ marks["notifications"] = "done" => phone.endpoint
    /\ OnWizard /\ marks["notifications"] = "skipped" /\ phone.registered => outdated
    /\ OnWizard /\ phone.registered /\ ~NoticesAreOff => KnowsPush

LEMMA StepsQuiet ==
  ASSUME StepsInv, phone'.platform = phone.platform, phone'.registered = phone.registered, phone'.endpoint = phone.endpoint,
         phone'.permission = phone.permission, UNCHANGED <<checks, enabling, outdated>>, page'.name = page.name, page'.window = page.window,
         wizard'.push = wizard.push, wizard'.pushing = wizard.pushing, marks'["notifications"] = marks["notifications"]
  PROVE  StepsInv'
BY DEF StepsInv, KnowsPush, NoticesAreOff, OnWizard

\* The wizard is left.
LEMMA StepsLeft ==
  ASSUME StepsInv, UNCHANGED <<phone, marks>>, checks' = {}, enabling' = "none", page'.name # "wizard"
  PROVE  StepsInv'
BY DEF StepsInv, OnWizard

LEMMA StepsNext ==
  ASSUME FirstAccessTypeOK, FirstAccessTypeOK', InstallInv, StepsInv, [FirstAccessNext]_firstVars
  PROVE  StepsInv'
<1>t. /\ page \in Pages /\ page.window \in {"tab", "app"} /\ phone \in Phones /\ marks \in MarksSet /\ wizard \in Wizards
      /\ {"install", "notifications", "profile"} \subseteq Steps /\ checks \in ChecksSet
  BY FirstTypeIs DEF Pages, Steps
<1>w. ASSUME NEW window \in {"tab", "app"}, OpensWizard(window), UNCHANGED phone PROVE StepsInv'
  <2>1. /\ wizard'.pushing /\ marks'["notifications"] = "pending" /\ checks' = {Check(TRUE)} /\ enabling' = "none"
    BY <1>w, WizardOpens
  <2>2. Check(TRUE).first = TRUE /\ Check(TRUE).value = "none"
    BY DEF Check
  <2> HIDE DEF Check
  <2> QED BY <1>w, <2>1, <2>2 DEF StepsInv, KnowsPush
<1>a. ASSUME NEW window \in {"tab", "app"}, OpensApp(window), UNCHANGED phone PROVE StepsInv'
  BY <1>a, AppOpens, StepsLeft
<1> USE DEF firstVars, serverVars, wizardVars
<1>1. ASSUME NEW name \in {"wizard", "app"}, NEW window \in {"tab", "app"}, visit(name, window) PROVE StepsInv'
  BY <1>1, <1>w, <1>a DEF visit
<1>2. CASE userRead
  <2>1. CASE completion.done
    BY <1>2, <1>t, <1>a, <2>1 DEF userRead
  <2>2. CASE ~completion.done
    <3>1. wizard'.push = wizard.push /\ wizard'.pushing = wizard.pushing
      BY <1>2, <1>t, <2>2 DEF userRead, Wizards
    <3> QED BY <1>2, <2>2, <3>1, StepsQuiet DEF userRead
  <2> QED BY <2>1, <2>2
<1>3. CASE userNotRead
  <2>1. page'.name = "login"
    BY <1>3 DEF userNotRead, PageOf
  <2> QED BY <1>3, <2>1, StepsLeft DEF userNotRead
<1>4. ASSUME UNCHANGED <<phone, checks, enabling, outdated, wizard, marks>>, page'.name = page.name, page'.window = page.window
      PROVE  StepsInv'
  BY <1>4, StepsQuiet
<1>5. CASE beforeInstallPrompt \/ handleInstall \/ promptFails \/ brandTaken
  <2>1. page'.name = page.name /\ page'.window = page.window /\ UNCHANGED phone /\ UNCHANGED wizardVars
    BY <1>5, <1>t DEF beforeInstallPrompt, handleInstall, promptFails, brandTaken, Pages
  <2> QED BY <1>4, <2>1
<1>6. ASSUME NEW b \in 0..MaxBrand, NEW accepted \in BOOLEAN, choose(accepted, b) PROVE StepsInv'
  <2>1. page'.name = page.name /\ page'.window = page.window
    BY <1>6, <1>t DEF choose, Pages
  <2>2. phone'.platform = phone.platform /\ phone'.registered = phone.registered /\ phone'.endpoint = phone.endpoint /\ phone'.permission = phone.permission
    BY <1>6, <1>t DEF choose, Phones
  <2>3. wizard'.push = wizard.push /\ wizard'.pushing = wizard.pushing /\ marks'["notifications"] = marks["notifications"]
    BY <1>6, <1>t DEF choose, Wizards, Marked, MarksSet
  <2> QED BY <1>6, <2>1, <2>2, <2>3, StepsQuiet DEF choose
<1>7. CASE installByMenu \/ \E done \in BOOLEAN : installEnds(done)
  <2>1. phone'.platform = phone.platform /\ phone'.registered = phone.registered /\ phone'.endpoint = phone.endpoint /\ phone'.permission = phone.permission
    BY <1>7, <1>t DEF installByMenu, installEnds, Phones
  <2> QED BY <1>7, <2>1, StepsQuiet DEF installByMenu, installEnds
<1>8. ASSUME NEW heard \in BOOLEAN, appInstalled(heard) PROVE StepsInv'
  <2>1. page'.name = page.name /\ page'.window = page.window
    BY <1>8, <1>t DEF appInstalled, Pages
  <2>2. phone'.platform = phone.platform /\ phone'.registered = phone.registered /\ phone'.endpoint = phone.endpoint /\ phone'.permission = phone.permission
    BY <1>8, <1>t DEF appInstalled, Phones
  <2>3. wizard'.push = wizard.push /\ wizard'.pushing = wizard.pushing /\ marks'["notifications"] = marks["notifications"]
    BY <1>8, <1>t DEF appInstalled, Wizards, Marked, MarksSet
  <2> QED BY <1>8, <2>1, <2>2, <2>3, StepsQuiet DEF appInstalled
<1>9. CASE leaveInstall \/ \E s \in Steps : visitStep(s)
  <2>1. wizard'.push = wizard.push /\ wizard'.pushing = wizard.pushing
    BY <1>9, <1>t DEF leaveInstall, visitStep, Wizards
  <2>2. marks'["notifications"] = marks["notifications"]
    BY <1>9, <1>t DEF leaveInstall, visitStep, Marked, MarksSet
  <2> QED BY <1>9, <2>1, <2>2, StepsQuiet DEF leaveInstall, visitStep
<1>10. ASSUME NEW c \in checks, pushRead(c) PROVE StepsInv'
  <2> DEFINE d == [c EXCEPT !.value = PushStatusNow]
  <2>1. checks' = (checks \ {c}) \cup {d} /\ c.value = "none" /\ UNCHANGED <<phone, page, wizard, marks, enabling, outdated>>
    BY <1>10 DEF pushRead
  <2>2. d.first = c.first /\ d.value = PushStatusNow
    BY <1>t DEF ChecksSet
  <2>3. PushStatusNow = "enabled" => phone.endpoint
    BY DEF PushStatusNow
  <2>4. phone.registered /\ ~NoticesAreOff => PushStatusNow = "enabled"
    BY DEF PushStatusNow, NoticesAreOff, StepsInv
  <2> HIDE DEF d
  <2>5. \A x \in checks' : x.value = "enabled" => phone.endpoint
    BY <2>1, <2>2, <2>3 DEF StepsInv
  <2>6. /\ (\E x \in checks' : x.first) => wizard.pushing /\ enabling = "none"
        /\ \A x, y \in checks' : x.first /\ y.first => x = y
    BY <2>1, <2>2 DEF StepsInv
  <2>7. OnWizard /\ phone.registered /\ ~NoticesAreOff => KnowsPush'
    <3>1. SUFFICES ASSUME OnWizard, phone.registered, ~NoticesAreOff, NEW x \in checks, x.first, x.value \in {"none", "enabled"}
                   PROVE  KnowsPush'
      BY <2>1 DEF StepsInv, KnowsPush
    <3>2. CASE x = c
      BY <2>1, <2>2, <2>4, <3>1, <3>2 DEF KnowsPush
    <3>3. CASE x # c
      BY <2>1, <3>1, <3>3 DEF KnowsPush
    <3> QED BY <3>2, <3>3
  <2> QED BY <2>1, <2>5, <2>6, <2>7 DEF StepsInv, OnWizard, NoticesAreOff
<1>11. ASSUME NEW c \in checks, pushShown(c) PROVE StepsInv'
  <2>1. /\ checks' = checks \ {c} /\ c.value # "none" /\ UNCHANGED <<phone, page, enabling>>
        /\ wizard'.push = c.value /\ wizard'.pushing = (IF c.first THEN FALSE ELSE wizard.pushing)
        /\ outdated' = (outdated \/ (wizard.push = "enabled" /\ c.value # "enabled"))
    BY <1>11, <1>t DEF pushShown, Wizards
  <2>2. /\ marks'["notifications"] = "done" => marks["notifications"] = "done" \/ c.value = "enabled"
        /\ marks'["notifications"] = "skipped" => marks["notifications"] = "skipped"
    BY <1>11, <1>t DEF pushShown, MarksSet
  <2>3. (\E x \in checks' : x.first) => wizard'.pushing /\ enabling = "none"
    BY <2>1 DEF StepsInv
  <2>4. OnWizard /\ phone.registered /\ ~NoticesAreOff => KnowsPush'
    <3>1. SUFFICES ASSUME OnWizard, phone.registered, ~NoticesAreOff PROVE KnowsPush'
      OBVIOUS
    <3>2. CASE outdated \/ wizard.push = "enabled"
      BY <2>1, <3>2 DEF KnowsPush
    <3>3. ASSUME NEW x \in checks, x.first, x.value \in {"none", "enabled"} PROVE KnowsPush'
      <4>1. CASE x = c
        BY <2>1, <3>3, <4>1 DEF KnowsPush
      <4>2. CASE x # c
        BY <2>1, <3>3, <4>2 DEF KnowsPush
      <4> QED BY <4>1, <4>2
    <3> QED BY <3>1, <3>2, <3>3 DEF StepsInv, KnowsPush
  <2> QED BY <2>1, <2>2, <2>3, <2>4 DEF StepsInv, OnWizard, NoticesAreOff
<1>12. CASE handleEnablePush
  <2>1. /\ UNCHANGED <<phone, page, marks, checks, outdated>> /\ enabling' = "key" /\ ~wizard.pushing /\ OnWizard
        /\ wizard'.push = wizard.push
    BY <1>12, <1>t DEF handleEnablePush, Offers, Wizards
  <2> QED BY <2>1 DEF StepsInv, KnowsPush, NoticesAreOff, OnWizard
<1>13. CASE subscribed
  <2>1. /\ UNCHANGED <<page, marks, checks, outdated, wizard>> /\ enabling' = "post" /\ enabling = "key"
        /\ phone'.platform = phone.platform /\ phone'.registered = phone.registered /\ phone'.endpoint /\ phone'.permission = "granted"
    BY <1>13, <1>t DEF subscribed, Phones
  <2> QED BY <2>1 DEF StepsInv, KnowsPush, NoticesAreOff, OnWizard
<1>14. CASE pushEnabled
  <2>1. /\ UNCHANGED <<page, checks, outdated>> /\ enabling' = "none" /\ enabling = "post" /\ wizard'.push = "enabled"
        /\ phone'.platform = phone.platform /\ phone'.registered /\ phone'.endpoint = phone.endpoint /\ phone'.permission = phone.permission
    BY <1>14, <1>t DEF pushEnabled, Phones, Wizards
  <2>2. marks'["notifications"] = "done"
    BY <1>14, <1>t DEF pushEnabled, Marked, MarksSet
  <2> QED BY <2>1, <2>2 DEF StepsInv, KnowsPush
<1>15. ASSUME NEW refused \in BOOLEAN, pushFails(refused) PROVE StepsInv'
  <2> DEFINE d == Check(FALSE)
  <2>1. /\ UNCHANGED <<page, marks, outdated>> /\ enabling' = "none" /\ enabling # "none" /\ checks' = checks \cup {d}
        /\ wizard'.push = wizard.push
    BY <1>15, <1>t DEF pushFails, Wizards
  <2>2. /\ phone'.platform = phone.platform /\ phone'.registered = phone.registered /\ phone'.endpoint = phone.endpoint
        /\ phone'.permission = phone.permission \/ phone.permission = "default"
    BY <1>15, <1>t DEF pushFails, Phones
  <2>3. d.first = FALSE /\ d.value = "none"
    BY DEF Check
  <2> HIDE DEF d
  <2> QED BY <2>1, <2>2, <2>3 DEF StepsInv, KnowsPush, NoticesAreOff, OnWizard
<1>16. CASE leaveNotifications
  <2>1. /\ UNCHANGED <<phone, page, checks, enabling, outdated>> /\ ~wizard.pushing /\ OnWizard /\ ~ShowsGuide
        /\ wizard'.push = wizard.push /\ wizard'.pushing = wizard.pushing
        /\ IF wizard.push = "enabled" THEN marks' = marks ELSE marks'["notifications"] = "skipped"
    BY <1>16, <1>t DEF leaveNotifications, Offers, Wizards, Marked, MarksSet
  <2>2. ~NoticesAreOff
    BY <2>1 DEF ShowsGuide, NoticesAreOff, InstallInv
  <2>3. phone.registered => outdated \/ wizard.push = "enabled"
    BY <2>1, <2>2 DEF StepsInv, KnowsPush
  <2> QED BY <2>1, <2>3 DEF StepsInv, KnowsPush, NoticesAreOff, OnWizard
<1>17. ASSUME NEW p \in Patches,
              completeOnboarding(p) \/ lookUpCompletion(p) \/ writeCompletion(p) \/ auditFails(p) \/ \E reached \in BOOLEAN : notFinished(p, reached)
       PROVE  StepsInv'
  <2>1. wizard'.push = wizard.push /\ wizard'.pushing = wizard.pushing
    BY <1>17, <1>t DEF completeOnboarding, lookUpCompletion, writeCompletion, auditFails, notFinished, Wizards
  <2>2. marks'["notifications"] = marks["notifications"]
    BY <1>17, <1>t DEF completeOnboarding, lookUpCompletion, writeCompletion, auditFails, notFinished, Marked, MarksSet
  <2> QED BY <1>17, <2>1, <2>2, StepsQuiet DEF completeOnboarding, lookUpCompletion, writeCompletion, auditFails, notFinished
<1>18. ASSUME NEW p \in Patches, finished(p) PROVE StepsInv'
  BY <1>18, <1>t, <1>a DEF finished
<1>19. CASE handleDismiss \/ brandChanges \/ (\E sure \in BOOLEAN : answerNotice(sure)) \/ UNCHANGED firstVars
  BY <1>4, <1>19 DEF handleDismiss, brandChanges, answerNotice
<1> QED BY <1>1, <1>2, <1>3, <1>5, <1>6, <1>7, <1>8, <1>9, <1>10, <1>11, <1>12, <1>13, <1>14, <1>15, <1>16, <1>17, <1>18, <1>19 DEF FirstAccessNext

-----------------------------------------------------------------------------
FirstAccessInv == FirstAccessTypeOK /\ BrandsInv /\ InstallInv /\ StepsInv /\ CompletionInv

LEMMA FirstAccessStarts == FirstAccessInit => FirstAccessInv
<1> SUFFICES ASSUME FirstAccessInit PROVE FirstAccessInv
  OBVIOUS
<1>1. /\ phone.installed = FALSE /\ phone.brand = 0 /\ phone.by = "nobody" /\ phone.coming = NotComing /\ phone.event = FALSE
      /\ phone.endpoint = FALSE /\ phone.registered = FALSE
  BY DEF FirstAccessInit
<1>2. /\ page.name = "wizard" /\ page.window = "tab" /\ ~page.standalone /\ page.brand = 0 /\ ~page.asked
  BY DEF FirstAccessInit, PageOf
<1>3. marks["install"] = "pending" /\ marks["notifications"] = "pending" /\ wizard.pushing
  BY DEF FirstAccessInit, MarksOf, WizardOf, Steps, StepIsOver
<1>4. Check(TRUE).first = TRUE /\ Check(TRUE).value = "none"
  BY DEF Check
<1>5. FirstAccessTypeOK
  <2>1. phone \in Phones
    <3>1. NotComing \in [brand : Brands, by : Ways] /\ "nobody" \in Ways
      BY BrandsAre DEF NotComing, Ways
    <3>2. PICK kind \in {"safari", "android"} :
            phone = [platform |-> kind, installed |-> FALSE, brand |-> 0, by |-> "nobody", coming |-> NotComing,
                     event |-> FALSE, endpoint |-> FALSE, permission |-> "default", registered |-> FALSE]
      BY DEF FirstAccessInit
    <3> QED BY <3>1, <3>2, BrandsAre DEF Phones
  <2>2. page \in Pages /\ wizard \in Wizards /\ marks \in MarksSet
    BY BrandsAre DEF FirstAccessInit, PageOf, Pages, WizardOf, Wizards, MarksOf, MarksSet, StepIsOver, Steps, Pushes
  <2>3. checks \in ChecksSet
    BY DEF FirstAccessInit, Check, ChecksSet
  <2>4. brandNow \in Brands /\ local \in Locals
    BY BrandsAre DEF FirstAccessInit, Locals
  <2>5. turns \in 0..MaxTurns
    BY FirstAccessAssumption DEF FirstAccessInit
  <2> QED BY <2>1, <2>2, <2>3, <2>4, <2>5, FirstTypeIs DEF FirstAccessInit, PatchSet
<1>6. BrandsInv
  <2>1. local.brand = 0 /\ brandNow = 0
    BY DEF FirstAccessInit
  <2> QED BY <1>1, <1>2, <2>1 DEF BrandsInv, PromptSafe, OnApp, NotComing
<1>7. InstallInv
  BY <1>1, <1>2, <1>3 DEF InstallInv
<1>8. StepsInv
  <2>1. checks = {Check(TRUE)} /\ enabling = "none"
    BY DEF FirstAccessInit
  <2> QED BY <1>1, <1>3, <1>4, <2>1 DEF StepsInv
<1>9. CompletionInv
  <2>1. completion.audits = 0 /\ \A p \in Patches : patch[p] = "idle"
    BY DEF FirstAccessInit
  <2> QED BY <1>2, <2>1 DEF CompletionInv, OnApp
<1> QED BY <1>5, <1>6, <1>7, <1>8, <1>9 DEF FirstAccessInv

\* Whatever of what the first access awaits comes first, the versions, the
\* installation, the notifications and the end stay in step with each other.
THEOREM FirstAccessInvariant == FirstAccessSpec => []FirstAccessInv
<1>1. FirstAccessInv /\ [FirstAccessNext]_firstVars => FirstAccessInv'
  <2> SUFFICES ASSUME FirstAccessInv, [FirstAccessNext]_firstVars PROVE FirstAccessInv'
    OBVIOUS
  <2>1. FirstAccessTypeOK'
    BY FirstTypeNext DEF FirstAccessInv
  <2> QED BY <2>1, BrandsNext, InstallNext, StepsNext, CompletionNext DEF FirstAccessInv
<1> QED BY <1>1, FirstAccessStarts, PTL DEF FirstAccessSpec

\* A step that the wizard shows as done was done on the device and one that it
\* registered is not shown as put off, and nobody is in the application who has
\* not finished (onboarding/page.tsx, completeOnboarding of auth.service.ts).
THEOREM TheWizardIsTruthful == FirstAccessSpec => []WizardTellsTheTruth
<1>1. FirstAccessInv => WizardTellsTheTruth
  <2>1. FirstAccessInv => completion.audits \in Nat
    BY DEF FirstAccessInv, FirstAccessTypeOK
  <2> QED BY <2>1 DEF FirstAccessInv, WizardTellsTheTruth, InstallInv, Accepted, StepsInv, CompletionInv
<1> QED BY <1>1, FirstAccessInvariant, PTL

\* The notice to install again is for another icon than the one the prompt of the
\* application installed, however versions, tabs and events cross
\* (install-app-prompt.tsx).
THEOREM ReinstallOnlyWhenDue == FirstAccessSpec => []ReinstallIsDue
<1>1. FirstAccessInv => ReinstallIsDue
  BY BrandNumbers DEF FirstAccessInv, ReinstallIsDue, BrandsInv, PromptSafe
<1> QED BY <1>1, FirstAccessInvariant, PTL

-----------------------------------------------------------------------------
\* The parts together.

\* A behaviour of the whole that the run checks (UserAccess) is one of the accounts
\* and one of the first access.
THEOREM AccountAndFirstAccess == AccessSpec => Spec /\ FirstAccessSpec
<1>1. AccessInit => Init /\ FirstAccessInit
  BY DEF AccessInit
<1>2. [AccessNext]_accessVars => [Next]_vars /\ [FirstAccessNext]_firstVars
  BY DEF AccessNext, accessVars
<1> QED BY <1>1, <1>2, PTL DEF AccessSpec, Spec, FirstAccessSpec
=============================================================================
