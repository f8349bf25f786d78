------------------------------ MODULE Accounts ------------------------------
(***************************************************************************)
(* The accounts of a tenant: creation, activation by link with a password  *)
(* or with Google, linking and unlinking Google, passwords, disabling      *)
(* (auth.service.ts, social-auth.service.ts).                              *)
(*                                                                         *)
(* Each handler reads the rows it decides on, and writes by id later: a    *)
(* password is hashed and other rows are read in between.  An account of   *)
(* Google is named by its verified e-mail.  What only signs in writes none *)
(* of this and is left out, and so are phones, roles, members, tenants,    *)
(* and the first legs of the OAuth flow, whose tests the last one repeats. *)
(* A link that is past its 72 hours is one that nobody uses any more.      *)
(***************************************************************************)
EXTENDS Naturals

CONSTANTS
    Users,       \* rows of User, created or not
    Emails,      \* e-mails, each with its account of Google
    NoEmail,     \* the field is not given
    Requests,
    Formularios, \* bound: the updates the administrator sends
    MaxTokens    \* bound on the activation links issued

Formulario == [ativo : {"sim", "nao", "omitido"}, senha : BOOLEAN, email : Emails \cup {NoEmail}]

ASSUME AccountsAssumption ==
    /\ NoEmail \notin Emails
    /\ Formularios \subseteq Formulario
    /\ MaxTokens \in Nat

VARIABLES
    user,        \* the accounts
    provider,    \* the link of each account to Google (UserAuthProvider)
    emitidos,    \* activation links issued so far: 1..emitidos
    req,         \* where each request is, and what it has read
    atropelado   \* history: the account was written after the request read it

vars == <<user, provider, emitidos, req, atropelado>>

Tokens == 1..MaxTokens
Null == 0

\* A row that does not exist yet; pending; active, with a link only if it was
\* regenerated meanwhile; disabled.
Ausente == [status |-> "AUSENTE"]
Conta ==
    {Ausente}
    \cup [status : {"PENDING"}, ativo : {FALSE}, senha : BOOLEAN, token : Tokens, email : Emails]
    \cup [status : {"ACTIVE"}, ativo : {TRUE}, senha : BOOLEAN, token : Tokens \cup {Null}, email : Emails]
    \cup [status : {"DISABLED"}, ativo : {FALSE}, senha : BOOLEAN, token : Tokens \cup {Null}, email : Emails]

SemProvedor == [estado |-> "nenhum"]
Provedor == {SemProvedor} \cup [estado : {"ativo", "revogado"}, conta : Emails]

Livre == [pc |-> "livre"]
PedidoDeSenha == [pc : {"gravarSenha"}, user : Users, token : Tokens]
PedidoSimples == [pc : {"gravarNovaSenha", "gravarDesvinculo", "gravarToken"}, user : Users]
\* Linking Google: the token is that of the activation, or Null for an account
\* that is active.
PedidoDeVinculo == [pc : {"usuario", "vinculo", "provedor", "gravarVinculo"}, user : Users,
                    conta : Emails, token : Tokens \cup {Null}, achado : BOOLEAN]
PedidoDeAdmin == [pc : {"gravarUsuario"}, user : Users, dto : Formulario, limpa : BOOLEAN]
Pedido == {Livre} \cup PedidoDeSenha \cup PedidoSimples \cup PedidoDeVinculo \cup PedidoDeAdmin

-----------------------------------------------------------------------------
Existe(u) == user[u] # Ausente
Ativo(u) == Existe(u) /\ user[u].status = "ACTIVE" /\ user[u].ativo
Vinculado(u) == provider[u].estado = "ativo"

\* The row that holds an account of Google, whoever it is of.
DonoDe(g) == {u \in Users : provider[u] # SemProvedor /\ provider[u].conta = g}
EmailLivre(e, u) == \A v \in Users \ {u} : Existe(v) => user[v].email # e

\* A mutated form of PorLink, used by no action.
PorLinkDeQualquerConta(t) == {u \in Users : Existe(u) /\ user[u].token = t}

\* The pending account of an activation link.
PorLink(t) == {u \in Users : Existe(u) /\ user[u].token = t /\ user[u].status = "PENDING"}

Segue(r, passo) == req' = [req EXCEPT ![r] = passo]
Termina(r) == Segue(r, Livre)

Comeca(r, passo) ==
    /\ req[r] = Livre
    /\ Segue(r, passo)
    /\ atropelado' = [atropelado EXCEPT ![r] = FALSE]

Escreve(u, conta) ==
    /\ user' = [user EXCEPT ![u] = conta]
    /\ atropelado' = [q \in Requests |-> atropelado[q] \/ (conta # user[u] /\ req[q] # Livre /\ req[q].user = u)]

Init ==
    /\ user = [u \in Users |-> Ausente]
    /\ provider = [u \in Users |-> SemProvedor]
    /\ emitidos = 0
    /\ req = [r \in Requests |-> Livre]
    /\ atropelado = [r \in Requests |-> FALSE]

-----------------------------------------------------------------------------
\* createUser of the administrator, and createTenantUser of the platform, which
\* always sets a password.  The unique key of the e-mail decides.
createUser(u, e, senha, ativo) ==
    /\ ~Existe(u) /\ EmailLivre(e, u)
    /\ LET status == IF ~ativo THEN "DISABLED" ELSE IF senha THEN "ACTIVE" ELSE "PENDING"
           link == status = "PENDING" IN
       /\ link => emitidos < MaxTokens
       /\ emitidos' = IF link THEN emitidos + 1 ELSE emitidos
       /\ Escreve(u, [status |-> status, ativo |-> status = "ACTIVE", senha |-> senha,
                      token |-> IF link THEN emitidos + 1 ELSE Null, email |-> e])
    /\ UNCHANGED <<provider, req>>

\* regenerateActivationLink, of a pending account.
regenerateActivationLink(r, u) ==
    /\ Existe(u) /\ user[u].status = "PENDING"
    /\ Comeca(r, [pc |-> "gravarToken", user |-> u])
    /\ UNCHANGED <<user, provider, emitidos>>

gravarToken(r) ==
    /\ req[r].pc = "gravarToken" /\ emitidos < MaxTokens
    /\ emitidos' = emitidos + 1
    /\ Escreve(req[r].user, [user[req[r].user] EXCEPT !.token = emitidos + 1])
    /\ Termina(r)
    /\ UNCHANGED provider

\* activateWithPassword finds the account, hashes the password, and writes.
activateWithPassword(r, t) ==
    /\ \E u \in PorLink(t) : Comeca(r, [pc |-> "gravarSenha", user |-> u, token |-> t])
    /\ UNCHANGED <<user, provider, emitidos>>

Ativada(conta) == [conta EXCEPT !.status = "ACTIVE", !.ativo = TRUE, !.token = Null]

gravarSenha(r) ==
    /\ req[r].pc = "gravarSenha"
    /\ Escreve(req[r].user, [Ativada(user[req[r].user]) EXCEPT !.senha = TRUE])
    /\ Termina(r)
    /\ UNCHANGED <<provider, emitidos>>

\* changePassword: a first password needs another way in.  The present one is
\* compared on the hash that was read.
changePassword(r, u) ==
    /\ Ativo(u)
    /\ user[u].senha \/ Vinculado(u)
    /\ Comeca(r, [pc |-> "gravarNovaSenha", user |-> u])
    /\ UNCHANGED <<user, provider, emitidos>>

gravarNovaSenha(r) ==
    /\ req[r].pc = "gravarNovaSenha"
    /\ Escreve(req[r].user, [user[req[r].user] EXCEPT !.senha = TRUE])
    /\ Termina(r)
    /\ UNCHANGED <<provider, emitidos>>

-----------------------------------------------------------------------------
\* handleGoogleCallback offers an active account with the e-mail of the account
\* of Google to link it, unless either of them is already linked elsewhere.
handleGoogleCallback(r, g) ==
    /\ \E u \in Users :
         /\ Ativo(u) /\ user[u].email = g
         /\ DonoDe(g) \subseteq {u} /\ ~Vinculado(u)
         /\ provider[u] # SemProvedor => provider[u].conta = g
         /\ Comeca(r, [pc |-> "usuario", user |-> u, conta |-> g, token |-> Null, achado |-> FALSE])
    /\ UNCHANGED <<user, provider, emitidos>>

\* A mutated form of confirmPendingLink, used by no action.
confirmWithoutEmail(r) ==
    /\ req[r].pc = "usuario"
    /\ IF Ativo(req[r].user) THEN Segue(r, [req[r] EXCEPT !.pc = "vinculo"]) ELSE Termina(r)
    /\ atropelado' = [atropelado EXCEPT ![r] = FALSE]
    /\ UNCHANGED <<user, provider, emitidos>>

\* confirmPendingLink reads the account again, at any time later, and what was
\* read before no longer counts.
confirmPendingLink(r) ==
    /\ req[r].pc = "usuario"
    /\ LET u == req[r].user IN
       IF Ativo(u) /\ user[u].email = req[r].conta THEN Segue(r, [req[r] EXCEPT !.pc = "vinculo"]) ELSE Termina(r)
    /\ atropelado' = [atropelado EXCEPT ![r] = FALSE]
    /\ UNCHANGED <<user, provider, emitidos>>

\* activatePendingUserWithGoogle finds the account by its activation link.
activatePendingUserWithGoogle(r, t, g) ==
    /\ \E u \in PorLink(t) :
         /\ user[u].email = g
         /\ Comeca(r, [pc |-> "vinculo", user |-> u, conta |-> g, token |-> t, achado |-> FALSE])
    /\ UNCHANGED <<user, provider, emitidos>>

\* Then the row of the account of Google, which must not be of another user.
lerVinculo(r) ==
    /\ req[r].pc = "vinculo"
    /\ LET q == req[r] IN
       IF DonoDe(q.conta) \subseteq {q.user}
       THEN Segue(r, [q EXCEPT !.pc = "provedor", !.achado = DonoDe(q.conta) # {}])
       ELSE Termina(r)
    /\ UNCHANGED <<user, provider, emitidos, atropelado>>

\* Then the row of the user: one that the former read did not find is another
\* account of Google, or was written since.  An activation goes on with a
\* revoked one of the same account.
lerProvedor(r) ==
    /\ req[r].pc = "provedor"
    /\ LET q == req[r]
           p == provider[q.user] IN
       IF p = SemProvedor \/ q.achado \/ (q.token # Null /\ p.estado = "revogado" /\ p.conta = q.conta)
       THEN Segue(r, [q EXCEPT !.pc = "gravarVinculo", !.achado = p # SemProvedor])
       ELSE Termina(r)
    /\ UNCHANGED <<user, provider, emitidos, atropelado>>

\* The row is updated by id, or created if the unique keys allow it; an
\* activation writes the account in the same transaction.
gravarVinculo(r) ==
    /\ req[r].pc = "gravarVinculo"
    /\ LET q == req[r]
           u == q.user IN
       IF q.achado \/ (provider[u] = SemProvedor /\ DonoDe(q.conta) = {})
       THEN /\ provider' = [provider EXCEPT ![u] = [estado |-> "ativo", conta |-> q.conta]]
            /\ IF q.token = Null THEN UNCHANGED <<user, atropelado>> ELSE Escreve(u, Ativada(user[u]))
       ELSE UNCHANGED <<user, provider, atropelado>>
    /\ Termina(r)
    /\ UNCHANGED emitidos

\* A mutated form of unlinkProvider, used by no action.
unlinkLastProvider(r, u) ==
    /\ Ativo(u) /\ Vinculado(u)
    /\ Comeca(r, [pc |-> "gravarDesvinculo", user |-> u])
    /\ UNCHANGED <<user, provider, emitidos>>

\* unlinkProvider: Google is the only provider with rows, so what must remain
\* is a password.
unlinkProvider(r, u) ==
    /\ Ativo(u) /\ Vinculado(u)
    /\ user[u].senha
    /\ Comeca(r, [pc |-> "gravarDesvinculo", user |-> u])
    /\ UNCHANGED <<user, provider, emitidos>>

gravarDesvinculo(r) ==
    /\ req[r].pc = "gravarDesvinculo"
    /\ provider' = [provider EXCEPT ![req[r].user].estado = "revogado"]
    /\ Termina(r)
    /\ UNCHANGED <<user, emitidos, atropelado>>

-----------------------------------------------------------------------------
\* updateUser of the administrator reads the account and its provider; it
\* writes the fields that are given.
updateUser(r, u, dto) ==
    /\ Existe(u)
    /\ dto.ativo = "sim" => dto.senha \/ user[u].senha \/ Vinculado(u)
    /\ dto.email # NoEmail => EmailLivre(dto.email, u)
    /\ Comeca(r, [pc |-> "gravarUsuario", user |-> u, dto |-> dto,
                  limpa |-> dto.ativo = "sim" /\ user[u].status = "PENDING"])
    /\ UNCHANGED <<user, provider, emitidos>>

Atualizada(conta, dto, limpa) ==
    [status |-> IF dto.ativo = "sim" THEN "ACTIVE" ELSE IF dto.ativo = "nao" THEN "DISABLED" ELSE conta.status,
     ativo |-> IF dto.ativo = "omitido" THEN conta.ativo ELSE dto.ativo = "sim",
     senha |-> conta.senha \/ dto.senha,
     token |-> IF limpa THEN Null ELSE conta.token,
     email |-> IF dto.email = NoEmail THEN conta.email ELSE dto.email]

\* The unique key of the e-mail may refuse it.
gravarUsuario(r) ==
    /\ req[r].pc = "gravarUsuario"
    /\ LET q == req[r] IN
       IF q.dto.email # NoEmail => EmailLivre(q.dto.email, q.user)
       THEN Escreve(q.user, Atualizada(user[q.user], q.dto, q.limpa))
       ELSE UNCHANGED <<user, atropelado>>
    /\ Termina(r)
    /\ UNCHANGED <<provider, emitidos>>

\* deleteUser disables the account, whatever it has read.
deleteUser(u) ==
    /\ Existe(u)
    /\ Escreve(u, [user[u] EXCEPT !.ativo = FALSE, !.status = "DISABLED"])
    /\ UNCHANGED <<provider, emitidos, req>>

\* A check this module leaves out fails, the user gives up, or the process dies.
recusar(r) ==
    /\ req[r] # Livre
    /\ Termina(r)
    /\ UNCHANGED <<user, provider, emitidos, atropelado>>

-----------------------------------------------------------------------------
Activation(r) ==
    \/ \E u \in Users : regenerateActivationLink(r, u)
    \/ gravarToken(r)
    \/ \E t \in Tokens : activateWithPassword(r, t)
    \/ gravarSenha(r)
    \/ \E t \in Tokens, g \in Emails : activatePendingUserWithGoogle(r, t, g)

Google(r) ==
    \/ \E g \in Emails : handleGoogleCallback(r, g)
    \/ confirmPendingLink(r) \/ lerVinculo(r) \/ lerProvedor(r) \/ gravarVinculo(r)
    \/ \E u \in Users : unlinkProvider(r, u)
    \/ gravarDesvinculo(r)

Password(r) ==
    \/ \E u \in Users : changePassword(r, u)
    \/ gravarNovaSenha(r)

Admin(r) ==
    \/ \E u \in Users, dto \in Formularios : updateUser(r, u, dto)
    \/ gravarUsuario(r)

Tables ==
    \/ \E u \in Users, e \in Emails, s, a \in BOOLEAN : createUser(u, e, s, a)
    \/ \E u \in Users : deleteUser(u)

Next ==
    \/ \E r \in Requests : Activation(r) \/ Google(r) \/ Password(r) \/ Admin(r) \/ recusar(r)
    \/ Tables

Spec == Init /\ [][Next]_vars

-----------------------------------------------------------------------------
TypeOK ==
    /\ user \in [Users -> Conta]
    /\ provider \in [Users -> Provedor]
    /\ emitidos \in 0..MaxTokens
    /\ req \in [Requests -> Pedido]
    /\ atropelado \in [Requests -> BOOLEAN]

\* Every account that is active has a password or is linked to Google, however
\* linking, unlinking, passwords and the administrator interleave.
WayIn == \A u \in Users : Ativo(u) => user[u].senha \/ Vinculado(u)

\* Request r ends in this step, and is about account u.
Conclui(r, u) == req[r] # Livre /\ req'[r] = Livre /\ req[r].user = u

\* An account becomes active by its present activation link while it is
\* pending, or by the administrator: a link that was used or replaced, or of
\* an account since disabled, works only if the request was already under way.
ActivationUsesLiveLink ==
    [][\A u \in Users : Existe(u) /\ ~Ativo(u) /\ Ativo(u)' =>
         \E r \in Requests :
           /\ Conclui(r, u)
           /\ \/ req[r].pc = "gravarUsuario"
              \/ atropelado[r]
              \/ (user[u].status = "PENDING" /\ user[u].token = req[r].token)]_vars

\* An account is linked to the account of Google of its own e-mail, however late
\* the user confirms, unless the e-mail changed after the confirmation read it.
LinkMatchesEmail ==
    [][\A u \in Users : ~Vinculado(u) /\ Vinculado(u)' =>
         \/ user[u].email = provider'[u].conta
         \/ \E r \in Requests : Conclui(r, u) /\ atropelado[r]]_vars
=============================================================================
