---- MODULE MCAccounts ----
EXTENDS UserAccess, TLC

\* Reactivate or disable, with or without a password, or change the e-mail.
FormulariosMC ==
    [ativo : {"sim"}, senha : BOOLEAN, email : {NoEmail}]
    \cup [ativo : {"nao"}, senha : {FALSE}, email : {NoEmail}]
    \cup [ativo : {"omitido"}, senha : {FALSE}, email : Emails]

\* Accounts, e-mails and requests are interchangeable.
Symmetric == Permutations(Users) \cup Permutations(Emails) \cup Permutations(Requests)

\* What is kept of a request that has ended is never read: the next one resets it.
View ==
    <<part, firstVars, user, provider, emitidos, req, [r \in Requests |-> req[r] # Livre /\ atropelado[r]]>>
====
