----------------------------- MODULE FinanceLedger -----------------------------
(***************************************************************************)
(* Transactions, their accounts and categories (financial-transactions,    *)
(* financial-accounts and financial-categories services).                  *)
(*                                                                         *)
(* A transaction is validated against its account, category and member in  *)
(* statements of their own and then written by id, with the fields the dto *)
(* gives.  The level of the user is one more read that may refuse, and     *)
(* receipts are files (module StoredMedia).  Amounts, dates and texts are  *)
(* not told apart.                                                         *)
(***************************************************************************)
EXTENDS Naturals

CONSTANTS
    Transactions, \* rows of FinancialTransaction, created or not
    Categories,
    Contributors, \* members a transaction may name
    Clerks,       \* requests
    Forms,        \* the dtos an instance lets the requests give
    MaxEdits      \* bound on requests begun and on changes around them

Types == {"INCOME", "EXPENSE"}
OrOmitted(S) == S \cup {"omitted"}
Nobody == "nobody"

VARIABLES
    account,  \* whether the account of the transactions is active
    category, \* type and activity of each category
    member,   \* members that are active
    entry,    \* the transactions
    clerk,    \* where each request is, and what it has read
    edits,    \* how many there have been
    skewed    \* history: transactions written, or recategorised, under a request

ledgerVars == <<account, category, member, entry, clerk, edits, skewed>>

NoEntry == [status |-> "absent"]
Entries == [status : {"PENDING", "CONFIRMED", "CANCELLED"}, type : Types, category : Categories, member : Contributors \cup {Nobody}]

\* What an update or a creation gives: member "nobody" is null.
Dtos == [type : OrOmitted(Types), category : OrOmitted(Categories), member : OrOmitted(Contributors \cup {Nobody}),
         status : OrOmitted({"PENDING", "CONFIRMED", "CANCELLED"})]

ASSUME LedgerAssumption ==
    /\ Nobody \notin Contributors /\ "omitted" \notin Contributors \cup Categories
    /\ Forms \subseteq Dtos /\ MaxEdits \in Nat

NoClerk == [op |-> "idle"]
\* seen: the row as it was read; next: the row the request is about to make.
Clerical ==
    {NoClerk}
    \cup [op : {"validate", "member", "write"}, entry : Transactions, dto : Forms, seen : Entries \cup {NoEntry}]
    \cup [op : {"cancel"}, entry : Transactions, seen : Entries]

\* A mutated form of FitsCategory, used by no action.
FitsActiveCategory(type, c) == category[c].active

FitsCategory(type, c) == category[c].active /\ category[c].type = type

\* Transactions made before are consistent with what there is.
LedgerInit ==
    /\ account = TRUE
    /\ category \in [Categories -> [type : Types, active : {TRUE}]]
    /\ member = Contributors
    /\ entry \in [Transactions -> {NoEntry} \cup
         {row \in Entries : category[row.category].type = row.type /\ (row.member # Nobody => row.type = "INCOME")}]
    /\ clerk = [q \in Clerks |-> NoClerk]
    /\ edits = 0
    /\ skewed = {}

Or(given, stored) == IF given = "omitted" THEN stored ELSE given
NextType(q) == Or(clerk[q].dto.type, clerk[q].seen.type)
NextCategory(q) == Or(clerk[q].dto.category, clerk[q].seen.category)
NextMember(q) == Or(clerk[q].dto.member, clerk[q].seen.member)
\* A creation gives type, category and, null by default, status and member.
Complete(dto) == dto.type # "omitted" /\ dto.category # "omitted" /\ dto.member # "omitted"

ClerkBegins(q, step) ==
    /\ clerk[q] = NoClerk /\ edits < MaxEdits
    /\ edits' = edits + 1
    /\ clerk' = [clerk EXCEPT ![q] = step]
Around == edits < MaxEdits /\ edits' = edits + 1
ClerkGoes(q, op) == clerk' = [clerk EXCEPT ![q].op = op]
ClerkEnds(q) == clerk' = [clerk EXCEPT ![q] = NoClerk]
-----------------------------------------------------------------------------
createTransaction(q, e, dto) ==
    /\ entry[e] = NoEntry /\ Complete(dto)
    /\ ClerkBegins(q, [op |-> "validate", entry |-> e, dto |-> dto, seen |-> NoEntry])
    /\ UNCHANGED <<account, category, member, entry, skewed>>

\* A mutated form of Editable, used by no action.
EditableAtAll(e) == entry[e] # NoEntry

Editable(e) == entry[e] # NoEntry /\ entry[e].status # "CANCELLED"

\* update reads the transaction, which must not be cancelled.
updateTransaction(q, e, dto) ==
    /\ Editable(e)
    /\ ClerkBegins(q, [op |-> "validate", entry |-> e, dto |-> dto, seen |-> entry[e]])
    /\ UNCHANGED <<account, category, member, entry, skewed>>

\* validateAccountAndCategory, of the row as it will be.
validateAccountAndCategory(q) ==
    /\ clerk[q].op = "validate"
    /\ IF account /\ FitsCategory(NextType(q), NextCategory(q)) THEN ClerkGoes(q, "member") ELSE ClerkEnds(q)
    /\ UNCHANGED <<account, category, member, entry, edits, skewed>>

\* validateMember: only an income names one.
validateMember(q) ==
    /\ clerk[q].op = "member"
    /\ IF NextMember(q) = Nobody \/ (NextType(q) = "INCOME" /\ NextMember(q) \in member)
       THEN ClerkGoes(q, "write") ELSE ClerkEnds(q)
    /\ UNCHANGED <<account, category, member, entry, edits, skewed>>

\* The fields given, over the row as it is now; the member also when the type
\* is given.
Written(q) ==
    LET dto == clerk[q].dto IN
    IF clerk[q].seen = NoEntry
    THEN [status |-> Or(dto.status, "CONFIRMED"), type |-> dto.type, category |-> dto.category, member |-> dto.member]
    ELSE LET row == entry[clerk[q].entry] IN
         [status |-> Or(dto.status, row.status),
          type |-> Or(dto.type, row.type),
          category |-> Or(dto.category, row.category),
          member |-> IF dto.member # "omitted" \/ dto.type # "omitted" THEN NextMember(q) ELSE row.member]

\* The rows that others are about to write on what they have read of e.
Skew(e, c) == {x \in Transactions : entry[x] # NoEntry /\ entry[x].category = c} \cup
              {clerk[q].entry : q \in {p \in Clerks : clerk[p].op \in {"member", "write"} /\ NextCategory(p) = c}}

writeTransaction(q) ==
    LET e == clerk[q].entry IN
    /\ clerk[q].op = "write"
    /\ IF clerk[q].seen = NoEntry /\ entry[e] # NoEntry
       THEN UNCHANGED <<entry, skewed>>
       ELSE /\ entry' = [entry EXCEPT ![e] = Written(q)]
            /\ skewed' = IF entry[e] # clerk[q].seen THEN skewed \cup {e} ELSE skewed
    /\ ClerkEnds(q)
    /\ UNCHANGED <<account, category, member, edits>>

\* cancel: nothing to do if it is cancelled already.
cancelTransaction(q, e) ==
    /\ Editable(e)
    /\ ClerkBegins(q, [op |-> "cancel", entry |-> e, seen |-> entry[e]])
    /\ UNCHANGED <<account, category, member, entry, skewed>>

writeCancellation(q) ==
    /\ clerk[q].op = "cancel"
    /\ entry' = [entry EXCEPT ![clerk[q].entry].status = "CANCELLED"]
    /\ ClerkEnds(q)
    /\ UNCHANGED <<account, category, member, edits, skewed>>

\* update and deactivate of the account.
updateAccount ==
    /\ account' = ~account
    /\ Around
    /\ UNCHANGED <<category, member, entry, clerk, skewed>>

\* update and deactivate of a category: its transactions are not looked at.
updateCategory(c, type, active) ==
    /\ category[c] # [type |-> type, active |-> active]
    /\ Around
    /\ category' = [category EXCEPT ![c] = [type |-> type, active |-> active]]
    /\ skewed' = IF type # category[c].type THEN skewed \cup Skew(type, c) ELSE skewed
    /\ UNCHANGED <<account, member, entry, clerk>>

\* A member is removed, or is no longer active (module MemberRegistry).
memberLeaves(m) ==
    /\ m \in member
    /\ Around
    /\ member' = member \ {m}
    /\ UNCHANGED <<account, category, entry, clerk, skewed>>

LedgerNext ==
    \/ \E q \in Clerks :
         \/ \E e \in Transactions, dto \in Forms : createTransaction(q, e, dto) \/ updateTransaction(q, e, dto)
         \/ validateAccountAndCategory(q) \/ validateMember(q) \/ writeTransaction(q)
         \/ \E e \in Transactions : cancelTransaction(q, e)
         \/ writeCancellation(q)
    \/ updateAccount
    \/ \E c \in Categories, type \in Types, active \in BOOLEAN : updateCategory(c, type, active)
    \/ \E m \in Contributors : memberLeaves(m)

LedgerSpec == LedgerInit /\ [][LedgerNext]_ledgerVars
-----------------------------------------------------------------------------
LedgerTypeOK ==
    /\ account \in BOOLEAN
    /\ category \in [Categories -> [type : Types, active : BOOLEAN]]
    /\ member \in SUBSET Contributors
    /\ entry \in [Transactions -> Entries \cup {NoEntry}]
    /\ clerk \in [Clerks -> Clerical]
    /\ edits \in 0..MaxEdits
    /\ skewed \in SUBSET Transactions

\* "Categoria incompativel com o tipo do lancamento", "Membro so pode ser
\* vinculado a lancamentos de entrada": both hold of every stored transaction,
\* though an update checks one row and writes only some fields of another,
\* unless two writes of it crossed or its category changed its type.
EntriesAreConsistent ==
    \A e \in Transactions \ skewed : entry[e] # NoEntry =>
        /\ category[entry[e].category].type = entry[e].type
        /\ entry[e].member # Nobody => entry[e].type = "INCOME"

\* "Lancamento cancelado nao pode ser editado": what a cancelled transaction
\* says changes only by an update that has read it before the cancellation.
CancelledIsFinal ==
    [][\A e \in Transactions : entry[e].status = "CANCELLED" /\ entry'[e] # entry[e] =>
         \E q \in Clerks : clerk[q].op = "write" /\ clerk[q].entry = e /\ clerk[q].seen.status # "CANCELLED"]_ledgerVars
=============================================================================
