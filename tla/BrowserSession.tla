---------------------------- MODULE BrowserSession ----------------------------
(***************************************************************************)
(* A browser that signs in: the pages of login, activation and linking,    *)
(* and the three cookies by which the API knows it (auth.controller.ts,    *)
(* social-auth.service.ts, the pages under (auth), middleware.ts).         *)
(*                                                                         *)
(* The tabs share the cookies and nothing else.  A call takes the cookies  *)
(* of the moment it is sent; those of its answer are set when it arrives,  *)
(* if it does.  What a request does to the rows is one step here; Accounts *)
(* has the steps in between.  The account of Google of each user is the    *)
(* one with the same e-mail.  Cookies do not expire here, which would only *)
(* be one more way of not being there.                                     *)
(***************************************************************************)
EXTENDS Naturals

CONSTANTS
    Accounts,
    FirstAccounts, \* the accounts as they are at first
    Tabs,
    Nobody,        \* no account, and no cookie
    Keep,          \* an answer that leaves a cookie as it is
    MaxClicks      \* bound on what the user and others do

VARIABLES
    account,     \* the rows of the users
    cookie,      \* access_token, oauth_state and oauth_pending_link
    tab,
    awaited,     \* the call each tab awaits
    clicks,
    lastAnswered,\* history: the flow of the last callback that was answered
    own          \* history: the cookies no other tab set since a tab relied on them

sessionVars == <<account, cookie, tab, awaited, clicks, lastAnswered, own>>

Account == [status : {"PENDING", "ACTIVE", "DISABLED"}, senha : BOOLEAN, google : BOOLEAN]
Cookies == {"session", "flow", "claim"}

-----------------------------------------------------------------------------
\* The signed cookies: a flow, and the account its activation link is of; a
\* claim of an account, and whether it is to be activated.
Flow == [id : 1..MaxClicks, of : Accounts \cup {Nobody}]
Claim == [of : Accounts, begun : 1..MaxClicks, activates : BOOLEAN]

ASSUME BrowserSessionAssumption ==
    /\ FirstAccounts \in [Accounts -> Account] /\ MaxClicks \in Nat
    /\ Nobody \notin Accounts \cup Flow \cup Claim /\ Keep \notin Accounts \cup {Nobody} \cup Flow \cup Claim

NoCall == [op |-> "none"]
CallOf(op, of, flow, with) == [op |-> op, of |-> of, flow |-> flow, with |-> with, answer |-> "none", sets |-> [c \in Cookies |-> Keep]]
Page(name, of, flow) == [name |-> name, of |-> of, flow |-> flow, shown |-> Nobody]

BrowserInit ==
    /\ account = FirstAccounts
    /\ cookie = [c \in Cookies |-> Nobody]
    /\ tab = [t \in Tabs |-> Page("login", Nobody, Nobody)]
    /\ awaited = [t \in Tabs |-> NoCall]
    /\ clicks = 0
    /\ lastAnswered = 0 /\ own = [t \in Tabs |-> {}]

CanLogin(a) == a # Nobody /\ account[a].status = "ACTIVE"
IsPending(a) == account[a].status = "PENDING"
-----------------------------------------------------------------------------
\* The API.
Same == [c \in Cookies |-> Keep]
Sent(t, op) == awaited[t] # NoCall /\ awaited[t].op = op /\ awaited[t].answer = "none"
Responds(t, answer, sets) == awaited' = [awaited EXCEPT ![t].answer = answer, ![t].sets = sets]
Refuses(t, sets) == Responds(t, "refused", sets) /\ UNCHANGED account

login(t) ==
    LET a == awaited[t].of IN
    /\ Sent(t, "login")
    /\ IF CanLogin(a) /\ account[a].senha
       THEN Responds(t, "ok", [Same EXCEPT !["session"] = a]) /\ UNCHANGED account
       ELSE Refuses(t, Same)
    /\ UNCHANGED <<cookie, tab, clicks, lastAnswered, own>>

activateWithPassword(t) ==
    LET a == awaited[t].of IN
    /\ Sent(t, "activate")
    /\ IF IsPending(a)
       THEN /\ account' = [account EXCEPT ![a].status = "ACTIVE", ![a].senha = TRUE]
            /\ Responds(t, "ok", [Same EXCEPT !["session"] = a])
       ELSE Refuses(t, Same)
    /\ UNCHANGED <<cookie, tab, clicks, lastAnswered, own>>

\* startGoogleLogin signs the flow and keeps it in the cookie too.
startGoogleLogin(t) ==
    LET a == awaited[t].of IN
    /\ Sent(t, "start")
    /\ IF a = Nobody \/ IsPending(a)
       THEN Responds(t, "ok", [Same EXCEPT !["flow"] = awaited[t].flow]) /\ UNCHANGED account
       ELSE Refuses(t, Same)
    /\ UNCHANGED <<cookie, tab, clicks, lastAnswered, own>>

\* A mutated form of Cleared, used by no action.
ClearedFlow == [Same EXCEPT !["flow"] = Nobody]

\* A callback clears both cookies, however it ends.
Cleared == [Same EXCEPT !["flow"] = Nobody, !["claim"] = Nobody]

\* The flow of the address must be that of the cookie.  An activation needs the
\* account of the link; a login, an account that may sign in, which does so at
\* once if it is linked, and has to confirm the link if it is not.
handleGoogleCallback(t) ==
    LET c == awaited[t]
        claimed == [of |-> c.of, begun |-> c.flow.id, activates |-> c.flow.of # Nobody] IN
    /\ Sent(t, "callback")
    /\ IF c.of = Nobody \/ c.with["flow"] # c.flow THEN Refuses(t, Cleared)
       ELSE IF c.flow.of # Nobody /\ (c.flow.of # c.of \/ ~IsPending(c.of)) THEN Refuses(t, Cleared)
       ELSE IF c.flow.of = Nobody /\ ~CanLogin(c.of) THEN Refuses(t, Cleared)
       ELSE /\ UNCHANGED account
            /\ IF c.flow.of = Nobody /\ account[c.of].google
               THEN Responds(t, "ok", [Cleared EXCEPT !["session"] = c.of])
               ELSE Responds(t, "ok", [Cleared EXCEPT !["claim"] = claimed])
    /\ UNCHANGED <<cookie, tab, clicks, lastAnswered, own>>

getPendingLink(t) ==
    /\ Sent(t, "pending")
    /\ Responds(t, IF awaited[t].with["claim"] # Nobody THEN "ok" ELSE "refused", Same)
    /\ UNCHANGED <<account, cookie, tab, clicks, lastAnswered, own>>

\* A refusal leaves the claim where it is.
confirmPendingLink(t) ==
    LET claim == awaited[t].with["claim"] IN
    /\ Sent(t, "confirm")
    /\ IF claim # Nobody /\ (IF claim.activates THEN IsPending(claim.of) ELSE CanLogin(claim.of))
       THEN /\ account' = [account EXCEPT ![claim.of].status = "ACTIVE", ![claim.of].google = TRUE]
            /\ Responds(t, "ok", [Same EXCEPT !["claim"] = Nobody, !["session"] = claim.of])
       ELSE Refuses(t, Same)
    /\ UNCHANGED <<cookie, tab, clicks, lastAnswered, own>>

cancelGoogleLink(t) ==
    /\ Sent(t, "cancel")
    /\ Responds(t, "ok", [Same EXCEPT !["claim"] = Nobody])
    /\ UNCHANGED <<account, cookie, tab, clicks, lastAnswered, own>>

\* JwtAuthGuard refuses a session whose user may not sign in any more, and the
\* cookie stays.
logout(t) ==
    /\ Sent(t, "logout")
    /\ IF CanLogin(awaited[t].with["session"])
       THEN Responds(t, "ok", [Same EXCEPT !["session"] = Nobody]) /\ UNCHANGED account
       ELSE Refuses(t, Same)
    /\ UNCHANGED <<cookie, tab, clicks, lastAnswered, own>>

me(t) ==
    /\ Sent(t, "me")
    /\ Responds(t, IF CanLogin(awaited[t].with["session"]) THEN "ok" ELSE "refused", Same)
    /\ UNCHANGED <<account, cookie, tab, clicks, lastAnswered, own>>

\* The call or its answer is lost.
lose(t) ==
    /\ awaited[t] # NoCall /\ awaited[t].answer # "lost"
    /\ Responds(t, "lost", Same)
    /\ UNCHANGED <<account, cookie, tab, clicks, lastAnswered, own>>

\* The administrator disables an account.
disable(a) ==
    /\ clicks < MaxClicks /\ clicks' = clicks + 1
    /\ account[a].status = "ACTIVE"
    /\ account' = [account EXCEPT ![a].status = "DISABLED"]
    /\ UNCHANGED <<cookie, tab, awaited, lastAnswered, own>>
-----------------------------------------------------------------------------
\* The user.
Click(t) == clicks < MaxClicks /\ clicks' = clicks + 1 /\ awaited[t] = NoCall
OnPage(t, name) == tab[t].name = name
Dispatches(t, op, of, flow) == awaited' = [awaited EXCEPT ![t] = CallOf(op, of, flow, cookie)]

\* A page of the application asks who the user is when it is opened; middleware
\* sends a browser with no session to the login.
Opens(t, jar) ==
    IF jar["session"] = Nobody
    THEN tab' = [tab EXCEPT ![t] = Page("login", Nobody, @.flow)] /\ awaited' = [awaited EXCEPT ![t] = NoCall]
    ELSE /\ tab' = [tab EXCEPT ![t] = Page("app", Nobody, @.flow)]
         /\ awaited' = [awaited EXCEPT ![t] = CallOf("me", Nobody, Nobody, jar)]

visitApp(t) ==
    /\ Click(t) /\ Opens(t, cookie)
    /\ own' = [own EXCEPT ![t] = @ \cup {"session"}]
    /\ UNCHANGED <<account, cookie, lastAnswered>>

\* The login, or the activation link of an account.
visitEntrance(t, a) ==
    /\ Click(t)
    /\ tab' = [tab EXCEPT ![t] = Page(IF a = Nobody THEN "login" ELSE "activate", a, @.flow)]
    /\ UNCHANGED <<account, cookie, awaited, lastAnswered, own>>

submitPassword(t, a) ==
    /\ Click(t)
    /\ \/ OnPage(t, "login") /\ Dispatches(t, "login", a, Nobody)
       \/ OnPage(t, "activate") /\ tab[t].of = a /\ Dispatches(t, "activate", a, Nobody)
    /\ UNCHANGED <<account, cookie, tab, lastAnswered, own>>

goToGoogle(t) ==
    /\ Click(t) /\ tab[t].name \in {"login", "activate"}
    /\ Dispatches(t, "start", tab[t].of, [id |-> clicks', of |-> tab[t].of])
    /\ UNCHANGED <<account, cookie, tab, lastAnswered, own>>

\* The user chooses an account at Google, or none.
chooseAccount(t, a) ==
    /\ Click(t) /\ OnPage(t, "google")
    /\ Dispatches(t, "callback", a, tab[t].flow)
    /\ UNCHANGED <<account, cookie, tab, lastAnswered, own>>

goBackToGoogle(t) ==
    /\ Click(t) /\ ~OnPage(t, "google") /\ tab[t].flow # Nobody
    /\ tab' = [tab EXCEPT ![t] = Page("google", Nobody, @.flow)]
    /\ UNCHANGED <<account, cookie, awaited, lastAnswered, own>>

\* confirmLink or cancelLink, of a claim that is shown.
answerClaim(t, op) ==
    /\ Click(t) /\ OnPage(t, "link") /\ tab[t].shown # Nobody
    /\ op \in {"confirm", "cancel"} /\ Dispatches(t, op, Nobody, Nobody)
    /\ UNCHANGED <<account, cookie, tab, lastAnswered, own>>

handleLogout(t) ==
    /\ Click(t) /\ OnPage(t, "app")
    /\ Dispatches(t, "logout", Nobody, Nobody)
    /\ UNCHANGED <<account, cookie, tab, lastAnswered, own>>
-----------------------------------------------------------------------------
\* The answers.
CameBack(t, ops, answers) == awaited[t] # NoCall /\ awaited[t].op \in ops /\ awaited[t].answer \in answers
Jar(t) == [c \in Cookies |-> IF awaited[t].sets[c] = Keep THEN cookie[c] ELSE awaited[t].sets[c]]
Stored(t) == cookie' = Jar(t)

\* The other tabs, and this one, no longer have the cookies as they knew them;
\* this one relies on those it now reads.
Relies(t, onNow) ==
    LET set == {c \in Cookies : awaited[t].sets[c] # Keep} IN
    own' = [s \in Tabs |-> IF s = t THEN (own[s] \ set) \cup onNow ELSE own[s] \ set]
Done(t) == awaited' = [awaited EXCEPT ![t] = NoCall]

\* A login, an activation, a callback or a link that ends in a session.
entered(t) ==
    /\ CameBack(t, {"login", "activate", "callback", "confirm"}, {"ok"})
    /\ awaited[t].sets["session"] # Keep
    /\ Stored(t) /\ Opens(t, Jar(t)) /\ Relies(t, {"session"})
    /\ lastAnswered' = IF awaited[t].op = "callback" THEN awaited[t].flow.id ELSE lastAnswered
    /\ UNCHANGED <<account, clicks>>

startAnswered(t) ==
    /\ CameBack(t, {"start"}, {"ok"})
    /\ Stored(t) /\ Done(t) /\ Relies(t, {"flow"})
    /\ tab' = [tab EXCEPT ![t] = Page("google", Nobody, awaited[t].flow)]
    /\ UNCHANGED <<account, clicks, lastAnswered>>

\* A callback that offers a link, which the page loads.
linkOffered(t) ==
    /\ CameBack(t, {"callback"}, {"ok"}) /\ awaited[t].sets["session"] = Keep
    /\ Stored(t) /\ Relies(t, {"claim"})
    /\ tab' = [tab EXCEPT ![t] = Page("link", Nobody, @.flow)]
    /\ awaited' = [awaited EXCEPT ![t] = CallOf("pending", Nobody, Nobody, Jar(t))]
    /\ lastAnswered' = awaited[t].flow.id
    /\ UNCHANGED <<account, clicks>>

\* The page of the link has the message of the error and nothing to confirm.
callbackRefused(t) ==
    /\ CameBack(t, {"callback"}, {"refused"})
    /\ Stored(t) /\ Done(t) /\ Relies(t, {})
    /\ tab' = [tab EXCEPT ![t] = Page("link", Nobody, @.flow)]
    /\ lastAnswered' = awaited[t].flow.id
    /\ UNCHANGED <<account, clicks>>

\* The claim, or the user, that the page shows.
shownAnswered(t) ==
    /\ CameBack(t, {"pending", "me"}, {"ok"})
    /\ tab' = [tab EXCEPT ![t].shown = awaited[t].with[IF awaited[t].op = "me" THEN "session" ELSE "claim"]]
    /\ Done(t)
    /\ UNCHANGED <<account, cookie, clicks, lastAnswered, own>>

\* cancelLink and handleLogout go to the login, whatever the answer.
leaves(t) ==
    /\ CameBack(t, {"cancel", "logout"}, {"ok", "refused", "lost"})
    /\ Stored(t) /\ Done(t) /\ Relies(t, {})
    /\ tab' = [tab EXCEPT ![t] = Page("login", Nobody, @.flow)]
    /\ UNCHANGED <<account, clicks, lastAnswered>>

\* Any other failure is told where the user is; of a navigation nothing is left.
failureTold(t) ==
    /\ CameBack(t, {"login", "activate", "start", "confirm", "pending", "me"}, {"refused", "lost"}) \/ CameBack(t, {"callback"}, {"lost"})
    /\ Done(t)
    /\ tab' = IF awaited[t].op \in {"start", "callback"} THEN [tab EXCEPT ![t] = Page("blank", Nobody, @.flow)] ELSE tab
    /\ UNCHANGED <<account, cookie, clicks, lastAnswered, own>>

BrowserNext ==
    \/ \E t \in Tabs :
         \/ login(t) \/ activateWithPassword(t) \/ startGoogleLogin(t) \/ handleGoogleCallback(t)
         \/ getPendingLink(t) \/ confirmPendingLink(t) \/ cancelGoogleLink(t) \/ logout(t) \/ me(t) \/ lose(t)
         \/ visitApp(t) \/ goToGoogle(t) \/ goBackToGoogle(t) \/ handleLogout(t)
         \/ \E a \in Accounts : submitPassword(t, a)
         \/ \E a \in Accounts \cup {Nobody} : visitEntrance(t, a) \/ chooseAccount(t, a)
         \/ \E op \in {"confirm", "cancel"} : answerClaim(t, op)
         \/ entered(t) \/ startAnswered(t) \/ linkOffered(t) \/ callbackRefused(t)
         \/ shownAnswered(t) \/ leaves(t) \/ failureTold(t)
    \/ \E a \in Accounts : disable(a)

BrowserSpec == BrowserInit /\ [][BrowserNext]_sessionVars
-----------------------------------------------------------------------------
BrowserTypeOK ==
    /\ account \in [Accounts -> Account]
    /\ cookie["session"] \in Accounts \cup {Nobody}
    /\ cookie["flow"] \in Flow \cup {Nobody} /\ cookie["claim"] \in Claim \cup {Nobody}
    /\ \A t \in Tabs : tab[t].name \in {"login", "activate", "google", "link", "app", "blank"} /\ tab[t].flow \in Flow \cup {Nobody}
    /\ \A t \in Tabs : awaited[t] # NoCall => awaited[t].answer \in {"none", "ok", "refused", "lost"}
    /\ clicks \in 0..MaxClicks /\ lastAnswered \in 0..MaxClicks /\ own \in [Tabs -> SUBSET Cookies]

\* The flows of two tabs share the cookies and do not mix: the claim that can be
\* confirmed is that of the last callback that was answered, and neither an
\* earlier one nor one of a flow that failed since; and unless another tab set the
\* cookie since, a tab that is at Google has the flow its callback will be held
\* against, a page of a link shows the claim it would confirm, and a page of the
\* application shows the user it acts as.
FlowsDoNotMix ==
    /\ cookie["claim"] # Nobody => cookie["claim"].begun = lastAnswered
    /\ \A t \in Tabs :
         /\ OnPage(t, "google") /\ "flow" \in own[t] => cookie["flow"] = tab[t].flow
         /\ OnPage(t, "link") /\ tab[t].shown # Nobody /\ "claim" \in own[t] => cookie["claim"] = tab[t].shown
         /\ OnPage(t, "app") /\ tab[t].shown # Nobody /\ "session" \in own[t] => cookie["session"] = tab[t].shown
=============================================================================
