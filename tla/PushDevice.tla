------------------------------ MODULE PushDevice ------------------------------
(***************************************************************************)
(* The push subscription of a browser (push-notifications.ts, the button   *)
(* and the bell that use it, the subscriptions of notifications.service).  *)
(*                                                                         *)
(* A browser has at most one subscription, an endpoint of the push         *)
(* service, whoever is signed in; the API has a row for each endpoint,     *)
(* with its owner.  To enable takes four steps and to disable two, each of *)
(* which may fail, in two tabs that share the browser.  Signing out leaves *)
(* the subscription where it is.                                           *)
(***************************************************************************)
EXTENDS Naturals

CONSTANTS
    People,     \* the accounts that sign in
    Windows,    \* the tabs
    NoOne,
    MaxTaps     \* bound on what the users do

ASSUME PushDeviceAssumption == NoOne \notin People /\ MaxTaps \in Nat

VARIABLES
    sessionOf,  \* whose session the browser has
    permission, \* Notification.permission
    endpoint,   \* the subscription of the browser, 0 if there is none
    endpoints,  \* how many there have been
    device,     \* the rows of PushSubscription
    status,     \* what each tab shows
    request,    \* what each tab awaits
    taps,
    promised    \* history: what a tab told of the device, and is still so

deviceVars == <<sessionOf, permission, endpoint, endpoints, device, status, request, taps, promised>>

NoDevice == [owner |-> NoOne, ativo |-> FALSE]
NoRequest == [step |-> "none"]
Unsaid == [state |-> "unsaid"]

PushInit ==
    /\ sessionOf \in People \cup {NoOne}
    /\ permission = "default" /\ endpoint = 0 /\ endpoints = 0
    /\ device = [e \in 1..MaxTaps |-> NoDevice]
    /\ status = [w \in Windows |-> "default"]
    /\ request = [w \in Windows |-> NoRequest]
    /\ taps = 0
    /\ promised = [w \in Windows |-> Unsaid]

\* getPushStatus: the permission and the subscription, and nothing of the row.
PushStatus(p, e) ==
    IF p = "denied" THEN "denied" ELSE IF e # 0 THEN "enabled" ELSE IF p = "default" THEN "default" ELSE "disabled"

Tap == taps < MaxTaps /\ taps' = taps + 1
IsIn(w, step, answer) == request[w] # NoRequest /\ request[w].step = step /\ request[w].answer = answer
Asks(w, step, e, by) == request' = [request EXCEPT ![w] = [step |-> step, endpoint |-> e, by |-> by, answer |-> "none", crossed |-> FALSE]]

\* The device or its row changes under the other tabs, who may have told of it
\* or be about to.
Crosses(w, requests) ==
    /\ request' = [v \in Windows |-> IF v # w /\ requests[v] # NoRequest THEN [requests[v] EXCEPT !.crossed = TRUE] ELSE requests[v]]
    /\ promised' = [v \in Windows |-> Unsaid]
-----------------------------------------------------------------------------
\* Whoever is at the browser signs out and in, in any tab.
changeSession(p) ==
    /\ Tap /\ p # sessionOf
    /\ sessionOf' = p
    /\ UNCHANGED <<permission, endpoint, endpoints, device, status, request, promised>>

checkPush(w) ==
    /\ status[w] # PushStatus(permission, endpoint) /\ request[w] = NoRequest
    /\ status' = [status EXCEPT ![w] = PushStatus(permission, endpoint)]
    /\ UNCHANGED <<sessionOf, permission, endpoint, endpoints, device, request, taps, promised>>

\* The key of the server is asked for first.
handleEnableConfirmed(w) ==
    /\ Tap /\ request[w] = NoRequest /\ status[w] \in {"default", "disabled"}
    /\ Asks(w, "key", 0, NoOne)
    /\ UNCHANGED <<sessionOf, permission, endpoint, endpoints, device, status, promised>>

\* Then the permission, which is asked for once, and then the subscription, the
\* one there is or a new one, is sent.
subscribeHere(w, answer) ==
    /\ IsIn(w, "key", "ok")
    /\ permission # "default" => answer = permission
    /\ permission' = answer
    /\ LET new == endpoint = 0
           e == IF new THEN endpoints + 1 ELSE endpoint IN
       IF answer = "granted"
       THEN /\ new => endpoints < MaxTaps
            /\ endpoints' = (IF new THEN endpoints + 1 ELSE endpoints) /\ endpoint' = e
            /\ LET sent == [request EXCEPT ![w] = [step |-> "post", endpoint |-> e, by |-> sessionOf, answer |-> "none", crossed |-> FALSE]] IN
               IF new THEN Crosses(w, sent) ELSE request' = sent /\ UNCHANGED promised
            /\ UNCHANGED status
       ELSE /\ request' = [request EXCEPT ![w] = NoRequest]
            /\ status' = [status EXCEPT ![w] = PushStatus(answer, endpoint)]
            /\ UNCHANGED <<endpoint, endpoints, promised>>
    /\ UNCHANGED <<sessionOf, device, taps>>

\* The subscription that the tab finds is the one it will remove.
handleDisable(w) ==
    /\ Tap /\ request[w] = NoRequest /\ status[w] = "enabled"
    /\ IF endpoint = 0
       THEN /\ status' = [status EXCEPT ![w] = "disabled"]
            /\ promised' = [promised EXCEPT ![w] = [state |-> "off"]]
            /\ UNCHANGED request
       ELSE Asks(w, "delete", endpoint, sessionOf) /\ UNCHANGED <<status, promised>>
    /\ UNCHANGED <<sessionOf, permission, endpoint, endpoints, device>>
-----------------------------------------------------------------------------
\* The API.
publicKey(w) ==
    /\ IsIn(w, "key", "none")
    /\ request' = [request EXCEPT ![w].answer = "ok"]
    /\ UNCHANGED <<sessionOf, permission, endpoint, endpoints, device, status, taps, promised>>

\* A mutated form of Upserted, used by no action.
UpsertedForTheFirst(e, p) == [device EXCEPT ![e] = [owner |-> IF @ = NoDevice THEN p ELSE @.owner, ativo |-> TRUE]]

\* An endpoint that is known changes its owner.
Upserted(e, p) == [device EXCEPT ![e] = [owner |-> p, ativo |-> TRUE]]

upsertDevice(w) ==
    /\ IsIn(w, "post", "none") /\ request[w].by # NoOne
    /\ device' = Upserted(request[w].endpoint, request[w].by)
    /\ Crosses(w, [request EXCEPT ![w].answer = "ok"])
    /\ UNCHANGED <<sessionOf, permission, endpoint, endpoints, status, taps>>

\* Only a row of the user is deactivated, and the answer is the same.
deleteDevice(w) ==
    LET e == request[w].endpoint IN
    /\ IsIn(w, "delete", "none") /\ request[w].by # NoOne
    /\ device' = IF device[e].owner = request[w].by THEN [device EXCEPT ![e].ativo = FALSE] ELSE device
    /\ Crosses(w, [request EXCEPT ![w].answer = "ok"])
    /\ UNCHANGED <<sessionOf, permission, endpoint, endpoints, status, taps>>

\* A call is refused, or it or its answer is lost.
failRequest(w) ==
    /\ request[w] # NoRequest /\ request[w].answer # "failed"
    /\ request' = [request EXCEPT ![w].answer = "failed"]
    /\ UNCHANGED <<sessionOf, permission, endpoint, endpoints, device, status, taps, promised>>

\* A push to a subscription that is no more: the queue deactivates its row.
endpointIsGone(e) ==
    /\ e # endpoint /\ device[e].ativo
    /\ device' = [device EXCEPT ![e].ativo = FALSE]
    /\ UNCHANGED <<sessionOf, permission, endpoint, endpoints, status, request, taps, promised>>
-----------------------------------------------------------------------------
\* "Notificacoes ativadas neste dispositivo."
enabled(w) ==
    /\ IsIn(w, "post", "ok")
    /\ status' = [status EXCEPT ![w] = "enabled"]
    /\ promised' = IF request[w].crossed THEN promised ELSE [promised EXCEPT ![w] = [state |-> "on", to |-> request[w].by]]
    /\ request' = [request EXCEPT ![w] = NoRequest]
    /\ UNCHANGED <<sessionOf, permission, endpoint, endpoints, device, taps>>

\* "Notificacoes desativadas neste dispositivo.", whoever the row is of.
disabled(w) ==
    LET e == request[w].endpoint
        gone == endpoint = e IN
    /\ IsIn(w, "delete", "ok")
    /\ endpoint' = IF gone THEN 0 ELSE endpoint
    /\ status' = [status EXCEPT ![w] = "disabled"]
    /\ LET rest == [request EXCEPT ![w] = NoRequest]
           say == IF request[w].crossed THEN Unsaid ELSE [state |-> "off"] IN
       IF gone
       THEN /\ request' = [v \in Windows |-> IF v # w /\ rest[v] # NoRequest THEN [rest[v] EXCEPT !.crossed = TRUE] ELSE rest[v]]
            /\ promised' = [v \in Windows |-> IF v = w THEN say ELSE Unsaid]
       ELSE request' = rest /\ promised' = [promised EXCEPT ![w] = say]
    /\ UNCHANGED <<sessionOf, permission, endpoints, device, taps>>

\* The error is told and the status read again.
pushFailed(w) ==
    /\ request[w] # NoRequest /\ request[w].answer = "failed"
    /\ request' = [request EXCEPT ![w] = NoRequest]
    /\ status' = [status EXCEPT ![w] = PushStatus(permission, endpoint)]
    /\ UNCHANGED <<sessionOf, permission, endpoint, endpoints, device, taps, promised>>

PushNext ==
    \/ \E p \in People \cup {NoOne} : changeSession(p)
    \/ \E w \in Windows :
         \/ checkPush(w) \/ handleEnableConfirmed(w) \/ handleDisable(w)
         \/ \E answer \in {"granted", "denied", "default"} : subscribeHere(w, answer)
         \/ publicKey(w) \/ upsertDevice(w) \/ deleteDevice(w) \/ failRequest(w)
         \/ enabled(w) \/ disabled(w) \/ pushFailed(w)
    \/ \E e \in 1..endpoints : endpointIsGone(e)

PushSpec == PushInit /\ [][PushNext]_deviceVars
-----------------------------------------------------------------------------
PushTypeOK ==
    /\ sessionOf \in People \cup {NoOne} /\ permission \in {"default", "granted", "denied"}
    /\ endpoint \in 0..endpoints /\ endpoints \in 0..MaxTaps
    /\ device \in [1..MaxTaps -> [owner : People \cup {NoOne}, ativo : BOOLEAN]]
    /\ status \in [Windows -> {"default", "disabled", "enabled", "denied"}]
    /\ \A w \in Windows : request[w] # NoRequest => request[w].step \in {"key", "post", "delete"} /\ request[w].endpoint \in 0..endpoints
    /\ taps \in 0..MaxTaps

\* What a tab told of the device holds until someone acts on it again: told that
\* notifications are on, the subscription of the browser is there and its row is
\* active and of the one who was told, even on a device that was another's; told
\* that they are off, the device gets nothing, whoever the row is of.  Excused
\* is what two tabs did to the device at once.
PushPromiseHolds ==
    \A w \in Windows :
        /\ promised[w].state = "on" => endpoint # 0 /\ device[endpoint] = [owner |-> promised[w].to, ativo |-> TRUE]
        /\ promised[w].state = "off" => endpoint = 0
=============================================================================
