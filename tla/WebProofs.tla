------------------------------- MODULE WebProofs -------------------------------
(***************************************************************************)
(* Proofs about the pages and the tabs of the web application, for every   *)
(* number of tabs, of calls on their way and of things that users do.      *)
(***************************************************************************)
EXTENDS WebClient, FiniteSetTheorems, TLAPS

-----------------------------------------------------------------------------
\* The push subscription of a device.

Sessions == People \cup {NoOne}
Answers == {"none", "ok", "failed"}
AskedKeys == [step : {"key"}, endpoint : {0}, by : {NoOne}, answer : Answers, crossed : BOOLEAN]
Sendings == [step : {"post", "delete"}, endpoint : 1..MaxTaps, by : Sessions, answer : Answers, crossed : BOOLEAN]
Promises == {Unsaid} \cup [state : {"on"}, to : Sessions] \cup [state : {"off"}]

DeviceTables ==
    /\ sessionOf \in Sessions /\ permission \in {"default", "granted", "denied"}
    /\ endpoints \in 0..MaxTaps /\ endpoint \in 0..endpoints
    /\ device \in [1..MaxTaps -> [owner : Sessions, ativo : BOOLEAN]]
    /\ status \in [Windows -> {"default", "disabled", "enabled", "denied"}]
    /\ taps \in 0..MaxTaps
    /\ promised \in [Windows -> Promises]
DeviceCalls ==
    /\ request \in [Windows -> {NoRequest} \cup AskedKeys \cup Sendings]
    /\ \A w \in Windows : request[w] \in Sendings => request[w].endpoint <= endpoints
DeviceShape == DeviceTables /\ DeviceCalls

IsOn(e, d, p) == e # 0 /\ d[e] = [owner |-> p, ativo |-> TRUE]

\* A call that nobody has crossed is of the subscription the browser still has,
\* and once a new one is stored its row is active and of the one who sent it.
IsUncrossed(c, e, d) ==
    c \in Sendings /\ ~c.crossed =>
        /\ c.endpoint = e
        /\ c.step = "post" /\ c.answer = "ok" => IsOn(e, d, c.by)
IsTrue(said, e, d) ==
    /\ said.state = "on" => IsOn(e, d, said.to)
    /\ said.state = "off" => e = 0
PushInv ==
    /\ DeviceShape
    /\ \A w \in Windows : IsUncrossed(request[w], endpoint, device) /\ IsTrue(promised[w], endpoint, device)

LEMMA CallKinds ==
  ASSUME NEW c \in {NoRequest} \cup AskedKeys \cup Sendings
  PROVE  /\ c = NoRequest <=> c.step = "none"
         /\ c \in AskedKeys <=> c.step = "key"
         /\ c \in Sendings <=> c.step \in {"post", "delete"}
BY DEF NoRequest, AskedKeys, Sendings

LEMMA CallMarked ==
  ASSUME NEW c \in {NoRequest} \cup AskedKeys \cup Sendings, c # NoRequest
  PROVE  LET x == [c EXCEPT !.crossed = TRUE] IN
         /\ x \in AskedKeys \cup Sendings /\ (x \in Sendings => c \in Sendings)
         /\ x.endpoint = c.endpoint /\ x.crossed
BY DEF NoRequest, AskedKeys, Sendings

LEMMA CallAnswered ==
  ASSUME NEW c \in {NoRequest} \cup AskedKeys \cup Sendings, c # NoRequest, NEW a \in Answers
  PROVE  LET x == [c EXCEPT !.answer = a] IN
         /\ x \in AskedKeys \cup Sendings /\ (x \in Sendings <=> c \in Sendings)
         /\ x.endpoint = c.endpoint /\ x.crossed = c.crossed /\ x.step = c.step /\ x.by = c.by /\ x.answer = a
BY DEF NoRequest, AskedKeys, Sendings

LEMMA SayingKinds ==
  ASSUME NEW c \in Promises
  PROVE  c.state \in {"on", "off"} \/ c = Unsaid
BY DEF Promises, Unsaid

LEMMA UnsaidIsTrue == Unsaid \in Promises /\ \A e, d : IsTrue(Unsaid, e, d)
BY DEF IsTrue, Unsaid, Promises

LEMMA IdleIsUncrossed == \A e, d : IsUncrossed(NoRequest, e, d)
BY DEF IsUncrossed, NoRequest, Sendings

\* A step that leaves the subscription and its row alone.
LEMMA DeviceQuiet ==
  ASSUME PushInv, UNCHANGED <<endpoint, endpoints>>, endpoint # 0 => device'[endpoint] = device[endpoint],
         DeviceTables', request' \in [Windows -> {NoRequest} \cup AskedKeys \cup Sendings],
         \A w \in Windows : \/ request'[w] = request[w] \/ request'[w] = NoRequest \/ request'[w] \in AskedKeys
                            \/ /\ request'[w] \in Sendings /\ request'[w].endpoint <= endpoints
                               /\ ~request'[w].crossed =>
                                    /\ request'[w].endpoint = endpoint
                                    /\ request'[w].step = "post" => request'[w].answer # "ok",
         \A w \in Windows : promised'[w] = promised[w] \/ IsTrue(promised'[w], endpoint', device')
  PROVE  PushInv'
<1>1. \A c : IsUncrossed(c, endpoint, device) => IsUncrossed(c, endpoint', device')
  BY DEF IsUncrossed, IsOn
<1>2. \A s : IsTrue(s, endpoint, device) => IsTrue(s, endpoint', device')
  BY DEF IsTrue, IsOn
<1>3. ASSUME NEW w \in Windows PROVE (request'[w] \in Sendings => request'[w].endpoint <= endpoints') /\ IsUncrossed(request'[w], endpoint', device')
  <2>1. CASE request'[w] = request[w]
    BY <2>1, <1>1 DEF PushInv, DeviceShape, DeviceCalls
  <2>2. CASE request'[w] = NoRequest
    BY <2>2, IdleIsUncrossed, CallKinds
  <2>3. CASE request'[w] \in AskedKeys
    BY <2>3, CallKinds DEF IsUncrossed
  <2>4. CASE /\ request'[w] \in Sendings /\ request'[w].endpoint <= endpoints
             /\ ~request'[w].crossed =>
                  /\ request'[w].endpoint = endpoint
                  /\ request'[w].step = "post" => request'[w].answer # "ok"
    BY <2>4 DEF IsUncrossed
  <2> QED BY <2>1, <2>2, <2>3, <2>4
<1>4. ASSUME NEW w \in Windows PROVE IsTrue(promised'[w], endpoint', device')
  BY <1>2 DEF PushInv
<1> QED BY <1>3, <1>4 DEF PushInv, DeviceShape, DeviceCalls

\* The calls of the other tabs are crossed.
CrossedBy(w, requests) ==
    [v \in Windows |-> IF v # w /\ requests[v] # NoRequest THEN [requests[v] EXCEPT !.crossed = TRUE] ELSE requests[v]]

LEMMA CrossesIs ==
  ASSUME NEW w \in Windows, NEW requests, Crosses(w, requests)
  PROVE  /\ request' = CrossedBy(w, requests) /\ promised' \in [Windows -> Promises]
         /\ \A v \in Windows : IsTrue(promised'[v], endpoint', device')
BY UnsaidIsTrue DEF Crosses, CrossedBy

\* A tab crosses the others: only its own call is to be looked at.
LEMMA DeviceCrossed ==
  ASSUME PushInv, NEW w \in Windows, NEW requests \in [Windows -> {NoRequest} \cup AskedKeys \cup Sendings],
         request' = CrossedBy(w, requests), \A v \in Windows \ {w} : requests[v] = request[v],
         promised' \in [Windows -> Promises], \A v \in Windows : IsTrue(promised'[v], endpoint', device'),
         sessionOf' \in Sessions, permission' \in {"default", "granted", "denied"},
         endpoints' \in endpoints..MaxTaps, endpoint' \in 0..endpoints',
         device' \in [1..MaxTaps -> [owner : Sessions, ativo : BOOLEAN]],
         status' \in [Windows -> {"default", "disabled", "enabled", "denied"}], taps' = taps,
         requests[w] \in Sendings => requests[w].endpoint <= endpoints',
         IsUncrossed(requests[w], endpoint', device')
  PROVE  PushInv'
<1>2. DeviceTables'
  BY DEF DeviceTables, PushInv, DeviceShape
<1>3. ASSUME NEW v \in Windows
      PROVE  /\ request'[v] \in {NoRequest} \cup AskedKeys \cup Sendings
             /\ request'[v] \in Sendings => request'[v].endpoint <= endpoints'
             /\ IsUncrossed(request'[v], endpoint', device')
  <2>1. CASE v = w
    BY <2>1 DEF CrossedBy
  <2>2. CASE v # w /\ request[v] = NoRequest
    <3>1. request'[v] = NoRequest
      BY <2>2 DEF CrossedBy
    <3> QED BY <3>1, IdleIsUncrossed, CallKinds
  <2>3. CASE v # w /\ request[v] # NoRequest
    <3>1. request'[v] = [request[v] EXCEPT !.crossed = TRUE]
      BY <2>3 DEF CrossedBy
    <3>2. request[v] \in {NoRequest} \cup AskedKeys \cup Sendings /\ (request[v] \in Sendings => request[v].endpoint <= endpoints)
      BY DEF PushInv, DeviceShape, DeviceCalls
    <3>3. endpoints <= endpoints' /\ \A e \in 1..MaxTaps : e <= endpoints => e <= endpoints'
      BY DEF PushInv, DeviceShape, DeviceTables
    <3>4. request[v] \in Sendings => request[v].endpoint \in 1..MaxTaps
      BY DEF Sendings
    <3> QED BY <2>3, <3>1, <3>2, <3>3, <3>4, CallMarked DEF IsUncrossed
  <2> QED BY <2>1, <2>2, <2>3
<1>4. request' = [v \in Windows |-> request'[v]]
  BY DEF CrossedBy
<1>5. request' \in [Windows -> {NoRequest} \cup AskedKeys \cup Sendings]
  BY <1>3, <1>4
<1> QED BY <1>2, <1>3, <1>5 DEF PushInv, DeviceShape, DeviceCalls

LEMMA SameRequests == UNCHANGED request => \A w \in Windows : request'[w] = request[w]
OBVIOUS

LEMMA StatusIs == \A p, e : p \in {"default", "granted", "denied"} => PushStatus(p, e) \in {"default", "disabled", "enabled", "denied"}
BY DEF PushStatus

LEMMA SessionChanged ==
  ASSUME PushInv, NEW p \in Sessions, changeSession(p)
  PROVE  PushInv'
<1>1. DeviceTables' /\ UNCHANGED <<endpoint, endpoints, device, promised, request>>
  BY PushDeviceAssumption DEF changeSession, Tap, PushInv, DeviceShape, DeviceTables
<1> QED BY <1>1, SameRequests, DeviceQuiet DEF PushInv, DeviceShape, DeviceCalls

\* A tab reads the status.
LEMMA DeviceTold ==
  ASSUME PushInv, NEW w \in Windows, checkPush(w) \/ pushFailed(w)
  PROVE  PushInv'
<1>1. DeviceTables'
  BY StatusIs DEF checkPush, pushFailed, PushInv, DeviceShape, DeviceTables
<1>2. UNCHANGED <<endpoint, endpoints, device, promised>>
  BY DEF checkPush, pushFailed
<1>3. request' = request \/ request' = [request EXCEPT ![w] = NoRequest]
  BY DEF checkPush, pushFailed
<1>4. /\ request' \in [Windows -> {NoRequest} \cup AskedKeys \cup Sendings]
      /\ \A v \in Windows : request'[v] = request[v] \/ request'[v] = NoRequest
  BY <1>3 DEF PushInv, DeviceShape, DeviceCalls
<1> QED BY <1>1, <1>2, <1>4, DeviceQuiet

LEMMA KeyAsked ==
  ASSUME PushInv, NEW w \in Windows, handleEnableConfirmed(w) \/ publicKey(w)
  PROVE  PushInv'
<1>1. DeviceTables'
  BY PushDeviceAssumption DEF handleEnableConfirmed, publicKey, Tap, PushInv, DeviceShape, DeviceTables
<1>2. UNCHANGED <<endpoint, endpoints, device, promised>>
  BY DEF handleEnableConfirmed, publicKey
<1>3. \E c \in AskedKeys : request' = [request EXCEPT ![w] = c]
  <2>1. CASE handleEnableConfirmed(w)
    BY <2>1 DEF handleEnableConfirmed, Asks, AskedKeys, Answers
  <2>2. CASE publicKey(w)
    <3>1. request[w] \in AskedKeys /\ request' = [request EXCEPT ![w].answer = "ok"]
      BY <2>2, CallKinds DEF publicKey, IsIn, PushInv, DeviceShape, DeviceCalls
    <3>2. [request[w] EXCEPT !.answer = "ok"] \in AskedKeys
      BY <3>1 DEF AskedKeys, Answers
    <3> QED BY <3>1, <3>2 DEF PushInv, DeviceShape, DeviceCalls
  <2> QED BY <2>1, <2>2
<1>4. /\ request' \in [Windows -> {NoRequest} \cup AskedKeys \cup Sendings]
      /\ \A v \in Windows : request'[v] = request[v] \/ request'[v] \in AskedKeys
  BY <1>3 DEF PushInv, DeviceShape, DeviceCalls
<1> QED BY <1>1, <1>2, <1>4, DeviceQuiet

LEMMA CallFailed ==
  ASSUME PushInv, NEW w \in Windows, failRequest(w)
  PROVE  PushInv'
<1> DEFINE c == [request[w] EXCEPT !.answer = "failed"]
<1>1. DeviceTables' /\ UNCHANGED <<endpoint, endpoints, device, promised>>
  BY DEF failRequest, PushInv, DeviceShape, DeviceTables
<1>2. request' = [request EXCEPT ![w] = c] /\ request[w] \in {NoRequest} \cup AskedKeys \cup Sendings /\ request[w] # NoRequest
  BY DEF failRequest, PushInv, DeviceShape, DeviceCalls
<1>3. /\ c \in AskedKeys \cup Sendings /\ (c \in Sendings <=> request[w] \in Sendings)
      /\ c.endpoint = request[w].endpoint /\ c.crossed = request[w].crossed /\ c.answer # "ok"
  <2>1. "failed" \in Answers
    BY DEF Answers
  <2> QED BY <1>2, <2>1, CallAnswered
<1> HIDE DEF c
<1>4. c \in Sendings => c.endpoint <= endpoints /\ (~c.crossed => c.endpoint = endpoint)
  BY <1>3 DEF PushInv, DeviceShape, DeviceCalls, IsUncrossed
<1>5. request' \in [Windows -> {NoRequest} \cup AskedKeys \cup Sendings]
  BY <1>2, <1>3 DEF PushInv, DeviceShape, DeviceCalls
<1>6. \A v \in Windows : request'[v] = request[v] \/ request'[v] = c
  BY <1>2 DEF PushInv, DeviceShape, DeviceCalls
<1> QED BY <1>1, <1>3, <1>4, <1>5, <1>6, DeviceQuiet

LEMMA RowIsGone ==
  ASSUME PushInv, NEW e \in 1..endpoints, endpointIsGone(e)
  PROVE  PushInv'
<1>1. e \in 1..MaxTaps /\ device[e] \in [owner : Sessions, ativo : BOOLEAN] /\ endpoint \in 0..MaxTaps
  BY PushDeviceAssumption DEF PushInv, DeviceShape, DeviceTables
<1>2. device' \in [1..MaxTaps -> [owner : Sessions, ativo : BOOLEAN]]
  BY <1>1 DEF endpointIsGone, PushInv, DeviceShape, DeviceTables
<1>3. DeviceTables' /\ (endpoint # 0 => device'[endpoint] = device[endpoint])
  BY <1>1, <1>2 DEF endpointIsGone, PushInv, DeviceShape, DeviceTables
<1>4. UNCHANGED <<endpoint, endpoints, promised, request>>
  BY DEF endpointIsGone
<1> QED BY <1>3, <1>4, SameRequests, DeviceQuiet DEF PushInv, DeviceShape, DeviceCalls

\* The row of an endpoint is written while its call is under way.
LEMMA RowWritten ==
  ASSUME PushInv, NEW w \in Windows, upsertDevice(w) \/ deleteDevice(w)
  PROVE  PushInv'
<1> DEFINE c == request[w]
           d == [request EXCEPT ![w].answer = "ok"]
<1>1. /\ c \in Sendings /\ c.endpoint <= endpoints /\ IsUncrossed(c, endpoint, device)
      /\ upsertDevice(w) <=> c.step = "post" /\ upsertDevice(w)
      /\ deleteDevice(w) <=> c.step = "delete" /\ deleteDevice(w)
  BY CallKinds DEF upsertDevice, deleteDevice, IsIn, PushInv, DeviceShape, DeviceCalls
<1>2. c.endpoint \in 1..MaxTaps /\ c.by \in Sessions
  BY <1>1 DEF Sendings
<1>3. device' \in [1..MaxTaps -> [owner : Sessions, ativo : BOOLEAN]]
  <2>1. CASE upsertDevice(w)
    BY <1>2, <2>1 DEF upsertDevice, Upserted, PushInv, DeviceShape, DeviceTables
  <2>2. CASE deleteDevice(w)
    <3>1. device[c.endpoint] \in [owner : Sessions, ativo : BOOLEAN]
      BY <1>2 DEF PushInv, DeviceShape, DeviceTables
    <3> QED BY <1>2, <2>2, <3>1 DEF deleteDevice, PushInv, DeviceShape, DeviceTables
  <2> QED BY <2>1, <2>2
<1>4. /\ d[w] \in Sendings /\ d[w].endpoint = c.endpoint /\ d[w].crossed = c.crossed /\ d[w].step = c.step /\ d[w].by = c.by
      /\ d \in [Windows -> {NoRequest} \cup AskedKeys \cup Sendings]
      /\ \A v \in Windows \ {w} : d[v] = request[v]
  <2>1. "ok" \in Answers /\ c # NoRequest
    BY <1>1, CallKinds DEF Answers
  <2>2. d = [request EXCEPT ![w] = [c EXCEPT !.answer = "ok"]]
    OBVIOUS
  <2>3. d[w] = [c EXCEPT !.answer = "ok"]
    BY DEF PushInv, DeviceShape, DeviceCalls
  <2>4. /\ d[w] \in Sendings /\ d[w].endpoint = c.endpoint /\ d[w].crossed = c.crossed /\ d[w].step = c.step /\ d[w].by = c.by
    BY <1>1, <2>1, <2>3, CallAnswered
  <2> QED BY <2>2, <2>3, <2>4 DEF PushInv, DeviceShape, DeviceCalls
<1>5. Crosses(w, d) /\ UNCHANGED <<sessionOf, permission, endpoint, endpoints, status, taps>>
  BY DEF upsertDevice, deleteDevice
<1>6. ASSUME c.step = "post", c.endpoint = endpoint PROVE IsOn(endpoint, device', c.by)
  <2>1. upsertDevice(w) /\ endpoint \in 1..MaxTaps /\ endpoint # 0
    BY <1>1, <1>2, <1>6, PushDeviceAssumption DEF deleteDevice
  <2>2. device' = [device EXCEPT ![endpoint] = [owner |-> c.by, ativo |-> TRUE]]
    BY <1>6, <2>1 DEF upsertDevice, Upserted
  <2> QED BY <2>1, <2>2 DEF IsOn, PushInv, DeviceShape, DeviceTables
<1>7. IsUncrossed(d[w], endpoint', device')
  <2> HIDE DEF d, c
  <2> QED BY <1>1, <1>4, <1>5, <1>6 DEF IsUncrossed
<1>8. sessionOf' \in Sessions /\ permission' \in {"default", "granted", "denied"} /\ endpoints' \in endpoints..MaxTaps /\ endpoint' \in 0..endpoints'
  BY <1>5 DEF PushInv, DeviceShape, DeviceTables
<1> HIDE DEF d, c
<1>9. d[w].endpoint <= endpoints'
  BY <1>1, <1>4, <1>5
<1>10. request' = CrossedBy(w, d) /\ promised' \in [Windows -> Promises] /\ \A v \in Windows : IsTrue(promised'[v], endpoint', device')
  BY <1>5, CrossesIs
<1>11. status' \in [Windows -> {"default", "disabled", "enabled", "denied"}]
  BY <1>5 DEF PushInv, DeviceShape, DeviceTables
<1> QED BY <1>3, <1>4, <1>5, <1>7, <1>8, <1>9, <1>10, <1>11, DeviceCrossed

LEMMA Subscribed ==
  ASSUME PushInv, NEW w \in Windows, NEW answer \in {"granted", "denied", "default"}, subscribeHere(w, answer)
  PROVE  PushInv'
<1> DEFINE e == IF endpoint = 0 THEN endpoints + 1 ELSE endpoint
           c == [step |-> "post", endpoint |-> e, by |-> sessionOf, answer |-> "none", crossed |-> FALSE]
           sent == [request EXCEPT ![w] = c]
<1>0. UNCHANGED <<sessionOf, device, taps>> /\ permission' \in {"default", "granted", "denied"} /\ Windows \subseteq DOMAIN request
  BY DEF subscribeHere, PushInv, DeviceShape, DeviceCalls
<1>1. CASE answer # "granted"
  <2>1. /\ UNCHANGED <<endpoint, endpoints, promised>> /\ request' = [request EXCEPT ![w] = NoRequest]
        /\ status' = [status EXCEPT ![w] = PushStatus(answer, endpoint)]
    BY <1>1 DEF subscribeHere
  <2>2. DeviceTables'
    BY <1>0, <2>1, StatusIs DEF PushInv, DeviceShape, DeviceTables
  <2>3. /\ request' \in [Windows -> {NoRequest} \cup AskedKeys \cup Sendings]
        /\ \A v \in Windows : request'[v] = request[v] \/ request'[v] = NoRequest
    BY <2>1 DEF PushInv, DeviceShape, DeviceCalls
  <2> QED BY <1>0, <2>1, <2>2, <2>3, DeviceQuiet
<1>2. CASE answer = "granted"
  <2>1. UNCHANGED status /\ endpoint' = e
    BY <1>2 DEF subscribeHere
  <2>2. endpoint \in 0..MaxTaps /\ endpoints \in 0..MaxTaps /\ endpoint <= endpoints /\ sessionOf \in Sessions
    BY PushDeviceAssumption DEF PushInv, DeviceShape, DeviceTables
  <2>3. CASE endpoint = 0
    <3>1. endpoints < MaxTaps /\ endpoints' = endpoints + 1 /\ Crosses(w, sent) /\ e = endpoints + 1
      BY <1>2, <2>3 DEF subscribeHere
    <3>2. e \in 1..MaxTaps
      BY <2>2, <3>1, PushDeviceAssumption
    <3>3. c \in Sendings /\ c.endpoint = e /\ ~c.crossed /\ c.answer = "none"
      BY <2>2, <3>2 DEF Sendings, Answers
    <3>4. /\ sent \in [Windows -> {NoRequest} \cup AskedKeys \cup Sendings] /\ sent[w] = c
          /\ \A v \in Windows \ {w} : sent[v] = request[v]
      BY <3>3 DEF PushInv, DeviceShape, DeviceCalls
    <3>5. endpoints' \in endpoints..MaxTaps /\ endpoint' \in 0..endpoints' /\ e <= endpoints'
      BY <2>1, <2>2, <3>1, PushDeviceAssumption
    <3>6. IsUncrossed(sent[w], endpoint', device')
      BY <2>1, <3>3, <3>4 DEF IsUncrossed
    <3>7. /\ request' = CrossedBy(w, sent) /\ promised' \in [Windows -> Promises]
          /\ \A v \in Windows : IsTrue(promised'[v], endpoint', device')
      BY <3>1, CrossesIs
    <3>8. /\ sessionOf' \in Sessions /\ device' \in [1..MaxTaps -> [owner : Sessions, ativo : BOOLEAN]]
          /\ status' \in [Windows -> {"default", "disabled", "enabled", "denied"}]
      BY <1>0, <2>1 DEF PushInv, DeviceShape, DeviceTables
    <3>9. sent[w] \in Sendings => sent[w].endpoint <= endpoints'
      BY <3>3, <3>4, <3>5
    <3> HIDE DEF c, sent, e
    <3> QED BY <1>0, <3>4, <3>5, <3>6, <3>7, <3>8, <3>9, DeviceCrossed
  <2>4. CASE endpoint # 0
    <3>1. UNCHANGED <<endpoint, endpoints, promised>> /\ request' = sent /\ e = endpoint
      BY <1>2, <2>1, <2>4 DEF subscribeHere
    <3>2. c \in Sendings /\ c.endpoint = endpoint /\ ~c.crossed /\ c.answer = "none"
      BY <2>2, <2>4, <3>1 DEF Sendings, Answers
    <3>3. /\ request' \in [Windows -> {NoRequest} \cup AskedKeys \cup Sendings]
          /\ \A v \in Windows : request'[v] = request[v] \/ request'[v] = c
      BY <3>1, <3>2 DEF PushInv, DeviceShape, DeviceCalls
    <3>4. DeviceTables'
      BY <1>0, <2>1, <3>1 DEF PushInv, DeviceShape, DeviceTables
    <3> HIDE DEF c, sent, e
    <3> QED BY <1>0, <2>2, <3>1, <3>2, <3>3, <3>4, DeviceQuiet
  <2> QED BY <2>3, <2>4
<1> QED BY <1>1, <1>2

LEMMA DisableAsked ==
  ASSUME PushInv, NEW w \in Windows, handleDisable(w)
  PROVE  PushInv'
<1> DEFINE c == [step |-> "delete", endpoint |-> endpoint, by |-> sessionOf, answer |-> "none", crossed |-> FALSE]
           off == [state |-> "off"]
<1>1. UNCHANGED <<sessionOf, permission, endpoint, endpoints, device>> /\ taps' \in 0..MaxTaps
  BY PushDeviceAssumption DEF handleDisable, Tap, PushInv, DeviceShape, DeviceTables
<1>2. CASE endpoint = 0
  <2>1. /\ status' = [status EXCEPT ![w] = "disabled"]
        /\ promised' = [promised EXCEPT ![w] = off] /\ UNCHANGED request
    BY <1>2 DEF handleDisable
  <2>2. off \in Promises /\ IsTrue(off, endpoint', device')
    BY <1>1, <1>2 DEF Promises, IsTrue
  <2>3. DeviceTables'
    BY <1>1, <2>1, <2>2 DEF PushInv, DeviceShape, DeviceTables
  <2>4. \A v \in Windows : promised'[v] = promised[v] \/ promised'[v] = off
    BY <2>1 DEF PushInv, DeviceShape, DeviceTables
  <2> HIDE DEF off
  <2>5. request' \in [Windows -> {NoRequest} \cup AskedKeys \cup Sendings]
    BY <2>1 DEF PushInv, DeviceShape, DeviceCalls
  <2> QED BY <1>1, <2>1, <2>2, <2>3, <2>4, <2>5, SameRequests, DeviceQuiet
<1>3. CASE endpoint # 0
  <2>1. request' = [request EXCEPT ![w] = c] /\ UNCHANGED <<status, promised>>
    BY <1>3 DEF handleDisable, Asks
  <2>2. c \in Sendings /\ c.endpoint = endpoint /\ c.endpoint <= endpoints /\ c.step = "delete"
    BY <1>3, PushDeviceAssumption DEF Sendings, Answers, PushInv, DeviceShape, DeviceTables
  <2>3. /\ request' \in [Windows -> {NoRequest} \cup AskedKeys \cup Sendings]
        /\ \A v \in Windows : request'[v] = request[v] \/ request'[v] = c
    BY <2>1, <2>2 DEF PushInv, DeviceShape, DeviceCalls
  <2>4. DeviceTables'
    BY <1>1, <2>1 DEF PushInv, DeviceShape, DeviceTables
  <2> HIDE DEF c
  <2> QED BY <1>1, <2>1, <2>2, <2>3, <2>4, DeviceQuiet
<1> QED BY <1>2, <1>3

LEMMA EnabledTold ==
  ASSUME PushInv, NEW w \in Windows, enabled(w)
  PROVE  PushInv'
<1> DEFINE c == request[w]
           on == [state |-> "on", to |-> c.by]
<1>1. c \in Sendings /\ c.step = "post" /\ c.answer = "ok" /\ IsUncrossed(c, endpoint, device)
  BY CallKinds DEF enabled, IsIn, PushInv, DeviceShape, DeviceCalls
<1>2. UNCHANGED <<sessionOf, permission, endpoint, endpoints, device, taps>> /\ status' = [status EXCEPT ![w] = "enabled"]
  BY DEF enabled
<1>3. request' = [request EXCEPT ![w] = NoRequest]
  BY DEF enabled
<1>4. promised' = promised \/ (promised' = [promised EXCEPT ![w] = on] /\ ~c.crossed)
  BY DEF enabled
<1>5. on \in Promises /\ on.state = "on" /\ on.to = c.by
  BY <1>1 DEF Promises, Sendings
<1>6. ~c.crossed => IsTrue(on, endpoint', device')
  BY <1>1, <1>2, <1>5 DEF IsUncrossed, IsTrue
<1> HIDE DEF c, on
<1>7. /\ promised' \in [Windows -> Promises]
      /\ \A v \in Windows : promised'[v] = promised[v] \/ (promised'[v] = on /\ ~c.crossed)
  BY <1>4, <1>5 DEF PushInv, DeviceShape, DeviceTables
<1>8. DeviceTables'
  BY <1>2, <1>7 DEF PushInv, DeviceShape, DeviceTables
<1>9. /\ request' \in [Windows -> {NoRequest} \cup AskedKeys \cup Sendings]
      /\ \A v \in Windows : request'[v] = request[v] \/ request'[v] = NoRequest
  BY <1>3 DEF PushInv, DeviceShape, DeviceCalls
<1> QED BY <1>2, <1>6, <1>7, <1>8, <1>9, DeviceQuiet

LEMMA DisabledTold ==
  ASSUME PushInv, NEW w \in Windows, disabled(w)
  PROVE  PushInv'
<1> DEFINE c == request[w]
           off == [state |-> "off"]
           say == IF c.crossed THEN Unsaid ELSE off
           rest == [request EXCEPT ![w] = NoRequest]
<1>1. c \in Sendings /\ IsUncrossed(c, endpoint, device)
  BY CallKinds DEF disabled, IsIn, PushInv, DeviceShape, DeviceCalls
<1>2. /\ UNCHANGED <<sessionOf, permission, endpoints, device, taps>> /\ status' = [status EXCEPT ![w] = "disabled"]
      /\ endpoint' = IF endpoint = c.endpoint THEN 0 ELSE endpoint
  BY DEF disabled
<1>3. say \in Promises /\ (c.crossed => say = Unsaid) /\ IsTrue(say, 0, device) /\ (say = Unsaid \/ ~c.crossed)
  BY UnsaidIsTrue DEF Promises, IsTrue
<1>4. /\ rest \in [Windows -> {NoRequest} \cup AskedKeys \cup Sendings] /\ rest[w] = NoRequest
      /\ \A v \in Windows \ {w} : rest[v] = request[v]
  BY DEF PushInv, DeviceShape, DeviceCalls
<1>5. CASE endpoint = c.endpoint
  <2>1. /\ request' = CrossedBy(w, rest) /\ promised' = [v \in Windows |-> IF v = w THEN say ELSE Unsaid]
    BY <1>5 DEF disabled, CrossedBy
  <2> HIDE DEF say, rest, c, off
  <2>2. /\ promised' \in [Windows -> Promises]
        /\ \A v \in Windows : IsTrue(promised'[v], endpoint', device')
    BY <1>2, <1>3, <1>5, <2>1, UnsaidIsTrue
  <2>3. /\ sessionOf' \in Sessions /\ permission' \in {"default", "granted", "denied"}
        /\ endpoints' \in endpoints..MaxTaps /\ endpoint' \in 0..endpoints'
        /\ device' \in [1..MaxTaps -> [owner : Sessions, ativo : BOOLEAN]]
        /\ status' \in [Windows -> {"default", "disabled", "enabled", "denied"}]
    BY <1>2, <1>5, PushDeviceAssumption DEF PushInv, DeviceShape, DeviceTables
  <2>4. rest[w] \notin Sendings /\ IsUncrossed(rest[w], endpoint', device')
    BY <1>4, IdleIsUncrossed, CallKinds
  <2> QED BY <1>2, <1>4, <2>1, <2>2, <2>3, <2>4, DeviceCrossed
<1>6. CASE endpoint # c.endpoint
  <2>1. c.crossed /\ endpoint' = endpoint
    BY <1>1, <1>2, <1>6 DEF IsUncrossed, Sendings
  <2>2. request' = rest /\ promised' = [promised EXCEPT ![w] = Unsaid]
    BY <1>6, <2>1 DEF disabled
  <2>3. DeviceTables' /\ \A v \in Windows : promised'[v] = promised[v] \/ promised'[v] = Unsaid
    BY <1>2, <2>1, <2>2, UnsaidIsTrue DEF PushInv, DeviceShape, DeviceTables
  <2> HIDE DEF rest, c, say, off
  <2> QED BY <1>2, <1>4, <2>1, <2>2, <2>3, UnsaidIsTrue, DeviceQuiet
<1> QED BY <1>5, <1>6

\* What a tab told of the device is so, and what it is about to tell will be.
THEOREM PushInvariant == PushSpec => []PushInv
<1>1. PushInit => PushInv
  <2> SUFFICES ASSUME PushInit PROVE PushInv
    OBVIOUS
  <2>1. DeviceTables
    BY UnsaidIsTrue, PushDeviceAssumption DEF PushInit, NoDevice, DeviceTables, Sessions
  <2>2. \A w \in Windows : request[w] = NoRequest /\ promised[w] = Unsaid
    BY DEF PushInit
  <2>3. DeviceCalls
    BY <2>2, CallKinds DEF PushInit, DeviceCalls
  <2> QED BY <2>1, <2>2, <2>3, UnsaidIsTrue, IdleIsUncrossed DEF PushInv, DeviceShape
<1>2. PushInv /\ [PushNext]_deviceVars => PushInv'
  <2> SUFFICES ASSUME PushInv, [PushNext]_deviceVars PROVE PushInv'
    OBVIOUS
  <2>1. CASE PushNext
    <3>1. ASSUME NEW p \in Sessions, changeSession(p) PROVE PushInv'
      BY <3>1, SessionChanged
    <3>2. ASSUME NEW w \in Windows,
                 \/ checkPush(w) \/ handleEnableConfirmed(w) \/ handleDisable(w) \/ publicKey(w) \/ upsertDevice(w)
                 \/ deleteDevice(w) \/ failRequest(w) \/ enabled(w) \/ disabled(w) \/ pushFailed(w)
          PROVE PushInv'
      BY <3>2, DeviceTold, KeyAsked, CallFailed, RowWritten, DisableAsked, EnabledTold, DisabledTold
    <3>3. ASSUME NEW w \in Windows, NEW answer \in {"granted", "denied", "default"}, subscribeHere(w, answer) PROVE PushInv'
      BY <3>3, Subscribed
    <3>4. ASSUME NEW e \in 1..endpoints, endpointIsGone(e) PROVE PushInv'
      BY <3>4, RowIsGone
    <3> QED BY <2>1, <3>1, <3>2, <3>3, <3>4 DEF PushNext, Sessions
  <2>2. CASE UNCHANGED deviceVars
    BY <2>2 DEF deviceVars, PushInv, DeviceShape, DeviceTables, DeviceCalls
  <2> QED BY <2>1, <2>2
<1> QED BY <1>1, <1>2, PTL DEF PushSpec

\* What a tab told the user of the notifications of the device holds until
\* someone acts on it again, whoever signs in and whatever is lost (the calls of
\* push-notifications.ts and their rows).
THEOREM PromisesHold == PushSpec => []PushPromiseHolds
<1>1. PushInv => PushPromiseHolds
  BY DEF PushInv, PushPromiseHolds, IsTrue, IsOn
<1> QED BY <1>1, PushInvariant, PTL

-----------------------------------------------------------------------------
\* The cookies of a browser.

Owners == Accounts \cup {Nobody}
CookieValues == Accounts \cup Flow \cup Claim \cup {Nobody}
Jars == {j \in [Cookies -> CookieValues] : j["session"] \in Owners /\ j["flow"] \in Flow \cup {Nobody} /\ j["claim"] \in Claim \cup {Nobody}}
SetJars == {j \in [Cookies -> CookieValues \cup {Keep}] :
              j["session"] \in Owners \cup {Keep} /\ j["flow"] \in Flow \cup {Nobody, Keep} /\ j["claim"] \in Claim \cup {Nobody, Keep}}
TabPages == [name : {"login", "activate", "google", "link", "app", "blank"}, of : Owners, flow : Flow \cup {Nobody}, shown : CookieValues]
CallNames == {"login", "activate", "start", "callback", "pending", "confirm", "cancel", "logout", "me"}
TabCalls ==
    [op : CallNames, of : Owners, flow : Flow \cup {Nobody}, with : Jars, answer : {"none", "ok", "refused", "lost"}, sets : SetJars]

BrowserTables ==
    /\ account \in [Accounts -> Account] /\ cookie \in Jars
    /\ tab \in [Tabs -> TabPages] /\ awaited \in [Tabs -> {NoCall} \cup TabCalls]
    /\ clicks \in 0..MaxClicks /\ lastAnswered \in 0..MaxClicks /\ own \in [Tabs -> SUBSET Cookies]

\* Only a callback brings a claim, that of its flow, or takes the one there is.
AnswerIsOf(c) ==
    /\ c.op \in {"start", "callback"} => c.flow \in Flow
    /\ c.op = "start" /\ c.answer = "ok" => c.sets["flow"] = c.flow
    /\ c.op # "callback" => c.sets["claim"] \in {Keep, Nobody}
    /\ c.op = "callback" /\ c.answer = "refused" => c.sets["claim"] = Nobody
    /\ c.op = "callback" /\ c.answer = "ok" =>
         \/ c.sets["session"] # Keep /\ c.sets["claim"] = Nobody
         \/ c.sets["session"] = Keep /\ c.sets["claim"] \in Claim /\ c.sets["claim"].begun = c.flow.id

\* A tab knows the cookies it relies on, and so does what it awaits.
KnowsFlow(p, o, jar) == "flow" \in o => jar["flow"] = p.flow
KnowsShown(p, o, jar, name, k) == p.name = name /\ p.shown # Nobody /\ k \in o => jar[k] = p.shown
WillShow(p, c, o, jar, op, name, k) == c.op = op => p.name = name /\ (k \in o => jar[k] = c.with[k])
TabIs(p, c, o, jar) ==
    /\ p.name = "google" => p.flow \in Flow
    /\ KnowsFlow(p, o, jar)
    /\ KnowsShown(p, o, jar, "link", "claim") /\ KnowsShown(p, o, jar, "app", "session")
    /\ WillShow(p, c, o, jar, "pending", "link", "claim") /\ WillShow(p, c, o, jar, "me", "app", "session")
    /\ c # NoCall => AnswerIsOf(c)

ClaimIsLast == cookie["claim"] # Nobody => cookie["claim"].begun = lastAnswered
BrowserInv ==
    /\ BrowserTables /\ ClaimIsLast
    /\ \A t \in Tabs : TabIs(tab[t], awaited[t], own[t], cookie)

-----------------------------------------------------------------------------
LEMMA CallFields ==
  ASSUME NEW c \in {NoCall} \cup TabCalls
  PROVE  (c = NoCall <=> c.op = "none") /\ (c # NoCall => c \in TabCalls) /\ (c \in TabCalls => c # NoCall)
BY DEF NoCall, TabCalls, CallNames

LEMMA NothingKept == Same \in SetJars /\ Cleared \in SetJars /\ Same["claim"] = Keep /\ Same["session"] = Keep /\ Cleared["claim"] = Nobody /\ Cleared["session"] = Keep
BY DEF Same, Cleared, SetJars, Cookies, CookieValues, Owners

LEMMA CookieSet ==
  /\ \A a \in Owners : [Same EXCEPT !["session"] = a] \in SetJars /\ [Same EXCEPT !["session"] = a]["claim"] = Keep
  /\ \A f \in Flow \cup {Nobody} : [Same EXCEPT !["flow"] = f] \in SetJars /\ [Same EXCEPT !["flow"] = f]["claim"] = Keep /\ [Same EXCEPT !["flow"] = f]["flow"] = f
  /\ [Same EXCEPT !["claim"] = Nobody] \in SetJars /\ [Same EXCEPT !["claim"] = Nobody]["claim"] = Nobody
  /\ \A a \in Owners : /\ [Same EXCEPT !["claim"] = Nobody, !["session"] = a] \in SetJars
                       /\ [Same EXCEPT !["claim"] = Nobody, !["session"] = a]["claim"] = Nobody
  /\ \A a \in Owners : /\ [Cleared EXCEPT !["session"] = a] \in SetJars
                       /\ [Cleared EXCEPT !["session"] = a]["session"] = a /\ [Cleared EXCEPT !["session"] = a]["claim"] = Nobody
  /\ \A x \in Claim : /\ [Cleared EXCEPT !["claim"] = x] \in SetJars
                      /\ [Cleared EXCEPT !["claim"] = x]["session"] = Keep /\ [Cleared EXCEPT !["claim"] = x]["claim"] = x
BY DEF Same, Cleared, SetJars, Cookies, CookieValues, Owners

LEMMA CookiesDiffer == Keep \notin Accounts /\ Keep # Nobody /\ Keep \notin Flow /\ Keep \notin Claim /\ Nobody \notin Accounts /\ Nobody \notin Flow /\ Nobody \notin Claim
BY BrowserSessionAssumption

LEMMA NewCall ==
  ASSUME NEW op \in CallNames, NEW of \in Owners, NEW f \in Flow \cup {Nobody}, NEW jar \in Jars
  PROVE  LET c == CallOf(op, of, f, jar) IN
         /\ c \in TabCalls /\ c # NoCall /\ c.op = op /\ c.flow = f /\ c.with = jar /\ c.answer = "none"
         /\ (op \in {"start", "callback"} => f \in Flow) => AnswerIsOf(c)
<1> DEFINE c == CallOf(op, of, f, jar)
<1>1. c.sets = Same /\ c.op = op /\ c.flow = f /\ c.with = jar /\ c.answer = "none" /\ c.of = of
  BY DEF CallOf, Same
<1>2. c \in TabCalls
  BY NothingKept DEF CallOf, TabCalls, Same
<1> QED BY <1>1, <1>2, NothingKept, CallFields DEF AnswerIsOf

LEMMA NewPage ==
  ASSUME NEW name \in {"login", "activate", "google", "link", "app", "blank"}, NEW of \in Owners, NEW f \in Flow \cup {Nobody}
  PROVE  LET p == Page(name, of, f) IN p \in TabPages /\ p.name = name /\ p.flow = f /\ p.shown = Nobody /\ p.of = of
BY DEF Page, TabPages, CookieValues

\* A step of one tab: the others rely on no cookie that has changed.
LEMMA TabStep ==
  ASSUME BrowserInv, NEW t \in Tabs, NEW p \in TabPages, NEW c \in {NoCall} \cup TabCalls,
         tab' = [tab EXCEPT ![t] = p], awaited' = [awaited EXCEPT ![t] = c],
         account' \in [Accounts -> Account], cookie' \in Jars,
         clicks' \in 0..MaxClicks, lastAnswered' \in 0..MaxClicks, own' \in [Tabs -> SUBSET Cookies],
         ClaimIsLast',
         \A s \in Tabs \ {t} : \A k \in own'[s] : k \in own[s] /\ cookie'[k] = cookie[k],
         TabIs(p, c, own'[t], cookie')
  PROVE  BrowserInv'
<1>1. BrowserTables'
  BY DEF BrowserInv, BrowserTables
<1>2. ASSUME NEW s \in Tabs PROVE TabIs(tab'[s], awaited'[s], own'[s], cookie')
  <2>1. CASE s = t
    BY <2>1 DEF BrowserInv, BrowserTables
  <2>2. CASE s # t
    <3>1. tab'[s] = tab[s] /\ awaited'[s] = awaited[s] /\ TabIs(tab[s], awaited[s], own[s], cookie)
      BY <2>2 DEF BrowserInv, BrowserTables
    <3>2. \A k \in own'[s] : k \in own[s] /\ cookie'[k] = cookie[k]
      BY <2>2
    <3> QED BY <3>1, <3>2 DEF TabIs, KnowsFlow, KnowsShown, WillShow
  <2> QED BY <2>1, <2>2
<1> QED BY <1>1, <1>2 DEF BrowserInv

\* The API answers the call of a tab, or its answer is lost.
LEMMA Responded ==
  ASSUME BrowserInv, NEW t \in Tabs, awaited[t] # NoCall, NEW a \in {"ok", "refused", "lost"}, NEW sets \in SetJars,
         Responds(t, a, sets), AnswerIsOf([awaited[t] EXCEPT !.answer = a, !.sets = sets]),
         account' \in [Accounts -> Account], UNCHANGED <<cookie, tab, clicks, lastAnswered, own>>
  PROVE  BrowserInv'
<1> DEFINE c == [awaited[t] EXCEPT !.answer = a, !.sets = sets]
<1>1. awaited[t] \in TabCalls /\ tab[t] \in TabPages /\ TabIs(tab[t], awaited[t], own[t], cookie)
  BY CallFields DEF BrowserInv, BrowserTables
<1>2. c \in TabCalls /\ c.op = awaited[t].op /\ c.with = awaited[t].with
  BY <1>1 DEF TabCalls
<1>3. tab' = [tab EXCEPT ![t] = tab[t]] /\ awaited' = [awaited EXCEPT ![t] = c]
  BY DEF Responds, BrowserInv, BrowserTables
<1>4. TabIs(tab[t], c, own'[t], cookie')
  BY <1>1, <1>2 DEF TabIs, WillShow
<1>5. /\ cookie' \in Jars /\ clicks' \in 0..MaxClicks /\ lastAnswered' \in 0..MaxClicks /\ own' \in [Tabs -> SUBSET Cookies] /\ ClaimIsLast'
  BY DEF BrowserInv, BrowserTables, ClaimIsLast
<1> HIDE DEF c
<1> QED BY <1>1, <1>2, <1>3, <1>4, <1>5, TabStep

LEMMA AnsweredFields ==
  ASSUME NEW c \in TabCalls, NEW a, NEW sets
  PROVE  LET d == [c EXCEPT !.answer = a, !.sets = sets] IN d.op = c.op /\ d.flow = c.flow /\ d.answer = a /\ d.sets = sets
BY DEF TabCalls

\* The cookies an answer may set.
MaySet(c, a, sets) ==
    /\ c.op = "start" /\ a = "ok" => sets["flow"] = c.flow
    /\ c.op # "callback" => sets["claim"] \in {Keep, Nobody}
    /\ c.op = "callback" /\ a = "refused" => sets["claim"] = Nobody
    /\ c.op = "callback" /\ a = "ok" =>
         \/ sets["session"] # Keep /\ sets["claim"] = Nobody
         \/ sets["session"] = Keep /\ sets["claim"] \in Claim /\ sets["claim"].begun = c.flow.id

LEMMA TabAnswered ==
  ASSUME BrowserInv, NEW t \in Tabs, awaited[t] # NoCall, NEW a \in {"ok", "refused", "lost"}, NEW sets \in SetJars,
         Responds(t, a, sets), MaySet(awaited[t], a, sets),
         account' \in [Accounts -> Account], UNCHANGED <<cookie, tab, clicks, lastAnswered, own>>
  PROVE  BrowserInv'
<1> DEFINE c == awaited[t]
           d == [c EXCEPT !.answer = a, !.sets = sets]
<1>1. c \in TabCalls /\ AnswerIsOf(c)
  BY CallFields DEF BrowserInv, BrowserTables, TabIs
<1>2. d.op = c.op /\ d.flow = c.flow /\ d.answer = a /\ d.sets = sets
  BY <1>1, AnsweredFields
<1>3. AnswerIsOf(d)
  <2> HIDE DEF d
  <2> QED BY <1>1, <1>2 DEF AnswerIsOf, MaySet
<1> QED BY <1>3, Responded

LEMMA AccountWritten ==
  ASSUME BrowserInv, NEW a, NEW s \in {"PENDING", "ACTIVE", "DISABLED"}
  PROVE  /\ [account EXCEPT ![a].status = s] \in [Accounts -> Account]
         /\ [account EXCEPT ![a].status = s, ![a].senha = TRUE] \in [Accounts -> Account]
         /\ [account EXCEPT ![a].status = s, ![a].google = TRUE] \in [Accounts -> Account]
<1>1. CASE a \in Accounts
  <2>1. account[a] \in Account /\ account \in [Accounts -> Account]
    BY <1>1 DEF BrowserInv, BrowserTables
  <2> QED BY <1>1, <2>1 DEF Account
<1>2. CASE a \notin Accounts
  <2>1. account \in [Accounts -> Account]
    BY DEF BrowserInv, BrowserTables
  <2>2. /\ [account EXCEPT ![a].status = s] = account
        /\ [account EXCEPT ![a].status = s, ![a].senha = TRUE] = account
        /\ [account EXCEPT ![a].status = s, ![a].google = TRUE] = account
    BY <1>2, <2>1
  <2> QED BY <2>1, <2>2
<1> QED BY <1>1, <1>2

LEMMA SameAccount == BrowserInv /\ UNCHANGED account => account' \in [Accounts -> Account]
BY DEF BrowserInv, BrowserTables

LEMMA LoginServed ==
  ASSUME BrowserInv, NEW t \in Tabs, login(t) \/ activateWithPassword(t)
  PROVE  BrowserInv'
<1> DEFINE c == awaited[t]
           sets == [Same EXCEPT !["session"] = c.of]
<1>1. c # NoCall /\ c.op \in {"login", "activate"} /\ UNCHANGED <<cookie, tab, clicks, lastAnswered, own>>
  BY DEF login, activateWithPassword, Sent
<1>2. c.of \in Owners
  BY <1>1, CallFields DEF BrowserInv, BrowserTables, TabCalls
<1>3. (Responds(t, "ok", sets) \/ Responds(t, "refused", Same)) /\ account' \in [Accounts -> Account]
  <2>1. [account EXCEPT ![c.of].status = "ACTIVE", ![c.of].senha = TRUE] \in [Accounts -> Account]
    BY AccountWritten
  <2>2. UNCHANGED account \/ account' = [account EXCEPT ![c.of].status = "ACTIVE", ![c.of].senha = TRUE]
    BY DEF login, activateWithPassword, Refuses
  <2>3. Responds(t, "ok", sets) \/ Responds(t, "refused", Same)
    BY DEF login, activateWithPassword, Refuses
  <2> QED BY <2>1, <2>2, <2>3, SameAccount
<1>4. sets \in SetJars /\ sets["claim"] = Keep
  BY <1>2, CookieSet
<1> HIDE DEF sets
<1>5. MaySet(c, "ok", sets) /\ MaySet(c, "refused", Same)
  BY <1>1, <1>4, NothingKept DEF MaySet
<1> QED BY <1>1, <1>3, <1>4, <1>5, NothingKept, TabAnswered

LEMMA StartServed ==
  ASSUME BrowserInv, NEW t \in Tabs, startGoogleLogin(t)
  PROVE  BrowserInv'
<1> DEFINE c == awaited[t]
           sets == [Same EXCEPT !["flow"] = c.flow]
<1>1. c # NoCall /\ c.op = "start" /\ UNCHANGED <<cookie, tab, clicks, lastAnswered, own>>
  BY DEF startGoogleLogin, Sent
<1>2. c.flow \in Flow \cup {Nobody}
  BY <1>1, CallFields DEF BrowserInv, BrowserTables, TabCalls
<1>3. (Responds(t, "ok", sets) \/ Responds(t, "refused", Same)) /\ account' \in [Accounts -> Account]
  BY SameAccount DEF startGoogleLogin, Refuses
<1>4. sets \in SetJars /\ sets["claim"] = Keep /\ sets["flow"] = c.flow
  BY <1>2, CookieSet
<1> HIDE DEF sets
<1>5. MaySet(c, "ok", sets) /\ MaySet(c, "refused", Same)
  BY <1>1, <1>4, NothingKept DEF MaySet
<1> QED BY <1>1, <1>3, <1>4, <1>5, NothingKept, TabAnswered

LEMMA CallbackServed ==
  ASSUME BrowserInv, NEW t \in Tabs, handleGoogleCallback(t)
  PROVE  BrowserInv'
<1> DEFINE c == awaited[t]
           claimed == [of |-> c.of, begun |-> c.flow.id, activates |-> c.flow.of # Nobody]
           links == [Cleared EXCEPT !["claim"] = claimed]
           enters == [Cleared EXCEPT !["session"] = c.of]
<1>1. c # NoCall /\ c.op = "callback" /\ UNCHANGED <<cookie, tab, clicks, lastAnswered, own>>
  BY DEF handleGoogleCallback, Sent
<1>2. c \in TabCalls /\ AnswerIsOf(c)
  BY <1>1, CallFields DEF BrowserInv, BrowserTables, TabIs
<1>3. c.flow \in Flow /\ c.of \in Owners
  BY <1>1, <1>2 DEF AnswerIsOf, TabCalls
<1>4. account' \in [Accounts -> Account]
  BY SameAccount DEF handleGoogleCallback, Refuses
<1>5. \/ Responds(t, "refused", Cleared)
      \/ Responds(t, "ok", enters) /\ c.of # Nobody
      \/ Responds(t, "ok", links) /\ c.of # Nobody
  BY DEF handleGoogleCallback, Refuses
<1>6. CASE Responds(t, "refused", Cleared)
  <2>1. MaySet(c, "refused", Cleared)
    BY <1>1, NothingKept DEF MaySet
  <2> QED BY <1>1, <1>4, <1>6, <2>1, NothingKept, TabAnswered
<1>7. CASE Responds(t, "ok", enters) /\ c.of # Nobody
  <2>1. enters \in SetJars /\ enters["session"] = c.of /\ enters["claim"] = Nobody
    BY <1>3, CookieSet
  <2>2. c.of # Keep
    BY <1>3, <1>7, CookiesDiffer DEF Owners
  <2> HIDE DEF enters
  <2>3. MaySet(c, "ok", enters)
    BY <1>1, <2>1, <2>2 DEF MaySet
  <2> QED BY <1>1, <1>4, <1>7, <2>1, <2>3, TabAnswered
<1>8. CASE Responds(t, "ok", links) /\ c.of # Nobody
  <2>1. claimed \in Claim /\ claimed.begun = c.flow.id
    BY <1>3, <1>8 DEF Owners, Flow, Claim
  <2> HIDE DEF claimed
  <2>2. links \in SetJars /\ links["session"] = Keep /\ links["claim"] = claimed
    BY <2>1, CookieSet
  <2> HIDE DEF links
  <2>3. MaySet(c, "ok", links)
    BY <1>1, <2>1, <2>2 DEF MaySet
  <2> QED BY <1>1, <1>4, <1>8, <2>2, <2>3, TabAnswered
<1> QED BY <1>5, <1>6, <1>7, <1>8

LEMMA ConfirmServed ==
  ASSUME BrowserInv, NEW t \in Tabs, confirmPendingLink(t)
  PROVE  BrowserInv'
<1> DEFINE c == awaited[t]
           claim == c.with["claim"]
           sets == [Same EXCEPT !["claim"] = Nobody, !["session"] = claim.of]
<1>1. c # NoCall /\ c.op = "confirm" /\ UNCHANGED <<cookie, tab, clicks, lastAnswered, own>>
  BY DEF confirmPendingLink, Sent
<1>2. claim \in Claim \cup {Nobody}
  BY <1>1, CallFields DEF BrowserInv, BrowserTables, TabCalls, Jars
<1>3. /\ (Responds(t, "ok", sets) /\ claim # Nobody) \/ Responds(t, "refused", Same)
      /\ account' \in [Accounts -> Account]
  <2>1. [account EXCEPT ![claim.of].status = "ACTIVE", ![claim.of].google = TRUE] \in [Accounts -> Account]
    BY AccountWritten
  <2>2. UNCHANGED account \/ account' = [account EXCEPT ![claim.of].status = "ACTIVE", ![claim.of].google = TRUE]
    BY DEF confirmPendingLink, Refuses
  <2>3. (Responds(t, "ok", sets) /\ claim # Nobody) \/ Responds(t, "refused", Same)
    BY DEF confirmPendingLink, Refuses
  <2> QED BY <2>1, <2>2, <2>3, SameAccount
<1>4. claim # Nobody => sets \in SetJars /\ sets["claim"] = Nobody
  BY <1>2, CookieSet DEF Claim, Owners
<1> HIDE DEF sets, claim
<1>5. (claim # Nobody => MaySet(c, "ok", sets)) /\ MaySet(c, "refused", Same)
  BY <1>1, <1>4, NothingKept DEF MaySet
<1> QED BY <1>1, <1>3, <1>4, <1>5, NothingKept, TabAnswered

LEMMA OthersServed ==
  ASSUME BrowserInv, NEW t \in Tabs, getPendingLink(t) \/ cancelGoogleLink(t) \/ logout(t) \/ me(t) \/ lose(t)
  PROVE  BrowserInv'
<1> DEFINE c == awaited[t]
           drops == [Same EXCEPT !["claim"] = Nobody]
           goes == [Same EXCEPT !["session"] = Nobody]
<1>1. c # NoCall /\ UNCHANGED <<cookie, tab, clicks, lastAnswered, own>> /\ account' \in [Accounts -> Account]
  BY SameAccount DEF getPendingLink, cancelGoogleLink, logout, me, lose, Sent, Refuses
<1>2. drops \in SetJars /\ drops["claim"] = Nobody /\ goes \in SetJars /\ goes["claim"] = Keep
  BY CookieSet DEF Owners
<1> HIDE DEF drops, goes
<1>3. CASE lose(t)
  <2>1. Responds(t, "lost", Same) /\ MaySet(c, "lost", Same)
    BY <1>3, NothingKept DEF lose, MaySet
  <2> QED BY <1>1, <2>1, NothingKept, TabAnswered
<1>4. CASE getPendingLink(t) \/ me(t)
  <2>1. /\ c.op \in {"pending", "me"} /\ (Responds(t, "ok", Same) \/ Responds(t, "refused", Same))
    BY <1>4 DEF getPendingLink, me, Sent
  <2>2. MaySet(c, "ok", Same) /\ MaySet(c, "refused", Same)
    BY <2>1, NothingKept DEF MaySet
  <2> QED BY <1>1, <2>1, <2>2, NothingKept, TabAnswered
<1>5. CASE cancelGoogleLink(t) \/ logout(t)
  <2>1. /\ c.op \in {"cancel", "logout"}
        /\ Responds(t, "ok", drops) \/ Responds(t, "ok", goes) \/ Responds(t, "refused", Same)
    BY <1>5 DEF cancelGoogleLink, logout, Sent, Refuses, drops, goes
  <2>2. MaySet(c, "ok", drops) /\ MaySet(c, "ok", goes) /\ MaySet(c, "refused", Same)
    BY <1>2, <2>1, NothingKept DEF MaySet
  <2> QED BY <1>1, <1>2, <2>1, <2>2, NothingKept, TabAnswered
<1> QED BY <1>3, <1>4, <1>5

-----------------------------------------------------------------------------
LEMMA TabHas ==
  ASSUME BrowserInv, NEW t \in Tabs
  PROVE  /\ tab[t] \in TabPages /\ awaited[t] \in {NoCall} \cup TabCalls /\ TabIs(tab[t], awaited[t], own[t], cookie)
         /\ tab[t].flow \in Flow \cup {Nobody} /\ tab[t].of \in Owners /\ KnowsFlow(tab[t], own[t], cookie)
         /\ cookie \in Jars /\ own[t] \in SUBSET Cookies
BY DEF BrowserInv, BrowserTables, TabIs, TabPages

LEMMA ClickCounts ==
  ASSUME BrowserInv, NEW t, Click(t)
  PROVE  clicks' \in 1..MaxClicks /\ clicks' \in 0..MaxClicks /\ awaited[t] = NoCall
BY BrowserSessionAssumption DEF Click, BrowserInv, BrowserTables

\* A call is sent from the page that is open.
LEMMA Dispatched ==
  ASSUME BrowserInv, NEW t \in Tabs, NEW op \in CallNames \ {"pending", "me"}, NEW of \in Owners, NEW f \in Flow \cup {Nobody},
         op \in {"start", "callback"} => f \in Flow,
         Click(t), Dispatches(t, op, of, f), UNCHANGED <<account, cookie, tab, lastAnswered, own>>
  PROVE  BrowserInv'
<1> DEFINE c == CallOf(op, of, f, cookie)
<1>1. c \in TabCalls /\ c # NoCall /\ c.op = op /\ AnswerIsOf(c)
  BY NewCall, TabHas
<1>2. awaited' = [awaited EXCEPT ![t] = c] /\ tab' = [tab EXCEPT ![t] = tab[t]]
  BY DEF Dispatches, BrowserInv, BrowserTables
<1> HIDE DEF c
<1>3. TabIs(tab[t], c, own'[t], cookie')
  BY <1>1, TabHas DEF TabIs, WillShow
<1>4. /\ account' \in [Accounts -> Account] /\ cookie' \in Jars /\ clicks' \in 0..MaxClicks
      /\ lastAnswered' \in 0..MaxClicks /\ own' \in [Tabs -> SUBSET Cookies] /\ ClaimIsLast'
  BY ClickCounts DEF BrowserInv, BrowserTables, ClaimIsLast
<1> QED BY <1>1, <1>2, <1>3, <1>4, TabHas, TabStep

LEMMA Moved ==
  ASSUME BrowserInv, NEW t \in Tabs, NEW name \in {"login", "activate", "google"}, NEW of \in Owners,
         name = "google" => tab[t].flow \in Flow,
         Click(t), tab' = [tab EXCEPT ![t] = Page(name, of, tab[t].flow)], UNCHANGED <<account, cookie, awaited, lastAnswered, own>>
  PROVE  BrowserInv'
<1> DEFINE p == Page(name, of, tab[t].flow)
<1>1. p \in TabPages /\ p.name = name /\ p.flow = tab[t].flow /\ p.shown = Nobody
  BY NewPage, TabHas
<1> HIDE DEF p
<1>2. awaited' = [awaited EXCEPT ![t] = NoCall]
  BY ClickCounts DEF BrowserInv, BrowserTables
<1>3. TabIs(p, NoCall, own'[t], cookie')
  BY <1>1, TabHas DEF TabIs, KnowsFlow, KnowsShown, WillShow, NoCall
<1>4. /\ account' \in [Accounts -> Account] /\ cookie' \in Jars /\ clicks' \in 0..MaxClicks
      /\ lastAnswered' \in 0..MaxClicks /\ own' \in [Tabs -> SUBSET Cookies] /\ ClaimIsLast'
  BY ClickCounts DEF BrowserInv, BrowserTables, ClaimIsLast
<1> QED BY <1>1, <1>2, <1>3, <1>4, TabStep DEF p

\* A page of the application is opened, or that of the login.
LEMMA Opened ==
  ASSUME BrowserInv, NEW t \in Tabs, NEW jar \in Jars, Opens(t, jar), NEW o, KnowsFlow(tab[t], o, jar)
  PROVE  \E p \in TabPages, c \in {NoCall} \cup TabCalls :
           tab' = [tab EXCEPT ![t] = p] /\ awaited' = [awaited EXCEPT ![t] = c] /\ TabIs(p, c, o, jar)
<1> DEFINE c == CallOf("me", Nobody, Nobody, jar)
           out == Page("login", Nobody, tab[t].flow)
           app == Page("app", Nobody, tab[t].flow)
<1>1. Nobody \in Owners
  BY DEF Owners
<1>2. /\ out \in TabPages /\ out.name = "login" /\ out.flow = tab[t].flow /\ out.shown = Nobody
      /\ app \in TabPages /\ app.name = "app" /\ app.flow = tab[t].flow /\ app.shown = Nobody
  BY <1>1, NewPage, TabHas
<1>3. c \in TabCalls /\ c # NoCall /\ c.op = "me" /\ c.with = jar /\ AnswerIsOf(c)
  BY <1>1, NewCall DEF CallNames
<1>4. CASE jar["session"] = Nobody
  <2>1. tab' = [tab EXCEPT ![t] = out] /\ awaited' = [awaited EXCEPT ![t] = NoCall]
    BY <1>4, TabHas DEF Opens, BrowserInv, BrowserTables
  <2> HIDE DEF out
  <2>2. TabIs(out, NoCall, o, jar)
    BY <1>2 DEF TabIs, KnowsFlow, KnowsShown, WillShow, NoCall
  <2> QED BY <1>2, <2>1, <2>2
<1>5. CASE jar["session"] # Nobody
  <2>1. tab' = [tab EXCEPT ![t] = app] /\ awaited' = [awaited EXCEPT ![t] = c]
    BY <1>5, TabHas DEF Opens, BrowserInv, BrowserTables
  <2> HIDE DEF app, c
  <2>2. TabIs(app, c, o, jar)
    BY <1>2, <1>3 DEF TabIs, KnowsFlow, KnowsShown, WillShow
  <2> QED BY <1>2, <1>3, <2>1, <2>2
<1> QED BY <1>4, <1>5

LEMMA AppVisited ==
  ASSUME BrowserInv, NEW t \in Tabs, visitApp(t)
  PROVE  BrowserInv'
<1>1. /\ Opens(t, cookie) /\ Click(t) /\ UNCHANGED <<account, cookie, lastAnswered>>
      /\ own' = [own EXCEPT ![t] = own[t] \cup {"session"}]
  BY DEF visitApp
<1>2. own' \in [Tabs -> SUBSET Cookies] /\ own'[t] = own[t] \cup {"session"} /\ \A s \in Tabs \ {t} : own'[s] = own[s]
  BY <1>1 DEF BrowserInv, BrowserTables, Cookies
<1>3. KnowsFlow(tab[t], own'[t], cookie) /\ cookie \in Jars
  BY <1>2, TabHas DEF KnowsFlow
<1>4. PICK p \in TabPages, c \in {NoCall} \cup TabCalls :
        tab' = [tab EXCEPT ![t] = p] /\ awaited' = [awaited EXCEPT ![t] = c] /\ TabIs(p, c, own'[t], cookie)
  BY <1>1, <1>3, Opened
<1>5. /\ account' \in [Accounts -> Account] /\ cookie' \in Jars /\ clicks' \in 0..MaxClicks
      /\ lastAnswered' \in 0..MaxClicks /\ ClaimIsLast' /\ cookie' = cookie
  BY <1>1, ClickCounts DEF BrowserInv, BrowserTables, ClaimIsLast
<1> QED BY <1>2, <1>4, <1>5, TabStep

LEMMA UserMoved ==
  ASSUME BrowserInv, NEW t \in Tabs, goBackToGoogle(t) \/ \E a \in Owners : visitEntrance(t, a)
  PROVE  BrowserInv'
<1>1. CASE goBackToGoogle(t)
  <2>1. tab[t].flow \in Flow /\ Nobody \in Owners
    BY <1>1, TabHas DEF goBackToGoogle, Owners
  <2>2. tab' = [tab EXCEPT ![t] = Page("google", Nobody, tab[t].flow)]
    BY <1>1, TabHas DEF goBackToGoogle, BrowserInv, BrowserTables
  <2> QED BY <1>1, <2>1, <2>2, Moved DEF goBackToGoogle
<1>2. ASSUME NEW a \in Owners, visitEntrance(t, a) PROVE BrowserInv'
  <2> DEFINE name == IF a = Nobody THEN "login" ELSE "activate"
  <2>1. tab' = [tab EXCEPT ![t] = Page(name, a, tab[t].flow)]
    BY <1>2, TabHas DEF visitEntrance, BrowserInv, BrowserTables
  <2>2. name \in {"login", "activate", "google"} /\ name # "google"
    OBVIOUS
  <2> HIDE DEF name
  <2> QED BY <1>2, <2>1, <2>2, Moved DEF visitEntrance
<1> QED BY <1>1, <1>2

LEMMA UserSent ==
  ASSUME BrowserInv, NEW t \in Tabs,
         \/ goToGoogle(t) \/ handleLogout(t) \/ \E a \in Accounts : submitPassword(t, a)
         \/ \E a \in Owners : chooseAccount(t, a)
         \/ \E op \in {"confirm", "cancel"} : answerClaim(t, op)
  PROVE  BrowserInv'
<1>0. Nobody \in Owners /\ Accounts \subseteq Owners
  BY DEF Owners
<1>1. CASE goToGoogle(t)
  <2> DEFINE f == [id |-> clicks', of |-> tab[t].of]
  <2>1. f \in Flow
    BY <1>1, ClickCounts, TabHas DEF goToGoogle, Flow, Owners
  <2>2. Dispatches(t, "start", tab[t].of, f) /\ Click(t) /\ UNCHANGED <<account, cookie, tab, lastAnswered, own>>
    BY <1>1 DEF goToGoogle
  <2> HIDE DEF f
  <2> QED BY <2>1, <2>2, TabHas, Dispatched DEF CallNames
<1>2. CASE handleLogout(t)
  BY <1>0, <1>2, Dispatched DEF handleLogout, CallNames
<1>3. ASSUME NEW a \in Accounts, submitPassword(t, a) PROVE BrowserInv'
  <2>1. (Dispatches(t, "login", a, Nobody) \/ Dispatches(t, "activate", a, Nobody)) /\ Click(t) /\ UNCHANGED <<account, cookie, tab, lastAnswered, own>>
    BY <1>3 DEF submitPassword
  <2> QED BY <1>0, <2>1, Dispatched DEF CallNames
<1>4. ASSUME NEW a \in Owners, chooseAccount(t, a) PROVE BrowserInv'
  <2>1. tab[t].flow \in Flow
    BY <1>4, TabHas DEF chooseAccount, OnPage, TabIs
  <2> QED BY <1>4, <2>1, Dispatched DEF chooseAccount, CallNames
<1>5. ASSUME NEW op \in {"confirm", "cancel"}, answerClaim(t, op) PROVE BrowserInv'
  BY <1>0, <1>5, Dispatched DEF answerClaim, CallNames
<1> QED BY <1>1, <1>2, <1>3, <1>4, <1>5

LEMMA AccountDisabled ==
  ASSUME BrowserInv, NEW a \in Accounts, disable(a)
  PROVE  BrowserInv'
<1>1. account' \in [Accounts -> Account] /\ clicks' \in 0..MaxClicks
  <2>1. [account EXCEPT ![a].status = "DISABLED"] \in [Accounts -> Account]
    BY AccountWritten
  <2> QED BY <2>1, BrowserSessionAssumption DEF disable, BrowserInv, BrowserTables
<1>2. UNCHANGED <<cookie, tab, awaited, lastAnswered, own>>
  BY DEF disable
<1> QED BY <1>1, <1>2 DEF BrowserInv, BrowserTables, ClaimIsLast

-----------------------------------------------------------------------------
LEMMA JarIsOne ==
  ASSUME BrowserInv, NEW t \in Tabs, awaited[t] # NoCall
  PROVE  /\ Jar(t) \in Jars
         /\ \A k \in Cookies : Jar(t)[k] = IF awaited[t].sets[k] = Keep THEN cookie[k] ELSE awaited[t].sets[k]
<1>1. awaited[t].sets \in SetJars /\ cookie \in Jars
  BY CallFields, TabHas DEF TabCalls
<1> QED BY <1>1 DEF Jar, Jars, SetJars, Cookies, CookieValues

\* A tab still relies only on what the answer left as it was.
LEMMA ReliesOn ==
  ASSUME BrowserInv, NEW t \in Tabs, awaited[t] # NoCall, NEW onNow \in SUBSET Cookies, Relies(t, onNow)
  PROVE  /\ own' \in [Tabs -> SUBSET Cookies]
         /\ \A s \in Tabs \ {t} : \A k \in own'[s] : k \in own[s] /\ Jar(t)[k] = cookie[k]
         /\ \A k \in own'[t] : k \in onNow \/ (k \in own[t] /\ Jar(t)[k] = cookie[k])
<1>1. own \in [Tabs -> SUBSET Cookies]
  BY DEF BrowserInv, BrowserTables
<1> QED BY <1>1, JarIsOne DEF Relies

\* The claim that is kept, or brought, is that of the last callback.
LEMMA ClaimStored ==
  ASSUME BrowserInv, NEW t \in Tabs, awaited[t] # NoCall, Stored(t),
         \/ awaited[t].sets["claim"] = Nobody
         \/ awaited[t].sets["claim"] = Keep /\ lastAnswered' = lastAnswered
         \/ awaited[t].sets["claim"] \in Claim /\ awaited[t].sets["claim"].begun = lastAnswered'
  PROVE  ClaimIsLast'
<1>1. cookie'["claim"] = IF awaited[t].sets["claim"] = Keep THEN cookie["claim"] ELSE awaited[t].sets["claim"]
  BY JarIsOne DEF Stored, Cookies
<1> QED BY <1>1, CookiesDiffer DEF ClaimIsLast, BrowserInv

LEMMA CallBack ==
  ASSUME BrowserInv, NEW t \in Tabs, NEW ops, NEW answers, CameBack(t, ops, answers)
  PROVE  /\ awaited[t] # NoCall /\ awaited[t] \in TabCalls /\ AnswerIsOf(awaited[t])
         /\ awaited[t].op \in ops /\ awaited[t].answer \in answers
BY CallFields, TabHas DEF CameBack, TabIs

LEMMA SessionEntered ==
  ASSUME BrowserInv, NEW t \in Tabs, entered(t)
  PROVE  BrowserInv'
<1> DEFINE a == awaited[t]
<1>1. /\ CameBack(t, {"login", "activate", "callback", "confirm"}, {"ok"}) /\ a.sets["session"] # Keep
      /\ Stored(t) /\ Opens(t, Jar(t)) /\ Relies(t, {"session"}) /\ UNCHANGED <<account, clicks>>
      /\ lastAnswered' = IF a.op = "callback" THEN a.flow.id ELSE lastAnswered
  BY DEF entered
<1>2. a # NoCall /\ a \in TabCalls /\ AnswerIsOf(a) /\ a.answer = "ok"
  BY <1>1, CallBack
<1>3. ClaimIsLast'
  BY <1>1, <1>2, ClaimStored, CookiesDiffer DEF AnswerIsOf
<1>4. lastAnswered' \in 0..MaxClicks
  BY <1>1, <1>2, BrowserSessionAssumption DEF AnswerIsOf, Flow, BrowserInv, BrowserTables
<1>5. cookie' = Jar(t) /\ Jar(t) \in Jars
  BY <1>1, <1>2, JarIsOne DEF Stored
<1>6. /\ own' \in [Tabs -> SUBSET Cookies]
      /\ \A s \in Tabs \ {t} : \A k \in own'[s] : k \in own[s] /\ cookie'[k] = cookie[k]
      /\ \A k \in own'[t] : k = "session" \/ (k \in own[t] /\ cookie'[k] = cookie[k])
  BY <1>1, <1>2, <1>5, ReliesOn DEF Cookies
<1>7. KnowsFlow(tab[t], own'[t], cookie')
  BY <1>6, TabHas DEF KnowsFlow
<1>8. PICK p \in TabPages, c \in {NoCall} \cup TabCalls :
        tab' = [tab EXCEPT ![t] = p] /\ awaited' = [awaited EXCEPT ![t] = c] /\ TabIs(p, c, own'[t], cookie')
  BY <1>1, <1>5, <1>7, Opened
<1>9. account' \in [Accounts -> Account] /\ clicks' \in 0..MaxClicks /\ cookie' \in Jars
  BY <1>1, <1>5 DEF BrowserInv, BrowserTables
<1> QED BY <1>3, <1>4, <1>6, <1>8, <1>9, TabStep

LEMMA GoogleOpened ==
  ASSUME BrowserInv, NEW t \in Tabs, startAnswered(t)
  PROVE  BrowserInv'
<1> DEFINE a == awaited[t]
           p == Page("google", Nobody, a.flow)
<1>1. /\ CameBack(t, {"start"}, {"ok"}) /\ Stored(t) /\ Relies(t, {"flow"})
      /\ awaited' = [awaited EXCEPT ![t] = NoCall] /\ tab' = [tab EXCEPT ![t] = p] /\ UNCHANGED <<account, clicks, lastAnswered>>
  BY DEF startAnswered, Done
<1>2. a # NoCall /\ a \in TabCalls /\ AnswerIsOf(a) /\ a.op = "start" /\ a.answer = "ok"
  BY <1>1, CallBack
<1>3. ClaimIsLast' /\ a.flow \in Flow /\ a.sets["flow"] = a.flow
  BY <1>1, <1>2, ClaimStored DEF AnswerIsOf
<1>4. cookie' = Jar(t) /\ Jar(t) \in Jars /\ cookie'["flow"] = a.flow
  BY <1>1, <1>2, <1>3, JarIsOne, CookiesDiffer DEF Stored, Cookies
<1>5. /\ own' \in [Tabs -> SUBSET Cookies]
      /\ \A s \in Tabs \ {t} : \A k \in own'[s] : k \in own[s] /\ cookie'[k] = cookie[k]
  BY <1>1, <1>2, <1>4, ReliesOn DEF Cookies
<1>6. Nobody \in Owners
  BY DEF Owners
<1>7. p \in TabPages /\ p.name = "google" /\ p.flow = a.flow /\ p.shown = Nobody
  BY <1>3, <1>6, NewPage
<1> HIDE DEF p
<1>8. TabIs(p, NoCall, own'[t], cookie')
  BY <1>3, <1>4, <1>7 DEF TabIs, KnowsFlow, KnowsShown, WillShow, NoCall
<1>9. account' \in [Accounts -> Account] /\ clicks' \in 0..MaxClicks /\ cookie' \in Jars /\ lastAnswered' \in 0..MaxClicks
  BY <1>1, <1>4 DEF BrowserInv, BrowserTables
<1> QED BY <1>1, <1>3, <1>5, <1>7, <1>8, <1>9, TabStep

LEMMA LinkShown ==
  ASSUME BrowserInv, NEW t \in Tabs, linkOffered(t)
  PROVE  BrowserInv'
<1> DEFINE a == awaited[t]
           p == Page("link", Nobody, tab[t].flow)
           c == CallOf("pending", Nobody, Nobody, Jar(t))
<1>1. /\ CameBack(t, {"callback"}, {"ok"}) /\ a.sets["session"] = Keep /\ Stored(t) /\ Relies(t, {"claim"})
      /\ awaited' = [awaited EXCEPT ![t] = c] /\ tab' = [tab EXCEPT ![t] = p]
      /\ lastAnswered' = a.flow.id /\ UNCHANGED <<account, clicks>>
  BY TabHas DEF linkOffered, BrowserInv, BrowserTables
<1>2. a # NoCall /\ a \in TabCalls /\ AnswerIsOf(a) /\ a.op = "callback" /\ a.answer = "ok"
  BY <1>1, CallBack
<1>3. ClaimIsLast' /\ a.flow \in Flow
  BY <1>1, <1>2, ClaimStored DEF AnswerIsOf
<1>4. cookie' = Jar(t) /\ Jar(t) \in Jars
  BY <1>1, <1>2, JarIsOne DEF Stored
<1>5. /\ own' \in [Tabs -> SUBSET Cookies]
      /\ \A s \in Tabs \ {t} : \A k \in own'[s] : k \in own[s] /\ cookie'[k] = cookie[k]
      /\ \A k \in own'[t] : k = "claim" \/ (k \in own[t] /\ cookie'[k] = cookie[k])
  BY <1>1, <1>2, <1>4, ReliesOn DEF Cookies
<1>6. Nobody \in Owners
  BY DEF Owners
<1>7. /\ p \in TabPages /\ p.name = "link" /\ p.flow = tab[t].flow /\ p.shown = Nobody
      /\ c \in TabCalls /\ c # NoCall /\ c.op = "pending" /\ c.with = cookie' /\ AnswerIsOf(c)
  BY <1>4, <1>6, NewPage, NewCall, TabHas DEF CallNames
<1> HIDE DEF p, c
<1>8. TabIs(p, c, own'[t], cookie')
  BY <1>5, <1>7, TabHas DEF TabIs, KnowsFlow, KnowsShown, WillShow
<1>9. account' \in [Accounts -> Account] /\ clicks' \in 0..MaxClicks /\ cookie' \in Jars /\ lastAnswered' \in 0..MaxClicks
  BY <1>1, <1>3, <1>4, BrowserSessionAssumption DEF BrowserInv, BrowserTables, Flow
<1> QED BY <1>1, <1>3, <1>5, <1>7, <1>8, <1>9, TabStep

\* The flow ends in the page of the link, or in the login.
LEMMA FlowEnded ==
  ASSUME BrowserInv, NEW t \in Tabs, callbackRefused(t) \/ leaves(t)
  PROVE  BrowserInv'
<1> DEFINE a == awaited[t]
<1>1. PICK name \in {"link", "login"} : tab' = [tab EXCEPT ![t] = Page(name, Nobody, tab[t].flow)]
  BY TabHas DEF callbackRefused, leaves, BrowserInv, BrowserTables
<1> DEFINE p == Page(name, Nobody, tab[t].flow)
<1>2. /\ Stored(t) /\ Relies(t, {}) /\ awaited' = [awaited EXCEPT ![t] = NoCall] /\ UNCHANGED <<account, clicks>>
      /\ \/ CameBack(t, {"callback"}, {"refused"}) /\ lastAnswered' = a.flow.id
         \/ CameBack(t, {"cancel", "logout"}, {"ok", "refused", "lost"}) /\ lastAnswered' = lastAnswered
  BY DEF callbackRefused, leaves, Done
<1>3. /\ a # NoCall /\ a \in TabCalls /\ AnswerIsOf(a)
      /\ \/ a.op = "callback" /\ a.answer = "refused" /\ lastAnswered' = a.flow.id
         \/ a.op \in {"cancel", "logout"} /\ lastAnswered' = lastAnswered
  BY <1>2, CallBack
<1>4. ClaimIsLast'
  BY <1>2, <1>3, ClaimStored DEF AnswerIsOf
<1>5. cookie' = Jar(t) /\ Jar(t) \in Jars
  BY <1>2, <1>3, JarIsOne DEF Stored
<1>6. /\ own' \in [Tabs -> SUBSET Cookies]
      /\ \A s \in Tabs : \A k \in own'[s] : k \in own[s] /\ cookie'[k] = cookie[k]
  BY <1>2, <1>3, <1>5, ReliesOn
<1>7. Nobody \in Owners
  BY DEF Owners
<1>8. p \in TabPages /\ p.name \in {"link", "login"} /\ p.flow = tab[t].flow /\ p.shown = Nobody
  BY <1>7, NewPage, TabHas
<1>9. tab' = [tab EXCEPT ![t] = p]
  BY <1>1
<1> HIDE DEF p
<1>10. TabIs(p, NoCall, own'[t], cookie')
  BY <1>6, <1>8, TabHas DEF TabIs, KnowsFlow, KnowsShown, WillShow, NoCall
<1>11. account' \in [Accounts -> Account] /\ clicks' \in 0..MaxClicks /\ cookie' \in Jars /\ lastAnswered' \in 0..MaxClicks
  BY <1>2, <1>3, <1>5, BrowserSessionAssumption DEF BrowserInv, BrowserTables, AnswerIsOf, Flow
<1> QED BY <1>2, <1>4, <1>6, <1>8, <1>9, <1>10, <1>11, TabStep

LEMMA CookiesSame ==
  ASSUME BrowserInv, UNCHANGED <<account, cookie, clicks, lastAnswered, own>>
  PROVE  /\ account' \in [Accounts -> Account] /\ clicks' \in 0..MaxClicks /\ cookie' \in Jars /\ lastAnswered' \in 0..MaxClicks
         /\ own' \in [Tabs -> SUBSET Cookies] /\ ClaimIsLast'
BY DEF BrowserInv, BrowserTables, ClaimIsLast

LEMMA ShownTold ==
  ASSUME BrowserInv, NEW t \in Tabs, shownAnswered(t)
  PROVE  BrowserInv'
<1> DEFINE a == awaited[t]
           v == a.with[IF a.op = "me" THEN "session" ELSE "claim"]
           p == [tab[t] EXCEPT !.shown = v]
<1>1. /\ CameBack(t, {"pending", "me"}, {"ok"}) /\ awaited' = [awaited EXCEPT ![t] = NoCall]
      /\ tab' = [tab EXCEPT ![t].shown = v] /\ UNCHANGED <<account, cookie, clicks, lastAnswered, own>>
  BY DEF shownAnswered, Done
<1>2. a # NoCall /\ a \in TabCalls /\ a.op \in {"pending", "me"}
  BY <1>1, CallBack
<1>3. v \in CookieValues
  BY <1>2 DEF TabCalls, Jars, Cookies
<1>4. tab[t] \in TabPages /\ TabIs(tab[t], a, own[t], cookie)
  BY TabHas
<1>5. /\ a.op = "pending" => v = a.with["claim"] /\ tab[t].name = "link" /\ ("claim" \in own[t] => cookie["claim"] = v)
      /\ a.op = "me" => v = a.with["session"] /\ tab[t].name = "app" /\ ("session" \in own[t] => cookie["session"] = v)
  BY <1>4 DEF TabIs, WillShow
<1> HIDE DEF v
<1>6. p \in TabPages /\ p.name = tab[t].name /\ p.flow = tab[t].flow /\ p.shown = v
  BY <1>3, <1>4 DEF TabPages
<1>7. tab' = [tab EXCEPT ![t] = p]
  BY <1>1
<1> HIDE DEF p
<1>8. TabIs(p, NoCall, own'[t], cookie')
  BY <1>1, <1>2, <1>4, <1>5, <1>6 DEF TabIs, KnowsFlow, KnowsShown, WillShow, NoCall
<1> QED BY <1>1, <1>6, <1>7, <1>8, CookiesSame, TabStep

LEMMA FailureTold ==
  ASSUME BrowserInv, NEW t \in Tabs, failureTold(t)
  PROVE  BrowserInv'
<1> DEFINE blank == Page("blank", Nobody, tab[t].flow)
<1>1. /\ awaited' = [awaited EXCEPT ![t] = NoCall] /\ UNCHANGED <<account, cookie, clicks, lastAnswered, own>>
      /\ tab' = [tab EXCEPT ![t] = tab[t]] \/ tab' = [tab EXCEPT ![t] = blank]
  BY TabHas DEF failureTold, Done, BrowserInv, BrowserTables
<1>2. Nobody \in Owners
  BY DEF Owners
<1>3. blank \in TabPages /\ blank.name = "blank" /\ blank.flow = tab[t].flow
  BY <1>2, NewPage, TabHas
<1> HIDE DEF blank
<1>4. TabIs(tab[t], NoCall, own'[t], cookie') /\ TabIs(blank, NoCall, own'[t], cookie')
  BY <1>1, <1>3, TabHas DEF TabIs, KnowsFlow, KnowsShown, WillShow, NoCall
<1> QED BY <1>1, <1>3, <1>4, TabHas, CookiesSame, TabStep

\* Each tab knows the cookies it relies on, and what it awaits knows them too.
THEOREM BrowserInvariant == BrowserSpec => []BrowserInv
<1>1. BrowserInit => BrowserInv
  <2> SUFFICES ASSUME BrowserInit PROVE BrowserInv
    OBVIOUS
  <2>1. Nobody \in Owners /\ cookie \in Jars
    BY DEF BrowserInit, Jars, Owners, CookieValues, Cookies
  <2>2. Page("login", Nobody, Nobody) \in TabPages
    BY <2>1, NewPage
  <2>3. BrowserTables
    BY <2>1, <2>2, BrowserSessionAssumption DEF BrowserInit, BrowserTables
  <2>4. ClaimIsLast /\ \A t \in Tabs : tab[t] = Page("login", Nobody, Nobody) /\ awaited[t] = NoCall /\ own[t] = {}
    BY DEF BrowserInit, ClaimIsLast, Cookies
  <2> QED BY <2>3, <2>4 DEF BrowserInv, TabIs, KnowsFlow, KnowsShown, WillShow, NoCall, Page
<1>2. BrowserInv /\ [BrowserNext]_sessionVars => BrowserInv'
  <2> SUFFICES ASSUME BrowserInv, [BrowserNext]_sessionVars PROVE BrowserInv'
    OBVIOUS
  <2>1. ASSUME NEW t \in Tabs,
               \/ login(t) \/ activateWithPassword(t) \/ startGoogleLogin(t) \/ handleGoogleCallback(t)
               \/ getPendingLink(t) \/ confirmPendingLink(t) \/ cancelGoogleLink(t) \/ logout(t) \/ me(t) \/ lose(t)
        PROVE BrowserInv'
    BY <2>1, LoginServed, StartServed, CallbackServed, ConfirmServed, OthersServed
  <2>2. ASSUME NEW t \in Tabs,
               \/ visitApp(t) \/ goToGoogle(t) \/ goBackToGoogle(t) \/ handleLogout(t)
               \/ \E a \in Accounts : submitPassword(t, a)
               \/ \E a \in Owners : visitEntrance(t, a) \/ chooseAccount(t, a)
               \/ \E op \in {"confirm", "cancel"} : answerClaim(t, op)
        PROVE BrowserInv'
    BY <2>2, AppVisited, UserMoved, UserSent
  <2>3. ASSUME NEW t \in Tabs,
               \/ entered(t) \/ startAnswered(t) \/ linkOffered(t) \/ callbackRefused(t)
               \/ shownAnswered(t) \/ leaves(t) \/ failureTold(t)
        PROVE BrowserInv'
    BY <2>3, SessionEntered, GoogleOpened, LinkShown, FlowEnded, ShownTold, FailureTold
  <2>4. CASE UNCHANGED sessionVars
    BY <2>4 DEF sessionVars, BrowserInv, BrowserTables, ClaimIsLast
  <2> QED BY <2>1, <2>2, <2>3, <2>4, AccountDisabled DEF BrowserNext, Owners
<1> QED BY <1>1, <1>2, PTL DEF BrowserSpec

\* The flows of two tabs share the cookies and do not mix: a tab confirms the
\* claim it shows and acts as the user it shows, unless another set the cookie
\* since (social-auth.service.ts, the pages of login and linking).
THEOREM FlowsStayApart == BrowserSpec => []FlowsDoNotMix
<1>1. BrowserInv => FlowsDoNotMix
  BY DEF BrowserInv, TabIs, KnowsFlow, KnowsShown, ClaimIsLast, FlowsDoNotMix, OnPage
<1> QED BY <1>1, BrowserInvariant, PTL

-----------------------------------------------------------------------------
\* The forms that make records.

RowsAre == [Records -> Row \cup {Unmade}]
ListsAre == [Records -> Contents \cup {Absent}]
FormsAre == [of : Targets, id : 1..MaxVisits]
CallsAre ==
    [op : {"save", "remove", "status", "load"}, step : {"write", "second", "load"}, of : Targets, isNew : BOOLEAN,
     data : Contents \cup {Absent}, rows : ListsAre, second : BOOLEAN, filter : Filters, form : 0..MaxVisits,
     answer : {"none", "ok", "failed"}]

\* A form is of a visit that has been made, and so is what comes of it.
CallIs(c, n) ==
    /\ c.form <= n /\ (c.op # "save" => c.form = 0) /\ (c.op = "save" => c.form # 0)
    /\ c.step = "write" /\ c.answer = "none" => c.data \in Contents /\ (c.isNew <=> c.of = "new")
    /\ c.op \in {"remove", "status"} \/ c.step = "second" \/ (c.step = "write" /\ c.answer = "ok") => c.of \in Records
RecordShape ==
    /\ section \in Sections /\ stored \in RowsAre /\ list \in ListsAre /\ twice \subseteq Records
    /\ filter \in Filters /\ form \in FormsAre \cup {NoForm} /\ job \in [Jobs -> CallsAre \cup {NoJob}]
    /\ visits \in 0..MaxVisits /\ told \subseteq 0..MaxVisits /\ astray \in BOOLEAN
    /\ form # NoForm => form.id <= visits
    /\ \A j \in Jobs : job[j] # NoJob => CallIs(job[j], visits)
    /\ \A r \in Records : IsStored(r) => stored[r].maker <= visits

\* The sections where a form that is sent again would make a second record, and
\* whose button waits.
Careful == section \in {"members", "agenda", "finance"}
AtMostOne(S) == \A r, s \in S : r = s
Excusable(id) == Repeated = "made" /\ (id \in told \/ Edits.waits = "none")
SavingOf(j, id) == job[j] # NoJob /\ Saving(j) /\ job[j].form = id
Unserved(j) == job[j].step = "write" /\ job[j].answer = "none" /\ job[j].isNew

\* A form awaits one answer at a time, and that of its own; before it there is no
\* record, and after it the form is closed, unless a failure was told.
FormWaits ==
    /\ \A j, k \in Jobs, id \in 1..MaxVisits : SavingOf(j, id) /\ SavingOf(k, id) => j = k
    /\ \A j \in Jobs : form # NoForm /\ SavingOf(j, form.id) =>
         (job[j].isNew <=> form.of = "new") /\ (section = "finance" => job[j].step # "load")
    /\ \A j \in Jobs, id \in (1..MaxVisits) \ told : SavingOf(j, id) /\ Unserved(j) => MadeBy(id) = {}
    /\ form # NoForm /\ form.of = "new" /\ form.id \notin told /\ MadeBy(form.id) # {} => \E j \in Jobs : SavingOf(j, form.id)
FormsInv ==
    /\ RecordShape
    /\ \A id \in 1..MaxVisits : Excusable(id) \/ AtMostOne(MadeBy(id))
    /\ Careful => FormWaits

-----------------------------------------------------------------------------
LEMMA TraitsAre ==
  ASSUME section \in Named
  PROVE  /\ Careful <=> Repeated = "made" /\ Edits.waits # "none"
         /\ Careful => Edits.waits \in {"form", "page"} /\ (Edits.closesFirst <=> section = "finance")
         /\ Careful => ~OneFlag /\ section \notin {"tenants", "segments", "rules"}
         /\ section = "rules" => Repeated = "found"
         /\ Repeated \in {"made", "refused", "found"}
BY DEF Careful, Repeated, Edits, Named, OneFlag, MembersForm, EventsForm, MinistriesForm, FinanceForm, UsersForm, TenantsForm, SegmentsForm, RulesForm

LEMMA SectionNamed == RecordShape => section \in Named
BY RecordPagesAssumption DEF RecordShape

LEMMA JobIs ==
  ASSUME RecordShape, NEW j \in Jobs
  PROVE  /\ job[j] \in CallsAre \cup {NoJob} /\ (job[j] # NoJob <=> job[j] \in CallsAre)
         /\ job[j] # NoJob => CallIs(job[j], visits)
         /\ job[j] = NoJob => job[j].op = "none"
BY DEF RecordShape, CallsAre, NoJob

LEMMA RowKinds ==
  ASSUME NEW x \in Row \cup {Unmade}
  PROVE  x.state # "unmade" => x \in Row /\ x.contents \in Contents
BY DEF Row, Unmade

LEMMA RowIs ==
  ASSUME RecordShape, NEW r \in Records
  PROVE  /\ stored[r] \in Row \cup {Unmade}
         /\ IsStored(r) => stored[r] \in Row /\ stored[r].contents \in Contents /\ stored[r].maker <= visits
BY RowKinds DEF RecordShape, RowsAre, IsStored

\* A call goes on, and is not served a second time.
GoesOn(c, d) ==
    /\ d.op = c.op /\ d.form = c.form /\ d.isNew = c.isNew
    /\ ~(d.step = "write" /\ d.answer = "none")

\* Nobody makes a record or a form, and a form whose record is made closes with
\* its call.
LEMMA FormsKept ==
  ASSUME FormsInv, RecordShape', section' = section, form' = form \/ form' = NoForm, told \subseteq told',
         \A id \in 1..MaxVisits : MadeBy(id)' \subseteq MadeBy(id),
         \A j \in Jobs :
            \/ job'[j] = job[j]
            \/ /\ job[j] # NoJob /\ job'[j] # NoJob /\ GoesOn(job[j], job'[j])
               /\ job'[j].step = "load" /\ job[j].step # "load" /\ section = "finance" => form' = NoForm \/ job[j].op # "save"
            \/ job[j] = NoJob /\ job'[j] # NoJob /\ job'[j].op # "save"
            \/ job'[j] = NoJob /\ (Careful /\ form # NoForm /\ SavingOf(j, form.id) /\ job[j].isNew => form' = NoForm \/ form.id \in told')
  PROVE  FormsInv'
<1>0. (Careful' <=> Careful) /\ \A id : Excusable(id) => Excusable(id)'
  BY DEF Careful, Excusable, Repeated, Edits
<1>1. \A id \in 1..MaxVisits : Excusable(id)' \/ AtMostOne(MadeBy(id)')
  BY <1>0 DEF FormsInv, AtMostOne
<1>2. ASSUME NEW j \in Jobs, NEW id, SavingOf(j, id)'
      PROVE  SavingOf(j, id) /\ job'[j].isNew = job[j].isNew /\ (Unserved(j)' => Unserved(j))
  <2>1. job'[j] # NoJob /\ job'[j].op = "save" /\ job'[j].form = id
    BY <1>2 DEF SavingOf, Saving
  <2>2. CASE job'[j] = job[j]
    BY <2>1, <2>2 DEF SavingOf, Saving, Unserved
  <2>3. CASE job[j] # NoJob /\ GoesOn(job[j], job'[j])
    BY <2>1, <2>3 DEF SavingOf, Saving, Unserved, GoesOn
  <2> QED BY <2>1, <2>2, <2>3
<1>3. ASSUME Careful PROVE FormWaits'
  <2>1. \A j, k \in Jobs, id \in 1..MaxVisits : SavingOf(j, id)' /\ SavingOf(k, id)' => j = k
    BY <1>2, <1>3 DEF FormsInv, FormWaits
  <2>2. ASSUME NEW j \in Jobs, form' # NoForm, SavingOf(j, form.id)'
        PROVE  (job'[j].isNew <=> form'.of = "new") /\ (section' = "finance" => job'[j].step # "load")
    <3>0. form' = form /\ job'[j] # NoJob /\ job'[j].op = "save" /\ job'[j].form = form.id
      BY <2>2 DEF SavingOf, Saving
    <3>1. form' = form /\ SavingOf(j, form.id) /\ job'[j].isNew = job[j].isNew
      BY <1>2, <3>0 DEF SavingOf, Saving
    <3>2. (job[j].isNew <=> form.of = "new") /\ (section = "finance" => job[j].step # "load")
      BY <1>3, <2>2, <3>1 DEF FormsInv, FormWaits
    <3>3. job[j].op = "save" /\ job[j] # NoJob
      BY <3>1 DEF SavingOf, Saving
    <3> QED BY <2>2, <3>1, <3>2, <3>3 DEF SavingOf
  <2>3. \A j \in Jobs, id \in (1..MaxVisits) \ told' : SavingOf(j, id)' /\ Unserved(j)' => MadeBy(id)' = {}
    BY <1>2, <1>3 DEF FormsInv, FormWaits
  <2>4. ASSUME form' # NoForm, form'.of = "new", form'.id \notin told', MadeBy(form.id)' # {}
        PROVE  \E j \in Jobs : SavingOf(j, form.id)'
    <3>1. form' = form /\ form.id \notin told /\ form.id \in 1..MaxVisits
      BY <2>4 DEF FormsInv, RecordShape, FormsAre
    <3>2. MadeBy(form.id) # {}
      BY <2>4, <3>1 DEF MadeBy, IsStored
    <3>3. PICK j \in Jobs : SavingOf(j, form.id)
      BY <1>3, <2>4, <3>1, <3>2 DEF FormsInv, FormWaits
    <3>4. job[j].isNew
      BY <1>3, <2>4, <3>1, <3>3 DEF FormsInv, FormWaits
    <3>5. job[j] # NoJob /\ job[j].op = "save" /\ job[j].form = form.id
      BY <3>3 DEF SavingOf, Saving
    <3>6. job'[j] # NoJob /\ job'[j].op = "save" /\ job'[j].form = form.id
      BY <1>3, <2>4, <3>1, <3>3, <3>4, <3>5 DEF GoesOn
    <3> QED BY <3>1, <3>6 DEF SavingOf, Saving
  <2> QED BY <2>1, <2>2, <2>3, <2>4 DEF FormWaits
<1> QED BY <1>0, <1>1, <1>3 DEF FormsInv

-----------------------------------------------------------------------------
LEMMA JobSet ==
  ASSUME RecordShape, NEW j \in Jobs, NEW d \in CallsAre \cup {NoJob}, job' = [job EXCEPT ![j] = d]
  PROVE  job' \in [Jobs -> CallsAre \cup {NoJob}] /\ job'[j] = d /\ \A k \in Jobs \ {j} : job'[k] = job[k]
BY DEF RecordShape

\* What is left of the shape once the rows and the calls are seen to.
LEMMA ShapeStays ==
  ASSUME RecordShape, visits' \in visits..MaxVisits, UNCHANGED section,
         job' \in [Jobs -> CallsAre \cup {NoJob}],
         \A k \in Jobs : job'[k] = job[k] \/ (job'[k] # NoJob => CallIs(job'[k], visits')),
         list' \in ListsAre, twice' \subseteq Records, filter' \in Filters,
         form' \in {form, NoForm} \/ (form' \in FormsAre /\ form'.id <= visits'),
         told' \subseteq 0..MaxVisits, astray' \in BOOLEAN,
         stored' \in RowsAre, \A r \in Records : IsStored(r)' => stored'[r].maker <= visits
  PROVE  RecordShape'
<1>1. visits' \in Nat /\ visits \in Nat /\ visits' \in 0..MaxVisits /\ visits <= visits'
  BY RecordPagesAssumption DEF RecordShape
<1>2. \A k \in Jobs : job'[k] # NoJob => CallIs(job'[k], visits')
  <2> SUFFICES ASSUME NEW k \in Jobs, job'[k] # NoJob, job'[k] = job[k] PROVE CallIs(job'[k], visits')
    OBVIOUS
  <2>1. CallIs(job[k], visits) /\ job[k].form \in Nat
    BY JobIs, RecordPagesAssumption DEF CallsAre
  <2> QED BY <1>1, <2>1 DEF CallIs
<1>3. \A r \in Records : IsStored(r)' => stored'[r].maker <= visits'
  <2> TAKE r \in Records
  <2>1. IsStored(r)' => stored'[r].maker \in Nat
    BY RowKinds, RecordPagesAssumption DEF RowsAre, IsStored, Row
  <2> QED BY <1>1, <2>1
<1>4. form' \in FormsAre \cup {NoForm} /\ (form' # NoForm => form'.id <= visits')
  BY <1>1, RecordPagesAssumption DEF RecordShape, FormsAre
<1> QED BY <1>1, <1>2, <1>3, <1>4 DEF RecordShape

LEMMA ShapeKept ==
  ASSUME RecordShape, NEW j \in Jobs, NEW d \in CallsAre \cup {NoJob}, job' = [job EXCEPT ![j] = d],
         d # NoJob => CallIs(d, visits'), visits' \in visits..MaxVisits, UNCHANGED section,
         list' \in ListsAre, twice' \subseteq Records, filter' \in Filters, form' = form \/ form' = NoForm,
         told' \subseteq 0..MaxVisits, astray' \in BOOLEAN,
         stored' \in RowsAre, \A r \in Records : IsStored(r)' => stored'[r].maker <= visits
  PROVE  RecordShape'
<1>1. job' \in [Jobs -> CallsAre \cup {NoJob}] /\ \A k \in Jobs : job'[k] = job[k] \/ (job'[k] # NoJob => CallIs(job'[k], visits'))
  BY JobSet
<1> QED BY <1>1, ShapeStays

LEMMA RowsSame ==
  ASSUME RecordShape, UNCHANGED stored
  PROVE  /\ stored' \in RowsAre /\ \A r \in Records : IsStored(r)' => stored'[r].maker <= visits
         /\ \A id : MadeBy(id)' = MadeBy(id)
BY DEF RecordShape, IsStored, MadeBy

\* A row that is there is written, or deleted.
LEMMA RowEdited ==
  ASSUME RecordShape, NEW r \in Records, IsStored(r), NEW x \in Row, x.maker = stored[r].maker, stored' = [stored EXCEPT ![r] = x]
  PROVE  /\ stored' \in RowsAre /\ stored'[r] = x /\ \A s \in Records : IsStored(s)' => stored'[s].maker <= visits
         /\ \A id : MadeBy(id)' \subseteq MadeBy(id)
BY DEF RecordShape, RowsAre, IsStored, MadeBy

LEMMA RowForms ==
  ASSUME NEW x \in Row, NEW v \in {"in", "out"}
  PROVE  /\ [x EXCEPT !.contents.value = v] \in Row /\ [x EXCEPT !.contents.value = v].maker = x.maker
         /\ [x EXCEPT !.contents.extra = TRUE] \in Row /\ [x EXCEPT !.contents.extra = TRUE].maker = x.maker
         /\ [x EXCEPT !.state = "deleted"] \in Row /\ [x EXCEPT !.state = "deleted"].maker = x.maker
BY DEF Row, Contents

\* The call after an answer, and after the page has seen to it.
SameCall(c, d) == d.op = c.op /\ d.form = c.form /\ d.isNew = c.isNew

LEMMA CallFails ==
  ASSUME NEW c \in CallsAre
  PROVE  LET d == [c EXCEPT !.answer = "failed", !.data = Absent] IN
         d \in CallsAre /\ SameCall(c, d) /\ d.answer = "failed" /\ d.step = c.step /\ d.of = c.of
BY DEF CallsAre, SameCall

LEMMA CallListed ==
  ASSUME NEW c \in CallsAre, NEW x \in ListsAre
  PROVE  LET d == [c EXCEPT !.answer = "ok", !.rows = x] IN
         d \in CallsAre /\ SameCall(c, d) /\ d.answer = "ok" /\ d.step = c.step /\ d.of = c.of
BY DEF CallsAre, SameCall

LEMMA CallsAreCalls == \A c \in CallsAre : c # NoJob
BY DEF CallsAre, NoJob

\* A write is answered, or its answer lost.
LEMMA RepliesIs ==
  ASSUME RecordShape, NEW j \in Jobs, job[j] # NoJob, NEW r \in Records, stored'[r] \in Row, Replies(j, r)
  PROVE  /\ astray' \in BOOLEAN
         /\ \E d \in CallsAre : /\ job' = [job EXCEPT ![j] = d] /\ CallIs(d, visits) /\ GoesOn(job[j], d) /\ d.step = job[j].step
<1> DEFINE x == stored'[r].contents
           ok == [job[j] EXCEPT !.answer = "ok", !.of = r, !.data = x]
           no == [job[j] EXCEPT !.answer = "failed", !.data = Absent]
<1>1. astray' \in BOOLEAN /\ (job' = [job EXCEPT ![j] = ok] \/ job' = [job EXCEPT ![j] = no])
  BY DEF Replies, RecordShape
<1>2. x \in Contents
  BY DEF Row
<1> HIDE DEF x
<1>3. job[j] \in CallsAre /\ CallIs(job[j], visits)
  BY JobIs
<1>4. ok \in CallsAre /\ SameCall(job[j], ok) /\ ok.answer = "ok" /\ ok.step = job[j].step /\ ok.of = r
  BY <1>2, <1>3 DEF ok, CallsAre, Targets, SameCall
<1>5. no \in CallsAre /\ SameCall(job[j], no) /\ no.answer = "failed" /\ no.step = job[j].step /\ no.of = job[j].of
  BY <1>3, CallFails
<1> HIDE DEF ok, no
<1>6. CallIs(ok, visits) /\ GoesOn(job[j], ok) /\ CallIs(no, visits) /\ GoesOn(job[j], no)
  BY <1>3, <1>4, <1>5 DEF CallIs, GoesOn, SameCall
<1> QED BY <1>1, <1>4, <1>5, <1>6

LEMMA RecordWritten ==
  ASSUME FormsInv, NEW j \in Jobs, job[j] # NoJob, NEW r \in Records, IsStored(r), NEW x \in Row, x.maker = stored[r].maker,
         stored' = [stored EXCEPT ![r] = x], Replies(j, r), UNCHANGED <<section, list, twice, filter, form, visits, told>>
  PROVE  FormsInv'
<1>0. RecordShape
  BY DEF FormsInv
<1>3. /\ stored' \in RowsAre /\ stored'[r] \in Row /\ \A s \in Records : IsStored(s)' => stored'[s].maker <= visits
      /\ \A id : MadeBy(id)' \subseteq MadeBy(id)
  BY <1>0, RowEdited
<1>4. PICK d \in CallsAre : job' = [job EXCEPT ![j] = d] /\ CallIs(d, visits) /\ GoesOn(job[j], d) /\ d.step = job[j].step
  BY <1>0, <1>3, RepliesIs
<1>5. astray' \in BOOLEAN
  BY <1>0, <1>3, RepliesIs
<1>6. visits' \in visits..MaxVisits
  BY <1>0, RecordPagesAssumption DEF RecordShape
<1>7. RecordShape'
  BY <1>0, <1>3, <1>4, <1>5, <1>6, ShapeKept DEF RecordShape
<1>8. d # NoJob /\ job'[j] = d /\ \A k \in Jobs \ {j} : job'[k] = job[k]
  BY <1>0, <1>4, JobSet, CallsAreCalls
<1> QED BY <1>0, <1>3, <1>4, <1>7, <1>8, FormsKept

LEMMA RowWrite ==
  ASSUME FormsInv, NEW j \in Jobs, updateRecord(j) \/ deleteRecord(j) \/ addToRecord(j)
  PROVE  FormsInv'
<1> DEFINE r == job[j].of
<1>0. RecordShape /\ job[j] # NoJob /\ UNCHANGED <<section, list, twice, filter, form, visits, told>> /\ Replies(j, r)
  BY DEF FormsInv, updateRecord, deleteRecord, addToRecord, IsAt
<1>1. r \in Records /\ IsStored(r)
  <2>1. CASE updateRecord(j)
    BY <2>1 DEF updateRecord
  <2>2. CASE deleteRecord(j) \/ addToRecord(j)
    <3>1. IsStored(r) /\ CallIs(job[j], visits) /\ (job[j].op = "remove" \/ job[j].step = "second")
      BY <1>0, <2>2, JobIs DEF deleteRecord, addToRecord, IsAt
    <3> QED BY <3>1 DEF CallIs
  <2> QED BY <2>1, <2>2
<1>2. PICK x \in Row : x.maker = stored[r].maker /\ stored' = [stored EXCEPT ![r] = x]
  <2>1. stored[r] \in Row
    BY <1>0, <1>1, RowIs
  <2>2. CASE updateRecord(j)
    <3>1. job[j].data.value \in {"in", "out"}
      BY <1>0, <2>2, JobIs DEF updateRecord, IsAt, CallIs, Contents
    <3> QED BY <2>1, <2>2, <3>1, RowForms DEF updateRecord
  <2>3. CASE deleteRecord(j)
    BY <2>1, <2>3, RowForms DEF deleteRecord
  <2>4. CASE addToRecord(j)
    BY <2>1, <2>4, RowForms DEF addToRecord
  <2> QED BY <2>2, <2>3, <2>4
<1> HIDE DEF r
<1> QED BY <1>0, <1>1, <1>2, RecordWritten

\* The first call of a form of creation makes the record, or finds the one that
\* is there.
LEMMA RecordMade ==
  ASSUME FormsInv, NEW j \in Jobs, createRecord(j)
  PROVE  FormsInv'
<1> DEFINE c == job[j]
<1> PICK id : id = job[j].form
  OBVIOUS
<1>0. /\ RecordShape /\ c \in CallsAre /\ CallIs(c, visits) /\ UNCHANGED <<section, list, twice, filter, form, visits, told>>
      /\ c.op = "save" /\ c.step = "write" /\ c.answer = "none" /\ c.data \in Contents
  BY JobIs DEF FormsInv, createRecord, IsAt, CallIs
<1>1. id \in 1..MaxVisits /\ id <= visits /\ SavingOf(j, id) /\ job[j] # NoJob
  BY <1>0, RecordPagesAssumption, CallsAreCalls DEF CallsAre, CallIs, SavingOf, Saving
<1>2. CASE MadeBy(id) # {} /\ Repeated # "made"
  <2>1. PICK r \in MadeBy(id) : stored' = [stored EXCEPT ![r].contents.value = c.data.value] /\ Replies(j, r)
    BY <1>2 DEF createRecord
  <2>2. r \in Records /\ IsStored(r) /\ stored[r] \in Row
    BY <1>0, RowIs DEF MadeBy
  <2>3. PICK x \in Row : x.maker = stored[r].maker /\ stored' = [stored EXCEPT ![r] = x]
    <3>1. c.data.value \in {"in", "out"}
      BY <1>0 DEF Contents
    <3> QED BY <2>1, <2>2, <3>1, RowForms
  <2> QED BY <1>0, <1>1, <2>1, <2>2, <2>3, RecordWritten
<1>3. CASE ~(MadeBy(id) # {} /\ Repeated # "made")
  <2> DEFINE x == [contents |-> c.data, maker |-> id, state |-> "stored"]
  <2>1. PICK r \in Records : stored[r] = Unmade /\ stored' = [stored EXCEPT ![r] = x] /\ Replies(j, r)
    BY <1>3 DEF createRecord
  <2>2. x \in Row /\ x.maker = id /\ x.state = "stored"
    BY <1>0, <1>1 DEF Row
  <2> HIDE DEF x
  <2>3. /\ stored' \in RowsAre /\ stored'[r] = x /\ \A s \in Records \ {r} : stored'[s] = stored[s]
        /\ \A s \in Records : IsStored(s)' => stored'[s].maker <= visits
    BY <1>0, <1>1, <2>1, <2>2 DEF RecordShape, RowsAre, IsStored
  <2>4. MadeBy(id)' = MadeBy(id) \cup {r} /\ \A i : i # id => MadeBy(i)' = MadeBy(i)
    <3>1. ~IsStored(r) /\ \A s \in Records \ {r} : IsStored(s)' = IsStored(s)
      BY <2>1, <2>3 DEF IsStored, Unmade
    <3>2. IsStored(r)' /\ stored'[r].maker = id
      BY <2>2, <2>3 DEF IsStored
    <3> QED BY <2>3, <3>1, <3>2 DEF MadeBy
  <2>5. PICK d \in CallsAre : job' = [job EXCEPT ![j] = d] /\ CallIs(d, visits) /\ GoesOn(job[j], d) /\ d.step = job[j].step
    BY <1>0, <1>1, <2>1, <2>2, <2>3, RepliesIs
  <2>6. astray' \in BOOLEAN /\ visits' \in visits..MaxVisits
    BY <1>0, <1>1, <2>1, <2>2, <2>3, RepliesIs, RecordPagesAssumption DEF RecordShape
  <2>7. RecordShape'
    BY <1>0, <2>3, <2>5, <2>6, ShapeKept DEF RecordShape
  <2>8. d # NoJob /\ job'[j] = d /\ \A k \in Jobs \ {j} : job'[k] = job[k]
    BY <1>0, <2>5, JobSet, CallsAreCalls
  <2>9. (Careful' <=> Careful) /\ \A i : Excusable(i)' <=> Excusable(i)
    BY <1>0 DEF Careful, Excusable, Repeated, Edits
  <2>10. Careful => c.isNew
    <3>1. section # "rules" => c.of = "new"
      BY DEF createRecord
    <3> QED BY <1>0, <3>1 DEF Careful, CallIs
  <2>11. MadeBy(id) = {} \/ Excusable(id)
    <3>1. CASE Careful
      BY <1>0, <1>1, <2>10, <3>1, TraitsAre, SectionNamed DEF FormsInv, FormWaits, Unserved, Excusable
    <3>2. CASE ~Careful
      BY <1>0, <1>3, <3>2, TraitsAre, SectionNamed DEF Excusable
    <3> QED BY <3>1, <3>2
  <2>12. \A i \in 1..MaxVisits : Excusable(i)' \/ AtMostOne(MadeBy(i)')
    BY <2>4, <2>9, <2>11 DEF FormsInv, AtMostOne
  <2>13. \A i : \A k \in Jobs :
           /\ SavingOf(k, i)' <=> SavingOf(k, i)
           /\ SavingOf(k, i) => job'[k].isNew = job[k].isNew /\ job'[k].step = job[k].step
           /\ SavingOf(k, i)' /\ Unserved(k)' => k # j /\ Unserved(k)
    <3> TAKE i
    <3> TAKE k \in Jobs
    <3>1. CASE k = j
      BY <1>1, <2>5, <2>8, <3>1 DEF SavingOf, Saving, Unserved, GoesOn
    <3>2. CASE k # j
      <4>1. job'[k] = job[k]
        BY <2>8, <3>2
      <4> QED BY <3>2, <4>1 DEF SavingOf, Saving, Unserved
    <3> QED BY <3>1, <3>2
  <2>14. ASSUME Careful PROVE FormWaits'
    <3>0. FormWaits
      BY <2>14 DEF FormsInv
    <3>1. \A k, l \in Jobs, i \in 1..MaxVisits : SavingOf(k, i)' /\ SavingOf(l, i)' => k = l
      BY <2>13, <3>0 DEF FormWaits
    <3>2. \A k \in Jobs : form' # NoForm /\ SavingOf(k, form.id)' =>
            (job'[k].isNew <=> form'.of = "new") /\ (section' = "finance" => job'[k].step # "load")
      <4> SUFFICES ASSUME NEW k \in Jobs, form # NoForm, SavingOf(k, form.id)'
                   PROVE  (job'[k].isNew <=> form.of = "new") /\ (section = "finance" => job'[k].step # "load")
        BY <1>0
      <4>1. SavingOf(k, form.id)
        <5>1. PICK i : i = form.id
          OBVIOUS
        <5>2. SavingOf(k, i)'
          BY <1>0, <5>1 DEF SavingOf, Saving
        <5> QED BY <2>13, <5>1, <5>2
      <4> QED BY <2>13, <3>0, <4>1 DEF FormWaits
    <3>3. \A k \in Jobs, i \in (1..MaxVisits) \ told' : SavingOf(k, i)' /\ Unserved(k)' => MadeBy(i)' = {}
      BY <1>0, <1>1, <2>4, <2>13, <3>0 DEF FormWaits
    <3>4. ASSUME form' # NoForm, form'.of = "new", form'.id \notin told', MadeBy(form.id)' # {}
          PROVE  \E k \in Jobs : SavingOf(k, form.id)'
      <4>1. form' = form
        BY <1>0
      <4>2. \A k \in Jobs : SavingOf(k, form.id) => SavingOf(k, form.id)'
        BY <2>13, <4>1 DEF SavingOf, Saving
      <4>3. CASE form.id = id
        BY <1>1, <4>2, <4>3
      <4>4. CASE form.id # id
        <5>1. MadeBy(form.id) # {}
          BY <2>4, <3>4, <4>1, <4>4 DEF MadeBy, IsStored
        <5> QED BY <1>0, <3>0, <3>4, <4>1, <4>2, <5>1 DEF FormWaits
      <4> QED BY <4>3, <4>4
    <3> QED BY <3>1, <3>2, <3>3, <3>4 DEF FormWaits
  <2> QED BY <2>7, <2>9, <2>12, <2>14 DEF FormsInv
<1> QED BY <1>2, <1>3

LEMMA ListFound ==
  ASSUME FormsInv, NEW j \in Jobs, findRecords(j) \/ failJob(j)
  PROVE  FormsInv'
<1>0. RecordShape /\ job[j] \in CallsAre /\ CallIs(job[j], visits) /\ UNCHANGED <<section, stored, list, twice, filter, form, visits, told, astray>>
  BY JobIs DEF FormsInv, findRecords, failJob, IsAt
<1>1. \A f : Listing(f) \in ListsAre
  BY <1>0, RowIs DEF Listing, ListsAre, Matches
<1>2. PICK d \in CallsAre : job' = [job EXCEPT ![j] = d] /\ CallIs(d, visits) /\ GoesOn(job[j], d) /\ d.step = job[j].step
  <2> DEFINE ok == [job[j] EXCEPT !.answer = "ok", !.rows = Listing(job[j].filter)]
             no == [job[j] EXCEPT !.answer = "failed", !.data = Absent]
  <2>1. CASE findRecords(j)
    <3>1. job' = [job EXCEPT ![j] = ok] /\ job[j].step = "load"
      BY <2>1 DEF findRecords, IsAt
    <3>2. ok \in CallsAre /\ SameCall(job[j], ok) /\ ok.answer = "ok" /\ ok.step = job[j].step /\ ok.of = job[j].of
      BY <1>0, <1>1, CallListed
    <3> HIDE DEF ok
    <3>3. CallIs(ok, visits) /\ GoesOn(job[j], ok)
      BY <1>0, <3>1, <3>2 DEF CallIs, GoesOn, SameCall
    <3> QED BY <3>1, <3>2, <3>3
  <2>2. CASE failJob(j)
    <3>1. job' = [job EXCEPT ![j] = no]
      BY <2>2 DEF failJob
    <3>2. no \in CallsAre /\ SameCall(job[j], no) /\ no.answer = "failed" /\ no.step = job[j].step /\ no.of = job[j].of
      BY <1>0, CallFails
    <3> HIDE DEF no
    <3>3. CallIs(no, visits) /\ GoesOn(job[j], no)
      BY <1>0, <3>2 DEF CallIs, GoesOn, SameCall
    <3> QED BY <3>1, <3>2, <3>3
  <2> QED BY <2>1, <2>2
<1>3. visits' \in visits..MaxVisits
  BY <1>0, RecordPagesAssumption DEF RecordShape
<1>4. RecordShape'
  BY <1>0, <1>2, <1>3, RowsSame, ShapeKept DEF RecordShape
<1>5. d # NoJob /\ job[j] # NoJob /\ job'[j] = d /\ \A k \in Jobs \ {j} : job'[k] = job[k]
  BY <1>0, <1>2, JobSet, CallsAreCalls
<1> QED BY <1>0, <1>2, <1>4, <1>5, RowsSame, FormsKept

LEMMA OthersWrite ==
  ASSUME FormsInv, (\E r \in Records : othersChange(r)) \/ closeForm
  PROVE  FormsInv'
<1>0. RecordShape /\ UNCHANGED <<section, list, twice, filter, job, told>>
  BY DEF FormsInv, othersChange, closeForm
<1>1. visits' \in visits..MaxVisits
  BY <1>0, RecordPagesAssumption DEF RecordShape, othersChange, closeForm
<1>2. /\ stored' \in RowsAre /\ \A s \in Records : IsStored(s)' => stored'[s].maker <= visits
      /\ \A id : MadeBy(id)' \subseteq MadeBy(id)
  <2>1. CASE closeForm
    BY <1>0, <2>1, RowsSame DEF closeForm
  <2>2. CASE \E r \in Records : othersChange(r)
    <3>0. PICK r \in Records : othersChange(r)
      BY <2>2
    <3>1. stored[r] \in Row /\ IsStored(r)
      BY <1>0, <3>0, RowIs DEF othersChange
    <3>2. \E x \in Row : x.maker = stored[r].maker /\ stored' = [stored EXCEPT ![r] = x]
      BY <3>0, <3>1, RowForms DEF othersChange
    <3> QED BY <1>0, <3>1, <3>2, RowEdited
  <2> QED BY <2>1, <2>2
<1>3. (form' = form \/ form' = NoForm) /\ astray' \in BOOLEAN
  BY <1>0 DEF othersChange, closeForm, RecordShape
<1>4. RecordShape'
  BY <1>0, <1>1, <1>2, <1>3, ShapeStays DEF RecordShape
<1> QED BY <1>0, <1>2, <1>3, <1>4, FormsKept

LEMMA VisitIs ==
  ASSUME RecordShape, Visit
  PROVE  visits' \in visits..MaxVisits /\ visits' \in 1..MaxVisits /\ visits < visits' /\ visits \in Nat /\ MaxVisits \in Nat
BY RecordPagesAssumption DEF RecordShape, Visit

\* A form that opens has a visit of its own, which nothing comes from yet.
LEMMA FormOpens ==
  ASSUME FormsInv, NEW target \in Targets, openForm(target)
  PROVE  FormsInv'
<1>0. RecordShape /\ UNCHANGED <<section, stored, list, twice, filter, job, told, astray>> /\ form' = [of |-> target, id |-> visits']
  BY DEF FormsInv, openForm
<1>1. visits' \in visits..MaxVisits /\ visits' \in 1..MaxVisits /\ visits < visits' /\ visits \in Nat /\ MaxVisits \in Nat
  BY <1>0, VisitIs DEF openForm
<1>2. form' \in FormsAre /\ form'.id = visits' /\ form'.id <= visits'
  BY <1>0, <1>1 DEF FormsAre
<1>3. RecordShape'
  BY <1>0, <1>1, <1>2, RowsSame, ShapeStays DEF RecordShape
<1>4. (Careful' <=> Careful) /\ \A id : (Excusable(id)' <=> Excusable(id)) /\ MadeBy(id)' = MadeBy(id)
  BY <1>0, RowsSame DEF Careful, Excusable, Repeated, Edits
<1>5. \A id : \A k \in Jobs : (SavingOf(k, id)' <=> SavingOf(k, id)) /\ (Unserved(k)' <=> Unserved(k))
  BY <1>0 DEF SavingOf, Saving, Unserved
<1>6. PICK n : n = visits'
  OBVIOUS
<1>7. \A k \in Jobs : ~SavingOf(k, n)
  BY <1>0, <1>1, <1>6, JobIs DEF SavingOf, CallIs, CallsAre
<1>8. MadeBy(n) = {}
  <2>1. \A r \in Records : IsStored(r) => stored[r].maker <= visits /\ stored[r].maker \in Nat
    BY <1>0, <1>1, RowIs DEF Row
  <2> QED BY <1>1, <1>6, <2>1 DEF MadeBy
<1>9. ASSUME Careful PROVE FormWaits'
  <2>1. \A j, k \in Jobs, id \in 1..MaxVisits : SavingOf(j, id)' /\ SavingOf(k, id)' => j = k
    BY <1>5, <1>9 DEF FormsInv, FormWaits
  <2>2. \A j \in Jobs, id \in (1..MaxVisits) \ told' : SavingOf(j, id)' /\ Unserved(j)' => MadeBy(id)' = {}
    BY <1>0, <1>4, <1>5, <1>9 DEF FormsInv, FormWaits
  <2>3. \A k \in Jobs : ~SavingOf(k, n)'
    BY <1>5, <1>7
  <2>4. \A k \in Jobs : ~SavingOf(k, form.id)'
    BY <1>2, <1>6, <2>3 DEF SavingOf, Saving
  <2>5. MadeBy(form.id)' = {}
    BY <1>0, <1>2, <1>6, <1>8 DEF MadeBy, IsStored
  <2> QED BY <2>1, <2>2, <2>4, <2>5 DEF FormWaits
<1> QED BY <1>3, <1>4, <1>9 DEF FormsInv

LEMMA CallBegins ==
  ASSUME NEW op \in {"save", "remove", "status"}, NEW of \in Targets, NEW isNew \in BOOLEAN, NEW data \in Contents,
         NEW second \in BOOLEAN, NEW id \in 0..MaxVisits
  PROVE  [op |-> op, step |-> "write", of |-> of, isNew |-> isNew, data |-> data, rows |-> NoRows, second |-> second,
          filter |-> "all", form |-> id, answer |-> "none"] \in CallsAre
BY DEF CallsAre, NoRows, ListsAre, Filters

LEMMA WriteIs ==
  ASSUME NEW op \in {"save", "remove", "status"}, NEW of \in Targets, NEW value \in {"in", "out"}, NEW second \in BOOLEAN,
         MaxVisits \in Nat, op = "save" => form.id \in 1..MaxVisits
  PROVE  LET d == Write(op, of, value, second) IN
         /\ d \in CallsAre /\ d.op = op /\ d.of = of /\ (d.isNew <=> of = "new") /\ d.step = "write" /\ d.answer = "none"
         /\ d.data \in Contents /\ d.form = IF op = "save" THEN form.id ELSE 0
<1>1. [value |-> value, extra |-> FALSE] \in Contents /\ (of = "new") \in BOOLEAN /\ (IF op = "save" THEN form.id ELSE 0) \in 0..MaxVisits
  BY DEF Contents
<1>2. Write(op, of, value, second) \in CallsAre
  BY <1>1, CallBegins DEF Write
<1> QED BY <1>1, <1>2 DEF Write

\* A removal, a change of status, or a load begins.
LEMMA OtherBegins ==
  ASSUME FormsInv, NEW j \in Jobs,
         \/ \E r \in Records, op \in {"remove", "status"}, value \in {"in", "out"} : confirmDialog(j, r, op, value)
         \/ \E f \in Filters : applyFilter(j, f)
         \/ refetch(j)
  PROVE  FormsInv'
<1>0. RecordShape /\ Visit /\ UNCHANGED <<section, stored, list, twice, form, told, astray>> /\ job[j] = NoJob
  BY DEF FormsInv, confirmDialog, applyFilter, refetch, Begins
<1>1. visits' \in visits..MaxVisits /\ visits' \in 1..MaxVisits /\ visits < visits' /\ visits \in Nat /\ MaxVisits \in Nat
  BY <1>0, VisitIs
<1>2. NoRows \in ListsAre
  BY DEF NoRows, ListsAre
<1>3. \E d \in CallsAre : job' = [job EXCEPT ![j] = d] /\ CallIs(d, visits') /\ d.op # "save"
  <2>1. ASSUME NEW r \in Records, NEW op \in {"remove", "status"}, NEW value \in {"in", "out"}, confirmDialog(j, r, op, value)
        PROVE  \E d \in CallsAre : job' = [job EXCEPT ![j] = d] /\ CallIs(d, visits') /\ d.op # "save"
    <3> DEFINE d == Write(op, r, value, FALSE)
    <3>1. d \in CallsAre /\ CallIs(d, visits') /\ d.op # "save"
      <4>1. /\ d \in CallsAre /\ d.op = op /\ d.of = r /\ (d.isNew <=> r = "new") /\ d.step = "write" /\ d.answer = "none"
            /\ d.data \in Contents /\ d.form = 0
        <5>1. r \in Targets /\ op \in {"save", "remove", "status"} /\ FALSE \in BOOLEAN /\ op # "save"
          BY DEF Targets
        <5>2. PICK no \in BOOLEAN : no = FALSE
          OBVIOUS
        <5>3. d = Write(op, r, value, no)
          BY <5>2
        <5> HIDE DEF d
        <5> QED BY <1>1, <5>1, <5>3, WriteIs
      <4> HIDE DEF d
      <4> QED BY <1>1, <4>1 DEF CallIs
    <3> QED BY <2>1, <3>1 DEF confirmDialog, Begins
  <2>2. ASSUME NEW f \in Filters, Begins(j, Load(f))
        PROVE  \E d \in CallsAre : job' = [job EXCEPT ![j] = d] /\ CallIs(d, visits') /\ d.op # "save"
    <3> DEFINE d == Load(f)
    <3>1. d \in CallsAre /\ CallIs(d, visits') /\ d.op # "save"
      BY <1>1, <1>2 DEF Load, CallsAre, CallIs, Targets
    <3> QED BY <2>2, <3>1 DEF Begins
  <2> QED BY <1>0, <2>1, <2>2 DEF applyFilter, refetch, RecordShape
<1>4. PICK d \in CallsAre : job' = [job EXCEPT ![j] = d] /\ CallIs(d, visits') /\ d.op # "save"
  BY <1>3
<1>5. filter' \in Filters
  BY <1>0 DEF confirmDialog, applyFilter, refetch, RecordShape
<1>6. RecordShape'
  BY <1>0, <1>1, <1>4, <1>5, RowsSame, ShapeKept DEF RecordShape
<1>7. d # NoJob /\ job'[j] = d /\ \A k \in Jobs \ {j} : job'[k] = job[k]
  BY <1>0, <1>4, JobSet, CallsAreCalls
<1> QED BY <1>0, <1>4, <1>6, <1>7, RowsSame, FormsKept

\* A form is sent: its button waits, so that nothing of it is awaited, and there
\* is no record of it unless a failure was told.
LEMMA FormIsSent ==
  ASSUME FormsInv, NEW j \in Jobs, NEW value \in Typed, NEW second \in BOOLEAN, handleSave(j, value, second)
  PROVE  FormsInv'
<1> DEFINE d == Write("save", form.of, value, second)
<1>0. /\ RecordShape /\ Visit /\ UNCHANGED <<section, stored, list, twice, filter, form, told, astray>>
      /\ job[j] = NoJob /\ job' = [job EXCEPT ![j] = d] /\ form \in FormsAre /\ form # NoForm /\ MaySave
  BY DEF FormsInv, handleSave, Begins, RecordShape
<1>1. visits' \in visits..MaxVisits /\ visits' \in 1..MaxVisits /\ visits < visits' /\ visits \in Nat /\ MaxVisits \in Nat
  BY <1>0, VisitIs
<1>2. form.id \in 1..MaxVisits /\ form.id <= visits /\ form.of \in Targets
  BY <1>0 DEF RecordShape, FormsAre
<1>3. /\ d \in CallsAre /\ CallIs(d, visits')
      /\ d.op = "save" /\ d.form = form.id /\ (d.isNew <=> form.of = "new") /\ d.step = "write"
  <2>1. value \in {"in", "out"}
    BY DEF Typed
  <2>2. /\ d \in CallsAre /\ d.op = "save" /\ d.of = form.of /\ (d.isNew <=> form.of = "new") /\ d.step = "write"
        /\ d.answer = "none" /\ d.data \in Contents /\ d.form = form.id
    BY <1>1, <1>2, <2>1, WriteIs
  <2> HIDE DEF d
  <2> QED BY <1>1, <1>2, <2>2 DEF CallIs
<1> HIDE DEF d
<1>4. RecordShape'
  BY <1>0, <1>1, <1>3, RowsSame, ShapeKept DEF RecordShape
<1>5. d # NoJob /\ job'[j] = d /\ \A k \in Jobs \ {j} : job'[k] = job[k]
  BY <1>0, <1>3, JobSet, CallsAreCalls
<1>6. (Careful' <=> Careful) /\ \A id : (Excusable(id)' <=> Excusable(id)) /\ MadeBy(id)' = MadeBy(id)
  BY <1>0, RowsSame DEF Careful, Excusable, Repeated, Edits
<1>7. PICK n : n = form.id
  OBVIOUS
<1>8. \A id : \A k \in Jobs \ {j} : (SavingOf(k, id)' <=> SavingOf(k, id)) /\ (Unserved(k)' <=> Unserved(k))
  BY <1>5 DEF SavingOf, Saving, Unserved
<1>9. \A id : SavingOf(j, id)' <=> id = n
  BY <1>3, <1>5, <1>7 DEF SavingOf, Saving
<1>10. ASSUME Careful PROVE FormWaits'
  <2>0. FormWaits
    BY <1>10 DEF FormsInv
  <2>1. \A k \in Jobs : ~SavingOf(k, n)
    <3>1. Edits.waits \in {"form", "page"}
      BY <1>0, <1>10, TraitsAre, SectionNamed
    <3>2. CASE Edits.waits = "page"
      BY <1>0, <3>2 DEF MaySave, SavingOf
    <3>3. CASE Edits.waits = "form"
      BY <1>0, <1>7, <3>3 DEF MaySave, SavingOf
    <3> QED BY <3>1, <3>2, <3>3
  <2>2. \A k, l \in Jobs, id \in 1..MaxVisits : SavingOf(k, id)' /\ SavingOf(l, id)' => k = l
    BY <1>8, <1>9, <2>0, <2>1 DEF FormWaits
  <2>3. ASSUME NEW k \in Jobs, SavingOf(k, form.id)'
        PROVE  (job'[k].isNew <=> form'.of = "new") /\ (section' = "finance" => job'[k].step # "load")
    <3>1. SavingOf(k, n)'
      BY <1>0, <1>7, <2>3 DEF SavingOf, Saving
    <3>2. k = j
      BY <1>8, <2>1, <3>1
    <3> QED BY <1>0, <1>3, <1>5, <3>2
  <2>4. form.of = "new" /\ n \notin told => MadeBy(n) = {}
    BY <1>0, <1>7, <2>0, <2>1 DEF FormWaits
  <2>5. \A k \in Jobs, id \in (1..MaxVisits) \ told' : SavingOf(k, id)' /\ Unserved(k)' => MadeBy(id)' = {}
    <3> SUFFICES ASSUME NEW k \in Jobs, NEW id \in (1..MaxVisits) \ told, SavingOf(k, id)', Unserved(k)'
                 PROVE  MadeBy(id) = {}
      BY <1>0, <1>6
    <3>1. CASE k # j
      BY <1>8, <2>0, <3>1 DEF FormWaits
    <3>2. CASE k = j
      <4>1. id = n /\ form.of = "new"
        BY <1>3, <1>5, <1>9, <3>2 DEF Unserved
      <4> QED BY <2>4, <4>1
    <3> QED BY <3>1, <3>2
  <2>6. SavingOf(j, form.id)'
    <3>1. SavingOf(j, n)'
      BY <1>9
    <3> QED BY <1>0, <1>7, <3>1 DEF SavingOf, Saving
  <2> QED BY <2>2, <2>3, <2>5, <2>6 DEF FormWaits
<1> QED BY <1>4, <1>6, <1>10 DEF FormsInv

-----------------------------------------------------------------------------
\* The answers, as the page sees to them.

\* What an answer leaves of the calls and of the form.
LEMMA AnswerSeen ==
  ASSUME FormsInv, NEW j \in Jobs, job[j] # NoJob, NEW d \in CallsAre \cup {NoJob}, job' = [job EXCEPT ![j] = d],
         d # NoJob => CallIs(d, visits) /\ GoesOn(job[j], d) /\
                      (d.step = "load" /\ job[j].step # "load" /\ section = "finance" => form' = NoForm \/ job[j].op # "save"),
         d = NoJob /\ Careful /\ form # NoForm /\ SavingOf(j, form.id) /\ job[j].isNew => form' = NoForm \/ form.id \in told',
         form' = form \/ form' = NoForm, list' \in ListsAre, twice' \subseteq Records, astray' \in BOOLEAN,
         told \subseteq told', told' \subseteq 0..MaxVisits, UNCHANGED <<section, stored, filter, visits>>
  PROVE  FormsInv'
<1>0. RecordShape
  BY DEF FormsInv
<1>1. visits' \in visits..MaxVisits /\ filter' \in Filters
  BY <1>0, RecordPagesAssumption DEF RecordShape
<1>2. RecordShape'
  BY <1>0, <1>1, RowsSame, ShapeKept
<1>3. job'[j] = d /\ \A k \in Jobs \ {j} : job'[k] = job[k]
  BY <1>0, JobSet
<1>4. \A k \in Jobs :
        \/ job'[k] = job[k]
        \/ /\ job[k] # NoJob /\ job'[k] # NoJob /\ GoesOn(job[k], job'[k])
           /\ job'[k].step = "load" /\ job[k].step # "load" /\ section = "finance" => form' = NoForm \/ job[k].op # "save"
        \/ job'[k] = NoJob /\ (Careful /\ form # NoForm /\ SavingOf(k, form.id) /\ job[k].isNew => form' = NoForm \/ form.id \in told')
  BY <1>3
<1> QED BY <1>0, <1>2, <1>4, RowsSame, FormsKept

\* The call goes on to its second write or to the load of the list.
LEMMA CallGoesOn ==
  ASSUME RecordShape, NEW j \in Jobs, job[j] # NoJob, NEW s \in {"second", "load"}, JobGoes(j, s),
         s = "second" => job[j].of \in Records
  PROVE  \E d \in CallsAre : /\ job' = [job EXCEPT ![j] = d] /\ CallIs(d, visits) /\ GoesOn(job[j], d) /\ d.step = s
<1> DEFINE d == [job[j] EXCEPT !.step = s, !.answer = "none", !.data = Absent, !.filter = filter]
<1>1. job' = [job EXCEPT ![j] = d]
  BY DEF JobGoes
<1>2. job[j] \in CallsAre /\ CallIs(job[j], visits) /\ filter \in Filters
  BY JobIs DEF RecordShape
<1>3. d \in CallsAre /\ SameCall(job[j], d) /\ d.answer = "none" /\ d.step = s /\ d.of = job[j].of
  BY <1>2 DEF d, CallsAre, SameCall
<1> HIDE DEF d
<1>4. CallIs(d, visits) /\ GoesOn(job[j], d)
  BY <1>2, <1>3 DEF CallIs, GoesOn, SameCall
<1> QED BY <1>1, <1>3, <1>4

\* The last write is followed by the load of the list, or by the end of the call,
\* with which the form closes.
LEMMA FinishIs ==
  ASSUME FormsInv, NEW j \in Jobs, job[j] # NoJob, Finishes(j)
  PROVE  /\ form' = form \/ form' = NoForm
         /\ \E d \in CallsAre \cup {NoJob} :
              /\ job' = [job EXCEPT ![j] = d]
              /\ d # NoJob => CallIs(d, visits) /\ GoesOn(job[j], d) /\
                              (d.step = "load" /\ job[j].step # "load" /\ section = "finance" => form' = NoForm \/ job[j].op # "save")
              /\ d = NoJob /\ Careful /\ form # NoForm /\ SavingOf(j, form.id) /\ job[j].isNew => form' = NoForm
<1>0. RecordShape /\ section \in Named
  BY SectionNamed DEF FormsInv
<1>1. Closes(job[j]) => (form' = form \/ form' = NoForm) /\ (Careful => form' = NoForm \/ job[j].op # "save")
  BY <1>0, TraitsAre DEF Closes
<1>2. CASE Loads(job[j])
  <2>1. PICK d \in CallsAre : job' = [job EXCEPT ![j] = d] /\ CallIs(d, visits) /\ GoesOn(job[j], d) /\ d.step = "load"
    BY <1>0, <1>2, CallGoesOn DEF Finishes
  <2>2. d # NoJob
    BY CallsAreCalls
  <2>3. form' = form \/ form' = NoForm
    BY <1>1, <1>2 DEF Finishes
  <2>4. section = "finance" => form' = NoForm \/ job[j].op # "save"
    <3>1. section = "finance" => Careful /\ Edits.closesFirst
      BY <1>0, TraitsAre DEF Careful
    <3> QED BY <1>1, <1>2, <3>1 DEF Finishes
  <2> QED BY <2>1, <2>2, <2>3, <2>4
<1>3. CASE ~Loads(job[j])
  <2>1. job' = [job EXCEPT ![j] = NoJob] /\ Closes(job[j])
    BY <1>3 DEF Finishes, JobEnds
  <2>2. SavingOf(j, form.id) => job[j].op = "save"
    BY DEF SavingOf, Saving
  <2> QED BY <1>1, <2>1, <2>2
<1> QED BY <1>2, <1>3

LEMMA WriteSeen ==
  ASSUME FormsInv, NEW j \in Jobs, writeAnswered(j) \/ removalAnswered(j)
  PROVE  FormsInv'
<1> DEFINE c == job[j]
<1>0. RecordShape /\ c # NoJob /\ c \in CallsAre /\ c.of \in Records /\ UNCHANGED <<section, stored, filter, visits, told>>
  <2>1. RecordShape /\ c # NoJob /\ (c.step = "second" \/ (c.step = "write" /\ c.answer = "ok")) /\ UNCHANGED <<section, stored, filter, visits, told>>
    BY DEF FormsInv, writeAnswered, removalAnswered, IsAt
  <2>2. c \in CallsAre /\ CallIs(c, visits)
    BY <2>1, JobIs
  <2> QED BY <2>1, <2>2 DEF CallIs
<1>1. list' \in ListsAre /\ twice' \subseteq Records /\ astray' \in BOOLEAN
  <2>1. list \in ListsAre /\ twice \subseteq Records /\ astray \in BOOLEAN /\ c.data \in Contents \cup {Absent}
    BY <1>0 DEF RecordShape, CallsAre
  <2>2. CASE writeAnswered(j)
    <3>1. CASE Loads(c)
      BY <2>1, <2>2, <3>1 DEF writeAnswered
    <3>2. CASE ~Loads(c)
      <4>1. Put(c.of, c.data, c.isNew /\ c.step = "write") /\ astray' = (astray \/ Overtaken(c))
        BY <2>2, <3>2 DEF writeAnswered
      <4>2. Overtaken(c) \in BOOLEAN
        BY DEF Overtaken
      <4> HIDE DEF c
      <4>3. list' \in ListsAre
        BY <1>0, <2>1, <4>1 DEF Put, ListsAre
      <4> QED BY <1>0, <2>1, <4>1, <4>2, <4>3 DEF Put
    <3> QED BY <3>1, <3>2
  <2>3. CASE removalAnswered(j)
    <3>1. list' \in {list, [list EXCEPT ![c.of] = Absent]} /\ twice' \in {twice, twice \ {c.of}} /\ astray' = astray
      BY <2>3 DEF removalAnswered
    <3> HIDE DEF c
    <3> QED BY <2>1, <3>1 DEF ListsAre
  <2> QED BY <2>2, <2>3
<1>2. CASE Finishes(j)
  <2>1. PICK d \in CallsAre \cup {NoJob} :
              /\ job' = [job EXCEPT ![j] = d]
              /\ d # NoJob => CallIs(d, visits) /\ GoesOn(job[j], d) /\
                              (d.step = "load" /\ job[j].step # "load" /\ section = "finance" => form' = NoForm \/ job[j].op # "save")
              /\ d = NoJob /\ Careful /\ form # NoForm /\ SavingOf(j, form.id) /\ job[j].isNew => form' = NoForm
    BY <1>0, <1>2, FinishIs
  <2>2. form' = form \/ form' = NoForm
    BY <1>0, <1>2, FinishIs
  <2>3. told \subseteq told' /\ told' \subseteq 0..MaxVisits
    BY <1>0 DEF RecordShape
  <2> QED BY <1>0, <1>1, <2>1, <2>2, <2>3, AnswerSeen
<1>3. CASE ~Finishes(j)
  <2>1. JobGoes(j, "second") /\ form' = form
    BY <1>3 DEF writeAnswered, removalAnswered
  <2>2. PICK d \in CallsAre : job' = [job EXCEPT ![j] = d] /\ CallIs(d, visits) /\ GoesOn(job[j], d) /\ d.step = "second"
    BY <1>0, <2>1, CallGoesOn
  <2>3. d # NoJob
    BY CallsAreCalls
  <2>4. told \subseteq told' /\ told' \subseteq 0..MaxVisits
    BY <1>0 DEF RecordShape
  <2> QED BY <1>0, <1>1, <2>1, <2>2, <2>3, <2>4, AnswerSeen
<1> QED BY <1>2, <1>3

LEMMA FailureSeen ==
  ASSUME FormsInv, NEW j \in Jobs, failureAnswered(j)
  PROVE  FormsInv'
<1> DEFINE c == job[j]
<1>0. /\ RecordShape /\ c # NoJob /\ c \in CallsAre /\ UNCHANGED <<section, stored, list, twice, filter, form, visits>>
      /\ job' = [job EXCEPT ![j] = NoJob] /\ told' = IF c.op = "save" /\ c.isNew THEN told \cup {c.form} ELSE told
  BY JobIs DEF FormsInv, failureAnswered, IsAt, JobEnds
<1>1. told \subseteq told' /\ told' \subseteq 0..MaxVisits
  <2>1. c.form \in 0..MaxVisits /\ told \subseteq 0..MaxVisits
    BY <1>0 DEF CallsAre, RecordShape
  <2> HIDE DEF c
  <2> QED BY <1>0, <2>1
<1>2. astray' \in BOOLEAN
  <2>1. Loads(c) \in BOOLEAN /\ astray \in BOOLEAN
    BY <1>0 DEF Loads, RecordShape
  <2> QED BY <2>1 DEF failureAnswered
<1>3. SavingOf(j, form.id) /\ c.isNew => form.id \in told'
  BY <1>0 DEF SavingOf, Saving
<1>4. list' \in ListsAre /\ twice' \subseteq Records
  BY <1>0 DEF RecordShape
<1> QED BY <1>0, <1>1, <1>2, <1>3, <1>4, AnswerSeen

LEMMA ListSeen ==
  ASSUME FormsInv, NEW j \in Jobs, listAnswered(j)
  PROVE  FormsInv'
<1> DEFINE c == job[j]
<1>0. /\ RecordShape /\ section \in Named /\ c # NoJob /\ c \in CallsAre /\ c.step = "load" /\ UNCHANGED <<section, stored, filter, visits, told>>
      /\ job' = [job EXCEPT ![j] = NoJob]
  BY JobIs, SectionNamed DEF FormsInv, listAnswered, IsAt, JobEnds
<1>1. list' \in ListsAre /\ twice' \subseteq Records /\ astray' \in BOOLEAN
  <2>1. c.rows \in ListsAre /\ list \in ListsAre /\ twice \subseteq Records /\ astray \in BOOLEAN
    BY <1>0 DEF CallsAre, RecordShape
  <2>2. Unapplied(j) \in BOOLEAN
    BY DEF Unapplied
  <2> QED BY <2>1, <2>2 DEF listAnswered
<1>2. form' = form \/ form' = NoForm
  BY DEF listAnswered, Closes
<1>3. ASSUME Careful, form # NoForm, SavingOf(j, form.id) PROVE form' = NoForm
  <2>1. c.op = "save"
    BY <1>3 DEF SavingOf, Saving
  <2>2. section # "finance"
    BY <1>0, <1>3 DEF FormsInv, FormWaits
  <2>3. ~Edits.closesFirst /\ section \notin {"tenants", "segments", "rules"}
    BY <1>0, <1>3, <2>2, TraitsAre
  <2> QED BY <1>3, <2>1, <2>3 DEF listAnswered, Closes
<1>4. told \subseteq told' /\ told' \subseteq 0..MaxVisits
  BY <1>0 DEF RecordShape
<1> QED BY <1>0, <1>1, <1>2, <1>3, <1>4, AnswerSeen
-----------------------------------------------------------------------------
LEMMA FormsInit == RecordPagesInit => FormsInv
<1> SUFFICES ASSUME RecordPagesInit PROVE FormsInv
  OBVIOUS
<1>1. stored \in RowsAre /\ \A r \in Records : IsStored(r) => stored[r].maker = 0 /\ stored[r].contents \in Contents
  BY RecordPagesAssumption DEF RecordPagesInit, RowsAre, Row, Contents, IsStored, Unmade
<1>2. \A id \in 1..MaxVisits : MadeBy(id) = {}
  BY <1>1 DEF MadeBy
<1>3. list \in ListsAre
  BY <1>1 DEF RecordPagesInit, ListsAre, Listing, Matches
<1>4. RecordShape
  <2>1. job \in [Jobs -> CallsAre \cup {NoJob}] /\ \A j \in Jobs : job[j] = NoJob
    BY DEF RecordPagesInit
  <2>2. form = NoForm /\ visits = 0 /\ told = {} /\ astray = FALSE /\ twice = {} /\ filter \in Filters /\ section \in Sections
    BY DEF RecordPagesInit, Filters
  <2>3. 0 \in 0..MaxVisits
    BY RecordPagesAssumption
  <2>4. \A r \in Records : IsStored(r) => stored[r].maker <= visits
    BY <1>1, <2>2
  <2>5. \A j \in Jobs : job[j] # NoJob => CallIs(job[j], visits)
    BY <2>1
  <2> QED BY <1>1, <1>3, <2>1, <2>2, <2>3, <2>4, <2>5 DEF RecordShape
<1>5. FormWaits
  BY DEF RecordPagesInit, FormWaits, SavingOf
<1> QED BY <1>2, <1>4, <1>5 DEF FormsInv, AtMostOne

LEMMA FormsNext == FormsInv /\ [RecordPagesNext]_recordVars => FormsInv'
<1> SUFFICES ASSUME FormsInv, [RecordPagesNext]_recordVars PROVE FormsInv'
  OBVIOUS
<1>1. CASE UNCHANGED recordVars
  <2>1. UNCHANGED <<section, stored, list, twice, filter, form, job, visits, told, astray>>
    BY <1>1 DEF recordVars
  <2>2. RecordShape
    BY DEF FormsInv
  <2>3. visits' \in visits..MaxVisits
    BY <2>1, <2>2, RecordPagesAssumption DEF RecordShape
  <2>4. RecordShape'
    BY <2>1, <2>2, <2>3, RowsSame, ShapeStays DEF RecordShape
  <2> QED BY <2>1, <2>2, <2>4, RowsSame, FormsKept
<1>2. ASSUME NEW j \in Jobs,
             createRecord(j) \/ updateRecord(j) \/ deleteRecord(j) \/ addToRecord(j) \/ findRecords(j) \/ failJob(j)
      PROVE  FormsInv'
  BY <1>2, RecordMade, RowWrite, ListFound
<1>3. ASSUME NEW j \in Jobs, NEW value \in Typed, NEW second \in BOOLEAN, handleSave(j, value, second) PROVE FormsInv'
  BY <1>3, FormIsSent
<1>4. ASSUME NEW j \in Jobs,
             \/ \E r \in Records, op \in {"remove", "status"}, value \in {"in", "out"} : confirmDialog(j, r, op, value)
             \/ \E f \in Filters : applyFilter(j, f)
             \/ refetch(j)
      PROVE  FormsInv'
  BY <1>4, OtherBegins
<1>5. ASSUME NEW j \in Jobs, writeAnswered(j) \/ removalAnswered(j) \/ failureAnswered(j) \/ listAnswered(j) PROVE FormsInv'
  BY <1>5, WriteSeen, FailureSeen, ListSeen
<1>6. ASSUME NEW target \in Targets, openForm(target) PROVE FormsInv'
  BY <1>6, FormOpens
<1>7. CASE (\E r \in Records : othersChange(r)) \/ closeForm
  BY <1>7, OthersWrite
<1> QED BY <1>1, <1>2, <1>3, <1>4, <1>5, <1>6, <1>7 DEF RecordPagesNext

\* The rows, the forms and the calls of a page are as its invariant says, with
\* which a form awaits one answer at a time.
THEOREM FormsInvariant == RecordPagesSpec => []FormsInv
<1>1. RecordPagesInit => FormsInv
  BY FormsInit
<1>2. FormsInv /\ [RecordPagesNext]_recordVars => FormsInv'
  BY FormsNext
<1> QED BY <1>1, <1>2, PTL DEF RecordPagesSpec

\* However the answers of its calls are ordered, lost or followed by another try,
\* a form of creation makes one record; it makes a second only on the pages where
\* no unique key refuses it, and after a failure was told or where the button of
\* the form does not wait.
THEOREM FormsMakeOneRecord == RecordPagesSpec => []OneRecordPerForm
<1>1. FormsInv => OneRecordPerForm
  <2> SUFFICES ASSUME FormsInv, NEW id \in 1..MaxVisits, Cardinality(MadeBy(id)) > 1
               PROVE  Excusable(id)
    BY DEF OneRecordPerForm, Excusable
  <2>1. SUFFICES ASSUME AtMostOne(MadeBy(id)) PROVE FALSE
    BY DEF FormsInv
  <2>2. MadeBy(id) = {} \/ \E r \in MadeBy(id) : MadeBy(id) = {r}
    BY <2>1 DEF AtMostOne
  <2>3. Cardinality({}) = 0 /\ \A r : Cardinality({r}) = 1
    BY FS_EmptySet, FS_Singleton
  <2> QED BY <2>2, <2>3
<1>2. RecordPagesSpec => []FormsInv
  BY FormsInvariant
<1> QED BY <1>1, <1>2, PTL

-----------------------------------------------------------------------------
\* The list of records.

\* What the page shows, edits or awaits is of records that somebody made.
IsMade(r) == stored[r] # Unmade
CallOfMade(c) == /\ c # NoJob /\ c.of \in Records => IsMade(c.of)
                 /\ c # NoJob => \A r \in Records : c.rows[r] # Absent => IsMade(r)
PageOfMade == /\ \A r \in Records : list[r] # Absent => IsMade(r)
              /\ form # NoForm /\ form.of \in Records => IsMade(form.of)
              /\ \A j \in Jobs : CallOfMade(job[j])

\* A removal that was served took the row, unless it archived it.
RemovalTakes(c) ==
    c # NoJob /\ c.op = "remove" =>
        c.step # "second" /\ (c.step = "write" /\ c.answer = "ok" /\ ~Loads(c) => ~IsStored(c.of))

\* The list is right about a record, or an answer that settles it is awaited: a
\* load, or a write of that record that was served.
IsRight(r) ==
    /\ list[r] # Absent => IsStored(r) /\ list[r] = stored[r].contents
    /\ Matches(r, filter) => list[r] # Absent
Settles(c, r) ==
    /\ c # NoJob
    /\ \/ c.step = "load"
       \/ c.of = r /\ c.step = "write" /\ c.answer = "ok"
       \/ c.of = r /\ c.step = "second" /\ (c.answer = "ok" \/ Loads(c))
ListSettles == \A r \in Records : IsRight(r) \/ \E j \in Jobs : Settles(job[j], r)

\* A record that was just made is nowhere on the page, until the answer is seen;
\* one that a second call is made for is listed, or was removed meanwhile.
IsFresh(c) == c # NoJob /\ c.step = "write" /\ c.answer = "ok" /\ c.isNew /\ section # "rules"
FreshIsAlone(j) ==
    IsFresh(job[j]) =>
        /\ list[job[j].of] = Absent /\ (form # NoForm => form.of # job[j].of)
        /\ \A k \in Jobs \ {j} : job[k] # NoJob => job[k].of # job[j].of
SecondIsListed(c) == c # NoJob /\ c.step = "second" /\ ~Loads(c) => list[c.of] # Absent \/ ~IsStored(c.of)

PageFollows == twice = {} /\ ListSettles /\ \A j \in Jobs : FreshIsAlone(j) /\ SecondIsListed(job[j])
ListInv == FormsInv /\ PageOfMade /\ (\A j \in Jobs : RemovalTakes(job[j])) /\ (~astray => PageFollows)

-----------------------------------------------------------------------------
LEMMA StoredIsMade == \A r : IsStored(r) => IsMade(r)
BY DEF IsStored, IsMade, Unmade

LEMMA LoadsAlike ==
  ASSUME section' = section, NEW j, job'[j].op = job[j].op, job'[j].isNew = job[j].isNew
  PROVE  Loads(job[j])' <=> Loads(job[j])
BY DEF Loads, Lists

LEMMA CallStays ==
  ASSUME section' = section, NEW k, job'[k] = job[k]
  PROVE  /\ Loads(job[k])' <=> Loads(job[k])
         /\ \A r : Settles(job[k], r)' <=> Settles(job[k], r)
         /\ IsFresh(job[k])' <=> IsFresh(job[k])
<1>1. Loads(job[k])' <=> Loads(job[k])
  BY LoadsAlike
<1> QED BY <1>1 DEF Settles, IsFresh

\* No record is unmade again, and none is stored again once it was removed.
RowsGoOn == \A r \in Records : (IsMade(r) => IsMade(r)') /\ (IsStored(r)' => IsStored(r) \/ ~IsMade(r))

LEMMA RowsGoOnWhenEdited ==
  ASSUME RecordShape, NEW r \in Records, NEW x \in Row, stored' = [stored EXCEPT ![r] = x], IsStored(r) \/ ~IsMade(r)
  PROVE  RowsGoOn /\ IsMade(r)' /\ stored'[r] = x /\ \A s \in Records \ {r} : stored'[s] = stored[s]
<1>1. stored'[r] = x /\ \A s \in Records \ {r} : stored'[s] = stored[s]
  BY DEF RecordShape, RowsAre
<1>2. x # Unmade
  BY DEF Row, Unmade
<1> QED BY <1>1, <1>2 DEF RowsGoOn, IsMade, IsStored

LEMMA RowsGoOnUnread == ASSUME UNCHANGED stored PROVE RowsGoOn
BY DEF RowsGoOn, IsMade, IsStored

\* What is left of the invariant once the calls that change are seen to.
LEMMA ListKept ==
  ASSUME ListInv, FormsInv', section' = section, RowsGoOn,
         \A r \in Records : list'[r] # Absent => IsMade(r)',
         form' # NoForm /\ form'.of \in Records => IsMade(form.of)',
         \A k \in Jobs : job'[k] = job[k] \/ (CallOfMade(job[k])' /\ RemovalTakes(job[k])'),
         ~astray' => PageFollows'
  PROVE  ListInv'
<1>1. ASSUME NEW k \in Jobs PROVE CallOfMade(job[k])' /\ RemovalTakes(job[k])'
  <2> SUFFICES ASSUME job'[k] = job[k] PROVE CallOfMade(job[k])' /\ RemovalTakes(job[k])'
    BY <1>1
  <2>1. CallOfMade(job[k]) /\ RemovalTakes(job[k])
    BY DEF ListInv, PageOfMade
  <2>2. CallOfMade(job[k])'
    BY <2>1 DEF CallOfMade, RowsGoOn
  <2>3. job[k] # NoJob /\ job[k].op = "remove" => job[k].of \in Records /\ IsMade(job[k].of)
    BY <2>1, JobIs DEF ListInv, FormsInv, CallIs, CallOfMade
  <2>4. RemovalTakes(job[k])'
    BY <2>1, <2>3, CallStays DEF RemovalTakes, RowsGoOn
  <2> QED BY <2>2, <2>4
<1>2. PageOfMade'
  BY <1>1 DEF PageOfMade
<1> QED BY <1>1, <1>2 DEF ListInv

\* While the list is not astray: what is right stays right or is settled later, and
\* what an answer settles is right once it is seen.
LEMMA PageGoesOn ==
  ASSUME ListInv, ~astray, section' = section, twice' = {}, NEW j \in Jobs, \A k \in Jobs \ {j} : job'[k] = job[k],
         \A r \in Records : IsRight(r) \/ Settles(job[j], r) => IsRight(r)' \/ Settles(job[j], r)',
         FreshIsAlone(j)', SecondIsListed(job[j])',
         \A k \in Jobs \ {j} : IsFresh(job[k]) =>
            /\ list'[job[k].of] = Absent /\ (form' # NoForm => form'.of # job[k].of)
            /\ job'[j] # NoJob => job'[j].of # job[k].of,
         \A r \in Records : (list[r] # Absent \/ ~IsStored(r)) /\ IsMade(r) => list'[r] # Absent \/ ~IsStored(r)'
  PROVE  PageFollows'
<1>0. PageFollows /\ FormsInv /\ RecordShape
  BY DEF ListInv, FormsInv
<1>1. ListSettles'
  <2> SUFFICES ASSUME NEW r \in Records, ~IsRight(r)' PROVE \E k \in Jobs : Settles(job[k], r)'
    BY DEF ListSettles
  <2>1. CASE IsRight(r) \/ Settles(job[j], r)
    BY <2>1
  <2>2. CASE ~(IsRight(r) \/ Settles(job[j], r))
    <3>1. PICK k \in Jobs : Settles(job[k], r)
      BY <1>0, <2>2 DEF PageFollows, ListSettles
    <3>2. k # j
      BY <2>2, <3>1
    <3> QED BY <3>1, <3>2, CallStays
  <2> QED BY <2>1, <2>2
<1>2. ASSUME NEW k \in Jobs \ {j} PROVE FreshIsAlone(k)' /\ SecondIsListed(job[k])'
  <2>1. FreshIsAlone(k) /\ SecondIsListed(job[k]) /\ job'[k] = job[k]
    BY <1>0 DEF PageFollows
  <2>2. FreshIsAlone(k)'
    BY <2>1, CallStays DEF FreshIsAlone
  <2>3. job[k] # NoJob /\ job[k].step = "second" => job[k].of \in Records /\ IsMade(job[k].of)
    BY <1>0, JobIs DEF CallIs, ListInv, PageOfMade, CallOfMade
  <2>4. SecondIsListed(job[k])'
    BY <2>1, <2>3, CallStays DEF SecondIsListed
  <2> QED BY <2>2, <2>4
<1> QED BY <1>1, <1>2 DEF PageFollows

-----------------------------------------------------------------------------
LEMMA ServedIs ==
  ASSUME RecordShape, NEW j \in Jobs, job[j] # NoJob, NEW r \in Records, stored'[r] \in Row, Replies(j, r)
  PROVE  /\ job'[j] \in CallsAre /\ job'[j] # NoJob /\ \A k \in Jobs \ {j} : job'[k] = job[k]
         /\ job'[j].op = job[j].op /\ job'[j].isNew = job[j].isNew /\ job'[j].step = job[j].step /\ job'[j].rows = job[j].rows
         /\ \/ job'[j].answer = "ok" /\ job'[j].of = r /\ job'[j].data = stored'[r].contents /\ astray' = astray
            \/ job'[j].answer = "failed" /\ job'[j].of = job[j].of /\ astray'
<1> DEFINE x == stored'[r].contents
           ok == [job[j] EXCEPT !.answer = "ok", !.of = r, !.data = x]
           no == [job[j] EXCEPT !.answer = "failed", !.data = Absent]
<1>1. (job' = [job EXCEPT ![j] = ok] /\ astray' = astray) \/ (job' = [job EXCEPT ![j] = no] /\ astray')
  BY DEF Replies
<1>2. x \in Contents
  BY DEF Row
<1>3. job[j] \in CallsAre
  BY JobIs
<1> HIDE DEF x
<1>4. /\ ok \in CallsAre /\ ok.answer = "ok" /\ ok.of = r /\ ok.data = x /\ ok.op = job[j].op /\ ok.isNew = job[j].isNew
      /\ ok.step = job[j].step /\ ok.rows = job[j].rows
  BY <1>2, <1>3 DEF CallsAre, Targets
<1>5. /\ no \in CallsAre /\ no.answer = "failed" /\ no.of = job[j].of /\ no.op = job[j].op /\ no.isNew = job[j].isNew
      /\ no.step = job[j].step /\ no.rows = job[j].rows
  BY <1>3 DEF CallsAre
<1> HIDE DEF ok, no
<1>6. CASE job' = [job EXCEPT ![j] = ok] /\ astray' = astray
  <2>1. job'[j] = ok /\ ok # NoJob /\ \A k \in Jobs \ {j} : job'[k] = job[k]
    BY <1>4, <1>6, JobSet, CallsAreCalls
  <2> QED BY <1>4, <1>6, <2>1 DEF x
<1>7. CASE job' = [job EXCEPT ![j] = no] /\ astray'
  <2>1. job'[j] = no /\ no # NoJob /\ \A k \in Jobs \ {j} : job'[k] = job[k]
    BY <1>5, <1>7, JobSet, CallsAreCalls
  <2> QED BY <1>5, <1>7, <2>1
<1> QED BY <1>1, <1>6, <1>7

\* A write is served, of the record it names or of one that it makes; on the page
\* of the rules it may find one, or make again one that is gone.
LEMMA WriteKeepsList ==
  ASSUME ListInv, FormsInv', NEW j \in Jobs, job[j] # NoJob, job[j].answer = "none", job[j].step \in {"write", "second"},
         NEW r \in Records, NEW x \in Row, stored' = [stored EXCEPT ![r] = x], IsStored(r) \/ ~IsMade(r), Replies(j, r),
         job[j].step = "second" \/ (~job[j].isNew /\ section # "rules") => job[j].of = r,
         job[j].step = "write" /\ job[j].isNew /\ section # "rules" => ~IsMade(r),
         job[j].op = "remove" /\ job[j].step = "write" /\ ~Loads(job[j]) => x.state = "deleted",
         UNCHANGED <<section, list, twice, filter, form, visits, told>>
  PROVE  ListInv'
<1>0. RecordShape /\ PageOfMade /\ CallOfMade(job[j]) /\ RemovalTakes(job[j])
  BY DEF ListInv, FormsInv, PageOfMade
<1>1. RowsGoOn /\ IsMade(r)' /\ stored'[r] = x /\ \A s \in Records \ {r} : stored'[s] = stored[s]
  BY <1>0, RowsGoOnWhenEdited
<1>2. /\ job'[j] \in CallsAre /\ job'[j] # NoJob /\ \A k \in Jobs \ {j} : job'[k] = job[k]
      /\ job'[j].op = job[j].op /\ job'[j].isNew = job[j].isNew /\ job'[j].step = job[j].step /\ job'[j].rows = job[j].rows
      /\ \/ job'[j].answer = "ok" /\ job'[j].of = r /\ job'[j].data = stored'[r].contents /\ astray' = astray
         \/ job'[j].answer = "failed" /\ job'[j].of = job[j].of /\ astray'
  BY <1>0, <1>1, ServedIs
<1>3. CallOfMade(job[j])'
  BY <1>0, <1>1, <1>2 DEF CallOfMade, RowsGoOn
<1>4. RemovalTakes(job[j])'
  <2>1. Loads(job[j])' <=> Loads(job[j])
    BY <1>2, LoadsAlike
  <2>2. job'[j].op = "remove" => job'[j].step = "write"
    BY <1>0, <1>2 DEF RemovalTakes
  <2>3. x.state = "deleted" => ~IsStored(r)'
    BY <1>1 DEF IsStored
  <2> QED BY <1>2, <2>1, <2>2, <2>3 DEF RemovalTakes
<1>5. (\A s \in Records : list'[s] # Absent => IsMade(s)') /\ (form' # NoForm /\ form'.of \in Records => IsMade(form.of)')
  BY <1>0, <1>1 DEF PageOfMade, RowsGoOn
<1>6. ASSUME ~astray' PROVE PageFollows'
  <2>1. job'[j].answer = "ok" /\ job'[j].of = r /\ ~astray /\ PageFollows
    BY <1>2, <1>6 DEF ListInv
  <2>2. ASSUME NEW s \in Records, IsRight(s) \/ Settles(job[j], s) PROVE IsRight(s)' \/ Settles(job[j], s)'
    <3>1. Settles(job[j], r)'
      BY <1>2, <2>1 DEF Settles
    <3>2. s # r => ~Settles(job[j], s)
      BY <1>2 DEF Settles
    <3>3. s # r /\ IsRight(s) => IsRight(s)'
      BY <1>1 DEF IsRight, Matches, IsStored
    <3> QED BY <2>2, <3>1, <3>2, <3>3
  <2>3. IsFresh(job[j])' => ~IsMade(r)
    BY <1>2 DEF IsFresh
  <2>4. ~IsMade(r) => /\ list[r] = Absent /\ (form # NoForm => form.of # r)
                      /\ \A k \in Jobs \ {j} : job[k] # NoJob => job[k].of # r
    BY <1>0 DEF PageOfMade, CallOfMade
  <2>5. FreshIsAlone(j)'
    BY <1>2, <2>1, <2>3, <2>4 DEF FreshIsAlone
  <2>6. \A s \in Records : (list[s] # Absent \/ ~IsStored(s)) /\ IsMade(s) => list'[s] # Absent \/ ~IsStored(s)'
    BY <1>1 DEF RowsGoOn
  <2>7. SecondIsListed(job[j])'
    <3>1. Loads(job[j])' <=> Loads(job[j])
      BY <1>2, LoadsAlike
    <3>2. SecondIsListed(job[j])
      BY <2>1 DEF PageFollows
    <3>3. job[j].step = "second" => job[j].of = r /\ IsMade(r)
      BY <1>0 DEF CallOfMade
    <3> QED BY <1>2, <2>1, <2>6, <3>1, <3>2, <3>3 DEF SecondIsListed
  <2>8. ASSUME NEW k \in Jobs \ {j}, IsFresh(job[k])
        PROVE  /\ list'[job[k].of] = Absent /\ (form' # NoForm => form'.of # job[k].of)
               /\ job'[j] # NoJob => job'[j].of # job[k].of
    <3>1. FreshIsAlone(k)
      BY <2>1 DEF PageFollows
    <3>2. /\ list[job[k].of] = Absent /\ (form # NoForm => form.of # job[k].of)
          /\ job[j] # NoJob => job[j].of # job[k].of
      BY <2>8, <3>1 DEF FreshIsAlone
    <3>3. job[k].of \in Records /\ IsMade(job[k].of) /\ section # "rules"
      BY <1>0, <2>8, JobIs DEF IsFresh, CallIs, PageOfMade, CallOfMade
    <3>4. r # job[k].of
      <4>1. job[j].of = r \/ ~IsMade(r)
        BY <3>3
      <4> QED BY <3>2, <3>3, <4>1
    <3> QED BY <2>1, <3>2, <3>4
  <2> QED BY <1>2, <2>1, <2>2, <2>5, <2>6, <2>7, <2>8, PageGoesOn DEF PageFollows
<1> QED BY <1>1, <1>2, <1>3, <1>4, <1>5, <1>6, ListKept

LEMMA RowWriteKeepsList ==
  ASSUME ListInv, FormsInv', NEW j \in Jobs, updateRecord(j) \/ deleteRecord(j) \/ addToRecord(j)
  PROVE  ListInv'
<1> DEFINE r == job[j].of
<1>0. /\ RecordShape /\ job[j] # NoJob /\ job[j].answer = "none" /\ job[j].step \in {"write", "second"}
      /\ UNCHANGED <<section, list, twice, filter, form, visits, told>> /\ Replies(j, r)
  BY DEF ListInv, FormsInv, updateRecord, deleteRecord, addToRecord, IsAt
<1>1. r \in Records /\ IsStored(r)
  <2>1. CASE updateRecord(j)
    BY <2>1 DEF updateRecord
  <2>2. CASE deleteRecord(j) \/ addToRecord(j)
    <3>1. IsStored(r) /\ CallIs(job[j], visits) /\ (job[j].op = "remove" \/ job[j].step = "second")
      BY <1>0, <2>2, JobIs DEF deleteRecord, addToRecord, IsAt
    <3> QED BY <3>1 DEF CallIs
  <2> QED BY <2>1, <2>2
<1>2. PICK x \in Row : stored' = [stored EXCEPT ![r] = x] /\ (deleteRecord(j) => x.state = "deleted")
  <2>1. stored[r] \in Row
    BY <1>0, <1>1, RowIs
  <2>2. CASE deleteRecord(j)
    <3>1. [stored[r] EXCEPT !.state = "deleted"].state = "deleted"
      BY <2>1 DEF Row
    <3> QED BY <2>1, <2>2, <3>1, RowForms DEF deleteRecord
  <2>3. CASE updateRecord(j) /\ ~deleteRecord(j)
    <3>1. job[j].data.value \in {"in", "out"}
      BY <1>0, <2>3, JobIs DEF updateRecord, IsAt, CallIs, Contents
    <3> QED BY <2>1, <2>3, <3>1, RowForms DEF updateRecord
  <2>4. CASE addToRecord(j) /\ ~deleteRecord(j)
    BY <2>1, <2>4, RowForms DEF addToRecord
  <2> QED BY <2>2, <2>3, <2>4
<1>3. job[j].step = "write" => ~job[j].isNew
  BY <1>0, <1>1, JobIs, RecordPagesAssumption DEF CallIs
<1>4. job[j].op = "remove" /\ job[j].step = "write" /\ ~Loads(job[j]) => x.state = "deleted"
  BY <1>2 DEF updateRecord, addToRecord, IsAt, Loads
<1> HIDE DEF r
<1>5. r = job[j].of
  BY DEF r
<1> QED BY <1>0, <1>1, <1>2, <1>3, <1>4, <1>5, WriteKeepsList

LEMMA MakingKeepsList ==
  ASSUME ListInv, FormsInv', NEW j \in Jobs, createRecord(j)
  PROVE  ListInv'
<1> DEFINE c == job[j]
<1>0. /\ RecordShape /\ c \in CallsAre /\ CallIs(c, visits) /\ UNCHANGED <<section, list, twice, filter, form, visits, told>>
      /\ c # NoJob /\ c.op = "save" /\ c.step = "write" /\ c.answer = "none" /\ c.data \in Contents
  BY JobIs DEF ListInv, FormsInv, createRecord, IsAt, CallIs
<1>1. c.isNew \/ section = "rules"
  BY <1>0 DEF createRecord, CallIs
<1>2. CASE MadeBy(c.form) # {} /\ Repeated # "made"
  <2>1. PICK r \in MadeBy(c.form) : stored' = [stored EXCEPT ![r].contents.value = c.data.value] /\ Replies(j, r)
    BY <1>2 DEF createRecord
  <2>2. r \in Records /\ IsStored(r) /\ stored[r] \in Row
    BY <1>0, <2>1, RowIs DEF MadeBy
  <2>3. PICK x \in Row : stored' = [stored EXCEPT ![r] = x]
    <3>1. c.data.value \in {"in", "out"}
      BY <1>0 DEF Contents
    <3> QED BY <2>1, <2>2, <3>1, RowForms
  <2>4. section = "rules"
    BY <1>2 DEF createRecord, Repeated
  <2> QED BY <1>0, <2>1, <2>2, <2>3, <2>4, WriteKeepsList
<1>3. CASE ~(MadeBy(c.form) # {} /\ Repeated # "made")
  <2> DEFINE x == [contents |-> c.data, maker |-> c.form, state |-> "stored"]
  <2>1. PICK r \in Records : stored[r] = Unmade /\ stored' = [stored EXCEPT ![r] = x] /\ Replies(j, r)
    BY <1>3 DEF createRecord
  <2>2. x \in Row
    BY <1>0 DEF Row, CallsAre
  <2>3. ~IsMade(r)
    BY <2>1 DEF IsMade
  <2> HIDE DEF x
  <2> QED BY <1>0, <1>1, <2>1, <2>2, <2>3, WriteKeepsList
<1> QED BY <1>2, <1>3

\* A load is served, or a call fails before it is.
LEMMA LoadKeepsList ==
  ASSUME ListInv, FormsInv', NEW j \in Jobs, findRecords(j) \/ failJob(j)
  PROVE  ListInv'
<1>0. /\ RecordShape /\ PageOfMade /\ CallOfMade(job[j]) /\ RemovalTakes(job[j]) /\ job[j] # NoJob /\ job[j] \in CallsAre
      /\ UNCHANGED <<section, stored, list, twice, filter, form, visits, told, astray>> /\ job[j].answer = "none"
  BY JobIs DEF ListInv, FormsInv, PageOfMade, findRecords, failJob, IsAt
<1>1. RowsGoOn
  BY <1>0, RowsGoOnUnread
<1>2. /\ job'[j] # NoJob /\ \A k \in Jobs \ {j} : job'[k] = job[k]
      /\ job'[j].op = job[j].op /\ job'[j].isNew = job[j].isNew /\ job'[j].step = job[j].step /\ job'[j].of = job[j].of
      /\ job'[j].answer = "ok" => job[j].step = "load"
      /\ job'[j].rows \in {job[j].rows, Listing(job[j].filter)}
  <2> DEFINE ok == [job[j] EXCEPT !.answer = "ok", !.rows = Listing(job[j].filter)]
             no == [job[j] EXCEPT !.answer = "failed", !.data = Absent]
  <2>1. (job' = [job EXCEPT ![j] = ok] /\ job[j].step = "load") \/ job' = [job EXCEPT ![j] = no]
    BY DEF findRecords, failJob, IsAt
  <2>2. /\ no.op = job[j].op /\ no.isNew = job[j].isNew /\ no.step = job[j].step /\ no.of = job[j].of
        /\ no.answer = "failed" /\ no.rows = job[j].rows /\ no \in CallsAre
    BY <1>0 DEF CallsAre
  <2>3. Listing(job[j].filter) \in ListsAre
    BY <1>0, RowIs DEF Listing, ListsAre, Matches
  <2>4. /\ ok.op = job[j].op /\ ok.isNew = job[j].isNew /\ ok.step = job[j].step /\ ok.of = job[j].of
        /\ ok.answer = "ok" /\ ok.rows = Listing(job[j].filter) /\ ok \in CallsAre
    BY <1>0, <2>3 DEF CallsAre
  <2> HIDE DEF ok, no
  <2>5. (job'[j] = ok \/ job'[j] = no) /\ job'[j] # NoJob /\ \A k \in Jobs \ {j} : job'[k] = job[k]
    BY <1>0, <2>1, <2>2, <2>4, JobSet, CallsAreCalls
  <2>6. job'[j] = ok => job[j].step = "load"
    BY <1>0, <2>1, <2>2, <2>4, JobSet
  <2> QED BY <2>2, <2>4, <2>5, <2>6
<1>3. CallOfMade(job[j])'
  <2>1. \A r \in Records : Listing(job[j].filter)[r] # Absent => IsMade(r)
    BY StoredIsMade DEF Listing, Matches
  <2>2. \A r \in Records : job'[j].rows[r] # Absent => IsMade(r)
    BY <1>0, <1>2, <2>1 DEF CallOfMade
  <2> QED BY <1>0, <1>1, <1>2, <2>2 DEF CallOfMade, RowsGoOn
<1>4. Loads(job[j])' <=> Loads(job[j])
  BY <1>0, <1>2, LoadsAlike
<1>5. RemovalTakes(job[j])'
  BY <1>0, <1>2 DEF RemovalTakes
<1>6. ASSUME ~astray' PROVE PageFollows'
  <2>1. ~astray /\ PageFollows
    BY <1>0, <1>6 DEF ListInv
  <2>2. \A r \in Records : IsRight(r) \/ Settles(job[j], r) => IsRight(r)' \/ Settles(job[j], r)'
    BY <1>0, <1>2, <1>4 DEF Settles, IsRight, Matches, IsStored
  <2>3. FreshIsAlone(j)'
    BY <1>0, <1>2 DEF FreshIsAlone, IsFresh
  <2>4. SecondIsListed(job[j])'
    BY <1>0, <1>2, <1>4, <2>1 DEF PageFollows, SecondIsListed, IsStored
  <2>5. \A k \in Jobs \ {j} : IsFresh(job[k]) =>
            /\ list'[job[k].of] = Absent /\ (form' # NoForm => form'.of # job[k].of)
            /\ job'[j] # NoJob => job'[j].of # job[k].of
    BY <1>0, <1>2, <2>1 DEF PageFollows, FreshIsAlone
  <2>6. \A r \in Records : (list[r] # Absent \/ ~IsStored(r)) /\ IsMade(r) => list'[r] # Absent \/ ~IsStored(r)'
    BY <1>0 DEF IsStored
  <2> QED BY <1>0, <1>2, <2>1, <2>2, <2>3, <2>4, <2>5, <2>6, PageGoesOn DEF PageFollows
<1>7. (\A s \in Records : list'[s] # Absent => IsMade(s)') /\ (form' # NoForm /\ form'.of \in Records => IsMade(form.of)')
  BY <1>0, <1>1 DEF PageOfMade, RowsGoOn
<1> QED BY <1>0, <1>1, <1>2, <1>3, <1>5, <1>6, <1>7, ListKept

LEMMA OthersKeepList ==
  ASSUME ListInv, FormsInv', NEW r \in Records, othersChange(r)
  PROVE  ListInv'
<1>0. /\ RecordShape /\ PageOfMade /\ IsStored(r) /\ astray' /\ UNCHANGED <<section, list, twice, filter, form, job, told>>
  BY DEF ListInv, FormsInv, othersChange
<1>1. stored[r] \in Row
  BY <1>0, RowIs
<1>2. \E x \in Row : stored' = [stored EXCEPT ![r] = x]
  BY <1>1, RowForms DEF othersChange
<1>3. RowsGoOn
  BY <1>0, <1>2, RowsGoOnWhenEdited
<1>4. (\A s \in Records : list'[s] # Absent => IsMade(s)') /\ (form' # NoForm /\ form'.of \in Records => IsMade(form.of)')
  BY <1>0, <1>3 DEF PageOfMade, RowsGoOn
<1> QED BY <1>0, <1>3, <1>4, ListKept

\* A form opens of a record that is listed, or of a new one.
LEMMA FormsKeepList ==
  ASSUME ListInv, FormsInv', (\E target \in Targets : openForm(target)) \/ closeForm
  PROVE  ListInv'
<1>0. /\ RecordShape /\ PageOfMade /\ UNCHANGED <<section, stored, list, twice, filter, job, told, astray>>
      /\ form' # NoForm => form'.of = "new" \/ (form'.of \in Records /\ list[form'.of] # Absent)
  BY DEF ListInv, FormsInv, openForm, closeForm
<1>1. RowsGoOn
  BY <1>0, RowsGoOnUnread
<1>2. (\A s \in Records : list'[s] # Absent => IsMade(s)') /\ (form' # NoForm /\ form'.of \in Records => IsMade(form.of)')
  BY <1>0, <1>1, RecordPagesAssumption DEF PageOfMade, RowsGoOn
<1>3. ASSUME ~astray' PROVE PageFollows'
  <2>1. PageFollows
    BY <1>0, <1>3 DEF ListInv
  <2>2. ListSettles'
    <3>1. \A r \in Records : IsRight(r) => IsRight(r)'
      BY <1>0 DEF IsRight, Matches, IsStored
    <3>2. \A j \in Jobs : \A r : Settles(job[j], r) => Settles(job[j], r)'
      BY <1>0, CallStays
    <3> QED BY <2>1, <3>1, <3>2 DEF PageFollows, ListSettles
  <2>3. ASSUME NEW j \in Jobs PROVE FreshIsAlone(j)' /\ SecondIsListed(job[j])'
    <3>1. FreshIsAlone(j) /\ SecondIsListed(job[j])
      BY <2>1 DEF PageFollows
    <3>2. IsFresh(job[j]) => job[j].of \in Records
      BY <1>0, JobIs DEF IsFresh, CallIs
    <3>3. FreshIsAlone(j)'
      BY <1>0, <3>1, <3>2, RecordPagesAssumption DEF FreshIsAlone, IsFresh
    <3>4. SecondIsListed(job[j])'
      BY <1>0, <3>1 DEF SecondIsListed, Loads, Lists, IsStored
    <3> QED BY <3>3, <3>4
  <2> QED BY <1>0, <2>1, <2>2, <2>3 DEF PageFollows
<1> QED BY <1>0, <1>1, <1>2, <1>3, ListKept

\* A call begins, of a new record or of one that the page shows.
LEMMA BeginningKeepsList ==
  ASSUME ListInv, FormsInv', NEW j \in Jobs, job[j] = NoJob, NEW d \in CallsAre, job' = [job EXCEPT ![j] = d],
         d.answer = "none", d.step \in {"write", "load"}, d.rows = NoRows, filter' # filter => d.step = "load",
         d.of = "new" \/ (d.of = form.of /\ form # NoForm) \/ (d.of \in Records /\ list[d.of] # Absent),
         UNCHANGED <<section, stored, list, twice, form, told, astray>>
  PROVE  ListInv'
<1>0. RecordShape /\ PageOfMade
  BY DEF ListInv, FormsInv
<1>1. RowsGoOn
  BY <1>0, RowsGoOnUnread
<1>2. job'[j] = d /\ d # NoJob /\ \A k \in Jobs \ {j} : job'[k] = job[k]
  BY <1>0, JobSet, CallsAreCalls
<1>3. d.of \in Records => IsMade(d.of)
  BY <1>0, RecordPagesAssumption DEF PageOfMade
<1>4. CallOfMade(job[j])'
  BY <1>1, <1>2, <1>3 DEF CallOfMade, RowsGoOn, NoRows
<1>5. RemovalTakes(job[j])'
  BY <1>2 DEF RemovalTakes
<1>6. (\A s \in Records : list'[s] # Absent => IsMade(s)') /\ (form' # NoForm /\ form'.of \in Records => IsMade(form.of)')
  BY <1>0, <1>1 DEF PageOfMade, RowsGoOn
<1>7. ASSUME ~astray' PROVE PageFollows'
  <2>1. ~astray /\ PageFollows
    BY <1>7 DEF ListInv
  <2>2. \A r \in Records : IsRight(r) \/ Settles(job[j], r) => IsRight(r)' \/ Settles(job[j], r)'
    BY <1>2 DEF Settles, IsRight, Matches, IsStored
  <2>3. FreshIsAlone(j)' /\ SecondIsListed(job[j])'
    BY <1>2 DEF FreshIsAlone, IsFresh, SecondIsListed
  <2>4. ASSUME NEW k \in Jobs \ {j}, IsFresh(job[k])
        PROVE  /\ list'[job[k].of] = Absent /\ (form' # NoForm => form'.of # job[k].of)
               /\ job'[j] # NoJob => job'[j].of # job[k].of
    <3>1. FreshIsAlone(k)
      BY <2>1 DEF PageFollows
    <3>2. job[k].of \in Records /\ list[job[k].of] = Absent /\ (form # NoForm => form.of # job[k].of)
      BY <1>0, <2>4, <3>1, JobIs DEF IsFresh, CallIs, FreshIsAlone
    <3> QED BY <1>2, <3>2, RecordPagesAssumption
  <2>5. \A r \in Records : (list[r] # Absent \/ ~IsStored(r)) /\ IsMade(r) => list'[r] # Absent \/ ~IsStored(r)'
    BY DEF IsStored
  <2> QED BY <1>2, <2>1, <2>2, <2>3, <2>4, <2>5, PageGoesOn DEF PageFollows
<1> QED BY <1>1, <1>2, <1>4, <1>5, <1>6, <1>7, ListKept

LEMMA SendingKeepsList ==
  ASSUME ListInv, FormsInv', NEW j \in Jobs, NEW value \in Typed, NEW second \in BOOLEAN, handleSave(j, value, second)
  PROVE  ListInv'
<1> DEFINE d == Write("save", form.of, value, second)
<1>0. /\ RecordShape /\ Visit /\ UNCHANGED <<section, stored, list, twice, filter, form, told, astray>>
      /\ job[j] = NoJob /\ job' = [job EXCEPT ![j] = d] /\ form \in FormsAre /\ form # NoForm
  BY DEF ListInv, FormsInv, handleSave, Begins, RecordShape
<1>1. form.id \in 1..MaxVisits /\ form.of \in Targets /\ MaxVisits \in Nat /\ value \in {"in", "out"}
  BY <1>0, RecordPagesAssumption DEF FormsAre, Typed
<1>2. d \in CallsAre /\ d.of = form.of /\ d.step = "write" /\ d.answer = "none"
  BY <1>1, WriteIs
<1>3. d.rows = NoRows
  BY DEF Write
<1> HIDE DEF d
<1> QED BY <1>0, <1>2, <1>3, BeginningKeepsList

LEMMA OtherBeginningKeepsList ==
  ASSUME ListInv, FormsInv', NEW j \in Jobs,
         \/ \E r \in Records, op \in {"remove", "status"}, value \in {"in", "out"} : confirmDialog(j, r, op, value)
         \/ \E f \in Filters : applyFilter(j, f)
         \/ refetch(j)
  PROVE  ListInv'
<1>0. /\ RecordShape /\ UNCHANGED <<section, stored, list, twice, form, told, astray>> /\ job[j] = NoJob /\ MaxVisits \in Nat
  BY RecordPagesAssumption DEF ListInv, FormsInv, confirmDialog, applyFilter, refetch, Begins
<1>1. ASSUME NEW r \in Records, NEW op \in {"remove", "status"}, NEW value \in {"in", "out"}, confirmDialog(j, r, op, value)
      PROVE  ListInv'
  <2>1. PICK no \in BOOLEAN : no = FALSE
    OBVIOUS
  <2> DEFINE d == Write(op, r, value, no)
  <2>2. r \in Targets /\ op \in {"save", "remove", "status"} /\ op # "save"
    BY DEF Targets
  <2>3. d \in CallsAre /\ d.of = r /\ d.step = "write" /\ d.answer = "none"
    BY <1>0, <2>2, WriteIs
  <2>4. d.rows = NoRows /\ job' = [job EXCEPT ![j] = d] /\ list[r] # Absent /\ filter' = filter
    BY <1>1, <2>1 DEF Write, confirmDialog, Begins
  <2> HIDE DEF d
  <2> QED BY <1>0, <2>3, <2>4, BeginningKeepsList
<1>2. ASSUME NEW f \in Filters, Begins(j, Load(f)) PROVE ListInv'
  <2> DEFINE d == Load(f)
  <2>1. NoRows \in ListsAre /\ 0 \in 0..MaxVisits
    BY <1>0 DEF NoRows, ListsAre
  <2>2. d \in CallsAre /\ d.of = "new" /\ d.step = "load" /\ d.answer = "none" /\ d.rows = NoRows
    BY <2>1 DEF Load, CallsAre, Targets
  <2>3. job' = [job EXCEPT ![j] = d]
    BY <1>2 DEF Begins
  <2> HIDE DEF d
  <2> QED BY <1>0, <2>2, <2>3, BeginningKeepsList
<1> QED BY <1>0, <1>1, <1>2 DEF applyFilter, refetch, RecordShape

-----------------------------------------------------------------------------
LEMMA GoesIs ==
  ASSUME RecordShape, NEW j \in Jobs, job[j] # NoJob, NEW s \in {"second", "load"}, JobGoes(j, s)
  PROVE  /\ job'[j] # NoJob /\ \A k \in Jobs \ {j} : job'[k] = job[k]
         /\ job'[j].op = job[j].op /\ job'[j].isNew = job[j].isNew /\ job'[j].of = job[j].of /\ job'[j].rows = job[j].rows
         /\ job'[j].step = s /\ job'[j].answer = "none"
<1> DEFINE d == [job[j] EXCEPT !.step = s, !.answer = "none", !.data = Absent, !.filter = filter]
<1>1. job' = [job EXCEPT ![j] = d]
  BY DEF JobGoes
<1>2. job[j] \in CallsAre /\ filter \in Filters
  BY JobIs DEF RecordShape
<1>3. /\ d \in CallsAre /\ d.op = job[j].op /\ d.isNew = job[j].isNew /\ d.of = job[j].of /\ d.rows = job[j].rows
      /\ d.step = s /\ d.answer = "none"
  BY <1>2 DEF CallsAre
<1> HIDE DEF d
<1>4. job'[j] = d /\ d # NoJob /\ \A k \in Jobs \ {j} : job'[k] = job[k]
  BY <1>1, <1>3, JobSet, CallsAreCalls
<1> QED BY <1>3, <1>4

LEMMA EndsIs ==
  ASSUME RecordShape, NEW j \in Jobs, JobEnds(j)
  PROVE  job'[j] = NoJob /\ \A k \in Jobs \ {j} : job'[k] = job[k]
BY JobSet DEF JobEnds

\* An answer is seen to, and the call ends or goes on; if the list follows, it is
\* right about the record, or is loaded.
LEMMA AnswerKeepsList ==
  ASSUME ListInv, FormsInv', NEW j \in Jobs, job[j] # NoJob, job[j].step # "load", NEW r \in Records, r = job[j].of, form' = form \/ form' = NoForm,
         \A k \in Jobs \ {j} : job'[k] = job[k],
         \/ job'[j] = NoJob
         \/ /\ job'[j] # NoJob /\ job'[j].op = job[j].op /\ job'[j].isNew = job[j].isNew /\ job'[j].of = job[j].of
            /\ job'[j].rows = job[j].rows /\ job'[j].step \in {"second", "load"} /\ job'[j].answer = "none"
            /\ job'[j].step = "second" => job[j].op # "remove",
         \A s \in Records : list'[s] # Absent => IsMade(s),
         ~astray' => ~astray /\ twice' = {} /\ (\A s \in Records \ {r} : list'[s] = list[s]),
         ~astray' => IsRight(r)' \/ Settles(job[j], r)',
         ~astray' => \A s \in Records : list[s] # Absent \/ ~IsStored(s) => list'[s] # Absent \/ ~IsStored(s)',
         ~astray' => SecondIsListed(job[j])',
         UNCHANGED <<section, stored, filter, visits>>
  PROVE  ListInv'
<1>0. RecordShape /\ PageOfMade /\ CallOfMade(job[j])
  BY DEF ListInv, FormsInv, PageOfMade
<1>1. RowsGoOn
  BY RowsGoOnUnread
<1>2. CallOfMade(job[j])' /\ RemovalTakes(job[j])'
  BY <1>0, <1>1 DEF CallOfMade, RowsGoOn, RemovalTakes
<1>3. (\A s \in Records : list'[s] # Absent => IsMade(s)') /\ (form' # NoForm /\ form'.of \in Records => IsMade(form.of)')
  BY <1>0, <1>1 DEF PageOfMade, RowsGoOn
<1>4. ASSUME ~astray' PROVE PageFollows'
  <2>0. ~astray /\ PageFollows
    BY <1>4 DEF ListInv
  <2>1. ASSUME NEW s \in Records, IsRight(s) \/ Settles(job[j], s) PROVE IsRight(s)' \/ Settles(job[j], s)'
    <3>1. CASE s = r
      BY <1>4, <3>1
    <3>2. CASE s # r
      <4>1. IsRight(s)
        BY <2>1, <3>2 DEF Settles
      <4>2. list'[s] = list[s]
        BY <1>4, <3>2
      <4> QED BY <4>1, <4>2 DEF IsRight, Matches, IsStored
    <3> QED BY <3>1, <3>2
  <2>2. FreshIsAlone(j)'
    BY DEF FreshIsAlone, IsFresh
  <2>3. ASSUME NEW k \in Jobs \ {j}, IsFresh(job[k])
        PROVE  /\ list'[job[k].of] = Absent /\ (form' # NoForm => form'.of # job[k].of)
               /\ job'[j] # NoJob => job'[j].of # job[k].of
    <3>1. FreshIsAlone(k) /\ job[k].of \in Records
      BY <1>0, <2>0, <2>3, JobIs DEF PageFollows, IsFresh, CallIs
    <3>2. list[job[k].of] = Absent /\ (form # NoForm => form.of # job[k].of) /\ job[j].of # job[k].of
      BY <2>3, <3>1 DEF FreshIsAlone
    <3> QED BY <1>4, <3>1, <3>2
  <2> QED BY <1>4, <2>0, <2>1, <2>2, <2>3, PageGoesOn
<1> QED BY <1>1, <1>2, <1>3, <1>4, ListKept

\* What follows the last write.
LEMMA FinishesIs ==
  ASSUME RecordShape, NEW j \in Jobs, job[j] # NoJob, Finishes(j)
  PROVE  /\ form' = form \/ form' = NoForm
         /\ \A k \in Jobs \ {j} : job'[k] = job[k]
         /\ \/ job'[j] = NoJob /\ ~Loads(job[j])
            \/ /\ job'[j] # NoJob /\ job'[j].op = job[j].op /\ job'[j].isNew = job[j].isNew /\ job'[j].of = job[j].of
               /\ job'[j].rows = job[j].rows /\ job'[j].step = "load" /\ job'[j].answer = "none" /\ Loads(job[j])
<1>1. form' = form \/ form' = NoForm
  BY DEF Finishes, Closes
<1>2. CASE Loads(job[j])
  <2>1. JobGoes(j, "load")
    BY <1>2 DEF Finishes
  <2> QED BY <1>1, <1>2, <2>1, GoesIs
<1>3. CASE ~Loads(job[j])
  <2>1. JobEnds(j)
    BY <1>3 DEF Finishes
  <2> QED BY <1>1, <1>3, <2>1, EndsIs
<1> QED BY <1>2, <1>3

\* What the answer to a write puts into the list is the row, unless the list was
\* overtaken.
LEMMA PuttingIsRight ==
  ASSUME ListInv, NEW j \in Jobs, writeAnswered(j), ~Loads(job[j]), ~astray', NEW r, r = job[j].of
  PROVE  /\ ~astray /\ twice' = {} /\ r \in Records /\ IsRight(r)' /\ list'[r] # Absent
         /\ \A s \in Records \ {r} : list'[s] = list[s]
<1> DEFINE c == job[j]
<1>0. /\ RecordShape /\ c # NoJob /\ c \in CallsAre /\ CallIs(c, visits) /\ r \in Records /\ list \in ListsAre
      /\ IsAt(j, "write", "ok") \/ IsAt(j, "second", "ok")
      /\ UNCHANGED <<section, stored, filter>>
  <2>1. RecordShape /\ c # NoJob /\ (IsAt(j, "write", "ok") \/ IsAt(j, "second", "ok")) /\ UNCHANGED <<section, stored, filter>>
    BY DEF ListInv, FormsInv, writeAnswered, IsAt
  <2>2. c \in CallsAre /\ CallIs(c, visits)
    BY <2>1, JobIs
  <2> QED BY <2>1, <2>2 DEF CallIs, IsAt, RecordShape
<1>1. Put(r, c.data, c.isNew /\ c.step = "write") /\ astray' = (astray \/ Overtaken(c))
  BY DEF writeAnswered
<1>2. ~astray /\ ~Overtaken(c) /\ PageFollows
  BY <1>1 DEF ListInv
<1>3. IsStored(r) /\ stored[r].contents = c.data /\ c.data # Absent /\ (c.isNew \/ section = "rules" \/ list[r] # Absent)
  <2>1. IsStored(r) /\ stored[r].contents = c.data /\ (c.isNew \/ section = "rules" \/ list[r] # Absent)
    BY <1>2 DEF Overtaken
  <2>2. stored[r].contents \in Contents
    BY <1>0, <2>1, RowIs
  <2> QED BY <2>1, <2>2 DEF Contents, Absent
<1>4. FreshIsAlone(j) /\ SecondIsListed(c) /\ twice = {}
  BY <1>2 DEF PageFollows
<1>5. c.isNew /\ c.step = "write" /\ section # "rules" => list[r] = Absent
  BY <1>0, <1>4 DEF FreshIsAlone, IsFresh, IsAt
<1>6. (c.isNew /\ c.step = "write") \/ section = "rules" \/ list[r] # Absent
  BY <1>0, <1>3, <1>4 DEF SecondIsListed, IsAt
<1>7. list' = [list EXCEPT ![r] = c.data] /\ twice' = {}
  BY <1>1, <1>4, <1>5, <1>6 DEF Put
<1>8. list'[r] = c.data /\ \A s \in Records \ {r} : list'[s] = list[s]
  BY <1>0, <1>7 DEF ListsAre
<1>9. IsRight(r)'
  BY <1>0, <1>3, <1>8 DEF IsRight, Matches, IsStored
<1> QED BY <1>0, <1>2, <1>3, <1>7, <1>8, <1>9

LEMMA WriteSeenKeepsList ==
  ASSUME ListInv, FormsInv', NEW j \in Jobs, writeAnswered(j)
  PROVE  ListInv'
<1> DEFINE c == job[j]
<1> PICK r : r = job[j].of
  OBVIOUS
<1>0. /\ RecordShape /\ PageOfMade /\ c # NoJob /\ c.op # "remove" /\ CallIs(c, visits) /\ list \in ListsAre
      /\ c.step \in {"write", "second"} /\ c.answer = "ok" /\ UNCHANGED <<section, stored, filter, visits>>
  BY JobIs DEF ListInv, FormsInv, RecordShape, writeAnswered, IsAt
<1>1. r \in Records /\ IsMade(r)
  BY <1>0 DEF CallIs, PageOfMade, CallOfMade
<1>2. /\ form' = form \/ form' = NoForm
      /\ \A k \in Jobs \ {j} : job'[k] = job[k]
      /\ \/ job'[j] = NoJob /\ ~Loads(c)
         \/ /\ job'[j] # NoJob /\ job'[j].op = c.op /\ job'[j].isNew = c.isNew /\ job'[j].of = r /\ job'[j].rows = c.rows
            /\ job'[j].step \in {"second", "load"} /\ job'[j].answer = "none"
  <2>1. CASE Finishes(j)
    BY <1>0, <2>1, FinishesIs
  <2>2. CASE ~Finishes(j)
    <3>1. JobGoes(j, "second") /\ form' = form
      BY <2>2 DEF writeAnswered
    <3> QED BY <1>0, <3>1, GoesIs
  <2> QED BY <2>1, <2>2
<1>3. CASE Loads(c)
  <2>1. list' = list /\ twice' = twice /\ astray' = astray
    BY <1>3 DEF writeAnswered
  <2>2. Loads(job[j])' /\ job'[j] # NoJob
    BY <1>0, <1>2, <1>3, LoadsAlike
  <2>3. Settles(job[j], r)'
    BY <1>2, <1>3, <2>2 DEF Settles
  <2>4. SecondIsListed(job[j])'
    BY <2>2 DEF SecondIsListed
  <2>5. ~astray' => ~astray /\ twice' = {}
    BY <2>1 DEF ListInv, PageFollows
  <2>6. \A s \in Records : list'[s] # Absent => IsMade(s)
    BY <1>0, <2>1 DEF PageOfMade
  <2>7. \A s \in Records : list[s] # Absent \/ ~IsStored(s) => list'[s] # Absent \/ ~IsStored(s)'
    BY <1>0, <2>1 DEF IsStored
  <2> HIDE DEF c
  <2>8. c = job[j]
    BY DEF c
  <2> QED BY <1>0, <1>1, <1>2, <2>1, <2>3, <2>4, <2>5, <2>6, <2>7, <2>8, AnswerKeepsList
<1>4. CASE ~Loads(c)
  <2>1. \A s \in Records : list'[s] # Absent => IsMade(s)
    <3>1. Put(r, c.data, c.isNew /\ c.step = "write")
      BY <1>4 DEF writeAnswered
    <3>2. \A s \in Records \ {r} : list'[s] = list[s]
      BY <1>0, <3>1 DEF Put, ListsAre
    <3> QED BY <1>0, <1>1, <3>2 DEF PageOfMade
  <2>2. ~astray' =>
          /\ ~astray /\ twice' = {} /\ IsRight(r)' /\ list'[r] # Absent
          /\ \A s \in Records \ {r} : list'[s] = list[s]
    BY <1>4, PuttingIsRight
  <2>3. ~astray' => \A s \in Records : list[s] # Absent \/ ~IsStored(s) => list'[s] # Absent \/ ~IsStored(s)'
    BY <1>0, <2>2 DEF IsStored
  <2>4. ~astray' => SecondIsListed(job[j])'
    BY <1>2, <2>2 DEF SecondIsListed
  <2> HIDE DEF c
  <2>5. c = job[j]
    BY DEF c
  <2> QED BY <1>0, <1>1, <1>2, <2>1, <2>2, <2>3, <2>4, <2>5, AnswerKeepsList
<1> QED BY <1>3, <1>4

LEMMA RemovalSeenKeepsList ==
  ASSUME ListInv, FormsInv', NEW j \in Jobs, removalAnswered(j)
  PROVE  ListInv'
<1> DEFINE c == job[j]
<1> PICK r : r = job[j].of
  OBVIOUS
<1>0. /\ RecordShape /\ PageOfMade /\ c # NoJob /\ c.op = "remove" /\ CallIs(c, visits) /\ list \in ListsAre
      /\ c.step = "write" /\ c.answer = "ok" /\ Finishes(j) /\ UNCHANGED <<section, stored, filter, visits, astray>>
  BY JobIs DEF ListInv, FormsInv, RecordShape, removalAnswered, IsAt
<1>1. r \in Records
  BY <1>0 DEF CallIs
<1>2. /\ form' = form \/ form' = NoForm
      /\ \A k \in Jobs \ {j} : job'[k] = job[k]
      /\ \/ job'[j] = NoJob /\ ~Loads(c)
         \/ /\ job'[j] # NoJob /\ job'[j].op = c.op /\ job'[j].isNew = c.isNew /\ job'[j].of = r /\ job'[j].rows = c.rows
            /\ job'[j].step = "load" /\ job'[j].answer = "none" /\ Loads(c)
  BY <1>0, FinishesIs
<1>3. SecondIsListed(job[j])'
  BY <1>2 DEF SecondIsListed
<1>4. ~astray' => ~astray /\ twice = {}
  BY <1>0 DEF ListInv, PageFollows
<1>5. CASE Loads(c)
  <2>1. list' = list /\ twice' = twice /\ Settles(job[j], r)'
    BY <1>2, <1>5 DEF removalAnswered, Settles
  <2>2. \A s \in Records : list'[s] # Absent => IsMade(s)
    BY <1>0, <2>1 DEF PageOfMade
  <2>3. \A s \in Records : list[s] # Absent \/ ~IsStored(s) => list'[s] # Absent \/ ~IsStored(s)'
    BY <1>0, <2>1 DEF IsStored
  <2> HIDE DEF c
  <2>4. c = job[j]
    BY DEF c
  <2> QED BY <1>0, <1>1, <1>2, <1>3, <1>4, <2>1, <2>2, <2>3, <2>4, AnswerKeepsList
<1>6. CASE ~Loads(c)
  <2>1. list' = [list EXCEPT ![r] = Absent] /\ twice' = twice \ {r}
    BY <1>6 DEF removalAnswered
  <2>2. list'[r] = Absent /\ \A s \in Records \ {r} : list'[s] = list[s]
    BY <1>0, <1>1, <2>1 DEF ListsAre
  <2>3. ~IsStored(r)
    BY <1>0, <1>6 DEF ListInv, RemovalTakes
  <2>4. IsRight(r)'
    BY <1>0, <2>2, <2>3 DEF IsRight, Matches, IsStored
  <2>5. \A s \in Records : list'[s] # Absent => IsMade(s)
    BY <1>0, <2>2 DEF PageOfMade
  <2>6. \A s \in Records : list[s] # Absent \/ ~IsStored(s) => list'[s] # Absent \/ ~IsStored(s)'
    BY <1>0, <2>2, <2>3 DEF IsStored
  <2> HIDE DEF c
  <2>7. c = job[j]
    BY DEF c
  <2> QED BY <1>0, <1>1, <1>2, <1>3, <1>4, <2>1, <2>2, <2>4, <2>5, <2>6, <2>7, AnswerKeepsList
<1> QED BY <1>5, <1>6

LEMMA FailureSeenKeepsList ==
  ASSUME ListInv, FormsInv', NEW j \in Jobs, failureAnswered(j)
  PROVE  ListInv'
<1> DEFINE c == job[j]
<1> PICK r : r = job[j].of
  OBVIOUS
<1>0. /\ RecordShape /\ PageOfMade /\ c # NoJob /\ c.step \in {"write", "second"} /\ c.answer = "failed"
      /\ astray' = (astray \/ (c.step = "second" /\ Loads(c)))
      /\ UNCHANGED <<section, stored, list, twice, filter, form, visits>>
  BY DEF ListInv, FormsInv, failureAnswered, IsAt
<1>1. job'[j] = NoJob /\ \A k \in Jobs \ {j} : job'[k] = job[k]
  BY <1>0, EndsIs DEF failureAnswered
<1>2. \A s \in Records : list'[s] # Absent => IsMade(s)
  BY <1>0 DEF PageOfMade
<1>3. \A s \in Records : list[s] # Absent \/ ~IsStored(s) => list'[s] # Absent \/ ~IsStored(s)'
  BY <1>0 DEF IsStored
<1>4. RowsGoOn
  BY <1>0, RowsGoOnUnread
<1>5. ASSUME ~astray' PROVE PageFollows'
  <2>1. ~astray /\ PageFollows /\ ~(c.step = "second" /\ Loads(c))
    BY <1>0, <1>5 DEF ListInv
  <2>2. \A s \in Records : ~Settles(c, s)
    BY <1>0, <2>1 DEF Settles
  <2>3. \A s \in Records : IsRight(s) => IsRight(s)'
    BY <1>0 DEF IsRight, Matches, IsStored
  <2>4. FreshIsAlone(j)' /\ SecondIsListed(job[j])'
    BY <1>1 DEF FreshIsAlone, IsFresh, SecondIsListed
  <2>5. \A k \in Jobs \ {j} : IsFresh(job[k]) => list'[job[k].of] = Absent /\ (form' # NoForm => form'.of # job[k].of)
    BY <1>0, <2>1 DEF PageFollows, FreshIsAlone
  <2>6. twice' = {}
    BY <1>0, <2>1 DEF PageFollows
  <2> QED BY <1>0, <1>1, <1>3, <2>1, <2>2, <2>3, <2>4, <2>5, <2>6, PageGoesOn
<1>6. CallOfMade(job[j])' /\ RemovalTakes(job[j])'
  BY <1>1 DEF CallOfMade, RemovalTakes
<1>7. (\A s \in Records : list'[s] # Absent => IsMade(s)') /\ (form' # NoForm /\ form'.of \in Records => IsMade(form.of)')
  BY <1>0, <1>4 DEF PageOfMade, RowsGoOn
<1> QED BY <1>0, <1>1, <1>4, <1>5, <1>6, <1>7, ListKept

\* A load replaces the list: what it brings is right, and nothing is awaited that
\* was served, or the list is astray.
LEMMA LoadSeenKeepsList ==
  ASSUME ListInv, FormsInv', NEW j \in Jobs, listAnswered(j)
  PROVE  ListInv'
<1> DEFINE c == job[j]
<1>0. /\ RecordShape /\ PageOfMade /\ c # NoJob /\ c.step = "load" /\ CallOfMade(c) /\ (form' = form \/ form' = NoForm)
      /\ UNCHANGED <<section, stored, filter, visits>>
  BY DEF ListInv, FormsInv, PageOfMade, listAnswered, IsAt, Closes
<1>1. job'[j] = NoJob /\ \A k \in Jobs \ {j} : job'[k] = job[k]
  BY <1>0, EndsIs DEF listAnswered
<1>2. \A s \in Records : list'[s] # Absent => IsMade(s)
  BY <1>0 DEF PageOfMade, listAnswered, CallOfMade
<1>3. RowsGoOn
  BY <1>0, RowsGoOnUnread
<1>4. CallOfMade(job[j])' /\ RemovalTakes(job[j])'
  BY <1>1 DEF CallOfMade, RemovalTakes
<1>5. (\A s \in Records : list'[s] # Absent => IsMade(s)') /\ (form' # NoForm /\ form'.of \in Records => IsMade(form.of)')
  BY <1>0, <1>2, <1>3 DEF PageOfMade, RowsGoOn
<1>6. ASSUME ~astray' PROVE PageFollows'
  <2>1. twice' = {} /\ list' = Listing(filter) /\ ~Unapplied(j)
    BY <1>6 DEF listAnswered
  <2>2. \A r \in Records : IsRight(r)'
    <3> TAKE r \in Records
    <3>1. list'[r] = IF Matches(r, filter) THEN stored[r].contents ELSE Absent
      BY <2>1 DEF Listing
    <3>2. IsStored(r) => stored[r].contents # Absent
      BY <1>0, RowIs DEF Contents, Absent
    <3> QED BY <1>0, <3>1, <3>2 DEF IsRight, Matches, IsStored
  <2>3. ASSUME NEW k \in Jobs PROVE FreshIsAlone(k)' /\ SecondIsListed(job[k])'
    <3>1. CASE k = j
      BY <1>1, <3>1 DEF FreshIsAlone, IsFresh, SecondIsListed
    <3>2. CASE k # j
      <4>1. job'[k] = job[k]
        BY <1>1, <3>2
      <4>2. job[k] # NoJob => job[k].step # "second" /\ ~(job[k].step = "write" /\ job[k].answer = "ok")
        BY <2>1, <3>2 DEF Unapplied
      <4> QED BY <4>1, <4>2 DEF FreshIsAlone, IsFresh, SecondIsListed
    <3> QED BY <3>1, <3>2
  <2> QED BY <2>1, <2>2, <2>3 DEF PageFollows, ListSettles
<1> QED BY <1>0, <1>1, <1>3, <1>4, <1>5, <1>6, ListKept

-----------------------------------------------------------------------------
LEMMA ListInit == RecordPagesInit => ListInv
<1> SUFFICES ASSUME RecordPagesInit PROVE ListInv
  OBVIOUS
<1>1. FormsInv /\ RecordShape
  BY FormsInit DEF FormsInv
<1>2. /\ list = Listing(filter) /\ twice = {} /\ form = NoForm /\ \A j \in Jobs : job[j] = NoJob
  BY DEF RecordPagesInit
<1>3. \A r \in Records : list[r] = IF Matches(r, filter) THEN stored[r].contents ELSE Absent
  BY <1>2 DEF Listing
<1>4. \A r \in Records : IsStored(r) => stored[r].contents # Absent
  BY <1>1, RowIs DEF Contents, Absent
<1>5. \A r \in Records : IsRight(r) /\ (list[r] # Absent => IsMade(r))
  BY <1>3, <1>4, StoredIsMade DEF IsRight, Matches
<1>6. PageOfMade /\ \A j \in Jobs : RemovalTakes(job[j])
  BY <1>2, <1>5 DEF PageOfMade, CallOfMade, RemovalTakes
<1>7. PageFollows
  BY <1>2, <1>5 DEF PageFollows, ListSettles, FreshIsAlone, IsFresh, SecondIsListed
<1> QED BY <1>1, <1>6, <1>7 DEF ListInv

LEMMA ListNext == ListInv /\ [RecordPagesNext]_recordVars => ListInv'
<1> SUFFICES ASSUME ListInv, [RecordPagesNext]_recordVars PROVE ListInv'
  OBVIOUS
<1>0. FormsInv'
  BY FormsNext DEF ListInv
<1>1. CASE UNCHANGED recordVars
  <2>1. UNCHANGED <<section, stored, list, twice, filter, form, job, visits, told, astray>>
    BY <1>1 DEF recordVars
  <2>2. PageOfMade'
    BY <2>1 DEF ListInv, PageOfMade, CallOfMade, IsMade
  <2>3. \A j \in Jobs : RemovalTakes(job[j])'
    BY <2>1 DEF ListInv, RemovalTakes, Loads, Lists, IsStored
  <2>4. ASSUME ~astray' PROVE PageFollows'
    <3>1. PageFollows
      BY <2>1, <2>4 DEF ListInv
    <3>2. ListSettles'
      <4>1. \A r \in Records : IsRight(r) => IsRight(r)'
        BY <2>1 DEF IsRight, Matches, IsStored
      <4>2. \A j \in Jobs : \A r : Settles(job[j], r) => Settles(job[j], r)'
        BY <2>1, CallStays
      <4> QED BY <3>1, <4>1, <4>2 DEF PageFollows, ListSettles
    <3>3. \A j \in Jobs : FreshIsAlone(j)' /\ SecondIsListed(job[j])'
      BY <2>1, <3>1 DEF PageFollows, FreshIsAlone, IsFresh, SecondIsListed, IsStored, Loads, Lists
    <3> QED BY <2>1, <3>1, <3>2, <3>3 DEF PageFollows
  <2> QED BY <1>0, <2>2, <2>3, <2>4 DEF ListInv
<1>2. ASSUME NEW j \in Jobs,
             createRecord(j) \/ updateRecord(j) \/ deleteRecord(j) \/ addToRecord(j) \/ findRecords(j) \/ failJob(j)
      PROVE  ListInv'
  BY <1>0, <1>2, MakingKeepsList, RowWriteKeepsList, LoadKeepsList
<1>3. ASSUME NEW j \in Jobs, NEW value \in Typed, NEW second \in BOOLEAN, handleSave(j, value, second) PROVE ListInv'
  BY <1>0, <1>3, SendingKeepsList
<1>4. ASSUME NEW j \in Jobs,
             \/ \E r \in Records, op \in {"remove", "status"}, value \in {"in", "out"} : confirmDialog(j, r, op, value)
             \/ \E f \in Filters : applyFilter(j, f)
             \/ refetch(j)
      PROVE  ListInv'
  BY <1>0, <1>4, OtherBeginningKeepsList
<1>5. ASSUME NEW j \in Jobs, writeAnswered(j) \/ removalAnswered(j) \/ failureAnswered(j) \/ listAnswered(j) PROVE ListInv'
  BY <1>0, <1>5, WriteSeenKeepsList, RemovalSeenKeepsList, FailureSeenKeepsList, LoadSeenKeepsList
<1>6. ASSUME NEW r \in Records, othersChange(r) PROVE ListInv'
  BY <1>0, <1>6, OthersKeepList
<1>7. CASE (\E target \in Targets : openForm(target)) \/ closeForm
  BY <1>0, <1>7, FormsKeepList
<1> QED BY <1>1, <1>2, <1>3, <1>4, <1>5, <1>6, <1>7 DEF RecordPagesNext

\* Unless it went astray, a list is right about each record or awaits an answer
\* that makes it so, and shows nothing that nobody made.
THEOREM ListInvariant == RecordPagesSpec => []ListInv
<1> QED BY ListInit, ListNext, PTL DEF RecordPagesSpec

\* On each of the eight pages the list is what is stored once nothing is awaited,
\* whether answers are put into it or it is loaded again, and in whichever order
\* they come; a write of others, a lost answer or an overtaken load excuses it
\* until a load that nothing overtook.
THEOREM ListsTellTheTruth == RecordPagesSpec => []ListTellsTheTruth
<1>1. ListInv => ListTellsTheTruth
  BY DEF ListInv, PageFollows, ListSettles, Settles, IsRight, ListTellsTheTruth
<1> QED BY <1>1, ListInvariant, PTL

-----------------------------------------------------------------------------
\* The pages of settings.

ParcelsAre ==
    [op : {"save", "removal", "toggle", "reset"}, of : SUBSET Fields, data : UNION {[fs -> Values] : fs \in SUBSET Fields},
     before : [Fields -> Values], row : [Fields -> Values], answer : {"none", "ok", "failed"}]

\* What a page sends: one field, or all the rules.
ParcelIs(c) ==
    /\ c.of \subseteq Here /\ \A f \in c.of : c.data[f] \in Values
    /\ c.op = "toggle" <=> group = "preferences"
    /\ c.op = "reset" => group = "rules"
    /\ c.op = "removal" => c.of = {"icon"}
    /\ group # "rules" => \E f \in Here : c.of = {f}
SettingsShape ==
    /\ group \in Groups
    /\ kept \in [Fields -> Values] /\ seen \in [Fields -> Values] /\ field \in [Fields -> Values]
    /\ unsent \in [Fields -> Values \cup {Untyped}] /\ excused \in BOOLEAN
    /\ parcel \in [Parcels -> ParcelsAre \cup {NoParcel}]
    /\ \A p \in Parcels : parcel[p] # NoParcel => ParcelIs(parcel[p])
    /\ \A f \in Fields : unsent[f] # Untyped => f \in Typing /\ field[f] = unsent[f]

Awaits(p, f) == parcel[p] # NoParcel /\ f \in parcel[p].of
IsWritten(p, f) == Awaits(p, f) /\ parcel[p].answer = "ok"
Carries(p, f) == Awaits(p, f) /\ (parcel[p].answer = "ok" \/ (parcel[p].op = "save" /\ parcel[p].data[f] = field[f]))

\* What the page has taken for a row, and what a field holds, is stored, or is on
\* its way there or back.
SeenIsKept == group \notin {"rules", "preferences"} => \A f \in Here : seen[f] = kept[f] \/ \E p \in Parcels : IsWritten(p, f)
FieldIsKept ==
    \A f \in Here \cap HasField : unsent[f] = Untyped => field[f] = kept[f] \/ \E p \in Parcels : Carries(p, f)
\* A preference that is awaited is awaited once, and is turned back to what is
\* stored if it fails.
TogglesAreKept ==
    group = "preferences" => \A f \in Here :
        /\ seen[f] = kept[f] \/ \E p \in Parcels : Awaits(p, f)
        /\ \A p \in Parcels : Awaits(p, f) =>
             /\ parcel[p].data[f] = seen[f]
             /\ kept[f] = IF parcel[p].answer = "ok" THEN seen[f] ELSE 1 - seen[f]
             /\ \A q \in Parcels : Awaits(q, f) => q = p
\* An icon that is awaited is awaited once, and goes back to the one stored.
IconIsKept ==
    \A p \in Parcels : Awaits(p, "icon") =>
        /\ parcel[p].answer = "ok" \/ parcel[p].before["icon"] = kept["icon"]
        /\ \A q \in Parcels : Awaits(q, "icon") => q = p
AllIsKept == SeenIsKept /\ FieldIsKept /\ TogglesAreKept /\ IconIsKept
SettingsInv == SettingsShape /\ (~excused => AllIsKept)

LEMMA HereIs ==
  ASSUME SettingsShape
  PROVE  /\ group \in {"profile", "preferences", "rules", "tenant"} /\ Here \subseteq Fields
         /\ group = "profile" => Here = {"name", "photo", "phone"}
         /\ group = "preferences" => Here = {"birthdays", "events"}
         /\ group = "rules" => Here = {"first", "second"}
         /\ group = "tenant" => Here = {"logo", "short", "icon"}
         /\ {"name", "photo", "phone", "birthdays", "events", "first", "second", "logo", "short", "icon"} \subseteq Fields
<1>1. DOMAIN FieldsOf = {"profile", "preferences", "rules", "tenant"}
  BY DEF FieldsOf
<1>2. group \in DOMAIN FieldsOf
  BY SettingsAssumption DEF SettingsShape
<1>3. /\ FieldsOf["profile"] = {"name", "photo", "phone"} /\ FieldsOf["preferences"] = {"birthdays", "events"}
      /\ FieldsOf["rules"] = {"first", "second"} /\ FieldsOf["tenant"] = {"logo", "short", "icon"}
  BY DEF FieldsOf
<1>4. \A g \in DOMAIN FieldsOf : FieldsOf[g] \subseteq Fields
  BY DEF Fields
<1> HIDE DEF FieldsOf
<1>5. Here \subseteq Fields
  BY <1>2, <1>4 DEF Here
<1>6. /\ group = "profile" => Here = {"name", "photo", "phone"}
      /\ group = "preferences" => Here = {"birthdays", "events"}
      /\ group = "rules" => Here = {"first", "second"}
      /\ group = "tenant" => Here = {"logo", "short", "icon"}
  BY <1>3 DEF Here
<1>7. {"name", "photo", "phone", "birthdays", "events", "first", "second", "logo", "short", "icon"} \subseteq Fields
  BY <1>1, <1>3, <1>4
<1> QED BY <1>1, <1>2, <1>5, <1>6, <1>7

LEMMA TypingIs == Typing = {"name", "phone", "first", "second", "short"} /\ Typing \subseteq HasField /\ "icon" \in HasField /\ "icon" \notin Typing
BY DEF Typing, HasField

LEMMA ParcelKinds ==
  ASSUME SettingsShape, NEW p \in Parcels, parcel[p] # NoParcel
  PROVE  parcel[p] \in ParcelsAre /\ ParcelIs(parcel[p])
BY DEF SettingsShape

LEMMA ParcelSet ==
  ASSUME SettingsShape, NEW p \in Parcels, NEW d \in ParcelsAre \cup {NoParcel}, parcel' = [parcel EXCEPT ![p] = d]
  PROVE  parcel' \in [Parcels -> ParcelsAre \cup {NoParcel}] /\ parcel'[p] = d /\ \A q \in Parcels \ {p} : parcel'[q] = parcel[q]
BY DEF SettingsShape

LEMMA NotNoParcel == \A c \in ParcelsAre : c # NoParcel
BY DEF ParcelsAre, NoParcel

LEMMA ShapeIs ==
  ASSUME SettingsShape, NEW p \in Parcels, NEW d \in ParcelsAre \cup {NoParcel}, parcel' = [parcel EXCEPT ![p] = d],
         d # NoParcel => ParcelIs(d), UNCHANGED group, kept' \in [Fields -> Values], seen' \in [Fields -> Values],
         field' \in [Fields -> Values], unsent' \in [Fields -> Values \cup {Untyped}], excused' \in BOOLEAN,
         \A f \in Fields : unsent'[f] # Untyped => f \in Typing /\ field'[f] = unsent'[f]
  PROVE  SettingsShape'
<1>1. parcel' \in [Parcels -> ParcelsAre \cup {NoParcel}] /\ parcel'[p] = d /\ \A q \in Parcels \ {p} : parcel'[q] = parcel[q]
  BY ParcelSet
<1>2. \A q \in Parcels : parcel'[q] # NoParcel => ParcelIs(parcel'[q])
  BY <1>1, ParcelKinds
<1>3. \A q \in Parcels : parcel'[q] # NoParcel => ParcelIs(parcel[q])'
  BY <1>2 DEF ParcelIs, Here
<1> QED BY <1>1, <1>3 DEF SettingsShape

\* What one parcel changes leaves the others as they are.
LEMMA OthersAreThere ==
  ASSUME NEW q \in Parcels, NEW f, parcel'[q] = parcel[q]
  PROVE  /\ Awaits(q, f)' <=> Awaits(q, f)
         /\ IsWritten(q, f)' <=> IsWritten(q, f)
         /\ field'[f] = field[f] => (Carries(q, f)' <=> Carries(q, f))
BY DEF Awaits, IsWritten, Carries

LEMMA TypingKeeps ==
  ASSUME SettingsInv, NEW f \in Fields, NEW v \in Values, handleFieldChange(f, v)
  PROVE  SettingsInv'
<1>1. /\ f \in Here /\ f \in Typing /\ f \in Fields /\ field' = [field EXCEPT ![f] = v] /\ unsent' = [unsent EXCEPT ![f] = v]
      /\ group' = group /\ kept' = kept /\ seen' = seen /\ parcel' = parcel /\ excused' = excused
  BY DEF handleFieldChange
<1>2. SettingsShape /\ (~excused => AllIsKept)
  BY DEF SettingsInv
<1>3. v # Untyped
  BY SettingsAssumption DEF Values
<1>4. SettingsShape'
  <2>1. \A p \in Parcels : parcel[p] # NoParcel => ParcelIs(parcel[p])'
    BY <1>1, <1>2 DEF SettingsShape, ParcelIs, Here
  <2>2. field' \in [Fields -> Values] /\ unsent' \in [Fields -> Values \cup {Untyped}]
    BY <1>1, <1>2 DEF SettingsShape
  <2>3. \A g \in Fields : unsent'[g] # Untyped => g \in Typing /\ field'[g] = unsent'[g]
    BY <1>1, <1>2, TypingIs DEF SettingsShape
  <2> QED BY <1>1, <1>2, <2>1, <2>2, <2>3 DEF SettingsShape
<1>5. ASSUME ~excused' PROVE AllIsKept'
  <2>1. AllIsKept
    BY <1>1, <1>2, <1>5
  <2>2. SeenIsKept'
    BY <1>1, <2>1 DEF AllIsKept, SeenIsKept, IsWritten, Awaits, Here
  <2>3. FieldIsKept'
    <3>1. \A g \in Fields \ {f} : field'[g] = field[g] /\ unsent'[g] = unsent[g]
      BY <1>1, <1>2 DEF SettingsShape
    <3>2. unsent'[f] # Untyped
      BY <1>1, <1>2, <1>3 DEF SettingsShape
    <3>3. Here' = Here /\ Here \subseteq Fields
      BY <1>1, <1>2, HereIs DEF Here
    <3> SUFFICES ASSUME NEW g \in Here \cap HasField, unsent'[g] = Untyped
                 PROVE  field'[g] = kept'[g] \/ \E p \in Parcels : Carries(p, g)'
      BY <3>3 DEF FieldIsKept
    <3>4. g \in Fields \ {f}
      BY <3>2, <3>3
    <3>5. field[g] = kept[g] \/ \E p \in Parcels : Carries(p, g)
      BY <2>1, <3>1, <3>4 DEF AllIsKept, FieldIsKept
    <3>6. \A p \in Parcels : Carries(p, g)' <=> Carries(p, g)
      BY <1>1, <3>1, <3>4, OthersAreThere
    <3> QED BY <1>1, <3>1, <3>4, <3>5, <3>6
  <2>4. TogglesAreKept' /\ IconIsKept'
    BY <1>1, <2>1 DEF AllIsKept, TogglesAreKept, IconIsKept, Awaits, Here
  <2> QED BY <2>2, <2>3, <2>4 DEF AllIsKept
<1> QED BY <1>4, <1>5 DEF SettingsInv

\* In the profile, all that waits is a save; for the name, nothing waits when it
\* can be taken back.
LEMMA TakingBackKeeps ==
  ASSUME SettingsInv, handleResetProfileForm
  PROVE  SettingsInv'
<1>1. /\ group = "profile" /\ ~Outstanding("save", "name") /\ field' = [field EXCEPT !["name"] = seen["name"]] /\ unsent' = Dropped({"name"})
      /\ group' = group /\ kept' = kept /\ seen' = seen /\ parcel' = parcel /\ excused' = excused
  BY DEF handleResetProfileForm
<1>2. SettingsShape /\ (~excused => AllIsKept)
  BY DEF SettingsInv
<1>3. Here = {"name", "photo", "phone"} /\ Here \subseteq Fields /\ "name" \in Fields /\ Here' = Here
  BY <1>1, <1>2, HereIs DEF Here
<1>4. \A g \in Fields : unsent'[g] = IF g = "name" THEN Untyped ELSE unsent[g]
  BY <1>1 DEF Dropped
<1>5. \A g \in Fields : field'[g] = IF g = "name" THEN seen["name"] ELSE field[g]
  BY <1>1, <1>2 DEF SettingsShape
<1>6. SettingsShape'
  <2>1. \A p \in Parcels : parcel[p] # NoParcel => ParcelIs(parcel[p])'
    BY <1>1, <1>2 DEF SettingsShape, ParcelIs, Here
  <2>2. field' \in [Fields -> Values]
    BY <1>1, <1>2, <1>3 DEF SettingsShape
  <2>3. unsent' \in [Fields -> Values \cup {Untyped}]
    BY <1>1, <1>2 DEF SettingsShape, Dropped
  <2>4. \A g \in Fields : unsent'[g] # Untyped => g \in Typing /\ field'[g] = unsent'[g]
    BY <1>2, <1>4, <1>5 DEF SettingsShape
  <2> QED BY <1>1, <1>2, <2>1, <2>2, <2>3, <2>4 DEF SettingsShape
<1>7. ASSUME ~excused' PROVE AllIsKept'
  <2>1. AllIsKept
    BY <1>1, <1>2, <1>7
  <2>2. SeenIsKept'
    BY <1>1, <2>1 DEF AllIsKept, SeenIsKept, IsWritten, Awaits, Here
  <2>3. seen["name"] = kept["name"]
    <3>1. ASSUME NEW p \in Parcels, Awaits(p, "name") PROVE FALSE
      <4>1. parcel[p] # NoParcel /\ "name" \in parcel[p].of
        BY <3>1 DEF Awaits
      <4>2. parcel[p] \in ParcelsAre /\ ParcelIs(parcel[p])
        BY <1>2, <4>1, ParcelKinds
      <4>3. parcel[p].op = "save"
        BY <1>1, <4>1, <4>2 DEF ParcelsAre, ParcelIs
      <4> QED BY <1>1, <4>1, <4>3 DEF Outstanding
    <3> QED BY <1>1, <1>3, <2>1, <3>1 DEF AllIsKept, SeenIsKept, IsWritten
  <2>4. FieldIsKept'
    <3> SUFFICES ASSUME NEW g \in Here \cap HasField, unsent'[g] = Untyped
                 PROVE  field'[g] = kept'[g] \/ \E p \in Parcels : Carries(p, g)'
      BY <1>3 DEF FieldIsKept
    <3>1. CASE g = "name"
      BY <1>1, <1>3, <1>5, <2>3, <3>1
    <3>2. CASE g # "name"
      <4>1. field'[g] = field[g] /\ unsent[g] = Untyped
        BY <1>3, <1>4, <1>5, <3>2
      <4>2. field[g] = kept[g] \/ \E p \in Parcels : Carries(p, g)
        BY <2>1, <4>1 DEF AllIsKept, FieldIsKept
      <4>3. \A p \in Parcels : Carries(p, g)' <=> Carries(p, g)
        BY <1>1, <4>1, OthersAreThere
      <4> QED BY <1>1, <4>1, <4>2, <4>3
    <3> QED BY <3>1, <3>2
  <2>5. TogglesAreKept' /\ IconIsKept'
    BY <1>1, <2>1 DEF AllIsKept, TogglesAreKept, IconIsKept, Awaits, Here
  <2> QED BY <2>2, <2>4, <2>5 DEF AllIsKept
<1> QED BY <1>6, <1>7 DEF SettingsInv

LEMMA OthersSettingKeeps ==
  ASSUME SettingsInv, NEW f \in Fields, othersSet(f)
  PROVE  SettingsInv'
<1>1. SettingsShape
  BY DEF SettingsInv
<1>2. kept' \in [Fields -> Values]
  BY <1>1 DEF othersSet, SettingsShape, Values
<1>3. \A p \in Parcels : parcel[p] # NoParcel => ParcelIs(parcel[p])'
  BY <1>1 DEF othersSet, SettingsShape, ParcelIs, Here
<1>4. SettingsShape'
  BY <1>1, <1>2, <1>3 DEF othersSet, SettingsShape
<1> QED BY <1>4 DEF othersSet, SettingsInv

LEMMA OpeningKeeps ==
  ASSUME SettingsInv, NEW loads \in BOOLEAN, openSettings(loads)
  PROVE  SettingsInv'
<1> DEFINE readRow == IF loads THEN kept ELSE [f \in Fields |-> IF f \in FieldsOf.preferences THEN 1 ELSE kept[f]]
<1>1. /\ \A p \in Parcels : parcel[p] = NoParcel
      /\ seen' = readRow /\ field' = readRow /\ unsent' = Dropped(Fields) /\ excused' = (readRow # kept)
      /\ group' = group /\ kept' = kept /\ parcel' = parcel
  BY DEF openSettings
<1>2. SettingsShape
  BY DEF SettingsInv
<1>3. readRow \in [Fields -> Values]
  BY <1>2 DEF SettingsShape, Values
<1> HIDE DEF readRow
<1>4. \A g \in Fields : unsent'[g] = Untyped
  BY <1>1 DEF Dropped
<1>5. unsent' \in [Fields -> Values \cup {Untyped}]
  BY <1>1 DEF Dropped
<1>6. SettingsShape'
  BY <1>1, <1>2, <1>3, <1>4, <1>5 DEF SettingsShape
<1>7. ASSUME ~excused' PROVE AllIsKept'
  <2>1. seen' = kept' /\ field' = kept' /\ \A p \in Parcels : (\A f : ~Awaits(p, f))'
    BY <1>1, <1>7 DEF Awaits
  <2> QED BY <2>1 DEF AllIsKept, SeenIsKept, FieldIsKept, TogglesAreKept, IconIsKept
<1> QED BY <1>6, <1>7 DEF SettingsInv

\* A write or a refusal changes only the answer, and the row that goes back.
LEMMA AnswersAre ==
  ASSUME SettingsShape, NEW p \in Parcels, Waiting(p, "none"), NEW a \in {"ok", "failed"}, NEW r \in [Fields -> Values]
  PROVE  LET d == [parcel[p] EXCEPT !.answer = a, !.row = r] IN
         /\ d \in ParcelsAre /\ d # NoParcel /\ (ParcelIs(parcel[p]) => ParcelIs(d))
         /\ d.op = parcel[p].op /\ d.of = parcel[p].of /\ d.data = parcel[p].data /\ d.before = parcel[p].before /\ d.answer = a
<1>1. parcel[p] # NoParcel /\ parcel[p] \in ParcelsAre
  BY ParcelKinds DEF Waiting
<1> DEFINE d == [parcel[p] EXCEPT !.answer = a, !.row = r]
<1>2. d \in ParcelsAre /\ d.op = parcel[p].op /\ d.of = parcel[p].of /\ d.data = parcel[p].data /\ d.before = parcel[p].before /\ d.answer = a
  <2> DEFINE datas == UNION {[fs -> Values] : fs \in SUBSET Fields}
  <2>1. parcel[p] \in [op : {"save", "removal", "toggle", "reset"}, of : SUBSET Fields, data : datas,
                       before : [Fields -> Values], row : [Fields -> Values], answer : {"none", "ok", "failed"}]
    BY <1>1 DEF ParcelsAre
  <2> HIDE DEF datas
  <2>2. d \in [op : {"save", "removal", "toggle", "reset"}, of : SUBSET Fields, data : datas,
                       before : [Fields -> Values], row : [Fields -> Values], answer : {"none", "ok", "failed"}]
    BY <2>1
  <2>3. d.op = parcel[p].op /\ d.of = parcel[p].of /\ d.data = parcel[p].data /\ d.before = parcel[p].before /\ d.answer = a
    BY <2>1
  <2> QED BY <2>2, <2>3 DEF ParcelsAre, datas
<1>3. d # NoParcel
  BY <1>2, NotNoParcel
<1> HIDE DEF d
<1>4. ParcelIs(parcel[p]) => ParcelIs(d)
  BY <1>2 DEF ParcelIs
<1> QED BY <1>2, <1>3, <1>4 DEF d

LEMMA FailuresAre ==
  ASSUME SettingsShape, NEW p \in Parcels, Waiting(p, "none")
  PROVE  LET d == [parcel[p] EXCEPT !.answer = "failed"] IN
         /\ d \in ParcelsAre /\ d # NoParcel /\ (ParcelIs(parcel[p]) => ParcelIs(d))
         /\ d.op = parcel[p].op /\ d.of = parcel[p].of /\ d.data = parcel[p].data /\ d.before = parcel[p].before /\ d.answer = "failed"
<1>1. parcel[p] # NoParcel /\ parcel[p] \in ParcelsAre
  BY ParcelKinds DEF Waiting
<1> DEFINE d == [parcel[p] EXCEPT !.answer = "failed"]
<1>2. d \in ParcelsAre /\ d.op = parcel[p].op /\ d.of = parcel[p].of /\ d.data = parcel[p].data /\ d.before = parcel[p].before /\ d.answer = "failed"
  <2> DEFINE datas == UNION {[fs -> Values] : fs \in SUBSET Fields}
  <2>1. parcel[p] \in [op : {"save", "removal", "toggle", "reset"}, of : SUBSET Fields, data : datas,
                       before : [Fields -> Values], row : [Fields -> Values], answer : {"none", "ok", "failed"}]
    BY <1>1 DEF ParcelsAre
  <2> HIDE DEF datas
  <2>2. d \in [op : {"save", "removal", "toggle", "reset"}, of : SUBSET Fields, data : datas,
                       before : [Fields -> Values], row : [Fields -> Values], answer : {"none", "ok", "failed"}]
    BY <2>1
  <2>3. d.op = parcel[p].op /\ d.of = parcel[p].of /\ d.data = parcel[p].data /\ d.before = parcel[p].before /\ d.answer = "failed"
    BY <2>1
  <2> QED BY <2>2, <2>3 DEF ParcelsAre, datas
<1>3. d # NoParcel
  BY <1>2, NotNoParcel
<1> HIDE DEF d
<1>4. ParcelIs(parcel[p]) => ParcelIs(d)
  BY <1>2 DEF ParcelIs
<1> QED BY <1>2, <1>3, <1>4 DEF d

LEMMA RefusingKeeps ==
  ASSUME SettingsInv, NEW p \in Parcels, refuseSettings(p)
  PROVE  SettingsInv'
<1> DEFINE c == parcel[p]
           d == [c EXCEPT !.answer = "failed"]
<1>1. SettingsShape /\ (~excused => AllIsKept) /\ Waiting(p, "none") /\ c # NoParcel /\ c.answer = "none"
  BY DEF SettingsInv, refuseSettings, Waiting
<1>2. c \in ParcelsAre /\ ParcelIs(c)
  BY <1>1, ParcelKinds
<1>4. /\ d \in ParcelsAre /\ d # NoParcel /\ ParcelIs(d)
      /\ d.op = c.op /\ d.of = c.of /\ d.data = c.data /\ d.before = c.before /\ d.answer = "failed"
  BY <1>1, <1>2, FailuresAre
<1>5. /\ parcel' = [parcel EXCEPT ![p] = d]
      /\ group' = group /\ kept' = kept /\ seen' = seen /\ field' = field /\ unsent' = unsent /\ excused' = excused
  BY <1>1 DEF refuseSettings, SettingsShape
<1> HIDE DEF c, d
<1>6. SettingsShape'
  BY <1>1, <1>4, <1>5, ShapeIs DEF SettingsShape
<1>7. parcel'[p] = d /\ \A q \in Parcels \ {p} : parcel'[q] = parcel[q]
  BY <1>1, <1>4, <1>5, ParcelSet
<1>8. \A q \in Parcels, f \in Fields : (Awaits(q, f)' <=> Awaits(q, f)) /\ (IsWritten(q, f)' <=> IsWritten(q, f)) /\ (Carries(q, f)' <=> Carries(q, f))
  <2>1. ASSUME NEW f \in Fields PROVE (Awaits(p, f)' <=> Awaits(p, f)) /\ (IsWritten(p, f)' <=> IsWritten(p, f)) /\ (Carries(p, f)' <=> Carries(p, f))
    BY <1>1, <1>4, <1>5, <1>7 DEF c, Awaits, IsWritten, Carries
  <2> QED BY <1>5, <1>7, <2>1, OthersAreThere
<1>9. Here \subseteq Fields /\ Here' = Here /\ "icon" \in Fields
  BY <1>1, <1>5, HereIs DEF Here
<1>10. \A q \in Parcels : parcel'[q].data = parcel[q].data /\ parcel'[q].before = parcel[q].before /\ (parcel'[q].answer = "ok" <=> parcel[q].answer = "ok")
  BY <1>1, <1>4, <1>7 DEF c
<1>11. ASSUME ~excused' PROVE AllIsKept'
  <2>1. AllIsKept
    BY <1>1, <1>5, <1>11
  <2>2. SeenIsKept' /\ FieldIsKept'
    BY <1>5, <1>8, <1>9, <2>1 DEF AllIsKept, SeenIsKept, FieldIsKept
  <2>3. TogglesAreKept'
    BY <1>5, <1>8, <1>9, <1>10, <2>1 DEF AllIsKept, TogglesAreKept
  <2>4. IconIsKept'
    BY <1>5, <1>8, <1>9, <1>10, <2>1 DEF AllIsKept, IconIsKept
  <2> QED BY <2>2, <2>3, <2>4 DEF AllIsKept
<1> QED BY <1>6, <1>11 DEF SettingsInv

LEMMA WritingKeeps ==
  ASSUME SettingsInv, NEW p \in Parcels, writeSettings(p)
  PROVE  SettingsInv'
<1> DEFINE c == parcel[p]
           wrote == [f \in Fields |-> IF f \in c.of THEN c.data[f] ELSE kept[f]]
<1>1. SettingsShape /\ (~excused => AllIsKept) /\ Waiting(p, "none") /\ c # NoParcel /\ c.answer = "none"
  BY DEF SettingsInv, writeSettings, Waiting
<1>2. c \in ParcelsAre /\ ParcelIs(c)
  BY <1>1, ParcelKinds
<1>3. kept' = wrote /\ wrote \in [Fields -> Values]
  BY <1>1, <1>2 DEF writeSettings, SettingsShape, ParcelIs
<1>4. group' = group /\ seen' = seen /\ field' = field /\ unsent' = unsent
  BY DEF writeSettings
<1>5. CASE parcel' = [parcel EXCEPT ![p].answer = "failed"] /\ excused' = TRUE
  <2> DEFINE d == [c EXCEPT !.answer = "failed"]
  <2>2. d \in ParcelsAre /\ d # NoParcel /\ ParcelIs(d)
    BY <1>1, <1>2, FailuresAre
  <2>3. parcel' = [parcel EXCEPT ![p] = d]
    BY <1>1, <1>5 DEF SettingsShape
  <2> HIDE DEF c, d
  <2>4. SettingsShape'
    BY <1>1, <1>3, <1>4, <1>5, <2>2, <2>3, ShapeIs DEF SettingsShape
  <2> QED BY <1>5, <2>4 DEF SettingsInv
<1>6. CASE parcel' = [parcel EXCEPT ![p].answer = "ok", ![p].row = kept'] /\ excused' = excused
  <2> DEFINE d == [c EXCEPT !.answer = "ok", !.row = wrote]
  <2>1. /\ d \in ParcelsAre /\ d # NoParcel /\ ParcelIs(d)
        /\ d.op = c.op /\ d.of = c.of /\ d.data = c.data /\ d.before = c.before /\ d.answer = "ok"
    BY <1>1, <1>2, <1>3, AnswersAre
  <2>2. parcel' = [parcel EXCEPT ![p] = d]
    BY <1>1, <1>3, <1>6 DEF SettingsShape
  <2>3. \A f \in Fields : kept'[f] = IF f \in c.of THEN c.data[f] ELSE kept[f]
    BY <1>3
  <2> HIDE DEF c, d, wrote
  <2>4. SettingsShape'
    BY <1>1, <1>3, <1>4, <1>6, <2>1, <2>2, ShapeIs DEF SettingsShape
  <2>5. parcel'[p] = d /\ \A q \in Parcels \ {p} : parcel'[q] = parcel[q]
    BY <1>1, <2>1, <2>2, ParcelSet
  <2>6. Here \subseteq Fields /\ Here' = Here /\ "icon" \in Fields
    BY <1>1, <1>4, HereIs DEF Here
  <2>7. \A q \in Parcels \ {p}, f \in Fields : (Awaits(q, f)' <=> Awaits(q, f)) /\ (IsWritten(q, f)' <=> IsWritten(q, f)) /\ (Carries(q, f)' <=> Carries(q, f))
    BY <1>4, <2>5, OthersAreThere
  <2>8. \A f \in Fields : /\ Awaits(p, f)' <=> f \in c.of
                          /\ Awaits(p, f) <=> f \in c.of
                          /\ IsWritten(p, f)' <=> f \in c.of
                          /\ Carries(p, f)' <=> f \in c.of
                          /\ ~IsWritten(p, f)
                          /\ Carries(p, f) => f \in c.of
    BY <1>1, <2>1, <2>5 DEF c, Awaits, IsWritten, Carries
  <2>9. ASSUME ~excused' PROVE AllIsKept'
    <3>1. AllIsKept
      BY <1>1, <1>6, <2>9
    <3>2. SeenIsKept' /\ FieldIsKept'
      BY <1>4, <2>3, <2>6, <2>7, <2>8, <3>1 DEF AllIsKept, SeenIsKept, FieldIsKept
    <3>3. TogglesAreKept'
      <4> SUFFICES ASSUME group = "preferences", NEW f \in Here
                   PROVE  /\ seen'[f] = kept'[f] \/ \E q \in Parcels : Awaits(q, f)'
                          /\ \A q \in Parcels : Awaits(q, f)' =>
                               /\ parcel'[q].data[f] = seen'[f]
                               /\ kept'[f] = IF parcel'[q].answer = "ok" THEN seen'[f] ELSE 1 - seen'[f]
                               /\ \A r \in Parcels : Awaits(r, f)' => r = q
        BY <1>4, <2>6 DEF TogglesAreKept
      <4>1. /\ seen[f] = kept[f] \/ \E q \in Parcels : Awaits(q, f)
            /\ \A q \in Parcels : Awaits(q, f) =>
                               /\ parcel[q].data[f] = seen[f]
                               /\ kept[f] = IF parcel[q].answer = "ok" THEN seen[f] ELSE 1 - seen[f]
                               /\ \A r \in Parcels : Awaits(r, f) => r = q
        BY <3>1 DEF AllIsKept, TogglesAreKept
      <4>2. \A q \in Parcels : Awaits(q, f)' <=> Awaits(q, f)
        BY <2>6, <2>7, <2>8
      <4>3. CASE f \in c.of
        BY <1>4, <2>1, <2>3, <2>5, <2>6, <2>8, <4>1, <4>2, <4>3 DEF c
      <4>4. CASE f \notin c.of
        BY <1>4, <2>3, <2>5, <2>6, <2>8, <4>1, <4>2, <4>4
      <4> QED BY <4>3, <4>4
    <3>4. IconIsKept'
      BY <1>4, <2>1, <2>3, <2>5, <2>6, <2>7, <2>8, <3>1 DEF AllIsKept, IconIsKept
    <3> QED BY <3>2, <3>3, <3>4 DEF AllIsKept
  <2> QED BY <2>4, <2>9 DEF SettingsInv
<1> QED BY <1>5, <1>6 DEF writeSettings

\* What has been answered is let go, and nothing else waits for less.
LEMMA LettingGo ==
  ASSUME SettingsShape, NEW p \in Parcels, parcel' = [parcel EXCEPT ![p] = NoParcel]
  PROVE  /\ \A f : ~Awaits(p, f)' /\ ~IsWritten(p, f)' /\ ~Carries(p, f)'
         /\ \A q \in Parcels \ {p} : parcel'[q] = parcel[q]
         /\ \A q \in Parcels \ {p} : \A f : /\ Awaits(q, f)' <=> Awaits(q, f)
                                            /\ IsWritten(q, f)' <=> IsWritten(q, f)
                                            /\ field'[f] = field[f] => (Carries(q, f)' <=> Carries(q, f))
<1>1. parcel'[p] = NoParcel /\ \A q \in Parcels \ {p} : parcel'[q] = parcel[q]
  BY ParcelSet
<1>2. \A f : ~Awaits(p, f)' /\ ~IsWritten(p, f)' /\ ~Carries(p, f)'
  BY <1>1 DEF Awaits, IsWritten, Carries
<1> QED BY <1>1, <1>2, OthersAreThere

LEMMA AnsweringKeeps ==
  ASSUME SettingsInv, NEW p \in Parcels, settingsAnswered(p)
  PROVE  SettingsInv'
<1> DEFINE c == parcel[p]
<1>1. /\ SettingsShape /\ (~excused => AllIsKept) /\ c # NoParcel /\ c.answer = "ok"
      /\ seen' = RowTaken(c) /\ field' = Taken(field, c.row, FieldsTaken(c)) /\ unsent' = Dropped(c.of)
      /\ excused' = (excused \/ Late(c)) /\ parcel' = [parcel EXCEPT ![p] = NoParcel] /\ group' = group /\ kept' = kept
  BY DEF SettingsInv, settingsAnswered, Waiting
<1>2. c \in ParcelsAre /\ ParcelIs(c)
  BY <1>1, ParcelKinds
<1>3. c.of \subseteq Here /\ c.row \in [Fields -> Values] /\ c.before \in [Fields -> Values]
  BY <1>2 DEF ParcelsAre, ParcelIs
<1>4. Here \subseteq Fields /\ Here' = Here /\ "icon" \in Fields
  BY <1>1, HereIs DEF Here
<1>5. \A f \in c.of : Awaits(p, f) /\ IsWritten(p, f)
  BY <1>1 DEF Awaits, IsWritten
<1>6. \A f : Awaits(p, f) \/ IsWritten(p, f) \/ Carries(p, f) => f \in c.of
  BY DEF Awaits, IsWritten, Carries
<1> HIDE DEF c
<1>11. /\ \A f : ~Awaits(p, f)'
       /\ \A q \in Parcels \ {p} : parcel'[q] = parcel[q] /\ \A f : Awaits(q, f)' <=> Awaits(q, f)
  BY <1>1, LettingGo
<1>7. FieldsTaken(c) = c.of \cap HasField
  BY DEF FieldsTaken
<1>8. \A f \in Fields : /\ field'[f] = IF f \in c.of \cap HasField THEN c.row[f] ELSE field[f]
                        /\ unsent'[f] = IF f \in c.of THEN Untyped ELSE unsent[f]
  BY <1>1, <1>7 DEF Taken, Dropped
<1>9. SettingsShape'
  <2>1. field' \in [Fields -> Values]
    BY <1>1, <1>3 DEF Taken, SettingsShape
  <2>2. seen' \in [Fields -> Values]
    <3>1. seen \in [Fields -> Values]
      BY <1>1 DEF SettingsShape
    <3> QED BY <1>1, <1>3, <3>1 DEF RowTaken, Taken
  <2>3. unsent' \in [Fields -> Values \cup {Untyped}]
    BY <1>1 DEF Dropped, SettingsShape
  <2>4. excused' \in BOOLEAN
    BY <1>1 DEF SettingsShape, Late
  <2>5. \A f \in Fields : unsent'[f] # Untyped => f \in Typing /\ field'[f] = unsent'[f]
    BY <1>1, <1>8 DEF SettingsShape
  <2>6. NoParcel \in ParcelsAre \cup {NoParcel} /\ kept' \in [Fields -> Values]
    BY <1>1 DEF SettingsShape
  <2> QED BY <1>1, <2>1, <2>2, <2>3, <2>4, <2>5, <2>6, ShapeIs
<1>10. ASSUME ~excused' PROVE AllIsKept'
  <2>1. AllIsKept /\ ~Late(c)
    BY <1>1, <1>10
  <2>2. group # "preferences" => \A f \in Here : c.row[f] = kept[f]
    BY <2>1 DEF Late
  <2>3. SeenIsKept'
    <3> SUFFICES ASSUME group \notin {"rules", "preferences"}, NEW f \in Here
                 PROVE  seen'[f] = kept'[f] \/ \E q \in Parcels : IsWritten(q, f)'
      BY <1>1, <1>4 DEF SeenIsKept
    <3>1. c.row[f] = kept[f] /\ f \in Fields
      BY <1>4, <2>2
    <3>2. seen'[f] = kept[f] \/ (f \notin c.of /\ seen'[f] = seen[f])
      <4>1. CASE group = "profile" /\ "name" \in c.of
        <5>1. "photo" \notin c.of
          BY <1>2, <4>1 DEF ParcelIs
        <5> QED BY <1>1, <3>1, <4>1, <5>1 DEF RowTaken, Taken
      <4>2. CASE group = "profile" /\ "photo" \in c.of /\ "name" \notin c.of
        <5>1. \A g \in Here \ c.of : c.before[g] = seen[g]
          BY <2>1, <4>2 DEF Late
        <5> QED BY <1>1, <3>1, <4>2, <5>1 DEF RowTaken, Taken
      <4>3. CASE group = "tenant"
        BY <1>1, <3>1, <4>3 DEF RowTaken, Taken
      <4>4. CASE group = "profile" /\ "photo" \notin c.of /\ "name" \notin c.of
        BY <1>1, <3>1, <4>4 DEF RowTaken, Taken
      <4> QED BY <1>1, <4>1, <4>2, <4>3, <4>4, HereIs
    <3>3. CASE seen'[f] = kept[f]
      BY <1>1, <3>3
    <3>4. CASE f \notin c.of /\ seen'[f] = seen[f]
      <4>1. seen[f] = kept[f] \/ \E q \in Parcels : IsWritten(q, f)
        BY <2>1 DEF AllIsKept, SeenIsKept
      <4> QED BY <1>1, <1>6, <3>4, <4>1, LettingGo
    <3> QED BY <3>2, <3>3, <3>4
  <2>4. FieldIsKept'
    <3> SUFFICES ASSUME NEW f \in Here \cap HasField, unsent'[f] = Untyped
                 PROVE  field'[f] = kept'[f] \/ \E q \in Parcels : Carries(q, f)'
      BY <1>4 DEF FieldIsKept
    <3>1. group # "preferences"
      BY <1>1, HereIs DEF HasField
    <3>2. CASE f \in c.of
      BY <1>1, <1>4, <1>8, <2>2, <3>1, <3>2
    <3>3. CASE f \notin c.of
      <4>1. field'[f] = field[f] /\ unsent[f] = Untyped
        BY <1>4, <1>8, <3>3
      <4>2. field[f] = kept[f] \/ \E q \in Parcels : Carries(q, f)
        BY <2>1, <4>1 DEF AllIsKept, FieldIsKept
      <4> QED BY <1>1, <1>6, <3>3, <4>1, <4>2, LettingGo
    <3> QED BY <3>2, <3>3
  <2>5. TogglesAreKept'
    <3> SUFFICES ASSUME group = "preferences", NEW f \in Here
                 PROVE  /\ seen'[f] = kept'[f] \/ \E q \in Parcels : Awaits(q, f)'
                        /\ \A q \in Parcels : Awaits(q, f)' =>
                             /\ parcel'[q].data[f] = seen'[f]
                             /\ kept'[f] = IF parcel'[q].answer = "ok" THEN seen'[f] ELSE 1 - seen'[f]
                             /\ \A r \in Parcels : Awaits(r, f)' => r = q
      BY <1>1, <1>4 DEF TogglesAreKept
    <3>1. /\ seen[f] = kept[f] \/ \E q \in Parcels : Awaits(q, f)
          /\ \A q \in Parcels : Awaits(q, f) =>
               /\ parcel[q].data[f] = seen[f]
               /\ kept[f] = IF parcel[q].answer = "ok" THEN seen[f] ELSE 1 - seen[f]
               /\ \A r \in Parcels : Awaits(r, f) => r = q
      BY <2>1 DEF AllIsKept, TogglesAreKept
    <3>2. seen' = seen
      BY <1>1 DEF RowTaken
    <3>3. Awaits(p, f) => seen[f] = kept[f] /\ \A q \in Parcels : Awaits(q, f) => q = p
      BY <1>1, <3>1 DEF c
    <3>4. kept' = kept
      BY <1>1
    <3> QED BY <1>11, <3>1, <3>2, <3>3, <3>4
  <2>6. IconIsKept'
    <3>1. kept' = kept
      BY <1>1
    <3> QED BY <1>11, <2>1, <3>1 DEF AllIsKept, IconIsKept
  <2> QED BY <2>3, <2>4, <2>5, <2>6 DEF AllIsKept
<1> QED BY <1>9, <1>10 DEF SettingsInv

LEMMA FailingKeeps ==
  ASSUME SettingsInv, NEW p \in Parcels, settingsFailed(p)
  PROVE  SettingsInv'
<1> DEFINE c == parcel[p]
<1>1. /\ SettingsShape /\ (~excused => AllIsKept) /\ c # NoParcel /\ c.answer = "failed"
      /\ seen' = IF c.op = "toggle" THEN [f \in Fields |-> IF f \in c.of THEN 1 - c.data[f] ELSE seen[f]] ELSE seen
      /\ field' = IF c.op = "save" /\ c.of = {"icon"} THEN [field EXCEPT !["icon"] = c.before["icon"]] ELSE field
      /\ unsent' = [f \in Fields |-> IF c.op = "save" /\ f \in c.of \cap Typing /\ unsent[f] = Untyped /\ field[f] = c.data[f]
                                  THEN c.data[f] ELSE unsent[f]]
      /\ parcel' = [parcel EXCEPT ![p] = NoParcel] /\ group' = group /\ kept' = kept /\ excused' = excused
  BY DEF SettingsInv, settingsFailed, Waiting
<1>2. c \in ParcelsAre /\ ParcelIs(c)
  BY <1>1, ParcelKinds
<1>3. c.of \subseteq Here /\ c.before \in [Fields -> Values] /\ \A f \in c.of : c.data[f] \in Values
  BY <1>2 DEF ParcelsAre, ParcelIs
<1>4. Here \subseteq Fields /\ Here' = Here /\ "icon" \in Fields
  BY <1>1, HereIs DEF Here
<1>5. \A f : /\ Awaits(p, f) <=> f \in c.of
             /\ ~IsWritten(p, f)
             /\ Carries(p, f) <=> f \in c.of /\ c.op = "save" /\ c.data[f] = field[f]
  BY <1>1 DEF Awaits, IsWritten, Carries
<1>6. field \in [Fields -> Values] /\ seen \in [Fields -> Values]
  BY <1>1 DEF SettingsShape
<1>7. \A f \in Fields : field'[f] = field[f] \/ (f = "icon" /\ c.op = "save" /\ c.of = {"icon"} /\ field'[f] = c.before["icon"])
  BY <1>1, <1>6 DEF c
<1> HIDE DEF c
<1>10. /\ \A f : ~Awaits(p, f)'
       /\ \A q \in Parcels \ {p} : parcel'[q] = parcel[q] /\ \A f : Awaits(q, f)' <=> Awaits(q, f)
  BY <1>1, LettingGo
<1>8. SettingsShape'
  <2>1. field' \in [Fields -> Values]
    BY <1>1, <1>3, <1>4, <1>6
  <2>2. seen' \in [Fields -> Values]
    BY <1>1, <1>3, <1>6 DEF Values
  <2>3. unsent' \in [Fields -> Values \cup {Untyped}]
    BY <1>1, <1>3 DEF SettingsShape
  <2>4. \A f \in Fields : unsent'[f] # Untyped => f \in Typing /\ field'[f] = unsent'[f]
    <3> SUFFICES ASSUME NEW f \in Fields, unsent'[f] # Untyped PROVE f \in Typing /\ field'[f] = unsent'[f]
      OBVIOUS
    <3>1. CASE c.op = "save" /\ f \in c.of \cap Typing /\ unsent[f] = Untyped /\ field[f] = c.data[f]
      BY <1>1, <1>7, <3>1, TypingIs
    <3>2. CASE ~(c.op = "save" /\ f \in c.of \cap Typing /\ unsent[f] = Untyped /\ field[f] = c.data[f])
      <4>1. unsent'[f] = unsent[f]
        BY <1>1, <3>2
      <4> QED BY <1>1, <1>7, <4>1, TypingIs DEF SettingsShape
    <3> QED BY <3>1, <3>2
  <2>5. NoParcel \in ParcelsAre \cup {NoParcel} /\ kept' \in [Fields -> Values] /\ excused' \in BOOLEAN
    BY <1>1 DEF SettingsShape
  <2> QED BY <1>1, <2>1, <2>2, <2>3, <2>4, <2>5, ShapeIs
<1>9. ASSUME ~excused' PROVE AllIsKept'
  <2>1. AllIsKept
    BY <1>1, <1>9
  <2>2. SeenIsKept'
    <3> SUFFICES ASSUME group \notin {"rules", "preferences"}, NEW f \in Here
                 PROVE  seen'[f] = kept'[f] \/ \E q \in Parcels : IsWritten(q, f)'
      BY <1>1, <1>4 DEF SeenIsKept
    <3>1. seen' = seen
      BY <1>1, <1>2 DEF ParcelIs
    <3>2. seen[f] = kept[f] \/ \E q \in Parcels : IsWritten(q, f)
      BY <2>1 DEF AllIsKept, SeenIsKept
    <3> QED BY <1>1, <1>5, <3>1, <3>2, LettingGo
  <2>3. FieldIsKept'
    <3> SUFFICES ASSUME NEW f \in Here \cap HasField, unsent'[f] = Untyped
                 PROVE  field'[f] = kept'[f] \/ \E q \in Parcels : Carries(q, f)'
      BY <1>4 DEF FieldIsKept
    <3>1. unsent[f] = Untyped
      BY <1>1, <1>4
    <3>2. field[f] = kept[f] \/ \E q \in Parcels : Carries(q, f)
      BY <2>1, <3>1 DEF AllIsKept, FieldIsKept
    <3>3. CASE f \in c.of /\ f = "icon"
      <4>1. group = "tenant"
        BY <1>1, HereIs, <3>3
      <4>2. c.of = {"icon"} /\ c.op \in {"save", "removal"}
        BY <1>2, <3>3, <4>1 DEF ParcelIs, ParcelsAre
      <4>3. c.before["icon"] = kept["icon"] /\ \A q \in Parcels : Awaits(q, "icon") => q = p
        BY <1>1, <1>5, <2>1, <3>3 DEF AllIsKept, IconIsKept, c
      <4>4. CASE c.op = "save"
        BY <1>1, <1>4, <1>6, <3>3, <4>2, <4>3, <4>4
      <4>5. CASE c.op = "removal"
        <5>1. \A q \in Parcels : ~Carries(q, f)
          BY <1>5, <3>3, <4>3, <4>5 DEF Carries, Awaits
        <5> QED BY <1>1, <1>7, <1>4, <3>2, <4>5, <5>1
      <4> QED BY <4>2, <4>4, <4>5
    <3>4. CASE ~(f \in c.of /\ f = "icon")
      <4>1. field'[f] = field[f]
        BY <1>4, <1>7, <3>4
      <4>2. ~Carries(p, f)
        <5>1. ASSUME Carries(p, f) PROVE FALSE
          <6>1. c.op = "save" /\ f \in c.of /\ field[f] = c.data[f] /\ f \in Typing
            BY <1>5, <3>4, <5>1 DEF Typing
          <6>2. unsent'[f] = c.data[f] /\ c.data[f] \in Values
            BY <1>1, <1>3, <1>4, <3>1, <6>1
          <6> QED BY <6>2, SettingsAssumption DEF Values
        <5> QED BY <5>1
      <4> QED BY <1>1, <3>2, <4>1, <4>2, LettingGo
    <3> QED BY <3>3, <3>4
  <2>4. TogglesAreKept'
    <3> SUFFICES ASSUME group = "preferences", NEW f \in Here
                 PROVE  /\ seen'[f] = kept'[f] \/ \E q \in Parcels : Awaits(q, f)'
                        /\ \A q \in Parcels : Awaits(q, f)' =>
                             /\ parcel'[q].data[f] = seen'[f]
                             /\ kept'[f] = IF parcel'[q].answer = "ok" THEN seen'[f] ELSE 1 - seen'[f]
                             /\ \A r \in Parcels : Awaits(r, f)' => r = q
      BY <1>1, <1>4 DEF TogglesAreKept
    <3>1. /\ seen[f] = kept[f] \/ \E q \in Parcels : Awaits(q, f)
          /\ \A q \in Parcels : Awaits(q, f) =>
               /\ parcel[q].data[f] = seen[f]
               /\ kept[f] = IF parcel[q].answer = "ok" THEN seen[f] ELSE 1 - seen[f]
               /\ \A r \in Parcels : Awaits(r, f) => r = q
      BY <2>1 DEF AllIsKept, TogglesAreKept
    <3>2. c.op = "toggle" /\ f \in Fields
      BY <1>2, <1>4 DEF ParcelIs
    <3>3. CASE f \in c.of
      <4>1. c.data[f] = seen[f] /\ kept[f] = 1 - seen[f] /\ \A q \in Parcels : Awaits(q, f) => q = p
        BY <1>1, <1>5, <3>1, <3>3 DEF c
      <4>2. seen'[f] = kept[f]
        BY <1>1, <3>2, <3>3, <4>1
      <4> QED BY <1>1, <4>1, <4>2, LettingGo
    <3>4. CASE f \notin c.of
      <4>1. seen'[f] = seen[f]
        BY <1>1, <3>2, <3>4
      <4> QED BY <1>1, <1>5, <1>10, <3>1, <3>4, <4>1
    <3> QED BY <3>3, <3>4
  <2>5. IconIsKept'
    <3>1. kept' = kept
      BY <1>1
    <3> QED BY <1>10, <2>1, <3>1 DEF AllIsKept, IconIsKept
  <2> QED BY <2>2, <2>3, <2>4, <2>5 DEF AllIsKept
<1> QED BY <1>8, <1>9 DEF SettingsInv

LEMMA PostIs ==
  ASSUME NEW p \in Parcels, NEW op \in {"save", "removal", "toggle", "reset"}, NEW fs \in SUBSET Fields, NEW data \in [Fields -> Values],
         SettingsShape, Posts(p, op, fs, data)
  PROVE  \E d \in ParcelsAre :
         /\ parcel[p] = NoParcel /\ d # NoParcel /\ parcel' = [parcel EXCEPT ![p] = d]
         /\ d.op = op /\ d.of = fs /\ d.before = seen /\ d.answer = "none" /\ \A f \in fs : d.data[f] = data[f]
         /\ unsent' = IF op = "reset" THEN unsent ELSE Dropped(fs)
<1> DEFINE sent == [f \in fs |-> data[f]]
           d == [op |-> op, of |-> fs, data |-> sent, before |-> seen, row |-> kept, answer |-> "none"]
<1>1. sent \in UNION {[gs -> Values] : gs \in SUBSET Fields}
  <2>1. sent \in [fs -> Values]
    OBVIOUS
  <2> QED BY <2>1
<1>2. \A f \in fs : sent[f] = data[f]
  OBVIOUS
<1>3. /\ parcel[p] = NoParcel /\ parcel' = [parcel EXCEPT ![p] = d]
      /\ unsent' = IF op = "reset" THEN unsent ELSE Dropped(fs)
  BY DEF Posts
<1> HIDE DEF sent
<1>4. d \in ParcelsAre /\ d.op = op /\ d.of = fs /\ d.before = seen /\ d.answer = "none" /\ d.data = sent
  BY <1>1 DEF ParcelsAre, SettingsShape
<1>5. d # NoParcel
  BY <1>4, NotNoParcel
<1> HIDE DEF d
<1> QED BY <1>2, <1>3, <1>4, <1>5

\* What is sent, on a page that shows fields: each field that is left with nothing
\* typed had nothing typed before, or holds what is sent.
LEMMA SendingKeeps ==
  ASSUME SettingsInv, NEW p \in Parcels, NEW d \in ParcelsAre, parcel[p] = NoParcel, d # NoParcel, parcel' = [parcel EXCEPT ![p] = d],
         ParcelIs(d), d.answer = "none", group # "preferences",
         UNCHANGED <<group, kept, seen>>, field' \in [Fields -> Values], unsent' \in [Fields -> Values \cup {Untyped}],
         \A f \in Fields : unsent'[f] # Untyped => unsent'[f] = unsent[f] /\ field'[f] = field[f],
         excused' \in BOOLEAN, ~excused' => ~excused,
         \A f \in Here \cap HasField : unsent'[f] = Untyped =>
            (unsent[f] = Untyped /\ field'[f] = field[f]) \/ (d.op = "save" /\ f \in d.of /\ d.data[f] = field'[f]),
         ~excused' /\ "icon" \in d.of => d.before["icon"] = kept["icon"] /\ \A q \in Parcels : ~Awaits(q, "icon")
  PROVE  SettingsInv'
<1>1. SettingsShape /\ (~excused => AllIsKept)
  BY DEF SettingsInv
<1>2. SettingsShape'
  <2>1. \A f \in Fields : unsent'[f] # Untyped => f \in Typing /\ field'[f] = unsent'[f]
    BY <1>1 DEF SettingsShape
  <2> QED BY <1>1, <2>1, ShapeIs DEF SettingsShape
<1>3. parcel'[p] = d /\ \A q \in Parcels \ {p} : parcel'[q] = parcel[q]
  BY <1>1, ParcelSet
<1>4. \A f : /\ Awaits(p, f)' <=> f \in d.of
             /\ ~Awaits(p, f)
             /\ ~IsWritten(p, f) /\ ~Carries(p, f) /\ ~IsWritten(p, f)'
  BY <1>3 DEF Awaits, IsWritten, Carries
<1>5. \A q \in Parcels \ {p} : \A f : /\ Awaits(q, f)' <=> Awaits(q, f)
                                      /\ IsWritten(q, f)' <=> IsWritten(q, f)
                                      /\ field'[f] = field[f] => (Carries(q, f)' <=> Carries(q, f))
  BY <1>3, OthersAreThere
<1>6. Here \subseteq Fields /\ Here' = Here
  BY <1>1, HereIs DEF Here
<1>7. ASSUME ~excused' PROVE AllIsKept'
  <2>1. AllIsKept
    BY <1>1, <1>7
  <2>2. SeenIsKept'
    BY <1>4, <1>5, <1>6, <2>1 DEF AllIsKept, SeenIsKept
  <2>3. FieldIsKept'
    <3> SUFFICES ASSUME NEW f \in Here \cap HasField, unsent'[f] = Untyped
                 PROVE  field'[f] = kept'[f] \/ \E q \in Parcels : Carries(q, f)'
      BY <1>6 DEF FieldIsKept
    <3>1. CASE unsent[f] = Untyped /\ field'[f] = field[f]
      BY <1>4, <1>5, <2>1, <3>1 DEF AllIsKept, FieldIsKept
    <3>2. CASE d.op = "save" /\ f \in d.of /\ d.data[f] = field'[f]
      BY <1>3, <3>2 DEF Carries, Awaits
    <3> QED BY <3>1, <3>2
  <2>4. TogglesAreKept'
    BY DEF TogglesAreKept
  <2>5. IconIsKept'
    BY <1>3, <1>4, <1>5, <1>7, <2>1 DEF AllIsKept, IconIsKept
  <2> QED BY <2>2, <2>3, <2>4, <2>5 DEF AllIsKept
<1> QED BY <1>2, <1>7 DEF SettingsInv

LEMMA DroppedIs ==
  ASSUME SettingsShape, NEW fs \in SUBSET Fields, unsent' = Dropped(fs)
  PROVE  /\ unsent' \in [Fields -> Values \cup {Untyped}]
         /\ \A f \in Fields : unsent'[f] = IF f \in fs THEN Untyped ELSE unsent[f]
BY DEF Dropped, SettingsShape

LEMMA SavingKeeps ==
  ASSUME SettingsInv, NEW p \in Parcels, NEW f \in Fields, saveSettings(p, f)
  PROVE  SettingsInv'
<1> DEFINE fs == IF group = "rules" THEN Here ELSE {f}
<1>1. /\ f \in Here \cap Typing /\ Posts(p, "save", fs, field)
      /\ group' = group /\ kept' = kept /\ seen' = seen /\ field' = field /\ excused' = excused
  BY DEF saveSettings
<1>2. SettingsShape /\ field \in [Fields -> Values] /\ excused \in BOOLEAN
  BY DEF SettingsInv, SettingsShape
<1>3. fs \in SUBSET Fields /\ fs \subseteq Here /\ (group # "rules" => fs = {f})
  BY <1>1, <1>2, HereIs
<1>4. group # "preferences" /\ "icon" \notin fs
  BY <1>1, <1>2, HereIs, TypingIs
<1> HIDE DEF fs
<1>5. PICK d \in ParcelsAre :
         /\ parcel[p] = NoParcel /\ d # NoParcel /\ parcel' = [parcel EXCEPT ![p] = d]
         /\ d.op = "save" /\ d.of = fs /\ d.before = seen /\ d.answer = "none" /\ \A g \in fs : d.data[g] = field[g]
         /\ unsent' = Dropped(fs)
  BY <1>1, <1>2, <1>3, PostIs
<1>6. unsent' \in [Fields -> Values \cup {Untyped}] /\ \A g \in Fields : unsent'[g] = IF g \in fs THEN Untyped ELSE unsent[g]
  BY <1>2, <1>3, <1>5, DroppedIs
<1>7. ParcelIs(d)
  BY <1>1, <1>2, <1>3, <1>4, <1>5 DEF ParcelIs
<1>8. Here \subseteq Fields
  BY <1>2, HereIs
<1> QED BY <1>1, <1>2, <1>3, <1>4, <1>5, <1>6, <1>7, <1>8, SendingKeeps

LEMMA ImagesKeep ==
  ASSUME SettingsInv, NEW p \in Parcels, NEW f \in {"photo", "logo"}, NEW v \in Values, SendsImage(p, f, v)
  PROVE  SettingsInv'
<1> DEFINE fs == {f}
           with == [seen EXCEPT ![f] = v]
<1>1. /\ f \in Here /\ Posts(p, "save", fs, with)
      /\ group' = group /\ kept' = kept /\ seen' = seen /\ field' = field /\ excused' = excused
  BY DEF SendsImage
<1>2. SettingsShape /\ field \in [Fields -> Values] /\ excused \in BOOLEAN /\ with \in [Fields -> Values]
  BY DEF SettingsInv, SettingsShape
<1> HIDE DEF with
<1>3. f \in fs /\ (\A g \in fs : g = f) /\ Here \subseteq Fields /\ fs \in SUBSET Fields /\ group \in {"profile", "tenant"}
  BY <1>1, <1>2, HereIs
<1> HIDE DEF fs
<1>9. Posts(p, "save", fs, with) /\ SettingsShape /\ with \in [Fields -> Values] /\ fs \in SUBSET Fields
  BY <1>1, <1>2, <1>3
<1>4. PICK d \in ParcelsAre :
         /\ parcel[p] = NoParcel /\ d # NoParcel /\ parcel' = [parcel EXCEPT ![p] = d]
         /\ d.op = "save" /\ d.of = fs /\ d.before = seen /\ d.answer = "none" /\ \A g \in fs : d.data[g] = with[g]
         /\ unsent' = Dropped(fs)
  BY ONLY <1>9, PostIs, p \in Parcels
<1>5. unsent' \in [Fields -> Values \cup {Untyped}] /\ \A g \in Fields : unsent'[g] = IF g \in fs THEN Untyped ELSE unsent[g]
  BY <1>2, <1>3, <1>4, DroppedIs
<1>6. ParcelIs(d)
  BY <1>1, <1>2, <1>3, <1>4 DEF ParcelIs, fs
<1>7. f \notin HasField
  BY DEF HasField
<1> QED BY <1>1, <1>2, <1>3, <1>4, <1>5, <1>6, <1>7, SendingKeeps

\* When neither an upload nor a removal is on its way, no icon waits, and the page
\* shows the one that is stored.
LEMMA NoIconWaits ==
  ASSUME SettingsShape, group = "tenant", ~Outstanding("save", "icon"), ~Outstanding("removal", "icon")
  PROVE  /\ \A q \in Parcels : ~Awaits(q, "icon")
         /\ SeenIsKept => seen["icon"] = kept["icon"]
<1>1. \A q \in Parcels : ~Awaits(q, "icon")
  <2> SUFFICES ASSUME NEW q \in Parcels, Awaits(q, "icon") PROVE FALSE
    OBVIOUS
  <2>1. parcel[q] # NoParcel /\ "icon" \in parcel[q].of
    BY DEF Awaits
  <2>2. parcel[q] \in ParcelsAre /\ ParcelIs(parcel[q])
    BY <2>1, ParcelKinds
  <2>3. parcel[q].op \in {"save", "removal"}
    BY <2>2 DEF ParcelsAre, ParcelIs
  <2> QED BY <2>1, <2>3 DEF Outstanding
<1>2. "icon" \in Here
  BY HereIs
<1> QED BY <1>1, <1>2 DEF SeenIsKept, IsWritten

LEMMA UploadingKeeps ==
  ASSUME SettingsInv, NEW p \in Parcels, NEW v \in Values, uploadIcon(p, v)
  PROVE  SettingsInv'
<1> DEFINE fs == {"icon"}
           with == [field EXCEPT !["icon"] = v]
<1>1. /\ group = "tenant" /\ ~Outstanding("save", "icon") /\ field' = with /\ Posts(p, "save", fs, with)
      /\ excused' = (excused \/ Outstanding("removal", "icon"))
      /\ group' = group /\ kept' = kept /\ seen' = seen
  BY DEF uploadIcon
<1>2. SettingsShape /\ (~excused => AllIsKept) /\ with \in [Fields -> Values] /\ \A g \in Fields : g # "icon" => with[g] = field[g]
  BY DEF SettingsInv, SettingsShape
<1> HIDE DEF with
<1>3. "icon" \in fs /\ (\A g \in fs : g = "icon") /\ Here \subseteq Fields /\ fs \in SUBSET Fields /\ "icon" \in Here
  BY <1>1, <1>2, HereIs
<1> HIDE DEF fs
<1>4. Posts(p, "save", fs, with) /\ SettingsShape /\ with \in [Fields -> Values] /\ fs \in SUBSET Fields
  BY <1>1, <1>2, <1>3
<1>5. PICK d \in ParcelsAre :
         /\ parcel[p] = NoParcel /\ d # NoParcel /\ parcel' = [parcel EXCEPT ![p] = d]
         /\ d.op = "save" /\ d.of = fs /\ d.before = seen /\ d.answer = "none" /\ \A g \in fs : d.data[g] = with[g]
         /\ unsent' = Dropped(fs)
  BY ONLY <1>4, PostIs, p \in Parcels
<1>6. unsent' \in [Fields -> Values \cup {Untyped}] /\ \A g \in Fields : unsent'[g] = IF g \in fs THEN Untyped ELSE unsent[g]
  BY <1>2, <1>3, <1>5, DroppedIs
<1>7. ParcelIs(d)
  BY <1>1, <1>2, <1>3, <1>5 DEF ParcelIs, fs
<1>8. excused' \in BOOLEAN /\ (~excused' => ~excused)
  BY <1>1, <1>2 DEF SettingsShape, Outstanding
<1>9. ~excused' => d.before["icon"] = kept["icon"] /\ \A q \in Parcels : ~Awaits(q, "icon")
  BY <1>1, <1>2, <1>5, NoIconWaits DEF AllIsKept
<1>10. \A f \in Here \cap HasField : unsent'[f] = Untyped =>
            (unsent[f] = Untyped /\ field'[f] = field[f]) \/ (d.op = "save" /\ f \in d.of /\ d.data[f] = field'[f])
  BY <1>1, <1>2, <1>3, <1>5, <1>6
<1>11. \A f \in Fields : unsent'[f] # Untyped => unsent'[f] = unsent[f] /\ field'[f] = field[f]
  BY <1>1, <1>2, <1>3, <1>6
<1> QED BY <1>1, <1>2, <1>5, <1>6, <1>7, <1>8, <1>9, <1>10, <1>11, SendingKeeps

LEMMA RemovingKeeps ==
  ASSUME SettingsInv, NEW p \in Parcels, removeIcon(p)
  PROVE  SettingsInv'
<1> DEFINE fs == {"icon"}
           with == [field EXCEPT !["icon"] = Default]
<1>1. /\ group = "tenant" /\ ~Outstanding("removal", "icon") /\ Posts(p, "removal", fs, with)
      /\ excused' = (excused \/ Outstanding("save", "icon"))
      /\ group' = group /\ kept' = kept /\ seen' = seen /\ field' = field
  BY DEF removeIcon
<1>2. SettingsShape /\ (~excused => AllIsKept) /\ with \in [Fields -> Values] /\ field \in [Fields -> Values]
  BY DEF SettingsInv, SettingsShape, Values, Default
<1> HIDE DEF with
<1>3. "icon" \in fs /\ (\A g \in fs : g = "icon") /\ Here \subseteq Fields /\ fs \in SUBSET Fields /\ "icon" \in Here
  BY <1>1, <1>2, HereIs
<1> HIDE DEF fs
<1>4. Posts(p, "removal", fs, with) /\ SettingsShape /\ with \in [Fields -> Values] /\ fs \in SUBSET Fields
  BY <1>1, <1>2, <1>3
<1>5. PICK d \in ParcelsAre :
         /\ parcel[p] = NoParcel /\ d # NoParcel /\ parcel' = [parcel EXCEPT ![p] = d]
         /\ d.op = "removal" /\ d.of = fs /\ d.before = seen /\ d.answer = "none" /\ \A g \in fs : d.data[g] = with[g]
         /\ unsent' = Dropped(fs)
  BY ONLY <1>4, PostIs, p \in Parcels
<1>6. unsent' \in [Fields -> Values \cup {Untyped}] /\ \A g \in Fields : unsent'[g] = IF g \in fs THEN Untyped ELSE unsent[g]
  BY <1>2, <1>3, <1>5, DroppedIs
<1>7. ParcelIs(d)
  BY <1>1, <1>2, <1>3, <1>5 DEF ParcelIs, fs
<1>8. excused' \in BOOLEAN /\ (~excused' => ~excused)
  BY <1>1, <1>2 DEF SettingsShape, Outstanding
<1>9. ~excused' => d.before["icon"] = kept["icon"] /\ \A q \in Parcels : ~Awaits(q, "icon")
  BY <1>1, <1>2, <1>5, NoIconWaits DEF AllIsKept
<1>10. unsent["icon"] = Untyped
  BY <1>2, <1>3, TypingIs DEF SettingsShape
<1>11. \A f \in Fields : unsent'[f] = unsent[f]
  BY <1>3, <1>6, <1>10
<1> QED BY <1>1, <1>2, <1>5, <1>6, <1>7, <1>8, <1>9, <1>11, <1>3, SendingKeeps

LEMMA ResettingKeeps ==
  ASSUME SettingsInv, NEW p \in Parcels, NEW f \in Fields, handleReset(p, f)
  PROVE  SettingsInv'
<1> DEFINE fs == {f}
           with == [field EXCEPT ![f] = Default]
<1>1. /\ group = "rules" /\ f \in Here /\ Posts(p, "reset", fs, with)
      /\ group' = group /\ kept' = kept /\ seen' = seen /\ field' = field /\ excused' = excused
  BY DEF handleReset
<1>2. SettingsShape /\ with \in [Fields -> Values] /\ field \in [Fields -> Values]
      /\ excused \in BOOLEAN /\ unsent \in [Fields -> Values \cup {Untyped}]
  BY DEF SettingsInv, SettingsShape, Values, Default
<1> HIDE DEF with
<1>3. fs \in SUBSET Fields /\ fs \subseteq Here /\ Here \subseteq Fields /\ "icon" \notin fs
  BY <1>1, <1>2, HereIs
<1> HIDE DEF fs
<1>4. Posts(p, "reset", fs, with) /\ SettingsShape /\ with \in [Fields -> Values] /\ fs \in SUBSET Fields
  BY <1>1, <1>2, <1>3
<1>5. PICK d \in ParcelsAre :
         /\ parcel[p] = NoParcel /\ d # NoParcel /\ parcel' = [parcel EXCEPT ![p] = d]
         /\ d.op = "reset" /\ d.of = fs /\ d.before = seen /\ d.answer = "none" /\ \A g \in fs : d.data[g] = with[g]
         /\ unsent' = unsent
  BY ONLY <1>4, PostIs, p \in Parcels
<1>6. ParcelIs(d)
  BY <1>1, <1>2, <1>3, <1>5 DEF ParcelIs
<1> QED BY <1>1, <1>2, <1>3, <1>5, <1>6, SendingKeeps

\* A toggle shows what it sends, and was alone in showing something else.
LEMMA TogglingKeeps ==
  ASSUME SettingsInv, NEW p \in Parcels, NEW f \in Fields, handleTogglePreference(p, f)
  PROVE  SettingsInv'
<1> DEFINE fs == {f}
           with == [seen EXCEPT ![f] = 1 - seen[f]]
<1>1. /\ group = "preferences" /\ f \in Here /\ seen' = with /\ Posts(p, "toggle", fs, with)
      /\ excused' = (excused \/ Outstanding("toggle", f))
      /\ group' = group /\ kept' = kept /\ field' = field
  BY DEF handleTogglePreference
<1>2. SettingsShape /\ (~excused => AllIsKept) /\ with \in [Fields -> Values]
      /\ \A g \in Fields : with[g] = IF g = f THEN 1 - seen[f] ELSE seen[g]
  BY DEF SettingsInv, SettingsShape, Values
<1> HIDE DEF with
<1>3. f \in fs /\ (\A g \in fs : g = f) /\ Here \subseteq Fields /\ fs \in SUBSET Fields /\ "icon" \notin Here /\ Here' = Here
  BY <1>1, <1>2, HereIs DEF Here
<1> HIDE DEF fs
<1>4. Posts(p, "toggle", fs, with) /\ SettingsShape /\ with \in [Fields -> Values] /\ fs \in SUBSET Fields
  BY <1>1, <1>2, <1>3
<1>5. PICK d \in ParcelsAre :
         /\ parcel[p] = NoParcel /\ d # NoParcel /\ parcel' = [parcel EXCEPT ![p] = d]
         /\ d.op = "toggle" /\ d.of = fs /\ d.before = seen /\ d.answer = "none" /\ \A g \in fs : d.data[g] = with[g]
         /\ unsent' = Dropped(fs)
  BY ONLY <1>4, PostIs, p \in Parcels
<1>6. unsent' \in [Fields -> Values \cup {Untyped}] /\ \A g \in Fields : unsent'[g] = IF g \in fs THEN Untyped ELSE unsent[g]
  BY <1>2, <1>3, <1>5, DroppedIs
<1>7. ParcelIs(d)
  BY <1>1, <1>2, <1>3, <1>5 DEF ParcelIs, fs
<1>8. excused' \in BOOLEAN /\ (~excused' => ~excused /\ ~Outstanding("toggle", f))
  BY <1>1, <1>2 DEF SettingsShape, Outstanding
<1>9. SettingsShape'
  <2>1. \A g \in Fields : unsent'[g] # Untyped => g \in Typing /\ field'[g] = unsent'[g]
    BY <1>1, <1>2, <1>6 DEF SettingsShape
  <2>2. field' \in [Fields -> Values] /\ kept' \in [Fields -> Values] /\ d \in ParcelsAre \cup {NoParcel}
    BY <1>1, <1>2, <1>5 DEF SettingsShape
  <2> QED BY <1>1, <1>2, <1>5, <1>6, <1>7, <1>8, <2>1, <2>2, ShapeIs
<1>10. parcel'[p] = d /\ \A q \in Parcels \ {p} : parcel'[q] = parcel[q]
  BY <1>2, <1>5, ParcelSet
<1>11. \A g : (Awaits(p, g)' <=> g \in fs) /\ ~Awaits(p, g)
  BY <1>5, <1>10 DEF Awaits
<1>12. \A q \in Parcels \ {p} : \A g : Awaits(q, g)' <=> Awaits(q, g)
  BY <1>10, OthersAreThere
<1>13. ASSUME ~excused' PROVE AllIsKept'
  <2>1. AllIsKept /\ ~Outstanding("toggle", f)
    BY <1>2, <1>8, <1>13
  <2>2. SeenIsKept'
    BY <1>1 DEF SeenIsKept
  <2>3. FieldIsKept'
    <3>1. Here \cap HasField = {}
      BY <1>1, <1>2, HereIs DEF HasField
    <3> QED BY <1>3, <3>1 DEF FieldIsKept
  <2>4. TogglesAreKept'
    <3> SUFFICES ASSUME NEW g \in Here
                 PROVE  /\ seen'[g] = kept'[g] \/ \E q \in Parcels : Awaits(q, g)'
                        /\ \A q \in Parcels : Awaits(q, g)' =>
                             /\ parcel'[q].data[g] = seen'[g]
                             /\ kept'[g] = IF parcel'[q].answer = "ok" THEN seen'[g] ELSE 1 - seen'[g]
                             /\ \A r \in Parcels : Awaits(r, g)' => r = q
      BY <1>1, <1>3 DEF TogglesAreKept
    <3>1. /\ seen[g] = kept[g] \/ \E q \in Parcels : Awaits(q, g)
          /\ \A q \in Parcels : Awaits(q, g) =>
               /\ parcel[q].data[g] = seen[g]
               /\ kept[g] = IF parcel[q].answer = "ok" THEN seen[g] ELSE 1 - seen[g]
               /\ \A r \in Parcels : Awaits(r, g) => r = q
      BY <1>1, <2>1 DEF AllIsKept, TogglesAreKept
    <3>2. CASE g = f
      <4>1. \A q \in Parcels : ~Awaits(q, f)
        <5> SUFFICES ASSUME NEW q \in Parcels, Awaits(q, f) PROVE FALSE
          OBVIOUS
        <5>1. parcel[q] # NoParcel /\ f \in parcel[q].of
          BY DEF Awaits
        <5>2. parcel[q].op = "toggle"
          BY <1>1, <1>2, <5>1, ParcelKinds DEF ParcelIs
        <5> QED BY <2>1, <5>1, <5>2 DEF Outstanding
      <4>2. seen[f] = kept[f] /\ seen[f] \in {0, 1}
        BY <1>2, <3>1, <3>2, <4>1 DEF SettingsShape, Values
      <4>3. seen'[f] = 1 - seen[f] /\ d.data[f] = seen'[f]
        BY <1>1, <1>2, <1>3, <1>5
      <4>4. kept'[f] = 1 - seen'[f]
        BY <1>1, <4>2, <4>3
      <4>5. \A q \in Parcels : Awaits(q, f)' => q = p
        BY <1>12, <4>1
      <4> QED BY <1>3, <1>5, <1>10, <1>11, <3>2, <4>3, <4>4, <4>5
    <3>3. CASE g # f
      <4>1. seen'[g] = seen[g] /\ kept'[g] = kept[g] /\ ~Awaits(p, g)'
        BY <1>1, <1>2, <1>3, <1>11, <3>3
      <4>2. \A q \in Parcels : Awaits(q, g)' => q # p /\ Awaits(q, g) /\ parcel'[q] = parcel[q]
        BY <1>10, <1>12, <4>1
      <4>3. \A q \in Parcels : Awaits(q, g) => Awaits(q, g)'
        BY <1>11, <1>12
      <4> QED BY <3>1, <4>1, <4>2, <4>3
    <3> QED BY <3>2, <3>3
  <2>5. IconIsKept'
    <3>1. \A q \in Parcels : ~Awaits(q, "icon")'
      <4>1. \A q \in Parcels : Awaits(q, "icon")' => "icon" \in Here
        BY <1>3, <1>9, ParcelKinds DEF Awaits, SettingsShape, ParcelIs
      <4> QED BY <1>3, <4>1
    <3> QED BY <3>1 DEF IconIsKept
  <2> QED BY <2>2, <2>3, <2>4, <2>5 DEF AllIsKept
<1> QED BY <1>9, <1>13 DEF SettingsInv

LEMMA SettingsStart == SettingsInit => SettingsInv
<1> SUFFICES ASSUME SettingsInit PROVE SettingsInv
  OBVIOUS
<1>1. \A p \in Parcels : parcel[p] = NoParcel /\ \A f : ~Awaits(p, f)
  BY DEF SettingsInit, Awaits
<1>2. kept \in [Fields -> Values] /\ seen = kept /\ field = kept
  BY DEF SettingsInit, Values, Default
<1>3. SettingsShape
  BY <1>1, <1>2 DEF SettingsInit, SettingsShape
<1>4. Here \subseteq Fields
  BY <1>3, HereIs
<1>5. AllIsKept
  BY <1>1, <1>2, <1>4 DEF AllIsKept, SeenIsKept, FieldIsKept, TogglesAreKept, IconIsKept
<1> QED BY <1>3, <1>5 DEF SettingsInv

LEMMA SettingsStay ==
  ASSUME SettingsInv, UNCHANGED settingVars
  PROVE  SettingsInv'
BY DEF SettingsInv, settingVars, SettingsShape, ParcelIs, Here, AllIsKept, SeenIsKept, FieldIsKept, TogglesAreKept, IconIsKept,
       IsWritten, Carries, Awaits

\* Every page of settings keeps, over any number of calls on their way at once: what
\* it shows is stored, typed, or carried by a call that brings it there or back
\* (page.tsx of the settings, `saveSettings`, `uploadIcon`, `handleTogglePreference`).
THEOREM SettingsInvariant == SettingsSpec => []SettingsInv
<1>1. SettingsInv /\ [SettingsNext]_settingVars => SettingsInv'
  <2> SUFFICES ASSUME SettingsInv, [SettingsNext]_settingVars PROVE SettingsInv'
    OBVIOUS
  <2>1. ASSUME NEW f \in Fields, NEW v \in Values, handleFieldChange(f, v) PROVE SettingsInv'
    BY <2>1, TypingKeeps
  <2>2. CASE handleResetProfileForm
    BY <2>2, TakingBackKeeps
  <2>3. ASSUME NEW p \in Parcels, NEW f \in Fields, saveSettings(p, f) \/ handleTogglePreference(p, f) \/ handleReset(p, f) PROVE SettingsInv'
    BY <2>3, SavingKeeps, TogglingKeeps, ResettingKeeps
  <2>4. ASSUME NEW p \in Parcels, NEW v \in Values, handlePhoto(p, v) \/ handleLogo(p, v) PROVE SettingsInv'
    BY <2>4, ImagesKeep DEF handlePhoto, handleLogo
  <2>5. ASSUME NEW p \in Parcels, NEW v \in Values, uploadIcon(p, v) PROVE SettingsInv'
    BY <2>5, UploadingKeeps
  <2>6. ASSUME NEW p \in Parcels, removeIcon(p) \/ writeSettings(p) \/ refuseSettings(p) \/ settingsAnswered(p) \/ settingsFailed(p) PROVE SettingsInv'
    BY <2>6, RemovingKeeps, WritingKeeps, RefusingKeeps, AnsweringKeeps, FailingKeeps
  <2>7. ASSUME NEW loads \in BOOLEAN, openSettings(loads) PROVE SettingsInv'
    BY <2>7, OpeningKeeps
  <2>8. ASSUME NEW f \in Fields, othersSet(f) PROVE SettingsInv'
    BY <2>8, OthersSettingKeeps
  <2>9. CASE UNCHANGED settingVars
    BY <2>9, SettingsStay
  <2> QED BY <2>1, <2>2, <2>3, <2>4, <2>5, <2>6, <2>7, <2>8, <2>9 DEF SettingsNext
<1> QED BY <1>1, SettingsStart, PTL DEF SettingsSpec

\* Once nothing is awaited, a page of settings shows what is stored, and in each
\* field what was typed and not yet sent, whatever came back in which order
\* (page.tsx of the settings and of the notices, liturgia-escalas-settings.tsx).
THEOREM SettingsAreShown == SettingsSpec => []SettingsTellTheTruth
<1>1. SettingsInv => SettingsTellTheTruth
  <2> SUFFICES ASSUME SettingsInv PROVE SettingsTellTheTruth
    OBVIOUS
  <2>1. SettingsShape /\ (~excused => AllIsKept) /\ Here \subseteq Fields
    BY HereIs DEF SettingsInv
  <2>2. \A f \in Here : unsent[f] # Untyped => field[f] = unsent[f]
    BY <2>1 DEF SettingsShape
  <2>3. ASSUME ~excused, \A p \in Parcels : parcel[p] = NoParcel, NEW f \in Here
        PROVE  /\ f \notin Typing \/ group # "rules" => seen[f] = kept[f]
               /\ f \in HasField /\ unsent[f] = Untyped => field[f] = kept[f]
    <3>1. AllIsKept /\ \A p \in Parcels : ~Awaits(p, f)
      BY <2>1, <2>3 DEF Awaits
    <3>2. f \in HasField /\ unsent[f] = Untyped => field[f] = kept[f]
      BY <3>1 DEF AllIsKept, FieldIsKept, Carries
    <3>3. group = "preferences" => seen[f] = kept[f]
      BY <3>1 DEF AllIsKept, TogglesAreKept
    <3>4. group \notin {"rules", "preferences"} => seen[f] = kept[f]
      BY <3>1 DEF AllIsKept, SeenIsKept, IsWritten
    <3>5. group = "rules" => f \in Typing
      BY <2>1, HereIs, TypingIs
    <3> QED BY <3>2, <3>3, <3>4, <3>5
  <2> QED BY <2>2, <2>3 DEF SettingsTellTheTruth
<1> QED BY <1>1, SettingsInvariant, PTL

-----------------------------------------------------------------------------
\* The dialog of a ministry.

\* What the list was loaded with is on it, or a call carries it; a list that holds
\* what is not of the ministry is excused, and so is what a call takes from it.
ListHoldsWhatItRelies == /\ ~mixed => relied \subseteq typed
                         /\ dialog = NoMinistry => relied = {}
CallCarries(c) == /\ c # NoErrand /\ Saves(c.op) /\ ~c.mixed => c.relied \subseteq c.names
                  /\ c.op = "rename" => c.as \in Names
DialogInv == DialogTypeOK /\ ListHoldsWhatItRelies /\ \A h \in Errands : CallCarries(errand[h])

LEMMA NoErrandIs == NoErrand \notin Errand
BY DEF NoErrand, Errand

LEMMA OneErrand ==
  ASSUME errand \in [Errands -> Errand \cup {NoErrand}], NEW h \in Errands, NEW c \in Errand \cup {NoErrand},
         errand' = [errand EXCEPT ![h] = c]
  PROVE  errand' \in [Errands -> Errand \cup {NoErrand}] /\ errand'[h] = c /\ \A k \in Errands \ {h} : errand'[k] = errand[k]
OBVIOUS

\* One errand changes to what carries what it relies on, and the screen stays.
LEMMA ErrandKeeps ==
  ASSUME DialogInv, NEW h \in Errands, NEW c \in Errand \cup {NoErrand}, errand' = [errand EXCEPT ![h] = c], CallCarries(c),
         positions' \in [Ministries -> SUBSET Names], employed' \in [Ministries -> SUBSET Names],
         dialog' \in Ministries \cup {NoMinistry}, typed' \in SUBSET Names, relied' \in SUBSET Names,
         removing' \in Names \cup {"nothing"}, renaming' \in Names \cup {"nothing"},
         waiting' \subseteq {"save", "remove", "rename"}, mixed' \in BOOLEAN, moves' \in 0..MaxMoves,
         ListHoldsWhatItRelies'
  PROVE  DialogInv'
<1>1. errand' \in [Errands -> Errand \cup {NoErrand}] /\ errand'[h] = c /\ \A k \in Errands \ {h} : errand'[k] = errand[k]
  BY OneErrand DEF DialogInv, DialogTypeOK
<1>2. \A k \in Errands : CallCarries(errand'[k])
  BY <1>1 DEF DialogInv
<1>3. \A k \in Errands : CallCarries(errand[k])'
  BY <1>2 DEF CallCarries
<1> QED BY <1>1, <1>3 DEF DialogInv, DialogTypeOK

\* Nothing of the errands changes.
LEMMA ScreenKeeps ==
  ASSUME DialogInv, UNCHANGED <<employed, errand>>, positions' \in [Ministries -> SUBSET Names],
         dialog' \in Ministries \cup {NoMinistry}, typed' \in SUBSET Names, relied' \in SUBSET Names,
         removing' \in Names \cup {"nothing"}, renaming' \in Names \cup {"nothing"},
         waiting' \subseteq {"save", "remove", "rename"}, mixed' \in BOOLEAN, moves' \in 0..MaxMoves,
         ListHoldsWhatItRelies'
  PROVE  DialogInv'
<1>1. \A k \in Errands : CallCarries(errand[k])'
  BY DEF DialogInv, CallCarries
<1> QED BY <1>1 DEF DialogInv, DialogTypeOK

\* What the server does to a call leaves what it carries.
LEMMA StepIs ==
  ASSUME NEW c \in Errand, NEW s \in {"asked", "pruned", "answered", "failed"}
  PROVE  LET d == [c EXCEPT !.step = s] IN
         d \in Errand /\ d.step = s /\ d.op = c.op /\ d.of = c.of /\ d.names = c.names /\ d.as = c.as /\ d.relied = c.relied /\ d.mixed = c.mixed
         /\ (CallCarries(c) => CallCarries(d))
<1> DEFINE d == [c EXCEPT !.step = s]
<1>1. d \in Errand /\ d.step = s /\ d.op = c.op /\ d.of = c.of /\ d.names = c.names /\ d.as = c.as /\ d.relied = c.relied /\ d.mixed = c.mixed
  BY DEF Errand
<1> HIDE DEF d
<1>2. CallCarries(c) => CallCarries(d)
  BY <1>1, NoErrandIs DEF CallCarries
<1> QED BY <1>1, <1>2 DEF d

LEMMA TypesAre ==
  ASSUME DialogInv
  PROVE  /\ positions \in [Ministries -> SUBSET Names] /\ employed \in [Ministries -> SUBSET Names]
         /\ dialog \in Ministries \cup {NoMinistry} /\ typed \in SUBSET Names /\ relied \in SUBSET Names
         /\ removing \in Names \cup {"nothing"} /\ renaming \in Names \cup {"nothing"}
         /\ waiting \subseteq {"save", "remove", "rename"} /\ mixed \in BOOLEAN /\ moves \in 0..MaxMoves
         /\ errand \in [Errands -> Errand \cup {NoErrand}]
         /\ \A h \in Errands : errand[h] # NoErrand => errand[h] \in Errand
         /\ \A h \in Errands : CallCarries(errand[h])
         /\ ListHoldsWhatItRelies
BY DEF DialogInv, DialogTypeOK

LEMMA ErrandIs ==
  ASSUME NEW c \in Errand
  PROVE  /\ c.of \in Ministries /\ c.names \in SUBSET Names /\ c.subject \in Names \cup {"nothing"} /\ c.as \in Names \cup {"nothing"}
         /\ c.relied \in SUBSET Names /\ c.mixed \in BOOLEAN /\ c.op \in {"save", "remove", "rename", "member", "details"}
         /\ c.step \in {"asked", "pruned", "answered", "failed"} /\ c.thenClose \in BOOLEAN
BY DEF Errand

LEMMA MinistryUpdatesKeep ==
  ASSUME DialogInv, NEW h \in Errands, updateMinisterio(h)
  PROVE  DialogInv'
<1> DEFINE c == errand[h]
<1>1. c # NoErrand /\ UNCHANGED <<employed, screen, moves>>
  BY DEF updateMinisterio
<1>2. c \in Errand /\ CallCarries(c) /\ c.names \in SUBSET Names /\ c.of \in Ministries /\ positions \in [Ministries -> SUBSET Names]
  BY <1>1, TypesAre, ErrandIs
<1>3. PICK s \in {"pruned", "answered", "failed"} : errand' = [errand EXCEPT ![h].step = s]
  BY DEF updateMinisterio
<1>4. errand' = [errand EXCEPT ![h] = [c EXCEPT !.step = s]] /\ [c EXCEPT !.step = s] \in Errand /\ CallCarries([c EXCEPT !.step = s])
  BY <1>2, <1>3, StepIs, TypesAre
<1>5. Pruned(c.of, c.names) \in SUBSET Names
  BY <1>2 DEF Pruned
<1>6. positions' \in [Ministries -> SUBSET Names]
  BY <1>2, <1>5 DEF updateMinisterio
<1>7. ListHoldsWhatItRelies'
  BY <1>1, TypesAre DEF screen, ListHoldsWhatItRelies
<1> QED BY <1>1, <1>4, <1>6, <1>7, TypesAre, ErrandKeeps DEF screen

LEMMA RenamingServedKeeps ==
  ASSUME DialogInv, NEW h \in Errands, updateFuncaoConfiguracao(h)
  PROVE  DialogInv'
<1> DEFINE c == errand[h]
<1>1. c # NoErrand /\ c.subject \in positions[c.of] /\ UNCHANGED <<screen, moves>>
  BY DEF updateFuncaoConfiguracao, Underway
<1>2. c \in Errand /\ CallCarries(c) /\ c.of \in Ministries /\ c.subject \in Names \cup {"nothing"} /\ c.as \in Names \cup {"nothing"}
      /\ positions \in [Ministries -> SUBSET Names] /\ employed \in [Ministries -> SUBSET Names]
  BY <1>1, TypesAre, ErrandIs
<1>3. PICK s \in {"answered", "failed"} : errand' = [errand EXCEPT ![h].step = s]
  BY DEF updateFuncaoConfiguracao
<1>4. errand' = [errand EXCEPT ![h] = [c EXCEPT !.step = s]] /\ [c EXCEPT !.step = s] \in Errand /\ CallCarries([c EXCEPT !.step = s])
  BY <1>2, <1>3, StepIs, TypesAre
<1>5. c.as \in Names
  BY <1>2 DEF updateFuncaoConfiguracao, CallCarries
<1>6. positions' \in [Ministries -> SUBSET Names] /\ employed' \in [Ministries -> SUBSET Names]
  BY <1>2, <1>5 DEF updateFuncaoConfiguracao
<1>7. ListHoldsWhatItRelies'
  BY <1>1, TypesAre DEF screen, ListHoldsWhatItRelies
<1> QED BY <1>1, <1>4, <1>6, <1>7, TypesAre, ErrandKeeps DEF screen

LEMMA ServingKeeps ==
  ASSUME DialogInv, NEW h \in Errands, serveErrand(h) \/ failErrand(h)
  PROVE  DialogInv'
<1> DEFINE c == errand[h]
           d == [c EXCEPT !.step = "answered", !.names = positions[c.of]]
           e == [c EXCEPT !.step = "failed"]
<1>1. c # NoErrand /\ UNCHANGED <<tablesOfDialog, screen, moves>>
  BY DEF serveErrand, failErrand, Underway
<1>2. c \in Errand /\ CallCarries(c) /\ c.of \in Ministries /\ positions \in [Ministries -> SUBSET Names]
  BY <1>1, TypesAre, ErrandIs
<1>3. ListHoldsWhatItRelies'
  BY <1>1, TypesAre DEF screen, ListHoldsWhatItRelies
<1>4. CASE serveErrand(h)
  <2>1. errand' = [errand EXCEPT ![h] = d] /\ c.op \in {"member", "details"}
    BY <1>4, TypesAre DEF serveErrand
  <2>2. d \in Errand /\ d.op = c.op
    BY <1>2 DEF Errand
  <2> HIDE DEF d
  <2>3. CallCarries(d)
    BY <2>1, <2>2 DEF CallCarries, Saves
  <2> QED BY <1>1, <1>3, <2>1, <2>2, <2>3, TypesAre, ErrandKeeps DEF screen, tablesOfDialog
<1>5. CASE failErrand(h)
  <2>1. errand' = [errand EXCEPT ![h] = e] /\ e \in Errand /\ CallCarries(e)
    BY <1>2, <1>5, StepIs, TypesAre DEF failErrand
  <2> QED BY <1>1, <1>3, <2>1, TypesAre, ErrandKeeps DEF screen, tablesOfDialog
<1> QED BY <1>4, <1>5

LEMMA MovesAre ==
  ASSUME DialogInv, moves < MaxMoves, moves' = moves + 1
  PROVE  moves' \in 0..MaxMoves
BY TypesAre, DialogAssumption

LEMMA OthersAddingKeeps ==
  ASSUME DialogInv, NEW m \in Ministries, NEW f \in Names, othersAdd(m, f)
  PROVE  DialogInv'
<1>1. positions' \in [Ministries -> SUBSET Names] /\ moves' \in 0..MaxMoves /\ UNCHANGED <<employed, screen, errand>>
  BY TypesAre, MovesAre DEF othersAdd
<1>2. ListHoldsWhatItRelies'
  BY <1>1, TypesAre DEF screen, ListHoldsWhatItRelies
<1> QED BY <1>1, <1>2, TypesAre, ScreenKeeps DEF screen

\* What a call is sent with: what the list relies on, unless a position is removed.
LEMMA DialogCallIs ==
  ASSUME DialogInv, NEW op \in {"save", "remove", "rename", "member", "details"}, NEW m \in Ministries, NEW names \in SUBSET Names,
         NEW subject \in Names \cup {"nothing"}, NEW as \in Names \cup {"nothing"}
  PROVE  LET c == Call(op, m, names, subject, as) IN
         /\ c \in Errand /\ c.op = op /\ c.names = names /\ c.as = as
         /\ Saves(op) => c.relied = relied /\ c.mixed = mixed
<1>1. relied \in SUBSET Names /\ mixed \in BOOLEAN
  BY TypesAre
<1> DEFINE r == IF Saves(op) THEN relied ELSE {}
           x == Saves(op) /\ mixed
           y == op = "save"
<1>2. r \in SUBSET Names /\ x \in BOOLEAN /\ y \in BOOLEAN /\ (Saves(op) => r = relied /\ x = mixed)
  BY <1>1
<1>3. Call(op, m, names, subject, as) = [op |-> op, of |-> m, names |-> names, subject |-> subject, as |-> as, step |-> "asked",
                                         thenClose |-> y, relied |-> r, mixed |-> x]
  BY DEF Call
<1> DEFINE c == Call(op, m, names, subject, as)
<1> HIDE DEF r, x, y, c
<1>4. c = [op |-> op, of |-> m, names |-> names, subject |-> subject, as |-> as, step |-> "asked",
           thenClose |-> y, relied |-> r, mixed |-> x]
  BY <1>3 DEF c
<1>5. c \in Errand
  BY <1>2, <1>4 DEF Errand
<1>6. c.op = op /\ c.names = names /\ c.as = as /\ c.relied = r /\ c.mixed = x
  BY <1>4
<1> QED BY <1>2, <1>5, <1>6 DEF c

LEMMA OpeningDialogKeeps ==
  ASSUME DialogInv, NEW h \in Errands, NEW m \in Ministries, openMinisterio(h, m)
  PROVE  DialogInv'
<1> DEFINE c == Call("details", m, {}, "nothing", "nothing")
<1>1. c \in Errand /\ c.op = "details"
  BY DialogCallIs
<1>2. errand' = [errand EXCEPT ![h] = c] /\ relied' = {} /\ mixed' = FALSE /\ dialog' = m /\ moves' \in 0..MaxMoves
      /\ UNCHANGED <<tablesOfDialog, typed, removing, renaming, waiting>>
  BY MovesAre DEF openMinisterio, Move, Sends
<1> HIDE DEF c
<1>3. CallCarries(c)
  BY <1>1 DEF CallCarries, Saves
<1>4. ListHoldsWhatItRelies'
  BY <1>2 DEF ListHoldsWhatItRelies
<1> QED BY <1>1, <1>2, <1>3, <1>4, TypesAre, ErrandKeeps DEF tablesOfDialog

LEMMA DialogGesturesKeep ==
  ASSUME DialogInv, closeDialogs \/ cancelConfirm \/ \E f \in Names : handleAddFuncao(f) \/ askRemoval(f) \/ handleOpenConfigureFuncao(f)
  PROVE  DialogInv'
<1>1. CASE closeDialogs
  <2>1. ListHoldsWhatItRelies'
    BY <1>1 DEF closeDialogs, ListHoldsWhatItRelies
  <2> QED BY <1>1, <2>1, TypesAre, ScreenKeeps DEF closeDialogs, tablesOfDialog
<1>2. CASE cancelConfirm
  <2>1. ListHoldsWhatItRelies'
    BY <1>2, TypesAre DEF cancelConfirm, ListHoldsWhatItRelies
  <2> QED BY <1>2, <2>1, TypesAre, ScreenKeeps DEF cancelConfirm, tablesOfDialog
<1>3. ASSUME NEW f \in Names, handleAddFuncao(f) PROVE DialogInv'
  <2>1. ListHoldsWhatItRelies'
    BY <1>3, TypesAre DEF handleAddFuncao, ListHoldsWhatItRelies
  <2>2. moves' \in 0..MaxMoves /\ typed' \in SUBSET Names
    BY <1>3, TypesAre, MovesAre DEF handleAddFuncao, Move
  <2> QED BY <1>3, <2>1, <2>2, TypesAre, ScreenKeeps DEF handleAddFuncao, tablesOfDialog
<1>4. ASSUME NEW f \in Names, askRemoval(f) \/ handleOpenConfigureFuncao(f) PROVE DialogInv'
  <2>1. ListHoldsWhatItRelies'
    BY <1>4, TypesAre DEF askRemoval, handleOpenConfigureFuncao, ListHoldsWhatItRelies
  <2>2. removing' \in Names \cup {"nothing"} /\ renaming' \in Names \cup {"nothing"}
    BY <1>4, TypesAre DEF askRemoval, handleOpenConfigureFuncao
  <2> QED BY <1>4, <2>1, <2>2, TypesAre, ScreenKeeps DEF askRemoval, handleOpenConfigureFuncao, tablesOfDialog
<1> QED BY <1>1, <1>2, <1>3, <1>4

LEMMA SubmittingKeeps ==
  ASSUME DialogInv, NEW h \in Errands, NEW op \in {"save", "remove", "rename"}, NEW c \in Errand, Submits(h, op, c), CallCarries(c)
  PROVE  DialogInv'
<1>1. errand' = [errand EXCEPT ![h] = c] /\ moves' \in 0..MaxMoves /\ waiting' \subseteq {"save", "remove", "rename"}
      /\ UNCHANGED <<tablesOfDialog, dialog, typed, removing, renaming, relied, mixed>>
  BY TypesAre, MovesAre DEF Submits, Move, Sends
<1>2. ListHoldsWhatItRelies'
  BY <1>1, TypesAre DEF ListHoldsWhatItRelies
<1> QED BY <1>1, <1>2, TypesAre, ErrandKeeps DEF tablesOfDialog

LEMMA SavingPositionsKeeps ==
  ASSUME DialogInv, NEW h \in Errands, handleSaveFuncoes(h)
  PROVE  DialogInv'
<1> DEFINE c == Call("save", dialog, typed, "nothing", "nothing")
<1>1. dialog \in Ministries /\ Submits(h, "save", c)
  BY DEF handleSaveFuncoes, IsEdited
<1>2. c \in Errand /\ c.op = "save" /\ c.names = typed /\ c.relied = relied /\ c.mixed = mixed
  BY <1>1, DialogCallIs, TypesAre DEF Saves
<1> HIDE DEF c
<1>3. CallCarries(c)
  BY <1>2, TypesAre DEF CallCarries, ListHoldsWhatItRelies
<1> QED BY <1>1, <1>2, <1>3, SubmittingKeeps

LEMMA RemovingPositionKeeps ==
  ASSUME DialogInv, NEW h \in Errands, confirmDeleteFuncao(h)
  PROVE  DialogInv'
<1> DEFINE c == Call("remove", dialog, typed \ {removing}, removing, "nothing")
           d == [c EXCEPT !.relied = @ \ {removing}]
<1>1. dialog \in Ministries /\ Submits(h, "remove", d)
  BY DEF confirmDeleteFuncao
<1>2. c \in Errand /\ c.op = "remove" /\ c.names = typed \ {removing} /\ c.relied = relied /\ c.mixed = mixed
  BY <1>1, DialogCallIs, TypesAre DEF Saves
<1> HIDE DEF c
<1>3. d \in Errand /\ d.op = "remove" /\ d.names = typed \ {removing} /\ d.relied = relied \ {removing} /\ d.mixed = mixed
  BY <1>2 DEF Errand
<1> HIDE DEF d
<1>4. CallCarries(d)
  BY <1>3, TypesAre DEF CallCarries, ListHoldsWhatItRelies
<1> QED BY <1>1, <1>3, <1>4, SubmittingKeeps

LEMMA RenamingPositionKeeps ==
  ASSUME DialogInv, NEW h \in Errands, NEW name \in Names, handleSaveConfiguringFuncao(h, name)
  PROVE  DialogInv'
<1> DEFINE c == Call("rename", dialog, {}, renaming, name)
<1>1. dialog \in Ministries /\ Submits(h, "rename", c)
  BY DEF handleSaveConfiguringFuncao
<1>2. c \in Errand /\ c.op = "rename" /\ c.as = name
  BY <1>1, DialogCallIs, TypesAre
<1> HIDE DEF c
<1>3. CallCarries(c)
  BY <1>2 DEF CallCarries, Saves
<1> QED BY <1>1, <1>2, <1>3, SubmittingKeeps

LEMMA ChangingMemberKeeps ==
  ASSUME DialogInv, NEW h \in Errands, changeMember(h)
  PROVE  DialogInv'
<1> DEFINE c == Call("member", dialog, {}, "nothing", "nothing")
<1>1. dialog \in Ministries /\ errand' = [errand EXCEPT ![h] = c] /\ moves' \in 0..MaxMoves /\ UNCHANGED <<tablesOfDialog, screen>>
  BY MovesAre DEF changeMember, IsEdited, Move, Sends
<1>2. c \in Errand /\ c.op = "member"
  BY <1>1, DialogCallIs, TypesAre
<1> HIDE DEF c
<1>3. CallCarries(c)
  BY <1>2 DEF CallCarries, Saves
<1>4. ListHoldsWhatItRelies'
  BY <1>1, TypesAre DEF ListHoldsWhatItRelies, screen
<1> QED BY <1>1, <1>2, <1>3, <1>4, TypesAre, ErrandKeeps DEF tablesOfDialog, screen

\* The answers.
LEMMA EndsAre ==
  ASSUME DialogInv
  PROVE  /\ NoErrand \in Errand \cup {NoErrand} /\ CallCarries(NoErrand)
         /\ \A c : Enables(c) => waiting' \subseteq {"save", "remove", "rename"}
<1>1. CallCarries(NoErrand)
  BY DEF CallCarries, NoErrand
<1>2. \A c : Enables(c) => waiting' \subseteq waiting
  BY DEF Enables
<1> QED BY <1>1, <1>2, TypesAre

LEMMA ErrandFailingKeeps ==
  ASSUME DialogInv, NEW h \in Errands, errandFailed(h)
  PROVE  DialogInv'
<1>1. errand' = [errand EXCEPT ![h] = NoErrand] /\ waiting' \subseteq {"save", "remove", "rename"}
      /\ UNCHANGED <<tablesOfDialog, dialog, typed, removing, renaming, moves, relied, mixed>>
  BY EndsAre DEF errandFailed, IsOver
<1>2. ListHoldsWhatItRelies'
  BY <1>1, TypesAre DEF ListHoldsWhatItRelies
<1> QED BY <1>1, <1>2, EndsAre, TypesAre, ErrandKeeps DEF tablesOfDialog

LEMMA DetailsComeBack ==
  ASSUME DialogInv, NEW h \in Errands, detailsLoaded(h)
  PROVE  DialogInv'
<1> DEFINE c == errand[h]
           ok == c.step = "answered"
           closes == c.thenClose /\ dialog # NoMinistry
<1>1. /\ errand' = [errand EXCEPT ![h] = NoErrand] /\ waiting' \subseteq {"save", "remove", "rename"} /\ c # NoErrand
      /\ typed' = IF ok THEN c.names ELSE typed
      /\ dialog' = IF closes THEN NoMinistry ELSE dialog
      /\ relied' = IF closes THEN {} ELSE IF ok /\ dialog = c.of THEN c.names ELSE relied
      /\ mixed' = IF closes THEN FALSE ELSE IF ok /\ dialog \in Ministries THEN dialog # c.of ELSE mixed
      /\ UNCHANGED <<tablesOfDialog, removing, renaming, moves>>
  BY EndsAre DEF detailsLoaded, IsOver, Filled
<1>2. c \in Errand /\ c.names \in SUBSET Names /\ c.of \in Ministries
  BY <1>1, TypesAre, ErrandIs
<1> HIDE DEF c, ok, closes
<1>3. typed' \in SUBSET Names /\ relied' \in SUBSET Names /\ mixed' \in BOOLEAN /\ dialog' \in Ministries \cup {NoMinistry}
  BY <1>1, <1>2, TypesAre
<1>4. ListHoldsWhatItRelies'
  BY <1>1, <1>2, TypesAre, DialogAssumption DEF ListHoldsWhatItRelies
<1> QED BY <1>1, <1>3, <1>4, EndsAre, TypesAre, ErrandKeeps DEF tablesOfDialog

LEMMA ErrandServedKeeps ==
  ASSUME DialogInv, NEW h \in Errands, errandServed(h)
  PROVE  DialogInv'
<1> DEFINE c == errand[h]
           d == [c EXCEPT !.op = "details", !.step = "asked", !.names = {}, !.relied = {}, !.mixed = FALSE]
<1>1. c # NoErrand /\ c.op # "details" /\ ThenLoads(h) /\ UNCHANGED <<tablesOfDialog, dialog, waiting, moves>>
  BY DEF errandServed, Underway
<1>2. c \in Errand /\ CallCarries(c) /\ c.names \in SUBSET Names /\ c.relied \in SUBSET Names /\ c.mixed \in BOOLEAN
      /\ c.subject \in Names \cup {"nothing"} /\ c.as \in Names \cup {"nothing"}
  BY <1>1, TypesAre, ErrandIs
<1>3. errand' = [errand EXCEPT ![h] = d]
  BY <1>1, TypesAre DEF ThenLoads
<1>4. d \in Errand /\ d.op = "details"
  BY <1>2 DEF Errand
<1> HIDE DEF d
<1>5. CallCarries(d)
  BY <1>4 DEF CallCarries, Saves
<1>6. /\ c.op = "remove" => /\ typed' = c.names /\ removing' = "nothing" /\ renaming' = renaming
                            /\ relied' = relied \ {c.subject} /\ mixed' = (mixed \/ Disturbs(c))
      /\ c.op = "rename" => /\ typed' = IF c.subject \in typed THEN (typed \ {c.subject}) \cup {c.as} ELSE typed
                            /\ renaming' = "nothing" /\ removing' = removing
                            /\ relied' = IF dialog = c.of /\ c.subject \in relied THEN (relied \ {c.subject}) \cup {c.as} ELSE relied
                            /\ mixed' = (mixed \/ (dialog \in Ministries /\ c.of # dialog))
      /\ c.op \notin {"remove", "rename"} => UNCHANGED <<typed, removing, renaming, relied, mixed>>
  BY DEF errandServed
<1>7. CASE c.op = "remove"
  <2>1. ListHoldsWhatItRelies'
    BY <1>1, <1>2, <1>6, <1>7, TypesAre DEF ListHoldsWhatItRelies, Disturbs, CallCarries, Saves
  <2>2. mixed' \in BOOLEAN
    BY <1>2, <1>6, <1>7, TypesAre DEF Disturbs
  <2> QED BY <1>1, <1>2, <1>3, <1>4, <1>5, <1>6, <1>7, <2>1, <2>2, TypesAre, ErrandKeeps DEF tablesOfDialog
<1>8. CASE c.op = "rename"
  <2>1. ListHoldsWhatItRelies'
    BY <1>1, <1>2, <1>6, <1>8, TypesAre DEF ListHoldsWhatItRelies
  <2>2. typed' \in SUBSET Names /\ relied' \in SUBSET Names /\ mixed' \in BOOLEAN
    BY <1>2, <1>6, <1>8, TypesAre DEF CallCarries
  <2> QED BY <1>1, <1>3, <1>4, <1>5, <1>6, <1>8, <2>1, <2>2, TypesAre, ErrandKeeps DEF tablesOfDialog
<1>9. CASE c.op \notin {"remove", "rename"}
  <2>1. ListHoldsWhatItRelies'
    BY <1>1, <1>6, <1>9, TypesAre DEF ListHoldsWhatItRelies
  <2> QED BY <1>1, <1>3, <1>4, <1>5, <1>6, <1>9, <2>1, TypesAre, ErrandKeeps DEF tablesOfDialog
<1> QED BY <1>7, <1>8, <1>9

LEMMA DialogStarts == DialogInit => DialogInv
<1> SUFFICES ASSUME DialogInit PROVE DialogInv
  OBVIOUS
<1>1. positions \in [Ministries -> SUBSET Names] /\ employed \in [Ministries -> SUBSET Names]
  BY DialogAssumption DEF DialogInit
<1>2. moves \in 0..MaxMoves
  BY DialogAssumption DEF DialogInit
<1>3. \A h \in Errands : errand[h] = NoErrand
  BY DEF DialogInit
<1>4. DialogTypeOK
  BY <1>1, <1>2 DEF DialogInit, DialogTypeOK
<1>5. ListHoldsWhatItRelies
  BY DEF DialogInit, ListHoldsWhatItRelies
<1>6. \A h \in Errands : CallCarries(errand[h])
  BY <1>3 DEF CallCarries, NoErrand
<1> QED BY <1>4, <1>5, <1>6 DEF DialogInv

\* What the list of the dialog relies on is on it, or was mixed with another
\* ministry, and a call carries what it was sent with (ministerios/page.tsx).
THEOREM DialogInvariant == DialogSpec => []DialogInv
<1>1. DialogInv /\ [DialogNext]_dialogVars => DialogInv'
  <2> SUFFICES ASSUME DialogInv, [DialogNext]_dialogVars PROVE DialogInv'
    OBVIOUS
  <2>1. ASSUME NEW h \in Errands, updateMinisterio(h) \/ updateFuncaoConfiguracao(h) \/ serveErrand(h) \/ failErrand(h) PROVE DialogInv'
    BY <2>1, MinistryUpdatesKeep, RenamingServedKeeps, ServingKeeps
  <2>2. ASSUME NEW h \in Errands, NEW m \in Ministries, openMinisterio(h, m) PROVE DialogInv'
    BY <2>2, OpeningDialogKeeps
  <2>3. ASSUME NEW h \in Errands, handleSaveFuncoes(h) \/ confirmDeleteFuncao(h) \/ changeMember(h) PROVE DialogInv'
    BY <2>3, SavingPositionsKeeps, RemovingPositionKeeps, ChangingMemberKeeps
  <2>4. ASSUME NEW h \in Errands, NEW f \in Names, handleSaveConfiguringFuncao(h, f) PROVE DialogInv'
    BY <2>4, RenamingPositionKeeps
  <2>5. ASSUME NEW h \in Errands, errandFailed(h) \/ errandServed(h) \/ detailsLoaded(h) PROVE DialogInv'
    BY <2>5, ErrandFailingKeeps, ErrandServedKeeps, DetailsComeBack
  <2>6. CASE closeDialogs \/ cancelConfirm \/ \E f \in Names : handleAddFuncao(f) \/ askRemoval(f) \/ handleOpenConfigureFuncao(f)
    BY <2>6, DialogGesturesKeep
  <2>7. ASSUME NEW m \in Ministries, NEW f \in Names, othersAdd(m, f) PROVE DialogInv'
    BY <2>7, OthersAddingKeeps
  <2>8. CASE UNCHANGED dialogVars
    BY <2>8 DEF dialogVars, DialogInv, DialogTypeOK, ListHoldsWhatItRelies, CallCarries
  <2> QED BY <2>1, <2>2, <2>3, <2>4, <2>5, <2>6, <2>7, <2>8 DEF DialogNext
<1> QED BY <1>1, DialogStarts, PTL DEF DialogSpec

\* One errand is changed by a step, to what is sent, answered, failed or over; it
\* is pruned only by the update itself.
LEMMA PrunedOnlyByUpdate ==
  ASSUME DialogInv, DialogNext, NEW h \in Errands, Underway(h, "asked"), errand'[h].step = "pruned"
  PROVE  updateMinisterio(h) /\ positions' = [positions EXCEPT ![errand[h].of] = Pruned(errand[h].of, errand[h].names)]
<1>1. errand \in [Errands -> Errand \cup {NoErrand}] /\ errand[h] # NoErrand /\ errand[h] \in Errand /\ errand[h].step = "asked"
  BY TypesAre DEF Underway
<1>2. ASSUME NEW k \in Errands, NEW s, errand' = [errand EXCEPT ![k].step = s], s # "pruned" \/ k # h PROVE FALSE
  BY <1>1, <1>2 DEF Errand
<1>3. ASSUME NEW k \in Errands, NEW c, errand' = [errand EXCEPT ![k] = c], k = h => c.step # "pruned" PROVE FALSE
  BY <1>1, <1>3
<1>4. errand' # errand
  BY <1>1
<1>5. ASSUME NEW k \in Errands, updateMinisterio(k)
      PROVE  k = h /\ positions' = [positions EXCEPT ![errand[h].of] = Pruned(errand[h].of, errand[h].names)]
  <2>1. k = h
    BY <1>2, <1>5 DEF updateMinisterio
  <2> QED BY <1>1, <1>5, <2>1 DEF updateMinisterio
<1>6. ASSUME NEW k \in Errands, updateFuncaoConfiguracao(k) \/ failErrand(k) PROVE FALSE
  BY <1>2, <1>6 DEF updateFuncaoConfiguracao, failErrand
<1>7. ASSUME NEW k \in Errands, serveErrand(k) PROVE FALSE
  <2>1. errand[k] \in Errand /\ errand' = [errand EXCEPT ![k].step = "answered", ![k].names = positions[errand[k].of]]
    BY <1>7, TypesAre DEF serveErrand, Underway
  <2> QED BY <1>1, <2>1 DEF Errand
<1>8. ASSUME NEW k \in Errands, NEW call, Sends(k, call) PROVE FALSE
  <2>1. k # h
    BY <1>1, <1>8 DEF Sends
  <2> QED BY <1>3, <1>8, <2>1 DEF Sends
<1>9. ASSUME NEW k \in Errands, (\E m \in Ministries : openMinisterio(k, m)) \/ handleSaveFuncoes(k) \/ confirmDeleteFuncao(k) \/ changeMember(k)
                                \/ \E f \in Names : handleSaveConfiguringFuncao(k, f)
      PROVE  FALSE
  BY <1>8, <1>9 DEF openMinisterio, handleSaveFuncoes, confirmDeleteFuncao, changeMember, handleSaveConfiguringFuncao, Submits
<1>10. ASSUME NEW k \in Errands, errandFailed(k) \/ detailsLoaded(k) PROVE FALSE
  <2>1. k # h /\ errand' = [errand EXCEPT ![k] = NoErrand]
    BY <1>1, <1>10 DEF errandFailed, detailsLoaded, IsOver, Underway
  <2> QED BY <1>3, <2>1
<1>11. ASSUME NEW k \in Errands, errandServed(k) PROVE FALSE
  <2>1. errand[k] \in Errand /\ ThenLoads(k)
    BY <1>11, TypesAre DEF errandServed, Underway
  <2> QED BY <1>1, <2>1 DEF ThenLoads, Errand
<1>12. closeDialogs \/ cancelConfirm \/ (\E f \in Names : handleAddFuncao(f) \/ askRemoval(f) \/ handleOpenConfigureFuncao(f))
       \/ (\E m \in Ministries, f \in Names : othersAdd(m, f)) => FALSE
  BY <1>4 DEF closeDialogs, cancelConfirm, handleAddFuncao, askRemoval, handleOpenConfigureFuncao, othersAdd
<1> QED BY <1>5, <1>6, <1>7, <1>9, <1>10, <1>11, <1>12 DEF DialogNext

\* What a manager saves of a ministry deletes no position that his list had loaded
\* and that he did not remove, whatever answer was late, failed or undid what he
\* typed (ministerios/page.tsx, ministerios.service.ts).
THEOREM LoadedPositionsSurvive == DialogSpec => KeptPositionsSurvive
<1> DEFINE Survive == \A h \in Errands : Underway(h, "asked") /\ errand'[h].step = "pruned" /\ ~errand[h].mixed
                        => positions[errand[h].of] \cap errand[h].relied \subseteq positions'[errand[h].of]
<1>1. DialogInv /\ [DialogNext]_dialogVars => [Survive]_dialogVars
  <2> SUFFICES ASSUME DialogInv, DialogNext, NEW h \in Errands, Underway(h, "asked"), errand'[h].step = "pruned", ~errand[h].mixed
               PROVE  positions[errand[h].of] \cap errand[h].relied \subseteq positions'[errand[h].of]
    OBVIOUS
  <2>1. updateMinisterio(h) /\ positions' = [positions EXCEPT ![errand[h].of] = Pruned(errand[h].of, errand[h].names)]
    BY PrunedOnlyByUpdate
  <2>2. errand[h] # NoErrand /\ errand[h].of \in Ministries /\ Saves(errand[h].op) /\ CallCarries(errand[h]) /\ positions \in [Ministries -> SUBSET Names]
    BY <2>1, TypesAre, ErrandIs DEF updateMinisterio
  <2>3. errand[h].relied \subseteq errand[h].names
    BY <2>2 DEF CallCarries
  <2>4. positions'[errand[h].of] = Pruned(errand[h].of, errand[h].names)
    BY <2>1, <2>2
  <2> QED BY <2>3, <2>4 DEF Pruned
<1> QED BY <1>1, DialogInvariant, PTL DEF DialogSpec, KeptPositionsSurvive

-----------------------------------------------------------------------------
\* The documents that are shared.

IsFile(f) == f = [of |-> f.of, choice |-> f.choice, weeks |-> f.weeks, version |-> f.version, late |-> f.late,
                  at |-> f.at, week |-> f.week, crossed |-> f.crossed]
ShareIs(sh) ==
    \/ sh = Nil
    \/ sh = [step |-> "asked", request |-> sh.request, crossed |-> sh.crossed]
    \/ sh = [step |-> "made", request |-> sh.request, crossed |-> sh.crossed, file |-> sh.file]
    \/ sh = [step |-> "offered", file |-> sh.file, request |-> sh.request, crossed |-> sh.crossed] /\ IsFile(sh.file)
LoadIs(l) ==
    \/ l = Nil
    \/ l = [step |-> "asked", of |-> l.of] /\ l.of \in Searches
    \/ l = [step |-> "answered", of |-> l.of, weeks |-> l.weeks, version |-> l.version] /\ l.of \in Searches

ShareShape ==
    /\ rowsOf \in [Searches -> [weeks : SUBSET Weeks, late : SUBSET Weeks, version : Nat]]
    /\ appliedFilter \in Searches /\ formState \in Searches /\ timer \in Searches \cup {NoSearch}
    /\ lists = [l \in Slots |-> lists[l]] /\ \A l \in Slots : LoadIs(lists[l])
    /\ listed.of \in Searches

\* What was read of the rows is of a version they had: if they still have it, it
\* is what they are.
ReadAt(of, weeks, version) ==
    /\ version \in Nat /\ version <= rowsOf[of].version
    /\ version = rowsOf[of].version /\ weeks # {} => weeks = WeeksOfPage(rowsOf[of])
ListsAreRead ==
    /\ ReadAt(listed.of, listed.weeks, listed.version)
    /\ \A l \in Slots : lists[l].step = "answered" => ReadAt(lists[l].of, lists[l].weeks, lists[l].version)

\* A request that nothing crossed is of the list that is shown.
RequestIsShown(r) ==
    /\ r.of = appliedFilter /\ r.at = listed.version
    /\ r.week # {} => /\ r.choice \in Pages /\ listed.of = appliedFilter /\ listed.weeks # {}
                      /\ r.week = {WeekOf(listed.weeks, r.choice[2])}
\* A file and the page and the week it was asked for.
FileIsShown(f, at, week) ==
    /\ f.of = appliedFilter
    /\ listed.of = appliedFilter => f.version >= listed.version
    /\ week # {} /\ f.version = at /\ f.late = {} => f.weeks = week

ShareIsShown(sh) ==
    /\ ShareIs(sh)
    /\ sh.step = "asked" /\ ~sh.crossed => RequestIsShown(sh.request)
    /\ sh.step = "made" => sh.file.choice = sh.request.choice
    /\ sh.step = "made" /\ ~sh.crossed => FileIsShown(sh.file, sh.request.at, sh.request.week) /\ sh.file.of = sh.request.of
    /\ sh.step = "offered" => sh.file.choice = sh.request.choice
    /\ sh.step = "offered" /\ ~sh.crossed => FileIsShown(sh.file, sh.file.at, sh.file.week)
SharesAreShown == shares = [s \in Slots |-> shares[s]] /\ \A s \in Slots : ShareIsShown(shares[s])
CacheIsShown ==
    /\ sessionCache = [k \in Keys |-> sessionCache[k]]
    /\ \A k \in Keys : sessionCache[k] # NoFile =>
         /\ IsFile(sessionCache[k]) /\ sessionCache[k].choice = k[2]
         /\ ~sessionCache[k].crossed => FileIsShown(sessionCache[k], sessionCache[k].at, sessionCache[k].week)
PreparedIsShown == preparedFiles # NoFile /\ ~preparedFiles.crossed => FileIsShown(preparedFiles, preparedFiles.at, preparedFiles.week)
DocumentsAreShown == SharesAreShown /\ CacheIsShown /\ PreparedIsShown
ExportingWaits == exporting \in BOOLEAN /\ (exporting => \E s \in Slots : shares[s].step \in {"asked", "made"})
SharingInv == ShareShape /\ ListsAreRead /\ DocumentsAreShown /\ ExportingWaits

\* What crosses a document leaves the rest of it.
LEMMA CrossedIs ==
  ASSUME NEW sh, ShareIs(sh), sh # Nil, NEW b
  PROVE  LET d == [sh EXCEPT !.crossed = b] IN
         ShareIs(d) /\ d.step = sh.step /\ d.crossed = b /\ d.request = sh.request
         /\ (sh.step \in {"made", "offered"} => d.file = sh.file)
<1> DEFINE d == [sh EXCEPT !.crossed = b]
<1>1. CASE sh = [step |-> "asked", request |-> sh.request, crossed |-> sh.crossed]
  <2>1. d = [step |-> "asked", request |-> sh.request, crossed |-> b] /\ sh.step = "asked"
    BY <1>1
  <2> QED BY <2>1 DEF ShareIs
<1>2. CASE sh = [step |-> "made", request |-> sh.request, crossed |-> sh.crossed, file |-> sh.file]
  <2>1. d = [step |-> "made", request |-> sh.request, crossed |-> b, file |-> sh.file] /\ sh.step = "made"
    BY <1>2
  <2> QED BY <2>1 DEF ShareIs
<1>3. CASE sh = [step |-> "offered", file |-> sh.file, request |-> sh.request, crossed |-> sh.crossed] /\ IsFile(sh.file)
  <2>1. d = [step |-> "offered", file |-> sh.file, request |-> sh.request, crossed |-> b] /\ sh.step = "offered"
    BY <1>3
  <2>2. d.file = sh.file /\ d.request = sh.request /\ d.crossed = b /\ d.step = "offered"
    BY <2>1
  <2> QED BY <1>3, <2>1, <2>2 DEF ShareIs
<1> QED BY <1>1, <1>2, <1>3 DEF ShareIs

\* When what is shown changes, what is cached is dropped, and what is on its way is
\* not taken for what is shown.
LEMMA DroppingKeeps ==
  ASSUME SharesAreShown, CacheIsShown, DropsDocuments
  PROVE  /\ DocumentsAreShown'
         /\ \A s \in Slots : shares'[s].step = shares[s].step
<1>1. ASSUME NEW s \in Slots
      PROVE  ShareIs(shares'[s]) /\ shares'[s].step = shares[s].step /\ (shares'[s].step # "none" => shares'[s].crossed)
             /\ (shares[s].step \in {"made", "offered"} => shares'[s].file = shares[s].file /\ shares'[s].request = shares[s].request)
  <2>1. shares'[s] = IF shares[s] = Nil THEN Nil ELSE [shares[s] EXCEPT !.crossed = TRUE]
    BY DEF DropsDocuments
  <2>2. CASE shares[s] = Nil
    BY <2>1, <2>2 DEF ShareIs, Nil
  <2>3. CASE shares[s] # Nil
    <3>1. ShareIs(shares[s])
      BY DEF SharesAreShown, ShareIsShown
    <3> QED BY <2>1, <2>3, <3>1, CrossedIs
  <2> QED BY <2>2, <2>3
<1>2. \A s \in Slots : ShareIsShown(shares[s])'
  BY <1>1 DEF ShareIsShown, SharesAreShown
<1>3. SharesAreShown'
  BY <1>2 DEF DropsDocuments, SharesAreShown
<1>4. CacheIsShown' /\ PreparedIsShown'
  BY DEF DropsDocuments, CacheIsShown, PreparedIsShown
<1> QED BY <1>1, <1>3, <1>4 DEF DocumentsAreShown

LEMMA DocumentsStay ==
  ASSUME DocumentsAreShown, UNCHANGED <<appliedFilter, listed, shares, sessionCache, preparedFiles>>
  PROVE  DocumentsAreShown'
<1>1. SharesAreShown'
  BY DEF DocumentsAreShown, SharesAreShown, ShareIsShown, RequestIsShown, FileIsShown
<1>2. CacheIsShown' /\ PreparedIsShown'
  BY DEF DocumentsAreShown, CacheIsShown, PreparedIsShown, FileIsShown
<1> QED BY <1>1, <1>2 DEF DocumentsAreShown

LEMMA OneShare ==
  ASSUME SharesAreShown, NEW s \in Slots, NEW d, ShareIsShown(d), shares' = [shares EXCEPT ![s] = d], UNCHANGED <<appliedFilter, listed>>
  PROVE  SharesAreShown' /\ shares'[s] = d /\ \A t \in Slots \ {s} : shares'[t] = shares[t]
<1>1. shares'[s] = d /\ (\A t \in Slots \ {s} : shares'[t] = shares[t]) /\ shares' = [t \in Slots |-> shares'[t]]
  BY DEF SharesAreShown
<1>2. \A t \in Slots : ShareIsShown(shares'[t])
  BY <1>1 DEF SharesAreShown
<1>3. \A t \in Slots : ShareIsShown(shares[t])'
  BY <1>2 DEF ShareIsShown, RequestIsShown, FileIsShown
<1> QED BY <1>1, <1>3 DEF SharesAreShown

LEMMA NothingIsShown == ShareIsShown(Nil)
BY DEF ShareIsShown, ShareIs, Nil

\* The loads of the list.
LEMMA LoadsStay ==
  ASSUME ListsAreRead, UNCHANGED <<rowsOf, lists, listed>>
  PROVE  ListsAreRead'
BY DEF ListsAreRead, ReadAt

LEMMA FetchingKeeps ==
  ASSUME ShareShape, ListsAreRead, NEW f \in Searches, Fetches(f), UNCHANGED <<rowsOf, listed>>
  PROVE  /\ lists' = [l \in Slots |-> lists'[l]] /\ \A l \in Slots : LoadIs(lists'[l])
         /\ ListsAreRead'
<1>1. PICK l \in Slots : lists[l] = Nil /\ lists' = [lists EXCEPT ![l] = [step |-> "asked", of |-> f]]
  BY DEF Fetches
<1>2. lists'[l] = [step |-> "asked", of |-> f] /\ (\A m \in Slots \ {l} : lists'[m] = lists[m]) /\ lists' = [m \in Slots |-> lists'[m]]
  BY <1>1 DEF ShareShape
<1>3. \A m \in Slots : LoadIs(lists'[m])
  BY <1>2 DEF ShareShape, LoadIs
<1>4. ListsAreRead'
  BY <1>2 DEF ListsAreRead, ReadAt
<1> QED BY <1>2, <1>3, <1>4

LEMMA ApplyingKeeps ==
  ASSUME SharingInv, NEW f \in Searches, Applies(f), UNCHANGED <<rowsOf, listed, exporting>>,
         formState' \in Searches, timer' \in Searches \cup {NoSearch}
  PROVE  SharingInv'
<1>1. ShareShape /\ ListsAreRead /\ DocumentsAreShown /\ ExportingWaits /\ Fetches(f) /\ appliedFilter' = f
  BY DEF SharingInv, Applies
<1>2. ShareShape' /\ ListsAreRead'
  BY <1>1, FetchingKeeps DEF ShareShape
<1>3. DocumentsAreShown' /\ \A s \in Slots : shares'[s].step = shares[s].step
  <2>1. CASE f = appliedFilter
    BY <1>1, <2>1, DocumentsStay DEF Applies, KeepsDocuments
  <2>2. CASE f # appliedFilter
    BY <1>1, <2>2, DroppingKeeps DEF Applies, DocumentsAreShown
  <2> QED BY <2>1, <2>2
<1> QED BY <1>1, <1>2, <1>3 DEF SharingInv, ExportingWaits

\* Whatever changes neither the rows nor a load nor a document.
LEMMA SharingStays ==
  ASSUME SharingInv, UNCHANGED <<rowsOf, appliedFilter, listed, lists, exporting, shares, sessionCache, preparedFiles>>,
         formState' \in Searches, timer' \in Searches \cup {NoSearch}
  PROVE  SharingInv'
<1>1. ShareShape'
  BY DEF SharingInv, ShareShape
<1>2. ExportingWaits'
  BY DEF SharingInv, ExportingWaits
<1> QED BY <1>1, <1>2, LoadsStay, DocumentsStay DEF SharingInv

LEMMA FilteringKeeps ==
  ASSUME SharingInv, NEW f \in Searches, setField(f) \/ applyNow(f)
  PROVE  SharingInv'
<1>1. CASE setField(f)
  <2>1. CASE timer' = NoSearch /\ Applies(f)
    BY <1>1, <2>1, ApplyingKeeps DEF setField
  <2>2. CASE timer' = f /\ KeepsDocuments /\ UNCHANGED <<appliedFilter, lists, listPending>>
    BY <1>1, <2>2, SharingStays DEF setField, KeepsDocuments
  <2> QED BY <1>1, <2>1, <2>2 DEF setField
<1>2. CASE applyNow(f)
  BY <1>2, ApplyingKeeps DEF applyNow
<1> QED BY <1>1, <1>2

LEMMA DebouncingKeeps ==
  ASSUME SharingInv, scheduleDebounce
  PROVE  SharingInv'
<1>1. timer \in Searches /\ formState \in Searches
  BY DEF scheduleDebounce, SharingInv, ShareShape
<1> QED BY <1>1, ApplyingKeeps DEF scheduleDebounce

LEMMA LoadingKeeps ==
  ASSUME SharingInv, firstLoad \/ loadAgain
  PROVE  SharingInv'
<1>1. PICK f \in Searches : Fetches(f)
  BY DocumentShareAssumption DEF firstLoad, loadAgain, SharingInv, ShareShape
<1>2. UNCHANGED <<rowsOf, formState, timer, appliedFilter, listed, exporting, shares, sessionCache, preparedFiles>>
  BY DEF firstLoad, loadAgain
<1>3. ShareShape' /\ ListsAreRead'
  BY <1>1, <1>2, FetchingKeeps DEF SharingInv, ShareShape
<1>4. ExportingWaits'
  BY <1>2 DEF SharingInv, ExportingWaits
<1> QED BY <1>2, <1>3, <1>4, DocumentsStay DEF SharingInv

LEMMA FindingKeeps ==
  ASSUME SharingInv, NEW l \in Slots, findVisualizacao(l)
  PROVE  SharingInv'
<1> DEFINE f == lists[l].of
           read == [step |-> "answered", of |-> f, weeks |-> WeeksOfPage(rowsOf[f]), version |-> rowsOf[f].version]
<1>1. /\ lists[l].step = "asked" /\ lists' = [lists EXCEPT ![l] = read]
      /\ UNCHANGED <<rowsOf, formState, timer, appliedFilter, listed, exporting, shares, sessionCache, preparedFiles>>
  BY DEF findVisualizacao
<1>2. ShareShape /\ ListsAreRead /\ LoadIs(lists[l])
  BY DEF SharingInv, ShareShape
<1>3. f \in Searches
  BY <1>1, <1>2 DEF LoadIs, Nil
<1>4. rowsOf[f].version \in Nat
  BY <1>2, <1>3 DEF ShareShape
<1>5. read.step = "answered" /\ read.of = f /\ read.weeks = WeeksOfPage(rowsOf[f]) /\ read.version = rowsOf[f].version /\ LoadIs(read)
  BY <1>3 DEF LoadIs
<1> HIDE DEF f, read
<1>6. lists'[l] = read /\ (\A m \in Slots \ {l} : lists'[m] = lists[m]) /\ lists' = [m \in Slots |-> lists'[m]]
  BY <1>1, <1>2 DEF ShareShape
<1>7. ShareShape'
  BY <1>1, <1>2, <1>5, <1>6 DEF ShareShape, LoadIs
<1>8. ListsAreRead'
  BY <1>1, <1>2, <1>4, <1>5, <1>6 DEF ListsAreRead, ReadAt
<1>9. ExportingWaits'
  BY <1>1 DEF SharingInv, ExportingWaits
<1> QED BY <1>1, <1>7, <1>8, <1>9, DocumentsStay DEF SharingInv

LEMMA ListsComeBack ==
  ASSUME SharingInv, NEW l \in Slots, listLoaded(l) \/ listFailed(l)
  PROVE  SharingInv'
<1>1. ShareShape /\ ListsAreRead /\ LoadIs(lists[l]) /\ DocumentsAreShown /\ ExportingWaits
  BY DEF SharingInv, ShareShape
<1>2. /\ lists' = [lists EXCEPT ![l] = Nil]
      /\ UNCHANGED <<rowsOf, formState, timer, appliedFilter, exporting>>
  BY DEF listLoaded, listFailed
<1>3. lists'[l] = Nil /\ (\A m \in Slots \ {l} : lists'[m] = lists[m]) /\ lists' = [m \in Slots |-> lists'[m]] /\ LoadIs(Nil)
  BY <1>1, <1>2 DEF ShareShape, LoadIs
<1>4. CASE listLoaded(l)
  <2>1. listed' = [of |-> lists[l].of, weeks |-> lists[l].weeks, version |-> lists[l].version] /\ DropsDocuments /\ lists[l].step = "answered"
    BY <1>4 DEF listLoaded
  <2>2. listed'.of \in Searches /\ ReadAt(listed'.of, listed'.weeks, listed'.version)
    BY <1>1, <2>1 DEF LoadIs, Nil, ListsAreRead
  <2>3. ShareShape'
    BY <1>1, <1>2, <1>3, <2>2 DEF ShareShape, LoadIs
  <2>4. ListsAreRead'
    BY <1>1, <1>2, <1>3, <2>2 DEF ListsAreRead, ReadAt, Nil
  <2>5. DocumentsAreShown' /\ \A s \in Slots : shares'[s].step = shares[s].step
    BY <1>1, <2>1, DroppingKeeps DEF DocumentsAreShown
  <2>6. ExportingWaits'
    BY <1>1, <1>2, <2>5 DEF ExportingWaits
  <2> QED BY <2>3, <2>4, <2>5, <2>6 DEF SharingInv
<1>5. CASE listFailed(l)
  <2>1. UNCHANGED <<listed, shares, sessionCache, preparedFiles>>
    BY <1>5 DEF listFailed
  <2>2. ShareShape'
    BY <1>1, <1>2, <1>3, <2>1 DEF ShareShape, LoadIs
  <2>3. ListsAreRead'
    BY <1>1, <1>2, <1>3, <2>1 DEF ListsAreRead, ReadAt, Nil
  <2>4. ExportingWaits'
    BY <1>1, <1>2, <2>1 DEF ExportingWaits
  <2> QED BY <1>1, <1>2, <2>1, <2>2, <2>3, <2>4, DocumentsStay DEF SharingInv
<1> QED BY <1>4, <1>5

\* A change gives the rows a version that nothing was read of.
LEMMA ChangingRowsKeeps ==
  ASSUME SharingInv, NEW f \in Searches, NEW weeks \in SUBSET Weeks, NEW late \in SUBSET Weeks, rowsChange(f, weeks, late)
  PROVE  SharingInv'
<1> DEFINE theRow == [weeks |-> weeks, late |-> late, version |-> rowsOf[f].version + 1]
<1>1. /\ rowsOf' = [rowsOf EXCEPT ![f] = theRow]
      /\ UNCHANGED <<formState, timer, appliedFilter, listed, lists, exporting, shares, sessionCache, preparedFiles>>
  BY DEF rowsChange
<1>2. ShareShape /\ ListsAreRead /\ rowsOf \in [Searches -> [weeks : SUBSET Weeks, late : SUBSET Weeks, version : Nat]]
  BY DEF SharingInv, ShareShape
<1>3. rowsOf[f].version \in Nat /\ theRow \in [weeks : SUBSET Weeks, late : SUBSET Weeks, version : Nat] /\ theRow.version = rowsOf[f].version + 1
  BY <1>2
<1> HIDE DEF theRow
<1>4. rowsOf' \in [Searches -> [weeks : SUBSET Weeks, late : SUBSET Weeks, version : Nat]]
      /\ rowsOf'[f] = theRow /\ \A g \in Searches \ {f} : rowsOf'[g] = rowsOf[g]
  BY <1>1, <1>2, <1>3
<1>5. ShareShape'
  BY <1>1, <1>2, <1>4 DEF ShareShape, LoadIs
<1>7. ListsAreRead'
  <2>1. listed.of \in Searches /\ \A l \in Slots : lists[l].step = "answered" => lists[l].of \in Searches
    BY <1>2 DEF ShareShape, LoadIs, Nil
  <2>2. ReadAt(listed.of, listed.weeks, listed.version)'
    BY <1>1, <1>2, <1>3, <1>4, <2>1 DEF ListsAreRead, ReadAt
  <2>3. ASSUME NEW l \in Slots, lists[l].step = "answered" PROVE ReadAt(lists[l].of, lists[l].weeks, lists[l].version)'
    BY <1>1, <1>2, <1>3, <1>4, <2>1, <2>3 DEF ListsAreRead, ReadAt
  <2> QED BY <1>1, <2>2, <2>3 DEF ListsAreRead
<1>8. ExportingWaits'
  BY <1>1 DEF SharingInv, ExportingWaits
<1> QED BY <1>1, <1>5, <1>7, <1>8, DocumentsStay DEF SharingInv

LEMMA DialogsKeep ==
  ASSUME SharingInv, openExportDialog \/ closeExportDialog \/ \E choice \in Shareables \ {Pdf} : setSelectedPngWeek(choice)
  PROVE  SharingInv'
<1>1. UNCHANGED <<rowsOf, formState, timer, appliedFilter, listed, lists, exporting, shares, sessionCache, preparedFiles>>
  BY DEF openExportDialog, closeExportDialog, setSelectedPngWeek
<1>2. formState \in Searches /\ timer \in Searches \cup {NoSearch}
  BY DEF SharingInv, ShareShape
<1> QED BY <1>1, <1>2, SharingStays

\* What the rows and the loads keep while a document is asked for, made or given.
LEMMA RowsStay ==
  ASSUME SharingInv, UNCHANGED <<rowsOf, formState, timer, appliedFilter, listed, lists>>
  PROVE  ShareShape' /\ ListsAreRead'
BY LoadsStay DEF SharingInv, ShareShape, LoadIs

LEMMA CacheStays ==
  ASSUME CacheIsShown, UNCHANGED <<appliedFilter, listed, sessionCache>>
  PROVE  CacheIsShown'
BY DEF CacheIsShown, FileIsShown

LEMMA UsingKeeps ==
  ASSUME SharingInv, usePreparedFiles
  PROVE  SharingInv'
<1>1. preparedFiles' = NoFile /\ UNCHANGED <<rowsOf, formState, timer, appliedFilter, listed, lists, exporting, shares, sessionCache>>
  BY DEF usePreparedFiles
<1>2. SharesAreShown'
  BY <1>1 DEF SharingInv, DocumentsAreShown, SharesAreShown, ShareIsShown, RequestIsShown, FileIsShown
<1>3. CacheIsShown' /\ PreparedIsShown'
  BY <1>1, CacheStays DEF SharingInv, DocumentsAreShown, PreparedIsShown
<1>4. ExportingWaits'
  BY <1>1 DEF SharingInv, ExportingWaits
<1> QED BY <1>1, <1>2, <1>3, <1>4, RowsStay DEF SharingInv, DocumentsAreShown

LEMMA ExportingFails ==
  ASSUME SharingInv, NEW s \in Slots, exportFails(s)
  PROVE  SharingInv'
<1>1. exporting' = FALSE /\ shares' = [shares EXCEPT ![s] = Nil]
      /\ UNCHANGED <<rowsOf, formState, timer, appliedFilter, listed, lists, sessionCache, preparedFiles>>
  BY DEF exportFails
<1>2. SharesAreShown'
  BY <1>1, NothingIsShown, OneShare DEF SharingInv, DocumentsAreShown
<1>3. CacheIsShown' /\ PreparedIsShown'
  BY <1>1, CacheStays DEF SharingInv, DocumentsAreShown, PreparedIsShown, FileIsShown
<1> QED BY <1>1, <1>2, <1>3, RowsStay DEF SharingInv, DocumentsAreShown, ExportingWaits

\* What could not be shared is prepared as it was offered.
LEMMA SharingEnds ==
  ASSUME SharingInv, NEW s \in Slots, NEW result \in {"shared", "cancelled", "failed"}, shareEnds(s, result)
  PROVE  SharingInv'
<1>1. exporting' = FALSE /\ shares' = [shares EXCEPT ![s] = Nil] /\ shares[s].step = "offered"
      /\ UNCHANGED <<rowsOf, formState, timer, appliedFilter, listed, lists, sessionCache>>
  BY DEF shareEnds
<1>2. SharesAreShown'
  BY <1>1, NothingIsShown, OneShare DEF SharingInv, DocumentsAreShown
<1>3. CacheIsShown'
  BY <1>1, CacheStays DEF SharingInv, DocumentsAreShown
<1>4. PreparedIsShown'
  <2> DEFINE d == [shares[s].file EXCEPT !.crossed = shares[s].crossed]
  <2>1. preparedFiles' \in {NoFile, d, preparedFiles} /\ UNCHANGED <<appliedFilter, listed>>
    BY <1>1 DEF shareEnds
  <2>2. ShareIsShown(shares[s])
    BY DEF SharingInv, DocumentsAreShown, SharesAreShown
  <2>3. IsFile(shares[s].file)
    BY <1>1, <2>2 DEF ShareIsShown, ShareIs, Nil
  <2>4. d.of = shares[s].file.of /\ d.version = shares[s].file.version /\ d.late = shares[s].file.late /\ d.weeks = shares[s].file.weeks
        /\ d.at = shares[s].file.at /\ d.week = shares[s].file.week /\ d.crossed = shares[s].crossed
    BY <2>3 DEF IsFile
  <2> HIDE DEF d
  <2>5. ~d.crossed => FileIsShown(d, d.at, d.week)
    BY <1>1, <2>2, <2>4 DEF ShareIsShown, FileIsShown
  <2>6. CASE preparedFiles' = NoFile
    BY <2>6 DEF PreparedIsShown
  <2>7. CASE preparedFiles' = d
    BY <2>1, <2>5, <2>7 DEF PreparedIsShown, FileIsShown
  <2>8. CASE preparedFiles' = preparedFiles
    BY <2>1, <2>8 DEF PreparedIsShown, FileIsShown, SharingInv, DocumentsAreShown
  <2> QED BY <2>1, <2>6, <2>7, <2>8
<1> QED BY <1>1, <1>2, <1>3, <1>4, RowsStay DEF SharingInv, DocumentsAreShown, ExportingWaits

LEMMA PagesAre ==
  ASSUME NEW choice \in Pages
  PROVE  choice[2] \in Nat \ {0}
<1>1. IsFiniteSet(Weeks) /\ Cardinality(Weeks) \in Nat
  BY FS_CardinalityType, DocumentShareAssumption
<1> QED BY <1>1 DEF Pages

LEMMA ExportingKeeps ==
  ASSUME SharingInv, NEW s \in Slots, NEW choice \in Shareables, handleExport(s, choice)
  PROVE  SharingInv'
<1> DEFINE k == SessionKey(appliedFilter, choice)
           cached == sessionCache[k]
           asked == [of |-> appliedFilter, choice |-> choice, at |-> listed.version,
                     week |-> IF choice \in Pages /\ listed.of = appliedFilter /\ choice[2] <= Cardinality(listed.weeks)
                              THEN {WeekOf(listed.weeks, choice[2])} ELSE {}]
           waits == [step |-> "asked", request |-> asked, crossed |-> FALSE]
           offers == [step |-> "offered", file |-> cached, request |-> asked, crossed |-> cached.crossed]
<1>1. /\ preparedFiles' = NoFile
      /\ UNCHANGED <<rowsOf, formState, timer, appliedFilter, listed, lists, sessionCache>>
      /\ \/ cached = NoFile /\ exporting' = TRUE /\ shares' = [shares EXCEPT ![s] = waits]
         \/ cached # NoFile /\ exporting' = FALSE /\ shares' = [shares EXCEPT ![s] = offers]
  BY DEF handleExport
<1>2. SharesAreShown /\ CacheIsShown /\ appliedFilter \in Searches
  BY DEF SharingInv, DocumentsAreShown, ShareShape
<1>3. k \in Keys /\ k[2] = choice
  BY <1>2 DEF Keys, SessionKey
<1>4. asked.of = appliedFilter /\ asked.choice = choice /\ asked.at = listed.version
      /\ asked.week = IF choice \in Pages /\ listed.of = appliedFilter /\ choice[2] <= Cardinality(listed.weeks)
                      THEN {WeekOf(listed.weeks, choice[2])} ELSE {}
  OBVIOUS
<1> HIDE DEF k, asked
<1>5. ShareIsShown(waits)
  <2>1. RequestIsShown(asked)
    <3>1. choice \in Pages /\ choice[2] <= Cardinality(listed.weeks) => listed.weeks # {}
      <4>1. Cardinality({}) = 0
        BY FS_EmptySet
      <4>2. choice \in Pages => choice[2] \in Nat /\ choice[2] # 0
        BY PagesAre
      <4>3. listed.weeks = {} => Cardinality(listed.weeks) = 0
        BY <4>1
      <4> QED BY <4>2, <4>3
    <3> QED BY <1>4, <3>1 DEF RequestIsShown
  <2> QED BY <2>1 DEF ShareIsShown, ShareIs
<1>6. ASSUME cached # NoFile PROVE ShareIsShown(offers)
  <2>1. IsFile(cached) /\ cached.choice = choice /\ (~cached.crossed => FileIsShown(cached, cached.at, cached.week))
    BY <1>2, <1>3, <1>6 DEF CacheIsShown
  <2> HIDE DEF cached
  <2>2. offers.step = "offered" /\ offers.file = cached /\ offers.request = asked /\ offers.crossed = cached.crossed /\ ShareIs(offers)
    BY <2>1 DEF ShareIs
  <2> QED BY <1>4, <2>1, <2>2 DEF ShareIsShown
<1> HIDE DEF cached, offers
<1>7. SharesAreShown' /\ ExportingWaits'
  <2>1. CASE cached = NoFile /\ exporting' = TRUE /\ shares' = [shares EXCEPT ![s] = waits]
    <3>1. SharesAreShown' /\ shares'[s] = waits
      BY <1>1, <1>2, <1>5, <2>1, OneShare
    <3> QED BY <2>1, <3>1 DEF ExportingWaits
  <2>2. CASE cached # NoFile /\ exporting' = FALSE /\ shares' = [shares EXCEPT ![s] = offers]
    BY <1>1, <1>2, <1>6, <2>2, OneShare DEF ExportingWaits
  <2> QED BY <1>1, <2>1, <2>2
<1>8. CacheIsShown' /\ PreparedIsShown'
  BY <1>1, <1>2, CacheStays DEF PreparedIsShown
<1> QED BY <1>1, <1>7, <1>8, RowsStay DEF SharingInv, DocumentsAreShown

\* The server makes the page that is asked for of the weeks it has: if its rows are
\* those the week was chosen on, that is the week that was chosen.
LEMMA MakingKeeps ==
  ASSUME SharingInv, NEW s \in Slots, exportar(s)
  PROVE  SharingInv'
<1> DEFINE r == shares[s].request
           theRow == rowsOf[r.of]
           pages == PagesMade(theRow, r.choice)
           file == [of |-> r.of, choice |-> r.choice, weeks |-> pages, late |-> theRow.late, version |-> theRow.version]
           made == [step |-> "made", request |-> r, crossed |-> shares[s].crossed, file |-> file]
<1>1. /\ shares[s].step = "asked" /\ shares' = [shares EXCEPT ![s] = made]
      /\ UNCHANGED <<rowsOf, formState, timer, appliedFilter, listed, lists, exporting, sessionCache, preparedFiles>>
  BY DEF exportar
<1>2. SharesAreShown /\ CacheIsShown /\ PreparedIsShown /\ ExportingWaits /\ ShareIsShown(shares[s]) /\ ShareShape /\ ListsAreRead
  BY DEF SharingInv, DocumentsAreShown, SharesAreShown
<1>3. file.of = r.of /\ file.choice = r.choice /\ file.weeks = pages /\ file.late = theRow.late /\ file.version = theRow.version
  OBVIOUS
<1>4. made.step = "made" /\ made.request = r /\ made.crossed = shares[s].crossed /\ made.file = file /\ ShareIs(made)
  BY DEF ShareIs
<1> HIDE DEF file, made
<1>5. ASSUME ~shares[s].crossed PROVE FileIsShown(file, r.at, r.week)
  <2>1. RequestIsShown(r)
    BY <1>1, <1>2, <1>5 DEF ShareIsShown
  <2>2. r.of = appliedFilter /\ r.at = listed.version
    BY <2>1 DEF RequestIsShown
  <2>3. ReadAt(listed.of, listed.weeks, listed.version)
    BY <1>2 DEF ListsAreRead
  <2>4. theRow \in [weeks : SUBSET Weeks, late : SUBSET Weeks, version : Nat]
    BY <1>2, <2>2 DEF ShareShape
  <2>5. listed.of = appliedFilter => file.version >= listed.version
    BY <1>3, <2>2, <2>3, <2>4 DEF ReadAt
  <2>6. ASSUME r.week # {}, file.version = r.at, file.late = {} PROVE file.weeks = r.week
    <3>1. r.choice \in Pages /\ listed.of = appliedFilter /\ listed.weeks # {} /\ r.week = {WeekOf(listed.weeks, r.choice[2])}
      BY <2>1, <2>6 DEF RequestIsShown
    <3>2. listed.weeks = WeeksOfPage(theRow)
      BY <1>3, <2>2, <2>3, <2>6, <3>1 DEF ReadAt
    <3>3. WeeksOfPage(theRow) = theRow.weeks
      <4>1. theRow.late = {}
        BY <1>3, <2>6
      <4> QED BY <4>1 DEF WeeksOfPage
    <3>4. pages = {WeekOf(theRow.weeks, r.choice[2])}
      BY <3>1 DEF PagesMade
    <3> QED BY <1>3, <3>1, <3>2, <3>3, <3>4
  <2> QED BY <1>3, <2>2, <2>5, <2>6 DEF FileIsShown
<1>6. ShareIsShown(made)
  BY <1>3, <1>4, <1>5 DEF ShareIsShown
<1>7. SharesAreShown' /\ shares'[s] = made /\ \A t \in Slots \ {s} : shares'[t] = shares[t]
  BY <1>1, <1>2, <1>6, OneShare
<1>8. ExportingWaits'
  BY <1>1, <1>2, <1>4, <1>7 DEF ExportingWaits
<1>9. CacheIsShown' /\ PreparedIsShown'
  BY <1>1, <1>2, CacheStays DEF PreparedIsShown, FileIsShown
<1> QED BY <1>1, <1>7, <1>8, <1>9, RowsStay DEF SharingInv, DocumentsAreShown

\* It is cached under what it was asked by, with what crossed it.
LEMMA KeepingKeeps ==
  ASSUME SharingInv, NEW s \in Slots, documentMade(s)
  PROVE  SharingInv'
<1> DEFINE r == shares[s].request
           f == shares[s].file
           k == SessionKey(r.of, r.choice)
           file == [of |-> r.of, choice |-> r.choice, weeks |-> f.weeks, version |-> f.version, late |-> f.late,
                    at |-> r.at, week |-> r.week, crossed |-> shares[s].crossed]
           offers == [step |-> "offered", request |-> r, file |-> file, crossed |-> shares[s].crossed]
<1>1. /\ shares[s].step = "made" /\ exporting' = FALSE
      /\ sessionCache' = [sessionCache EXCEPT ![k] = file] /\ shares' = [shares EXCEPT ![s] = offers]
      /\ UNCHANGED <<rowsOf, formState, timer, appliedFilter, listed, lists, preparedFiles>>
  BY DEF documentMade
<1>2. SharesAreShown /\ CacheIsShown /\ PreparedIsShown /\ ShareIsShown(shares[s])
  BY DEF SharingInv, DocumentsAreShown, SharesAreShown
<1>3. k[2] = r.choice
  BY DEF SessionKey
<1>4. file.of = r.of /\ file.choice = r.choice /\ file.weeks = f.weeks /\ file.version = f.version /\ file.late = f.late
      /\ file.at = r.at /\ file.week = r.week /\ file.crossed = shares[s].crossed /\ IsFile(file)
  BY DEF IsFile
<1> HIDE DEF k, file
<1>5. offers.step = "offered" /\ offers.request = r /\ offers.file = file /\ offers.crossed = shares[s].crossed /\ ShareIs(offers)
  BY <1>4 DEF ShareIs
<1> HIDE DEF offers
<1>6. ~shares[s].crossed => FileIsShown(file, file.at, file.week)
  BY <1>1, <1>2, <1>4 DEF ShareIsShown, FileIsShown
<1>7. ShareIsShown(offers)
  BY <1>4, <1>5, <1>6 DEF ShareIsShown
<1>8. SharesAreShown'
  BY <1>1, <1>2, <1>7, OneShare
<1>9. CacheIsShown'
  <2>1. sessionCache' = [j \in Keys |-> sessionCache'[j]] /\ \A j \in Keys : sessionCache'[j] = IF j = k THEN file ELSE sessionCache[j]
    BY <1>1, <1>2 DEF CacheIsShown
  <2>2. ASSUME NEW j \in Keys, sessionCache'[j] # NoFile
        PROVE  /\ IsFile(sessionCache'[j]) /\ sessionCache'[j].choice = j[2]
               /\ ~sessionCache'[j].crossed => FileIsShown(sessionCache'[j], sessionCache'[j].at, sessionCache'[j].week)
    <3>1. CASE j = k
      BY <1>3, <1>4, <1>6, <2>1, <3>1
    <3>2. CASE j # k
      BY <1>2, <2>1, <2>2, <3>2 DEF CacheIsShown
    <3> QED BY <3>1, <3>2
  <2>3. \A j \in Keys : sessionCache'[j] # NoFile =>
               /\ IsFile(sessionCache'[j]) /\ sessionCache'[j].choice = j[2]
               /\ ~sessionCache'[j].crossed => FileIsShown(sessionCache[j], sessionCache[j].at, sessionCache[j].week)'
    BY <1>1, <2>2 DEF FileIsShown
  <2> QED BY <2>1, <2>3 DEF CacheIsShown
<1>10. PreparedIsShown'
  BY <1>1, <1>2 DEF PreparedIsShown, FileIsShown
<1> QED BY <1>1, <1>8, <1>9, <1>10, RowsStay DEF SharingInv, DocumentsAreShown, ExportingWaits

LEMMA SharingStarts == ShareInit => SharingInv
<1> SUFFICES ASSUME ShareInit PROVE SharingInv
  OBVIOUS
<1>1. rowsOf \in [Searches -> [weeks : SUBSET Weeks, late : SUBSET Weeks, version : Nat]]
  BY DEF ShareInit
<1>2. listed.of = FirstSearch /\ listed.weeks = {} /\ listed.version = 0
  BY DEF ShareInit
<1>3. ShareShape
  BY <1>1, <1>2, DocumentShareAssumption DEF ShareInit, ShareShape, LoadIs
<1>4. ListsAreRead
  BY <1>1, <1>2, DocumentShareAssumption DEF ShareInit, ListsAreRead, ReadAt, Nil
<1>5. SharesAreShown
  BY NothingIsShown DEF ShareInit, SharesAreShown
<1>6. CacheIsShown /\ PreparedIsShown /\ ExportingWaits
  BY DEF ShareInit, CacheIsShown, PreparedIsShown, ExportingWaits
<1> QED BY <1>3, <1>4, <1>5, <1>6 DEF SharingInv, DocumentsAreShown

\* Whatever is typed, loaded, changed and asked for meanwhile, a document that
\* nothing crossed was made of the filter that is applied and of rows no older than
\* those shown (use-document-share.ts, use-filter-state.ts).
THEOREM SharingInvariant == ShareSpec => []SharingInv
<1>1. SharingInv /\ [ShareNext]_shareVars => SharingInv'
  <2> SUFFICES ASSUME SharingInv, [ShareNext]_shareVars PROVE SharingInv'
    OBVIOUS
  <2>1. ASSUME NEW f \in Searches, setField(f) \/ applyNow(f) PROVE SharingInv'
    BY <2>1, FilteringKeeps
  <2>2. ASSUME NEW f \in Searches, NEW weeks \in SUBSET Weeks, NEW late \in {{}} \cup {{w} : w \in Weeks}, rowsChange(f, weeks, late)
        PROVE  SharingInv'
    BY <2>2, ChangingRowsKeeps
  <2>3. CASE firstLoad \/ scheduleDebounce \/ loadAgain
    BY <2>3, DebouncingKeeps, LoadingKeeps
  <2>4. CASE openExportDialog \/ closeExportDialog \/ usePreparedFiles \/ \E choice \in Shareables \ {Pdf} : setSelectedPngWeek(choice)
    BY <2>4, DialogsKeep, UsingKeeps
  <2>5. ASSUME NEW s \in Slots, findVisualizacao(s) \/ listLoaded(s) \/ listFailed(s) PROVE SharingInv'
    BY <2>5, FindingKeeps, ListsComeBack
  <2>6. ASSUME NEW s \in Slots, exportar(s) \/ documentMade(s) \/ exportFails(s) PROVE SharingInv'
    BY <2>6, MakingKeeps, KeepingKeeps, ExportingFails
  <2>7. ASSUME NEW s \in Slots, NEW choice \in Shareables, handleExport(s, choice) PROVE SharingInv'
    BY <2>7, ExportingKeeps
  <2>8. ASSUME NEW s \in Slots, NEW result \in {"shared", "cancelled", "failed"}, shareEnds(s, result) PROVE SharingInv'
    BY <2>8, SharingEnds
  <2>9. CASE UNCHANGED shareVars
    <3>1. formState \in Searches /\ timer \in Searches \cup {NoSearch}
      BY DEF SharingInv, ShareShape
    <3> QED BY <2>9, <3>1, SharingStays DEF shareVars
  <2> QED BY <2>1, <2>2, <2>3, <2>4, <2>5, <2>6, <2>7, <2>8, <2>9 DEF ShareNext
<1> QED BY <1>1, SharingStarts, PTL DEF ShareSpec

\* What is offered, prepared or cached for the next time is what the page shows, and
\* an image is of the week that was chosen though the page and the server count the
\* weeks each on its own rows (use-document-share.ts, export-calendar-weeks.ts).
THEOREM SharedIsShown == ShareSpec => []SharedIsWhatIsShown
<1>1. SharingInv => SharedIsWhatIsShown
  <2> SUFFICES ASSUME SharingInv PROVE SharedIsWhatIsShown
    OBVIOUS
  <2>1. SharesAreShown /\ CacheIsShown /\ PreparedIsShown /\ ExportingWaits
    BY DEF SharingInv, DocumentsAreShown
  <2>2. ASSUME NEW s \in Slots, shares[s].step = "offered"
        PROVE  /\ IsOfThePage([shares[s].file EXCEPT !.crossed = shares[s].crossed])
               /\ (~shares[s].crossed => shares[s].file.choice = shares[s].request.choice)
    <3> DEFINE d == [shares[s].file EXCEPT !.crossed = shares[s].crossed]
    <3>1. ShareIsShown(shares[s])
      BY <2>1 DEF SharesAreShown
    <3>2. IsFile(shares[s].file)
      BY <2>2, <3>1 DEF ShareIsShown, ShareIs, Nil
    <3>3. d.of = shares[s].file.of /\ d.version = shares[s].file.version /\ d.late = shares[s].file.late /\ d.weeks = shares[s].file.weeks
          /\ d.at = shares[s].file.at /\ d.week = shares[s].file.week /\ d.crossed = shares[s].crossed
      BY <3>2 DEF IsFile
    <3> HIDE DEF d
    <3>4. IsOfThePage(d)
      BY <2>2, <3>1, <3>3 DEF ShareIsShown, FileIsShown, IsOfThePage
    <3> QED BY <2>2, <3>1, <3>4 DEF d, ShareIsShown
  <2>3. preparedFiles # NoFile => IsOfThePage(preparedFiles)
    BY <2>1 DEF PreparedIsShown, FileIsShown, IsOfThePage
  <2>4. \A k \in Keys : sessionCache[k] # NoFile => IsOfThePage(sessionCache[k])
    BY <2>1 DEF CacheIsShown, FileIsShown, IsOfThePage
  <2> QED BY <2>1, <2>2, <2>3, <2>4 DEF SharedIsWhatIsShown, ExportingWaits
<1> QED BY <1>1, SharingInvariant, PTL

-----------------------------------------------------------------------------
\* The sheet of a schedule.

\* The sheets of a schedule, whose volunteers are on days it has.
SheetFields == [status : Statuses, days : Seq(Days), staffed : SUBSET Days, hidden : SUBSET Days, linked : SUBSET Days]
IsSheet(x) == x \in SheetFields /\ x.staffed \subseteq Range(x.days)
WasMade(s) == row[s].status # "unmade"

DayOps == CellWrites \cup {"addDay", "removeDay"}
TaskFields == [op : Writes \cup {"open"}, step : Steps, on : Schedules, back : Schedules \cup {Nothing}, arg : Days \cup Statuses \cup {Nothing} \cup Seq(Days),
               answer : {"none", "ok", "failed", "warned"}, data : SheetFields \cup {Nothing}]
\* What a task is asked with, and what it is answered.
TaskIs(c) ==
    /\ c \in TaskFields
    /\ c.op \in DayOps => c.arg \in Days
    /\ c.op = "status" => c.arg \in Statuses
    /\ c.op = "reorder" => c.arg \in Seq(Days)
    /\ c.op = "open" => c.step # "write"
    /\ c.back = Nothing => c.op = "confirm"
    /\ c.op = "create" => c.back = c.on
    /\ c.answer = "warned" => c.op = "add" /\ c.step = "write"
    /\ c.step = "read" => c.answer # "warned" /\ (c.answer = "ok" => IsSheet(c.data) /\ WasMade(c.on))
AsksAre == [action : [of : Schedules, day : Days \cup {"delete"}] \cup {Nothing}, status : [of : Schedules, from : Statuses] \cup {Nothing},
            warning : [of : Schedules, day : Days] \cup {Nothing}]
EditorShape ==
    /\ row = [s \in Schedules |-> row[s]]
    /\ \A s \in Schedules : IsSheet(row[s]) \/ row[s] \in [status : {"unmade", "gone"}]
    /\ chosen \in Schedules \cup {Nothing}
    /\ shown # Nothing => shown = [of |-> shown.of, sheet |-> shown.sheet] /\ shown.of \in Schedules /\ IsSheet(shown.sheet) /\ WasMade(shown.of)
    /\ order # Nothing => order = [of |-> order.of, days |-> order.days] /\ order.of \in Schedules /\ order.days \in Seq(Days) /\ WasMade(order.of)
    /\ ask \in AsksAre
    /\ task = [h \in Tasks |-> task[h]] /\ \A h \in Tasks : Awaited(h) => TaskIs(task[h])
    /\ doubt \in BOOLEAN /\ crossed \in BOOLEAN

\* Unless it was chosen while another was awaited, all that is awaited is of the
\* schedule that is chosen, and so is what it has loaded again, but for one that
\* is being made.
OneIsChosen ==
    ActsOnWhatIsShown /\
    (chosen # Nothing /\ ~crossed => \A h \in Tasks : Awaited(h) =>
        (task[h].on = chosen /\ task[h].back = chosen) \/ (task[h].op = "create" /\ task[h].step = "write"))

\* The answer that has the sheet loaded again, or taken off the screen, whichever
\* schedule it is of.
Reloads(c) ==
    /\ c # NoTask
    /\ \/ c.step = "read" /\ c.op \notin {"open", "create"}
       \/ c.step = "write" /\ c.answer = "ok" /\ c.op \in {"status", "addDay", "removeDay", "link", "unlink", "delete"}
       \/ c.step = "write" /\ c.answer = "failed" /\ c.op \in {"hide", "show"}
Reloading == \E h \in Tasks : Reloads(task[h])

Waits(c, s, ops) == c # NoTask /\ c.step = "write" /\ c.on = s /\ c.op \in ops
\* A cell whose change is shown before it is made, and one that is the other way.
Toggles(c, s, d) == Waits(c, s, {"hide", "show"}) /\ c.arg = d /\ c.answer = "none"
Staffs(c, s, d) == Waits(c, s, {"add", "remove", "confirm"}) /\ c.arg = d /\ c.answer = "ok"
\* An order that the rows do not have yet.
Orders(c) == order # Nothing /\ Waits(c, order.of, {"reorder"}) /\ c.arg = order.days /\ c.answer \in {"none", "failed"}
NewDays(c, s) == Waits(c, s, {"addDay", "removeDay"}) /\ c.answer = "ok"

\* The order the grid keeps is that of the rows, or is awaited, or is dropped when
\* the answer comes; an older one that is still to be served is overlapped by it.
OrderFollows ==
    order # Nothing =>
        /\ \A h \in Tasks : Waits(task[h], order.of, {"reorder"}) /\ task[h].answer = "none" =>
             task[h].arg = order.days \/ \E k \in Tasks \ {h} : Orders(task[k])
        /\ \/ (Exists(order.of) /\ Range(order.days) = Range(row[order.of].days) => order.days = row[order.of].days)
           \/ \E h \in Tasks : Orders(task[h]) \/ NewDays(task[h], order.of)

\* The copy that is shown is what is stored, part by part, but for what an answer
\* that is awaited will change.
SheetFollows ==
    LET s == shown.of
        x == shown.sheet IN
    /\ Exists(s) /\ x.status = row[s].status /\ x.linked = row[s].linked /\ Range(x.days) = Range(row[s].days)
    /\ ShownDays = row[s].days \/ \E h \in Tasks : Orders(task[h]) /\ order.of = s /\ Range(order.days) = Range(x.days)
    /\ \A h \in Tasks : Waits(task[h], s, {"reorder"}) /\ task[h].answer \in {"none", "failed"} => order # Nothing /\ order.of = s
    /\ \A d \in Days : (d \in x.staffed <=> d \in row[s].staffed) \/ \E h \in Tasks : Staffs(task[h], s, d)
    /\ \A d \in Days : (d \in x.hidden <=> d \in row[s].hidden) \/ \E h \in Tasks : Toggles(task[h], s, d)
    /\ \A h \in Tasks, d \in Days : Toggles(task[h], s, d) =>
         (d \in x.hidden <=> task[h].op = "hide") \/ \E k \in Tasks \ {h} : Toggles(task[k], s, d)
GridFollows == OrderFollows /\ (shown # Nothing => SheetFollows \/ Reloading)
EditorInv == EditorShape /\ OneIsChosen /\ (~doubt => GridFollows)

-----------------------------------------------------------------------------
\* What is written to a sheet.

LEMMA TurnedIs ==
  ASSUME NEW q \in Seq(Days), Len(q) > 1
  PROVE  LET t == Append(Tail(q), Head(q)) IN t \in Seq(Days) /\ Range(t) = Range(q)
<1> DEFINE t == Append(Tail(q), Head(q))
<1>1. Len(q) \in Nat /\ DOMAIN q = 1..Len(q) /\ \A i \in 1..Len(q) : q[i] \in Days
  OBVIOUS
<1>2. Head(q) = q[1] /\ Tail(q) \in Seq(Days) /\ Len(Tail(q)) = Len(q) - 1 /\ \A i \in 1..Len(q) - 1 : Tail(q)[i] = q[i + 1]
  BY <1>1
<1>3. t \in Seq(Days) /\ Len(t) = Len(q) /\ t[Len(q)] = q[1] /\ \A i \in 1..Len(q) - 1 : t[i] = q[i + 1]
  BY <1>1, <1>2
<1> HIDE DEF t
<1>4. DOMAIN t = 1..Len(q)
  BY <1>3
<1>5. \A i \in DOMAIN t : \E k \in DOMAIN q : t[i] = q[k]
  <2> TAKE i \in DOMAIN t
  <2>1. CASE i = Len(q)
    BY <1>1, <1>3, <2>1
  <2>2. CASE i # Len(q)
    <3>1. i \in 1..Len(q) - 1 /\ i + 1 \in DOMAIN q
      BY <1>1, <1>4, <2>2
    <3> QED BY <1>3, <3>1
  <2> QED BY <2>1, <2>2
<1>6. \A k \in DOMAIN q : \E i \in DOMAIN t : t[i] = q[k]
  <2> TAKE k \in DOMAIN q
  <2>1. CASE k = 1
    BY <1>1, <1>3, <1>4, <2>1
  <2>2. CASE k # 1
    <3>1. k - 1 \in 1..Len(q) - 1 /\ (k - 1) + 1 = k /\ k - 1 \in DOMAIN t
      BY <1>1, <1>4, <2>2
    <3> QED BY <1>3, <3>1
  <2> QED BY <2>1, <2>2
<1>7. Range(t) = Range(q)
  BY <1>5, <1>6 DEF Range
<1> QED BY <1>3, <1>7 DEF t

LEMMA PlacedIs ==
  ASSUME NEW q \in Seq(Days), NEW e \in Range(q)
  PROVE  LET t == RemoveAt(q, Place(q, e)) IN t \in Seq(Days) /\ Range(q) \ {e} \subseteq Range(t)
<1> PICK p : p = Place(q, e)
  OBVIOUS
<1> DEFINE t == RemoveAt(q, p)
<1>1. Len(q) \in Nat /\ DOMAIN q = 1..Len(q) /\ \A i \in 1..Len(q) : q[i] \in Days
  OBVIOUS
<1>2. p \in 1..Len(q) /\ q[p] = e
  BY <1>1 DEF Place, Range
<1>3. /\ SubSeq(q, 1, p - 1) \in Seq(Days) /\ Len(SubSeq(q, 1, p - 1)) = p - 1
      /\ \A i \in 1..p - 1 : SubSeq(q, 1, p - 1)[i] = q[i]
  BY <1>1, <1>2
<1>4. /\ SubSeq(q, p + 1, Len(q)) \in Seq(Days) /\ Len(SubSeq(q, p + 1, Len(q))) = Len(q) - p
      /\ \A i \in 1..Len(q) - p : SubSeq(q, p + 1, Len(q))[i] = q[i + p]
  BY <1>1, <1>2
<1>5. /\ t \in Seq(Days) /\ Len(t) = Len(q) - 1
      /\ \A i \in 1..p - 1 : t[i] = q[i]
      /\ \A i \in p..Len(q) - 1 : t[i] = q[i + 1]
  <2> DEFINE a == SubSeq(q, 1, p - 1)
             b == SubSeq(q, p + 1, Len(q))
  <2>1. t = a \o b
    BY DEF RemoveAt
  <2>2. /\ a \in Seq(Days) /\ b \in Seq(Days) /\ Len(a) = p - 1 /\ Len(b) = Len(q) - p
        /\ \A i \in 1..p - 1 : a[i] = q[i]
        /\ \A i \in 1..Len(q) - p : b[i] = q[i + p]
    BY <1>3, <1>4
  <2> HIDE DEF a, b, t
  <2>3. t \in Seq(Days) /\ Len(t) = Len(q) - 1
    <3>1. t \in Seq(Days) /\ Len(t) = Len(a) + Len(b)
      <4>1. a \o b \in Seq(Days) /\ Len(a \o b) = Len(a) + Len(b)
        BY <2>2, SMT
      <4> QED BY <2>1, <4>1

    <3>2. Len(a) = p - 1 /\ Len(b) = Len(q) - p
      BY <2>2
    <3> QED BY <1>1, <1>2, <3>1, <3>2
  <2>4. ASSUME NEW i \in 1..p - 1 PROVE t[i] = q[i]
    <3>1. i \in 1..Len(a)
      BY <1>1, <1>2, <2>2
    <3>2. t[i] = a[i]
      BY <2>1, <2>2, <3>1
    <3> QED BY <2>2, <3>2
  <2>5. ASSUME NEW i \in p..Len(q) - 1 PROVE t[i] = q[i + 1]
    <3>1. i - (p - 1) \in 1..Len(q) - p /\ (i - (p - 1)) + p = i + 1
      BY <1>1, <1>2
    <3>2. t[i] = b[i - (p - 1)]
      BY <1>1, <1>2, <2>1, <2>2
    <3> QED BY <2>2, <3>1, <3>2
  <2> QED BY <2>3, <2>4, <2>5
<1> HIDE DEF t
<1>6. ASSUME NEW x \in Range(q), x # e PROVE x \in Range(t)
  <2>1. PICK k \in 1..Len(q) : x = q[k]
    BY <1>1 DEF Range
  <2>2. DOMAIN t = 1..Len(q) - 1
    BY <1>1, <1>5
  <2>3. CASE k < p
    <3>1. k \in 1..p - 1 /\ k \in DOMAIN t
      BY <1>1, <1>2, <2>2, <2>3
    <3> QED BY <1>5, <2>1, <3>1 DEF Range
  <2>4. CASE k > p
    <3>1. k - 1 \in p..Len(q) - 1 /\ k - 1 \in DOMAIN t /\ (k - 1) + 1 = k
      BY <1>1, <1>2, <2>2, <2>4
    <3> QED BY <1>5, <2>1, <3>1 DEF Range
  <2>5. k # p
    BY <1>2, <1>6, <2>1
  <2> QED BY <1>1, <1>2, <2>3, <2>4, <2>5
<1> QED BY <1>5, <1>6 DEF t

LEMMA AppendedIs ==
  ASSUME NEW q \in Seq(Days), NEW e \in Days
  PROVE  Append(q, e) \in Seq(Days) /\ Range(q) \subseteq Range(Append(q, e))
<1>1. DOMAIN q \subseteq DOMAIN Append(q, e) /\ \A i \in DOMAIN q : Append(q, e)[i] = q[i]
  OBVIOUS
<1> QED BY <1>1 DEF Range

LEMMA SheetParts ==
  ASSUME NEW x, IsSheet(x)
  PROVE  /\ x = [status |-> x.status, days |-> x.days, staffed |-> x.staffed, hidden |-> x.hidden, linked |-> x.linked]
         /\ x.status \in Statuses /\ x.days \in Seq(Days) /\ x.staffed \subseteq Days /\ x.hidden \subseteq Days /\ x.linked \subseteq Days
         /\ x.staffed \subseteq Range(x.days)
BY DEF IsSheet, SheetFields

LEMMA SheetOf ==
  ASSUME NEW x, x \in SheetFields, x.staffed \subseteq Range(x.days)
  PROVE  IsSheet(x)
BY DEF IsSheet

\* The parts of a sheet that each write leaves alone.
LEMMA WrittenIs ==
  ASSUME NEW x, IsSheet(x), NEW op \in Writes \ {"create", "delete"}, NEW arg,
         op \in DayOps => arg \in Days, op = "status" => arg \in Statuses, op = "reorder" => arg \in Seq(Days),
         op \in {"add", "confirm", "removeDay"} => Has(x, arg)
  PROVE  LET y == Written(x, op, arg) IN
         /\ IsSheet(y)
         /\ op # "status" => y.status = x.status
         /\ op \notin {"link", "unlink", "removeDay"} => y.linked = x.linked
         /\ op \notin {"add", "confirm", "remove", "removeDay"} => y.staffed = x.staffed
         /\ op \in {"add", "confirm"} => y.staffed = x.staffed \cup {arg}
         /\ op = "remove" => y.staffed = x.staffed \ {arg}
         /\ op \notin {"hide", "show", "removeDay"} => y.hidden = x.hidden
         /\ op = "hide" => y.hidden = x.hidden \cup {arg}
         /\ op = "show" => y.hidden = x.hidden \ {arg}
         /\ op \notin {"addDay", "removeDay", "reorder"} => y.days = x.days
         /\ op = "reorder" => y.days = Reordered(x.days, arg)
<1> DEFINE y == Written(x, op, arg)
<1>0. x \in SheetFields /\ x.staffed \subseteq Range(x.days)
  BY DEF IsSheet
<1>1. CASE op \in {"add", "confirm"}
  <2>1. y = [x EXCEPT !.staffed = x.staffed \cup {arg}] /\ arg \in Days /\ arg \in Range(x.days)
    BY <1>1 DEF Written, Has, DayOps, CellWrites
  <2> HIDE DEF y
  <2>2. /\ y \in SheetFields /\ y.status = x.status /\ y.days = x.days /\ y.staffed = x.staffed \cup {arg}
        /\ y.hidden = x.hidden /\ y.linked = x.linked
    BY <1>0, <2>1 DEF SheetFields
  <2> QED BY <1>0, <1>1, <2>1, <2>2, SheetOf DEF y
<1>2. CASE op = "remove"
  <2>1. y = [x EXCEPT !.staffed = x.staffed \ {arg}]
    BY <1>2 DEF Written
  <2> HIDE DEF y
  <2>2. /\ y \in SheetFields /\ y.status = x.status /\ y.days = x.days /\ y.staffed = x.staffed \ {arg}
        /\ y.hidden = x.hidden /\ y.linked = x.linked
    BY <1>0, <2>1 DEF SheetFields
  <2> QED BY <1>0, <1>2, <2>2, SheetOf DEF y
<1>3. CASE op \in {"hide", "show"}
  <2>1. y = [x EXCEPT !.hidden = IF op = "hide" THEN x.hidden \cup {arg} ELSE x.hidden \ {arg}] /\ arg \in Days
    BY <1>3 DEF Written, DayOps, CellWrites
  <2> HIDE DEF y
  <2>2. /\ y \in SheetFields /\ y.status = x.status /\ y.days = x.days /\ y.staffed = x.staffed
        /\ y.hidden = (IF op = "hide" THEN x.hidden \cup {arg} ELSE x.hidden \ {arg}) /\ y.linked = x.linked
    BY <1>0, <2>1 DEF SheetFields
  <2> QED BY <1>0, <1>3, <2>2, SheetOf DEF y
<1>4. CASE op \in {"link", "unlink"}
  <2>1. y = [x EXCEPT !.linked = IF op = "link" THEN x.linked \cup {arg} ELSE x.linked \ {arg}] /\ arg \in Days
    BY <1>4 DEF Written, DayOps, CellWrites
  <2> HIDE DEF y
  <2>2. /\ y \in SheetFields /\ y.status = x.status /\ y.days = x.days /\ y.staffed = x.staffed /\ y.hidden = x.hidden
    BY <1>0, <2>1 DEF SheetFields
  <2> QED BY <1>0, <1>4, <2>2, SheetOf DEF y
<1>5. CASE op = "status"
  <2>1. y = [x EXCEPT !.status = arg]
    BY <1>5 DEF Written
  <2> HIDE DEF y
  <2>2. /\ y \in SheetFields /\ y.days = x.days /\ y.staffed = x.staffed /\ y.hidden = x.hidden /\ y.linked = x.linked
    BY <1>0, <1>5, <2>1 DEF SheetFields
  <2> QED BY <1>0, <1>5, <2>2, SheetOf DEF y
<1>6. CASE op \in {"addDay", "reorder"}
  <2> DEFINE days == IF op = "addDay" THEN Append(x.days, arg) ELSE Reordered(x.days, arg)
  <2>1. y = [x EXCEPT !.days = days]
    BY <1>6 DEF Written
  <2>2. days \in Seq(Days) /\ Range(x.days) \subseteq Range(days)
    <3>1. x.days \in Seq(Days)
      BY <1>0 DEF SheetFields
    <3>2. CASE op = "addDay"
      BY <3>1, <3>2, AppendedIs DEF DayOps
    <3>3. CASE op = "reorder"
      BY <3>1, <3>3 DEF Reordered
    <3> QED BY <1>6, <3>2, <3>3
  <2>3. op = "reorder" => days = Reordered(x.days, arg)
    OBVIOUS
  <2> HIDE DEF y, days
  <2>4. /\ y \in SheetFields /\ y.status = x.status /\ y.days = days /\ y.staffed = x.staffed /\ y.hidden = x.hidden /\ y.linked = x.linked
    BY <1>0, <2>1, <2>2 DEF SheetFields
  <2> QED BY <1>0, <1>6, <2>2, <2>3, <2>4, SheetOf DEF y
<1>7. CASE op = "removeDay"
  <2> DEFINE days == RemoveAt(x.days, Place(x.days, arg))
  <2>1. /\ y = [x EXCEPT !.days = days, !.staffed = x.staffed \ {arg}, !.hidden = x.hidden \ {arg}, !.linked = x.linked \ {arg}]
        /\ arg \in Range(x.days)
    BY <1>7 DEF Written, WithoutDay, Has
  <2>2. days \in Seq(Days) /\ Range(x.days) \ {arg} \subseteq Range(days)
    BY <1>0, <2>1, PlacedIs DEF SheetFields
  <2> HIDE DEF y, days
  <2>3. /\ y \in SheetFields /\ y.status = x.status /\ y.days = days /\ y.staffed = x.staffed \ {arg}
    BY <1>0, <2>1, <2>2 DEF SheetFields
  <2> QED BY <1>0, <1>7, <2>2, <2>3, SheetOf DEF y
<1> QED BY <1>1, <1>2, <1>3, <1>4, <1>5, <1>6, <1>7 DEF Writes, CellWrites

LEMMA NewSheetIs == IsSheet(NewSheet)
BY EditorAssumption DEF IsSheet, SheetFields, NewSheet, Statuses

-----------------------------------------------------------------------------
\* The shape of the page.

LEMMA NoTaskIs == \A c \in TaskFields : c # NoTask
BY DEF TaskFields, NoTask

LEMMA TaskSet ==
  ASSUME EditorShape, NEW h \in Tasks, NEW c, task' = [task EXCEPT ![h] = c]
  PROVE  /\ task'[h] = c /\ \A k \in Tasks \ {h} : task'[k] = task[k]
         /\ task' = [k \in Tasks |-> task'[k]]
BY DEF EditorShape

LEMMA SheetStays ==
  ASSUME EditorShape, NEW s \in Schedules
  PROVE  /\ IsSheet(row[s]) <=> Exists(s)
         /\ Exists(s) => WasMade(s)
         /\ ~Exists(s) => row[s] \in [status : {"unmade", "gone"}]
<1>1. IsSheet(row[s]) => row[s].status \in Statuses
  BY SheetParts
<1>2. IsSheet(row[s]) \/ row[s] \in [status : {"unmade", "gone"}]
  BY DEF EditorShape
<1> QED BY <1>1, <1>2 DEF Exists, Statuses, WasMade

LEMMA EditorShapeKept ==
  ASSUME EditorShape, row' = [s \in Schedules |-> row'[s]],
         \A s \in Schedules : row'[s] = row[s] \/ IsSheet(row'[s]) \/ row'[s] = [status |-> "gone"],
         chosen' \in Schedules \cup {Nothing},
         \/ shown' \in {shown, Nothing}
         \/ /\ shown' = [of |-> shown'.of, sheet |-> shown'.sheet]
            /\ shown'.of \in Schedules /\ WasMade(shown'.of) /\ IsSheet(shown'.sheet),
         \/ order' \in {order, Nothing}
         \/ /\ order' = [of |-> order'.of, days |-> order'.days]
            /\ order'.of \in Schedules /\ WasMade(order'.of) /\ order'.days \in Seq(Days),
         ask' \in AsksAre, task' = [h \in Tasks |-> task'[h]],
         \A h \in Tasks : task'[h] = task[h] \/ task'[h] = NoTask \/ TaskIs(task'[h]),
         doubt' \in BOOLEAN, crossed' \in BOOLEAN
  PROVE  EditorShape' /\ \A s \in Schedules : WasMade(s) => WasMade(s)'
<1>1. \A s \in Schedules : WasMade(s) => WasMade(s)'
  <2> TAKE s \in Schedules
  <2>1. IsSheet(row'[s]) => row'[s].status \in Statuses
    BY SheetParts
  <2> QED BY <2>1 DEF WasMade, Statuses
<1>2. ASSUME NEW h \in Tasks, Awaited(h)' PROVE TaskIs(task[h])'
  <2>1. task'[h] # NoTask
    BY <1>2 DEF Awaited
  <2>2. TaskIs(task'[h])
    BY <2>1 DEF EditorShape, Awaited
  <2> QED BY <1>1, <2>2 DEF TaskIs, TaskFields
<1>3. \A s \in Schedules : IsSheet(row'[s]) \/ row'[s] \in [status : {"unmade", "gone"}]
  BY DEF EditorShape
<1>4. shown' # Nothing => shown' = [of |-> shown'.of, sheet |-> shown'.sheet] /\ shown'.of \in Schedules /\ IsSheet(shown'.sheet) /\ WasMade(shown.of)'
  <2>1. shown' # Nothing => /\ shown' = [of |-> shown'.of, sheet |-> shown'.sheet] /\ shown'.of \in Schedules
                            /\ IsSheet(shown'.sheet) /\ WasMade(shown'.of)
    BY DEF EditorShape
  <2> QED BY <1>1, <2>1 DEF WasMade
<1>5. order' # Nothing => order' = [of |-> order'.of, days |-> order'.days] /\ order'.of \in Schedules /\ order'.days \in Seq(Days) /\ WasMade(order.of)'
  <2>1. order' # Nothing => /\ order' = [of |-> order'.of, days |-> order'.days] /\ order'.of \in Schedules
                            /\ order'.days \in Seq(Days) /\ WasMade(order'.of)
    BY DEF EditorShape
  <2> QED BY <1>1, <2>1 DEF WasMade
<1> QED BY <1>1, <1>2, <1>3, <1>4, <1>5 DEF EditorShape

LEMMA RowsUnread ==
  ASSUME EditorShape, UNCHANGED row
  PROVE  row' = [s \in Schedules |-> row'[s]] /\ \A s \in Schedules : row'[s] = row[s]
BY DEF EditorShape

\* The task with its answer, and on its next step.
LEMMA TaskAnswered ==
  ASSUME NEW c, TaskIs(c), c.answer = "none", NEW a \in {"ok", "failed", "warned"},
         a = "warned" => c.op = "add" /\ c.step = "write", a = "ok" => c.step # "read"
  PROVE  LET d == [c EXCEPT !.answer = a] IN
         TaskIs(d) /\ d.op = c.op /\ d.step = c.step /\ d.on = c.on /\ d.back = c.back /\ d.arg = c.arg /\ d.answer = a
<1> DEFINE d == [c EXCEPT !.answer = a]
<1>1. d \in TaskFields /\ d.op = c.op /\ d.step = c.step /\ d.on = c.on /\ d.back = c.back /\ d.arg = c.arg /\ d.answer = a
  BY DEF TaskIs, TaskFields
<1> HIDE DEF d
<1>2. TaskIs(d)
  BY <1>1 DEF TaskIs
<1> QED BY <1>1, <1>2 DEF d

LEMMA TaskRead ==
  ASSUME NEW c, TaskIs(c), c.step = "read", NEW x, IsSheet(x), WasMade(c.on)
  PROVE  LET d == [c EXCEPT !.answer = "ok", !.data = x] IN
         TaskIs(d) /\ d.op = c.op /\ d.step = c.step /\ d.on = c.on /\ d.back = c.back /\ d.arg = c.arg /\ d.answer = "ok"
<1> DEFINE d == [c EXCEPT !.answer = "ok", !.data = x]
<1>1. /\ d \in TaskFields /\ d.op = c.op /\ d.step = c.step /\ d.on = c.on /\ d.back = c.back /\ d.arg = c.arg /\ d.answer = "ok" /\ d.data = x
  BY DEF TaskIs, TaskFields, IsSheet
<1> HIDE DEF d
<1>2. TaskIs(d)
  BY <1>1 DEF TaskIs
<1> QED BY <1>1, <1>2 DEF d

LEMMA TaskMoves ==
  ASSUME EditorShape, NEW h \in Tasks, Awaited(h), NEW step \in {"read", "roster"}, Goes(h, step)
  PROVE  /\ TaskIs(task'[h]) /\ task'[h] # NoTask /\ \A k \in Tasks \ {h} : task'[k] = task[k]
         /\ task' = [k \in Tasks |-> task'[k]]
         /\ task'[h].op = task[h].op /\ task'[h].on = task[h].on /\ task'[h].back = task[h].back /\ task'[h].arg = task[h].arg
         /\ task'[h].step = step /\ task'[h].answer = "none"
<1> DEFINE d == [task[h] EXCEPT !.step = step, !.answer = "none", !.data = Nothing]
<1>1. task' = [task EXCEPT ![h] = d]
  BY DEF Goes
<1>2. TaskIs(task[h])
  BY DEF EditorShape
<1>3. /\ d \in TaskFields /\ d.op = task[h].op /\ d.on = task[h].on /\ d.back = task[h].back /\ d.arg = task[h].arg /\ d.step = step /\ d.answer = "none"
  BY <1>2 DEF TaskIs, TaskFields, Steps
<1> HIDE DEF d
<1>4. TaskIs(d) /\ d # NoTask
  BY <1>2, <1>3, NoTaskIs DEF TaskIs
<1>5. task'[h] = d /\ (\A k \in Tasks \ {h} : task'[k] = task[k]) /\ task' = [k \in Tasks |-> task'[k]]
  BY <1>1, TaskSet
<1> QED BY <1>3, <1>4, <1>5

LEMMA TaskRefreshed ==
  ASSUME EditorShape, NEW h \in Tasks, task[h] # NoTask, task[h].op # "confirm", Refreshes(h)
  PROVE  /\ TaskIs(task'[h]) /\ task'[h] # NoTask /\ \A k \in Tasks \ {h} : task'[k] = task[k]
         /\ task' = [k \in Tasks |-> task'[k]]
         /\ task'[h].op = task[h].op /\ task'[h].on = task[h].back /\ task'[h].back = task[h].back
         /\ task'[h].step = "read" /\ task'[h].answer = "none"
<1> DEFINE d == [task[h] EXCEPT !.step = "read", !.on = task[h].back, !.answer = "none", !.data = Nothing]
<1>1. task' = [task EXCEPT ![h] = d]
  BY DEF Refreshes
<1>2. TaskIs(task[h]) /\ task[h].back \in Schedules
  BY DEF EditorShape, Awaited, TaskIs, TaskFields
<1>3. /\ d \in TaskFields /\ d.op = task[h].op /\ d.on = task[h].back /\ d.back = task[h].back /\ d.arg = task[h].arg
      /\ d.step = "read" /\ d.answer = "none"
  BY <1>2 DEF TaskIs, TaskFields, Steps
<1> HIDE DEF d
<1>4. TaskIs(d) /\ d # NoTask
  BY <1>2, <1>3, NoTaskIs DEF TaskIs
<1>5. task'[h] = d /\ (\A k \in Tasks \ {h} : task'[k] = task[k]) /\ task' = [k \in Tasks |-> task'[k]]
  BY <1>1, TaskSet
<1> QED BY <1>3, <1>4, <1>5

LEMMA TaskEnds ==
  ASSUME EditorShape, NEW h \in Tasks, Ends(h)
  PROVE  task'[h] = NoTask /\ (\A k \in Tasks \ {h} : task'[k] = task[k]) /\ task' = [k \in Tasks |-> task'[k]]
BY TaskSet DEF Ends

\* A task that starts.
LEMMA TaskStarts ==
  ASSUME EditorShape, NEW h \in Tasks, NEW op \in Writes \cup {"open"}, NEW step \in Steps, NEW s \in Schedules, NEW now, NEW arg,
         now \in Schedules \/ (now = Nothing /\ op = "confirm"), op = "create" => now = s,
         op \in DayOps => arg \in Days, op = "status" => arg \in Statuses, op = "reorder" => arg \in Seq(Days),
         op \in {"create", "delete", "open"} => arg = Nothing, op = "open" => step # "write",
         Starts(h, op, step, s, now, arg)
  PROVE  /\ task[h] = NoTask /\ TaskIs(task'[h]) /\ task'[h] # NoTask /\ (\A k \in Tasks \ {h} : task'[k] = task[k])
         /\ task' = [k \in Tasks |-> task'[k]]
         /\ task'[h].op = op /\ task'[h].step = step /\ task'[h].on = s /\ task'[h].back = now /\ task'[h].arg = arg
         /\ task'[h].answer = "none"
<1> DEFINE d == [op |-> op, step |-> step, on |-> s, back |-> now, arg |-> arg, answer |-> "none", data |-> Nothing]
<1>1. task[h] = NoTask /\ task' = [task EXCEPT ![h] = d]
  BY DEF Starts
<1>2. arg \in Days \cup Statuses \cup {Nothing} \cup Seq(Days)
  BY DEF Writes, CellWrites, DayOps
<1>3. d \in TaskFields /\ d.op = op /\ d.step = step /\ d.on = s /\ d.back = now /\ d.arg = arg /\ d.answer = "none"
  BY <1>2 DEF TaskFields
<1> HIDE DEF d
<1>4. TaskIs(d) /\ d # NoTask
  BY <1>3, NoTaskIs, EditorAssumption DEF TaskIs
<1>5. task'[h] = d /\ (\A k \in Tasks \ {h} : task'[k] = task[k]) /\ task' = [k \in Tasks |-> task'[k]]
  BY <1>1, TaskSet
<1> QED BY <1>1, <1>3, <1>4, <1>5

\* What each task means to the grid, of which another may mean the same.
Unordered(c, s) == Waits(c, s, {"reorder"}) /\ c.answer \in {"none", "failed"}
SameOrder(c, d) == \A s \in Schedules :
    /\ Unordered(c, s) <=> Unordered(d, s)
    /\ Unordered(c, s) => c.arg = d.arg /\ (d.answer = "none" => c.answer = "none")
    /\ NewDays(c, s) => NewDays(d, s)
SameCells(c, d) == \A s \in Schedules, e \in Days :
    /\ Staffs(c, s, e) => Staffs(d, s, e)
    /\ Toggles(c, s, e) <=> Toggles(d, s, e)
    /\ Toggles(c, s, e) => c.op = d.op
\* A task that the rows, the order and the cells do not wait for.
Quiet(c) ==
    \/ c = NoTask
    \/ c.step # "write"
    \/ c.op \notin {"hide", "show", "reorder", "add", "remove", "confirm", "addDay", "removeDay"}
    \/ c.op \in {"add", "remove", "confirm", "addDay", "removeDay"} /\ c.answer # "ok"
    \/ c.op \in {"hide", "show", "reorder"} /\ c.answer = "ok"

LEMMA QuietIsSame ==
  ASSUME NEW c, NEW d, Quiet(c), Quiet(d)
  PROVE  SameOrder(c, d) /\ SameCells(c, d)
BY DEF Quiet, SameOrder, SameCells, Unordered, NewDays, Staffs, Toggles, Waits

OthersStay(h) == \A k \in Tasks \ {h} : task'[k] = task[k]

LEMMA OrderKept ==
  ASSUME EditorShape, OrderFollows, UNCHANGED <<row, order>>, NEW h \in Tasks, OthersStay(h), SameOrder(task[h], task'[h])
  PROVE  OrderFollows'
<1> SUFFICES ASSUME order # Nothing PROVE OrderFollows'
  BY DEF OrderFollows
<1>0. order.of \in Schedules
  BY DEF EditorShape
<1>1. ASSUME NEW k \in Tasks, Orders(task[k]) PROVE Orders(task'[k]) /\ Orders(task[k])'
  <2>1. Unordered(task[k], order.of) /\ task[k].arg = order.days
    BY <1>1 DEF Orders, Unordered
  <2>2. Unordered(task'[k], order.of) /\ task'[k].arg = order.days
    BY <1>0, <2>1 DEF SameOrder, OthersStay
  <2> QED BY <2>2 DEF Orders, Unordered
<1>2. ASSUME NEW k \in Tasks, NewDays(task[k], order.of) PROVE NewDays(task'[k], order.of)
  BY <1>0, <1>2 DEF SameOrder, OthersStay
<1>3. ASSUME NEW k \in Tasks, Waits(task'[k], order.of, {"reorder"}), task'[k].answer = "none"
      PROVE  task'[k].arg = order.days \/ \E j \in Tasks \ {k} : Orders(task[j])'
  <2>1. Unordered(task'[k], order.of)
    BY <1>3 DEF Unordered
  <2>2. Waits(task[k], order.of, {"reorder"}) /\ task[k].answer = "none" /\ task[k].arg = task'[k].arg
    BY <1>0, <1>3, <2>1 DEF SameOrder, OthersStay, Unordered
  <2>3. task[k].arg = order.days \/ \E j \in Tasks \ {k} : Orders(task[j])
    BY <2>2 DEF OrderFollows
  <2> QED BY <1>1, <2>2, <2>3
<1>4. \/ (Exists(order.of) /\ Range(order.days) = Range(row[order.of].days) => order.days = row[order.of].days)
      \/ \E k \in Tasks : Orders(task[k])' \/ NewDays(task'[k], order.of)
  BY <1>1, <1>2 DEF OrderFollows
<1>5. Exists(order.of)' <=> Exists(order.of)
  BY DEF Exists
<1> QED BY <1>3, <1>4, <1>5 DEF OrderFollows

LEMMA ReloadingKept ==
  ASSUME Reloading, NEW h \in Tasks, OthersStay(h), Reloads(task[h]) => Reloads(task'[h])
  PROVE  Reloading'
BY DEF Reloading, OthersStay

LEMMA SheetKept ==
  ASSUME EditorShape, SheetFollows, shown # Nothing, UNCHANGED <<row, shown, order>>, NEW h \in Tasks, OthersStay(h),
         SameOrder(task[h], task'[h]), SameCells(task[h], task'[h])
  PROVE  SheetFollows'
<1> PICK s, x : s = shown.of /\ x = shown.sheet
  OBVIOUS
<1>0. s \in Schedules /\ shown'.of = s /\ shown'.sheet = x
  BY DEF EditorShape
<1>1. Exists(s)' <=> Exists(s)
  BY DEF Exists
<1>2. ShownDays' = ShownDays
  BY DEF ShownDays
<1>3. ASSUME NEW k \in Tasks, Orders(task[k]), order.of = s PROVE Orders(task[k])'
  <2>1. Unordered(task[k], s) /\ task[k].arg = order.days
    BY <1>3 DEF Orders, Unordered
  <2>2. Unordered(task'[k], s) /\ task'[k].arg = order.days
    BY <1>0, <2>1 DEF SameOrder, OthersStay
  <2> QED BY <1>3, <2>2 DEF Orders, Unordered
<1>4. ASSUME NEW k \in Tasks, Waits(task'[k], s, {"reorder"}), task'[k].answer \in {"none", "failed"}
      PROVE  order # Nothing /\ order.of = s
  <2>1. Unordered(task[k], s)
    BY <1>0, <1>4 DEF SameOrder, OthersStay, Unordered
  <2> QED BY <2>1 DEF SheetFollows, Unordered
<1>5. ASSUME NEW e \in Days, NEW k \in Tasks, Staffs(task[k], s, e) PROVE Staffs(task'[k], s, e)
  BY <1>0, <1>5 DEF SameCells, OthersStay
<1>6. ASSUME NEW e \in Days, NEW k \in Tasks
      PROVE  (Toggles(task[k], s, e) <=> Toggles(task'[k], s, e)) /\ (Toggles(task[k], s, e) => task'[k].op = task[k].op)
  BY <1>0 DEF SameCells, OthersStay
<1>7. \A k \in Tasks, e \in Days : Toggles(task'[k], s, e) =>
         (e \in x.hidden <=> task'[k].op = "hide") \/ \E j \in Tasks \ {k} : Toggles(task'[j], s, e)
  BY <1>6 DEF SheetFollows
<1>8. \A e \in Days : (e \in x.hidden <=> e \in row[s].hidden) \/ \E k \in Tasks : Toggles(task'[k], s, e)
  BY <1>6 DEF SheetFollows
<1>9. \A e \in Days : (e \in x.staffed <=> e \in row[s].staffed) \/ \E k \in Tasks : Staffs(task'[k], s, e)
  BY <1>5 DEF SheetFollows
<1>10. ShownDays' = row[s].days \/ \E k \in Tasks : Orders(task[k])' /\ order.of = s /\ Range(order.days) = Range(x.days)
  BY <1>2, <1>3 DEF SheetFollows
<1>11. Exists(s) /\ x.status = row[s].status /\ x.linked = row[s].linked /\ Range(x.days) = Range(row[s].days)
  BY DEF SheetFollows
<1> QED BY <1>0, <1>1, <1>4, <1>7, <1>8, <1>9, <1>10, <1>11 DEF SheetFollows

LEMMA GridKept ==
  ASSUME EditorShape, GridFollows, UNCHANGED <<row, shown, order>>, NEW h \in Tasks, OthersStay(h),
         SameOrder(task[h], task'[h]), SameCells(task[h], task'[h]), Reloads(task[h]) => Reloads(task'[h])
  PROVE  GridFollows'
<1>1. OrderFollows'
  BY OrderKept DEF GridFollows
<1>2. ASSUME shown' # Nothing PROVE SheetFollows' \/ Reloading'
  <2>1. SheetFollows \/ Reloading
    BY <1>2 DEF GridFollows
  <2> QED BY <1>2, <2>1, SheetKept, ReloadingKept
<1> QED BY <1>1, <1>2 DEF GridFollows

\* A task that goes on, or starts, with the schedule that is chosen.
StaysWith(c, d) ==
    \/ d = NoTask \/ (chosen # Nothing /\ ~crossed => d.on = chosen /\ d.back = chosen) \/ (d.op = "create" /\ d.step = "write")
    \/ c # NoTask /\ d.on \in {c.on, c.back} /\ d.back = c.back /\ d.op = c.op /\ (d.step = c.step \/ c.op # "create" \/ c.step # "write")

\* A dialog that stays as it was, is closed, or is opened on the schedule that is chosen.
AskStays(a, b) == b \in {a, Nothing} \/ (chosen # Nothing /\ ~crossed => b.of = chosen)
AsksStay == AskStays(ask.action, ask'.action) /\ AskStays(ask.status, ask'.status) /\ AskStays(ask.warning, ask'.warning)

LEMMA ChosenKept ==
  ASSUME OneIsChosen, UNCHANGED <<chosen, crossed>>,
         shown' # Nothing => (shown # Nothing /\ shown'.of = shown.of) \/ (chosen # Nothing /\ ~crossed => shown'.of = chosen),
         AsksStay,
         \A k \in Tasks : StaysWith(task[k], task'[k])
  PROVE  OneIsChosen'
<1> SUFFICES ASSUME chosen # Nothing, ~crossed PROVE OneIsChosen'
  BY DEF OneIsChosen, ActsOnWhatIsShown
<1>1. /\ shown # Nothing => shown.of = chosen
      /\ ask.status # Nothing => ask.status.of = chosen
      /\ ask.action # Nothing => ask.action.of = chosen
      /\ ask.warning # Nothing => ask.warning.of = chosen
      /\ \A k \in Tasks : task[k] # NoTask => (task[k].on = chosen /\ task[k].back = chosen) \/ (task[k].op = "create" /\ task[k].step = "write")
  BY DEF OneIsChosen, ActsOnWhatIsShown, Awaited
<1>2. ActsOnWhatIsShown'
  <2>1. ask'.status # Nothing => ask'.status.of = chosen
    BY <1>1 DEF AsksStay, AskStays
  <2>2. ask'.action # Nothing => ask'.action.of = chosen
    BY <1>1 DEF AsksStay, AskStays
  <2>3. ask'.warning # Nothing => ask'.warning.of = chosen
    BY <1>1 DEF AsksStay, AskStays
  <2> QED BY <1>1, <2>1, <2>2, <2>3 DEF ActsOnWhatIsShown
<1>3. \A k \in Tasks : task'[k] # NoTask => (task'[k].on = chosen /\ task'[k].back = chosen) \/ (task'[k].op = "create" /\ task'[k].step = "write")
  BY <1>1 DEF StaysWith
<1> QED BY <1>2, <1>3 DEF OneIsChosen, Awaited

\* A step that changes one task, of which the rows and the grid learn nothing.
LEMMA QuietStep ==
  ASSUME EditorInv, UNCHANGED <<row, shown, order, chosen, crossed>>, ask' \in AsksAre, AsksStay,
         doubt' \in BOOLEAN, doubt => doubt',
         NEW h \in Tasks, task' = [k \in Tasks |-> task'[k]], OthersStay(h),
         task'[h] = NoTask \/ TaskIs(task'[h]),
         StaysWith(task[h], task'[h]),
         ~doubt' => SameOrder(task[h], task'[h]) /\ SameCells(task[h], task'[h]) /\ (Reloads(task[h]) => Reloads(task'[h]))
  PROVE  EditorInv'
<1> USE DEF EditorInv
<1>1. EditorShape'
  <2>1. row' = [s \in Schedules |-> row'[s]] /\ \A s \in Schedules : row'[s] = row[s]
    BY RowsUnread
  <2>2. \A k \in Tasks : task'[k] = task[k] \/ task'[k] = NoTask \/ TaskIs(task'[k])
    BY DEF OthersStay
  <2>3. chosen' \in Schedules \cup {Nothing} /\ crossed' \in BOOLEAN /\ shown' \in {shown, Nothing} /\ order' \in {order, Nothing}
    BY DEF EditorShape
  <2> QED BY <2>1, <2>2, <2>3, EditorShapeKept
<1>2. OneIsChosen'
  <2>1. \A k \in Tasks : StaysWith(task[k], task'[k])
    BY DEF OthersStay, StaysWith
  <2>2. shown' # Nothing => shown # Nothing /\ shown'.of = shown.of
    OBVIOUS
  <2> QED BY <2>1, <2>2, ChosenKept
<1>3. ~doubt' => GridFollows'
  BY GridKept
<1> QED BY <1>1, <1>2, <1>3

LEMMA AnswerIsSet ==
  ASSUME EditorShape, NEW h \in Tasks, InFlight(h), NEW a \in {"ok", "failed", "warned"}, Answered(h, a),
         a = "warned" => task[h].op = "add" /\ task[h].step = "write", a = "ok" => task[h].step # "read"
  PROVE  /\ TaskIs(task[h]) /\ task[h] # NoTask /\ task[h].answer = "none"
         /\ TaskIs(task'[h]) /\ task'[h] # NoTask /\ OthersStay(h) /\ task' = [k \in Tasks |-> task'[k]]
         /\ task'[h].op = task[h].op /\ task'[h].step = task[h].step /\ task'[h].on = task[h].on /\ task'[h].back = task[h].back
         /\ task'[h].arg = task[h].arg /\ task'[h].answer = a
<1>1. TaskIs(task[h]) /\ task[h].answer = "none" /\ task[h] # NoTask
  BY DEF EditorShape, InFlight, Awaited
<1> DEFINE d == [task[h] EXCEPT !.answer = a]
<1>2. task'[h] = d /\ OthersStay(h) /\ task' = [k \in Tasks |-> task'[k]]
  BY TaskSet DEF Answered, OthersStay
<1>3. TaskIs(d) /\ d.op = task[h].op /\ d.step = task[h].step /\ d.on = task[h].on /\ d.back = task[h].back /\ d.arg = task[h].arg /\ d.answer = a
  BY <1>1, TaskAnswered
<1> HIDE DEF d
<1>4. d # NoTask
  BY <1>3, NoTaskIs DEF TaskIs
<1> QED BY <1>1, <1>2, <1>3, <1>4

LEMMA WarnKeeps == ASSUME EditorInv, NEW h \in Tasks, warn(h) PROVE EditorInv'
<1> USE DEF EditorInv
<1>1. /\ TaskIs(task'[h]) /\ task'[h] # NoTask /\ OthersStay(h) /\ task' = [k \in Tasks |-> task'[k]]
      /\ task'[h].op = task[h].op /\ task'[h].step = task[h].step /\ task'[h].on = task[h].on /\ task'[h].back = task[h].back /\ task[h] # NoTask
      /\ task[h].op = "add" /\ task[h].answer = "none" /\ task'[h].answer = "warned"
  <2>1. InFlight(h) /\ Answered(h, "warned") /\ task[h].op = "add" /\ task[h].step = "write"
    BY DEF warn
  <2> QED BY <2>1, AnswerIsSet
<1>2. SameOrder(task[h], task'[h]) /\ SameCells(task[h], task'[h])
  BY <1>1, QuietIsSame DEF Quiet
<1>3. StaysWith(task[h], task'[h]) /\ (Reloads(task[h]) => Reloads(task'[h]))
  BY <1>1 DEF StaysWith, Reloads
<1>4. UNCHANGED <<row, shown, order, chosen, crossed, ask, doubt>> /\ ask \in AsksAre /\ doubt \in BOOLEAN /\ AsksStay
  BY DEF warn, page, EditorShape, AsksStay, AskStays
<1> QED BY <1>1, <1>2, <1>3, <1>4, QuietStep

LEMMA FindKeeps == ASSUME EditorInv, NEW h \in Tasks, findOne(h) PROVE EditorInv'
<1> USE DEF EditorInv
<1>0. InFlight(h) /\ task[h].step # "write"
  BY DEF findOne
<1>1. /\ TaskIs(task'[h]) /\ task'[h] # NoTask /\ OthersStay(h) /\ task' = [k \in Tasks |-> task'[k]]
      /\ task'[h].op = task[h].op /\ task'[h].step = task[h].step /\ task'[h].on = task[h].on /\ task'[h].back = task[h].back /\ task[h] # NoTask
  <2>1. CASE task[h].step = "read"
    <3>1. Exists(task[h].on) /\ AnsweredWith(h, row[task[h].on]) /\ TaskIs(task[h]) /\ task[h] # NoTask
      BY <1>0, <2>1 DEF findOne, InFlight, EditorShape, Awaited
    <3>2. IsSheet(row[task[h].on]) /\ WasMade(task[h].on)
      BY <3>1, SheetStays DEF TaskIs, TaskFields
    <3> DEFINE d == [task[h] EXCEPT !.answer = "ok", !.data = row[task[h].on]]
    <3>3. task'[h] = d /\ OthersStay(h) /\ task' = [k \in Tasks |-> task'[k]]
      <4>1. task' = [task EXCEPT ![h].answer = "ok", ![h].data = row[task[h].on]] /\ task = [k \in Tasks |-> task[k]]
        BY <3>1 DEF AnsweredWith, EditorShape
      <4>2. task' = [k \in Tasks |-> task'[k]] /\ \A k \in Tasks \ {h} : task'[k] = task[k]
        BY <4>1
      <4>3. task'[h] = d
        BY <4>1
      <4> QED BY <4>2, <4>3 DEF OthersStay
    <3>4. TaskIs(d) /\ d.op = task[h].op /\ d.step = task[h].step /\ d.on = task[h].on /\ d.back = task[h].back
      BY <2>1, <3>1, <3>2, TaskRead
    <3> HIDE DEF d
    <3>5. d # NoTask
      BY <3>4, NoTaskIs DEF TaskIs
    <3> QED BY <3>1, <3>3, <3>4, <3>5
  <2>2. CASE task[h].step # "read"
    <3>1. Answered(h, "ok")
      BY <2>2 DEF findOne
    <3> QED BY <1>0, <2>2, <3>1, AnswerIsSet
  <2> QED BY <2>1, <2>2
<1>2. SameOrder(task[h], task'[h]) /\ SameCells(task[h], task'[h])
  BY <1>0, <1>1, QuietIsSame DEF Quiet
<1>3. StaysWith(task[h], task'[h]) /\ (Reloads(task[h]) => Reloads(task'[h]))
  BY <1>0, <1>1 DEF StaysWith, Reloads
<1>4. UNCHANGED <<row, shown, order, chosen, crossed, ask, doubt>> /\ ask \in AsksAre /\ doubt \in BOOLEAN /\ AsksStay
  BY DEF findOne, page, EditorShape, AsksStay, AskStays
<1> QED BY <1>1, <1>2, <1>3, <1>4, QuietStep

LEMMA RefuseKeeps == ASSUME EditorInv, NEW h \in Tasks, refuse(h) PROVE EditorInv'
<1> USE DEF EditorInv
<1>1. /\ TaskIs(task'[h]) /\ task'[h] # NoTask /\ OthersStay(h) /\ task' = [k \in Tasks |-> task'[k]]
      /\ task'[h].op = task[h].op /\ task'[h].step = task[h].step /\ task'[h].on = task[h].on /\ task'[h].back = task[h].back
      /\ task'[h].arg = task[h].arg /\ task[h] # NoTask /\ task[h].answer = "none" /\ task'[h].answer = "failed" /\ TaskIs(task[h])
  <2>1. InFlight(h) /\ Answered(h, "failed")
    BY DEF refuse
  <2> QED BY <2>1, AnswerIsSet
<1>2. SameOrder(task[h], task'[h])
  BY <1>1 DEF SameOrder, Unordered, NewDays, Waits
<1>3. StaysWith(task[h], task'[h]) /\ (Reloads(task[h]) => Reloads(task'[h]))
  BY <1>1 DEF StaysWith, Reloads
<1>4. UNCHANGED <<row, shown, order, chosen, crossed, ask, doubt>> /\ ask \in AsksAre /\ doubt \in BOOLEAN /\ AsksStay
  BY DEF refuse, page, EditorShape, AsksStay, AskStays
<1>5. CASE task[h].step = "write" /\ task[h].op \in {"hide", "show"}
  <2>1. Reloads(task'[h])
    BY <1>1, <1>5 DEF Reloads
  <2>2. Reloading'
    BY <2>1 DEF Reloading
  <2>3. ~doubt' => GridFollows'
    BY <1>1, <1>2, <1>4, <2>2, OrderKept DEF GridFollows
  <2>4. EditorShape'
    <3>1. row' = [s \in Schedules |-> row'[s]] /\ \A s \in Schedules : row'[s] = row[s]
      BY <1>4, RowsUnread
    <3>2. \A k \in Tasks : task'[k] = task[k] \/ task'[k] = NoTask \/ TaskIs(task'[k])
      BY <1>1 DEF OthersStay
    <3>3. chosen' \in Schedules \cup {Nothing} /\ crossed' \in BOOLEAN /\ shown' \in {shown, Nothing} /\ order' \in {order, Nothing}
      BY <1>4 DEF EditorShape
    <3> QED BY <1>1, <1>4, <3>1, <3>2, <3>3, EditorShapeKept
  <2>5. OneIsChosen'
    <3>1. \A k \in Tasks : StaysWith(task[k], task'[k])
      BY <1>1, <1>3 DEF OthersStay, StaysWith
    <3> QED BY <1>4, <3>1, ChosenKept
  <2> QED BY <2>3, <2>4, <2>5
<1>6. CASE ~(task[h].step = "write" /\ task[h].op \in {"hide", "show"})
  <2>1. SameCells(task[h], task'[h])
    BY <1>1, <1>6 DEF SameCells, Staffs, Toggles, Waits
  <2> QED BY <1>1, <1>2, <1>3, <1>4, <2>1, QuietStep
<1> QED BY <1>5, <1>6

LEMMA OthersKeep == ASSUME EditorInv, NEW s \in Schedules, othersWrite(s) PROVE EditorInv'
<1> USE DEF EditorInv
<1>1. Exists(s) /\ doubt' = TRUE /\ UNCHANGED <<chosen, shown, order, ask, task, crossed>>
  BY DEF othersWrite, page
<1>2. PICK op \in {"add", "remove", "delete"}, d \in Days : Accepts(row[s], op, d) /\ row' = [row EXCEPT ![s] = Written(@, op, d)]
  BY DEF othersWrite
<1>3. row' = [t \in Schedules |-> row'[t]] /\ row'[s] = Written(row[s], op, d) /\ \A t \in Schedules \ {s} : row'[t] = row[t]
  BY <1>2 DEF EditorShape
<1>4. IsSheet(row'[s]) \/ row'[s] = [status |-> "gone"]
  <2>1. CASE op = "delete"
    BY <1>3, <2>1 DEF Written
  <2>2. CASE op # "delete"
    <3>1. IsSheet(row[s]) /\ (op = "add" => Has(row[s], d)) /\ op \in Writes \ {"create", "delete"} /\ op \in {"add", "remove"}
      BY <1>1, <1>2, <2>2, SheetStays DEF Accepts, Writes, CellWrites
    <3>2. IsSheet(Written(row[s], op, d))
      BY <3>1, WrittenIs
    <3> QED BY <1>3, <3>2
  <2> QED BY <2>1, <2>2
<1>5. EditorShape'
  <2>1. \A t \in Schedules : row'[t] = row[t] \/ IsSheet(row'[t]) \/ row'[t] = [status |-> "gone"]
    BY <1>3, <1>4
  <2>2. /\ task' = [k \in Tasks |-> task'[k]] /\ (\A k \in Tasks : task'[k] = task[k]) /\ chosen' \in Schedules \cup {Nothing}
        /\ ask' \in AsksAre /\ crossed' \in BOOLEAN /\ shown' \in {shown, Nothing} /\ order' \in {order, Nothing}
    BY <1>1 DEF EditorShape
  <2> QED BY <1>1, <1>3, <2>1, <2>2, EditorShapeKept
<1>6. OneIsChosen'
  <2>1. (\A k \in Tasks : StaysWith(task[k], task'[k])) /\ AsksStay
    BY <1>1 DEF StaysWith, AsksStay, AskStays
  <2> QED BY <1>1, <2>1, ChosenKept
<1> QED BY <1>1, <1>5, <1>6

\* Nothing but the dialogs.
LEMMA EditorDialogsKeep ==
  ASSUME EditorInv, UNCHANGED <<row, chosen, shown, order, task, doubt, crossed>>, ask' \in AsksAre, AsksStay
  PROVE  EditorInv'
<1> USE DEF EditorInv
<1>1. EditorShape'
  BY DEF EditorShape, WasMade, Awaited, TaskIs
<1>2. OneIsChosen'
  <2>1. \A k \in Tasks : StaysWith(task[k], task'[k])
    BY DEF StaysWith
  <2> QED BY <2>1, ChosenKept
<1>3. GridFollows' <=> GridFollows
  BY DEF GridFollows, OrderFollows, SheetFollows, Reloading, Orders, ShownDays, Exists
<1> QED BY <1>1, <1>2, <1>3

LEMMA AsksKeep ==
  ASSUME EditorInv, \/ askStatus \/ \E action \in Days \cup {"delete"} : askAction(action)
                    \/ \E which \in {"action", "status", "warning"} : closeDialog(which)
  PROVE  EditorInv'
<1>1. /\ ask \in AsksAre /\ (shown # Nothing => shown.of \in Schedules /\ shown.sheet.status \in Statuses)
      /\ chosen # Nothing => chosen \in Schedules
  BY SheetParts DEF EditorInv, EditorShape
<1>0. shown # Nothing => (chosen # Nothing /\ ~crossed => shown.of = chosen)
  BY DEF EditorInv, OneIsChosen, ActsOnWhatIsShown
<1>2. CASE askStatus
  <2>1. shown # Nothing /\ ask' = [ask EXCEPT !.status = [of |-> shown.of, from |-> shown.sheet.status]]
    BY <1>2 DEF askStatus, GridIsOpen
  <2>2. ask' \in AsksAre /\ ask'.status.of = shown.of /\ ask'.action = ask.action /\ ask'.warning = ask.warning
    BY <1>1, <2>1 DEF AsksAre
  <2>3. AsksStay
    BY <1>0, <2>1, <2>2 DEF AsksStay, AskStays
  <2> QED BY <1>2, <2>2, <2>3, EditorDialogsKeep DEF askStatus
<1>3. ASSUME NEW action \in Days \cup {"delete"}, askAction(action) PROVE EditorInv'
  <2> PICK s : s = IF action = "delete" THEN chosen ELSE shown.of
    OBVIOUS
  <2>1. ask' = [ask EXCEPT !.action = [of |-> s, day |-> action]] /\ chosen # Nothing /\ shown # Nothing
    BY <1>3 DEF askAction, GridIsOpen
  <2>2. s \in Schedules /\ (~crossed => s = chosen)
    BY <1>0, <1>1, <2>1
  <2>3. ask' \in AsksAre /\ ask'.action.of = s /\ ask'.status = ask.status /\ ask'.warning = ask.warning
    BY <1>1, <2>1, <2>2 DEF AsksAre
  <2>4. AsksStay
    BY <2>2, <2>3 DEF AsksStay, AskStays
  <2> QED BY <1>3, <2>3, <2>4, EditorDialogsKeep DEF askAction
<1>4. ASSUME NEW which \in {"action", "status", "warning"}, closeDialog(which) PROVE EditorInv'
  <2>1. ask' = [ask EXCEPT ![which] = Nothing]
    BY <1>4 DEF closeDialog
  <2>2. /\ ask' \in AsksAre /\ ask'.action \in {ask.action, Nothing} /\ ask'.status \in {ask.status, Nothing}
        /\ ask'.warning \in {ask.warning, Nothing}
    <3>1. CASE which = "action"
      BY <1>1, <2>1, <3>1 DEF AsksAre
    <3>2. CASE which = "status"
      BY <1>1, <2>1, <3>2 DEF AsksAre
    <3>3. CASE which = "warning"
      BY <1>1, <2>1, <3>3 DEF AsksAre
    <3> QED BY <1>4, <3>1, <3>2, <3>3
  <2>3. AsksStay
    BY <2>2 DEF AsksStay, AskStays
  <2> QED BY <1>4, <2>2, <2>3, EditorDialogsKeep DEF closeDialog
<1> QED BY <1>2, <1>3, <1>4

LEMMA FetchKeeps ==
  ASSUME EditorInv, NEW h \in Tasks, NEW s \in Schedules, fetchDetail(h, s), UNCHANGED <<row, ask, doubt>>,
         task' = [k \in Tasks |-> task'[k]], OthersStay(h), TaskIs(task'[h]), task'[h].on = s, task'[h].back = s
  PROVE  EditorInv'
<1> USE DEF EditorInv
<1>1. shown' = Nothing /\ order' = Nothing /\ chosen' = s /\ crossed' = (AwaitsAnother(h, s) \/ ask # NoDialogs)
  BY DEF fetchDetail, GridCloses
<1>2. EditorShape'
  <2>1. row' = [t \in Schedules |-> row'[t]] /\ \A t \in Schedules : row'[t] = row[t]
    BY RowsUnread
  <2>2. \A k \in Tasks : task'[k] = task[k] \/ task'[k] = NoTask \/ TaskIs(task'[k])
    BY DEF OthersStay
  <2>3. chosen' \in Schedules \cup {Nothing} /\ crossed' \in BOOLEAN /\ shown' \in {shown, Nothing} /\ order' \in {order, Nothing}
        /\ ask' \in AsksAre /\ doubt' \in BOOLEAN
    BY <1>1 DEF EditorShape
  <2> QED BY <2>1, <2>2, <2>3, EditorShapeKept
<1>3. OneIsChosen'
  <2> SUFFICES ASSUME ~crossed' PROVE OneIsChosen'
    BY DEF OneIsChosen, ActsOnWhatIsShown
  <2>0. ~AwaitsAnother(h, s) /\ ask' = NoDialogs
    BY <1>1
  <2>1. ask'.status = Nothing /\ ask'.action = Nothing /\ ask'.warning = Nothing
    BY <2>0 DEF NoDialogs
  <2>2. \A k \in Tasks : task'[k] # NoTask => task'[k].on = s /\ task'[k].back = s
    BY <2>0 DEF AwaitsAnother, OthersStay, Awaited
  <2> QED BY <1>1, <2>1, <2>2 DEF OneIsChosen, ActsOnWhatIsShown, Awaited
<1>4. GridFollows'
  BY <1>1 DEF GridFollows, OrderFollows
<1> QED BY <1>2, <1>3, <1>4

LEMMA ChooseKeeps == ASSUME EditorInv, NEW h \in Tasks, NEW s \in Schedules, chooseCard(h, s) PROVE EditorInv'
<1>1. EditorShape /\ Starts(h, "open", "read", s, s, Nothing) /\ fetchDetail(h, s) /\ UNCHANGED <<row, ask, doubt>>
  BY DEF EditorInv, chooseCard
<1>2. /\ TaskIs(task'[h]) /\ (\A k \in Tasks \ {h} : task'[k] = task[k]) /\ task' = [k \in Tasks |-> task'[k]] /\ task'[h].on = s
      /\ task'[h].back = s
  BY <1>1, TaskStarts DEF Writes, CellWrites, DayOps, Steps
<1> QED BY <1>1, <1>2, FetchKeeps DEF OthersStay

\* A write that the grid does not wait for.
LEMMA StartKeeps ==
  ASSUME EditorInv, NEW h \in Tasks, NEW op \in Writes \ {"hide", "show", "reorder"}, NEW s \in Schedules, NEW now, NEW arg,
         now \in Schedules \/ (now = Nothing /\ op = "confirm"), op = "create" => now = s,
         op \in DayOps => arg \in Days, op = "status" => arg \in Statuses, op \in {"create", "delete"} => arg = Nothing,
         Starts(h, op, "write", s, now, arg), op = "create" \/ (chosen # Nothing /\ ~crossed => s = chosen /\ now = chosen),
         UNCHANGED <<row, chosen, shown, order, ask, doubt, crossed>>
  PROVE  EditorInv'
<1> USE DEF EditorInv
<1>1. /\ task[h] = NoTask /\ TaskIs(task'[h]) /\ task'[h] # NoTask /\ OthersStay(h) /\ task' = [k \in Tasks |-> task'[k]]
      /\ task'[h].op = op /\ task'[h].step = "write" /\ task'[h].on = s /\ task'[h].back = now /\ task'[h].answer = "none"
  <2>1. op \in Writes \cup {"open"} /\ op \notin {"reorder", "open"} /\ "write" \in Steps
    BY DEF Steps, Writes, CellWrites
  <2>2. op \in {"create", "delete", "open"} => arg = Nothing
    BY <2>1
  <2> QED BY <2>1, <2>2, TaskStarts DEF OthersStay
<1>2. SameOrder(task[h], task'[h]) /\ SameCells(task[h], task'[h])
  <2>1. Quiet(task[h]) /\ Quiet(task'[h])
    BY <1>1 DEF Quiet
  <2> QED BY <2>1, QuietIsSame
<1>3. StaysWith(task[h], task'[h]) /\ (Reloads(task[h]) => Reloads(task'[h]))
  BY <1>1 DEF StaysWith, Reloads
<1>4. ask' \in AsksAre /\ doubt' \in BOOLEAN /\ AsksStay
  BY DEF EditorShape, AsksStay, AskStays
<1> QED BY <1>1, <1>2, <1>3, <1>4, QuietStep

LEMMA CreateKeeps == ASSUME EditorInv, NEW h \in Tasks, NEW s \in Schedules, handleCreate(h, s) PROVE EditorInv'
<1>1. Starts(h, "create", "write", s, s, Nothing) /\ UNCHANGED <<row, chosen, shown, order, ask, doubt, crossed>>
  BY DEF handleCreate, page
<1> QED BY <1>1, StartKeeps DEF Writes, CellWrites, DayOps

LEMMA ConfirmsKeep ==
  ASSUME EditorInv, NEW h \in Tasks, \/ \E to \in Statuses : handleUpdateStatus(h, to)
                                     \/ executePendingAction(h) \/ confirmWarningAllocation(h)
  PROVE  EditorInv'
<1>0. ask \in AsksAre /\ (chosen # Nothing => chosen \in Schedules)
  BY DEF EditorInv, EditorShape
<1>1. ASSUME NEW op \in {"status", "delete", "removeDay", "confirm"}, NEW s \in Schedules, NEW arg, Confirms(h, op, s, arg),
             chosen # Nothing \/ op = "confirm", chosen # Nothing /\ ~crossed => s = chosen,
             op \in DayOps => arg \in Days, op = "status" => arg \in Statuses, op = "delete" => arg = Nothing
      PROVE  EditorInv'
  <2>1. Starts(h, op, "write", s, chosen, arg) /\ UNCHANGED <<row, chosen, shown, order, ask, doubt, crossed>>
    BY <1>1 DEF Confirms
  <2>2. op \in Writes \ {"hide", "show", "reorder"} /\ op # "create"
    BY DEF Writes, CellWrites
  <2>3. chosen \in Schedules \/ (chosen = Nothing /\ op = "confirm")
    BY <1>0, <1>1
  <2> QED BY <1>1, <2>1, <2>2, <2>3, StartKeeps
<1>5. /\ ask.action # Nothing /\ chosen # Nothing /\ ~crossed => ask.action.of = chosen
      /\ ask.warning # Nothing /\ chosen # Nothing /\ ~crossed => ask.warning.of = chosen
  BY DEF EditorInv, OneIsChosen, ActsOnWhatIsShown
<1>2. ASSUME NEW to \in Statuses, handleUpdateStatus(h, to) PROVE EditorInv'
  <2>1. chosen # Nothing /\ Confirms(h, "status", chosen, to)
    BY <1>2 DEF handleUpdateStatus
  <2> QED BY <1>0, <1>1, <2>1 DEF DayOps, CellWrites
<1>3. CASE executePendingAction(h)
  <2>0. ask.action # Nothing /\ chosen # Nothing /\ ask.action \in [of : Schedules, day : Days \cup {"delete"}]
    BY <1>0, <1>3 DEF executePendingAction, AsksAre
  <2>1. CASE ask.action.day = "delete"
    <3>1. Confirms(h, "delete", chosen, Nothing)
      BY <1>3, <2>1 DEF executePendingAction
    <3> QED BY <1>0, <1>1, <2>0, <3>1 DEF DayOps, CellWrites
  <2>2. CASE ask.action.day # "delete"
    <3>1. ask.action.of \in Schedules /\ ask.action.day \in Days /\ Confirms(h, "removeDay", ask.action.of, ask.action.day)
      BY <1>3, <2>0, <2>2 DEF executePendingAction
    <3> QED BY <1>1, <1>5, <2>0, <3>1
  <2> QED BY <2>1, <2>2
<1>4. CASE confirmWarningAllocation(h)
  <2>1. /\ ask.warning # Nothing /\ ask.warning.of \in Schedules /\ ask.warning.day \in Days
        /\ Confirms(h, "confirm", ask.warning.of, ask.warning.day)
    BY <1>0, <1>4 DEF confirmWarningAllocation, AsksAre
  <2> QED BY <1>1, <1>5, <2>1
<1> QED BY <1>2, <1>3, <1>4

LEMMA ShownIsChosen ==
  ASSUME EditorInv, CanEdit
  PROVE  /\ shown # Nothing /\ shown = [of |-> shown.of, sheet |-> shown.sheet] /\ shown.of \in Schedules /\ WasMade(shown.of)
         /\ IsSheet(shown.sheet) /\ (chosen # Nothing /\ ~crossed => shown.of = chosen) /\ chosen \in Schedules
BY DEF EditorInv, EditorShape, OneIsChosen, ActsOnWhatIsShown, CanEdit, GridIsOpen

LEMMA GridWritesKeep ==
  ASSUME EditorInv, NEW h \in Tasks, NEW d \in Days,
         onAddMembro(h, d) \/ onRemoveMembro(h, d) \/ onUpdateDiaEvento(h, d) \/ onAddDia(h, d)
  PROVE  EditorInv'
<1>1. PICK op \in {"add", "remove", "link", "unlink", "addDay"} : GridWrites(h, op, d)
  <2>1. CASE onAddMembro(h, d)
    BY <2>1 DEF onAddMembro
  <2>2. CASE onRemoveMembro(h, d)
    BY <2>2 DEF onRemoveMembro
  <2>3. CASE onUpdateDiaEvento(h, d)
    <3>1. GridWrites(h, IF d \in shown.sheet.linked THEN "unlink" ELSE "link", d)
      BY <2>3 DEF onUpdateDiaEvento
    <3>2. CASE d \in shown.sheet.linked
      BY <3>1, <3>2
    <3>3. CASE d \notin shown.sheet.linked
      BY <3>1, <3>3
    <3> QED BY <3>2, <3>3
  <2>4. CASE onAddDia(h, d)
    BY <2>4 DEF onAddDia
  <2> QED BY <2>1, <2>2, <2>3, <2>4
<1>2. UNCHANGED <<shown, order>>
  BY DEF onAddMembro, onRemoveMembro, onUpdateDiaEvento, onAddDia
<1>3. /\ Starts(h, op, "write", shown.of, chosen, d) /\ CanEdit /\ UNCHANGED <<row, chosen, ask, doubt, crossed>>
      /\ op \in Writes \ {"hide", "show", "reorder"} /\ op \notin {"create", "delete", "status"}
  BY <1>1 DEF GridWrites, Writes, CellWrites
<1> QED BY <1>2, <1>3, ShownIsChosen, StartKeeps

LEMMA ShownDaysAre ==
  ASSUME EditorShape, shown # Nothing
  PROVE  ShownDays \in Seq(Days) /\ Range(ShownDays) = Range(shown.sheet.days)
<1>1. shown.sheet.days \in Seq(Days)
  BY SheetParts DEF EditorShape
<1>2. order # Nothing => order.days \in Seq(Days)
  BY DEF EditorShape
<1>3. CASE order # Nothing /\ order.of = shown.of /\ Range(order.days) = Range(shown.sheet.days)
  BY <1>2, <1>3 DEF ShownDays
<1>4. CASE ~(order # Nothing /\ order.of = shown.of /\ Range(order.days) = Range(shown.sheet.days))
  <2>1. ShownDays = shown.sheet.days
    BY <1>4 DEF ShownDays
  <2> QED BY <1>1, <2>1
<1> QED BY <1>3, <1>4

LEMMA MoveKeeps == ASSUME EditorInv, NEW h \in Tasks, moveDia(h) PROVE EditorInv'
<1> USE DEF EditorInv
<1> PICK days : days = Append(Tail(ShownDays), Head(ShownDays))
  OBVIOUS
<1>1. /\ GridWrites(h, "reorder", days) /\ order' = [of |-> shown.of, days |-> days] /\ UNCHANGED shown /\ Len(ShownDays) > 1
  BY DEF moveDia
<1>2. /\ CanEdit /\ Starts(h, "reorder", "write", shown.of, chosen, days) /\ UNCHANGED <<row, chosen, ask, doubt, crossed>>
  BY <1>1 DEF GridWrites
<1> PICK s, x : s = shown.of /\ x = shown.sheet
  OBVIOUS
<1>3. /\ shown # Nothing /\ s \in Schedules /\ WasMade(s) /\ IsSheet(x) /\ (chosen # Nothing /\ ~crossed => s = chosen)
      /\ chosen \in Schedules
  BY <1>2, ShownIsChosen
<1>4. days \in Seq(Days) /\ Range(days) = Range(x.days)
  BY <1>1, <1>3, ShownDaysAre, TurnedIs
<1>5. /\ task[h] = NoTask /\ TaskIs(task'[h]) /\ task'[h] # NoTask /\ OthersStay(h) /\ task' = [k \in Tasks |-> task'[k]]
      /\ task'[h].op = "reorder" /\ task'[h].step = "write" /\ task'[h].on = s /\ task'[h].arg = days /\ task'[h].answer = "none"
      /\ task'[h].back = chosen
  <2> PICK op : op = "reorder"
    OBVIOUS
  <2>1. op \in Writes \cup {"open"} /\ op \notin DayOps \cup {"create", "delete", "open", "status"} /\ "write" \in Steps
    BY DEF Steps, Writes, DayOps, CellWrites
  <2>2. Starts(h, op, "write", s, chosen, days)
    BY <1>2
  <2>3. /\ task[h] = NoTask /\ TaskIs(task'[h]) /\ task'[h] # NoTask /\ (\A k \in Tasks \ {h} : task'[k] = task[k])
        /\ task' = [k \in Tasks |-> task'[k]] /\ task'[h].op = op /\ task'[h].step = "write" /\ task'[h].on = s
        /\ task'[h].back = chosen /\ task'[h].arg = days /\ task'[h].answer = "none"
    <3>1. /\ EditorShape /\ s \in Schedules /\ chosen \in Schedules /\ days \in Seq(Days) /\ op \in Writes \cup {"open"}
          /\ op \notin DayOps /\ op # "status" /\ op # "create" /\ op # "delete" /\ op # "open" /\ "write" \in Steps
      BY <1>3, <1>4, <2>1
    <3> QED BY ONLY <2>2, <3>1, TaskStarts
  <2> QED BY <2>3 DEF OthersStay
<1>6. order'.of = s /\ order'.days = days /\ order' # Nothing
  <2>1. [of |-> s, days |-> days] \in [of : Schedules, days : Seq(Days)]
    BY <1>3, <1>4
  <2> QED BY <1>1, <2>1, EditorAssumption
<1>7. EditorShape'
  <2>1. row' = [t \in Schedules |-> row'[t]] /\ \A t \in Schedules : row'[t] = row[t]
    BY <1>2, RowsUnread
  <2>2. \A k \in Tasks : task'[k] = task[k] \/ task'[k] = NoTask \/ TaskIs(task'[k])
    BY <1>5 DEF OthersStay
  <2>3. chosen' \in Schedules \cup {Nothing} /\ crossed' \in BOOLEAN /\ shown' \in {shown, Nothing}
        /\ ask' \in AsksAre /\ doubt' \in BOOLEAN
    BY <1>1, <1>2 DEF EditorShape
  <2>4. order' = [of |-> order'.of, days |-> order'.days]
    BY <1>1
  <2> QED BY <1>3, <1>4, <1>5, <1>6, <2>1, <2>2, <2>3, <2>4, EditorShapeKept
<1>8. OneIsChosen'
  <2>1. (\A k \in Tasks : StaysWith(task[k], task'[k])) /\ AsksStay
    BY <1>2, <1>3, <1>5 DEF OthersStay, StaysWith, AsksStay, AskStays
  <2> QED BY <1>1, <1>2, <2>1, ChosenKept
<1>9. Orders(task[h])'
  BY <1>5, <1>6 DEF Orders, Waits
<1>10. OrderFollows'
  <2>1. ASSUME NEW k \in Tasks, Waits(task'[k], s, {"reorder"}), task'[k].answer = "none"
        PROVE  task'[k].arg = days \/ \E j \in Tasks \ {k} : Orders(task[j])'
    BY <1>5, <1>9
  <2> QED BY <1>6, <1>9, <2>1 DEF OrderFollows
<1>11. ASSUME ~doubt' PROVE SheetFollows' \/ Reloading'
  <2>1. GridFollows
    BY <1>2, <1>11
  <2>2. CASE Reloading
    BY <1>5, <2>2, ReloadingKept DEF Reloads
  <2>3. CASE SheetFollows
    <3>1. shown'.of = s /\ shown'.sheet = x
      BY <1>1
    <3>2. Exists(s)' /\ x.status = row'[s].status /\ x.linked = row'[s].linked /\ Range(x.days) = Range(row'[s].days)
      BY <1>2, <2>3 DEF SheetFollows, Exists
    <3>3. ASSUME NEW k \in Tasks, Waits(task'[k], s, {"reorder"}), task'[k].answer \in {"none", "failed"}
          PROVE  order' # Nothing /\ order'.of = s
      BY <1>6
    <3>4. ASSUME NEW k \in Tasks, NEW e \in Days PROVE (Staffs(task[k], s, e) <=> Staffs(task'[k], s, e)) /\ (Toggles(task[k], s, e) <=> Toggles(task'[k], s, e))
      BY <1>5 DEF OthersStay, Staffs, Toggles, Waits
    <3>5. \A e \in Days : (e \in x.staffed <=> e \in row'[s].staffed) \/ \E k \in Tasks : Staffs(task'[k], s, e)
      BY <1>2, <2>3, <3>4 DEF SheetFollows
    <3>6. \A e \in Days : (e \in x.hidden <=> e \in row'[s].hidden) \/ \E k \in Tasks : Toggles(task'[k], s, e)
      BY <1>2, <2>3, <3>4 DEF SheetFollows
    <3>7. ASSUME NEW k \in Tasks, NEW e \in Days, Toggles(task'[k], s, e)
          PROVE  (e \in x.hidden <=> task'[k].op = "hide") \/ \E j \in Tasks \ {k} : Toggles(task'[j], s, e)
      <4>1. Toggles(task[k], s, e) /\ task'[k] = task[k]
        BY <1>5, <3>4, <3>7 DEF OthersStay, Toggles, Waits
      <4>2. (e \in x.hidden <=> task[k].op = "hide") \/ \E j \in Tasks \ {k} : Toggles(task[j], s, e)
        BY <2>3, <4>1 DEF SheetFollows
      <4> QED BY <3>4, <4>1, <4>2
    <3>8. \E k \in Tasks : Orders(task[k])' /\ order'.of = s /\ Range(order'.days) = Range(x.days)
      BY <1>4, <1>6, <1>9
    <3> QED BY <3>1, <3>2, <3>3, <3>5, <3>6, <3>7, <3>8 DEF SheetFollows
  <2> QED BY <1>3, <2>1, <2>2, <2>3 DEF GridFollows
<1> QED BY <1>7, <1>8, <1>10, <1>11 DEF GridFollows

LEMMA ToggleKeeps == ASSUME EditorInv, NEW h \in Tasks, NEW d \in Days, handleToggleCelula(h, d) PROVE EditorInv'
<1> USE DEF EditorInv
<1> PICK op : op = (IF d \in shown.sheet.hidden THEN "show" ELSE "hide")
  OBVIOUS
<1>1. /\ GridWrites(h, op, d) /\ shown' = [shown EXCEPT !.sheet = Written(shown.sheet, op, d)] /\ UNCHANGED order
  BY DEF handleToggleCelula
<1>2. /\ CanEdit /\ Starts(h, op, "write", shown.of, chosen, d) /\ UNCHANGED <<row, chosen, ask, doubt, crossed>>
  BY <1>1 DEF GridWrites
<1> PICK s, x, y : s = shown.of /\ x = shown.sheet /\ y = Written(shown.sheet, op, d)
  OBVIOUS
<1>3. /\ shown # Nothing /\ shown = [of |-> s, sheet |-> x] /\ s \in Schedules /\ WasMade(s) /\ IsSheet(x) /\ (chosen # Nothing /\ ~crossed => s = chosen)
      /\ chosen \in Schedules
  BY <1>2, ShownIsChosen
<1>4. /\ IsSheet(y) /\ y.status = x.status /\ y.linked = x.linked /\ y.staffed = x.staffed /\ y.days = x.days
      /\ op = "hide" => y.hidden = x.hidden \cup {d}
      /\ op = "show" => y.hidden = x.hidden \ {d}
      /\ op \in {"hide", "show"}
  <2>1. op \in Writes \ {"create", "delete"} /\ op \in {"hide", "show"}
    BY DEF Writes, CellWrites
  <2> QED BY <1>3, <2>1, WrittenIs
<1>5. /\ task[h] = NoTask /\ TaskIs(task'[h]) /\ task'[h] # NoTask /\ OthersStay(h) /\ task' = [k \in Tasks |-> task'[k]]
      /\ task'[h].op = op /\ task'[h].step = "write" /\ task'[h].on = s /\ task'[h].arg = d /\ task'[h].answer = "none"
      /\ task'[h].back = chosen
  <2>1. op \in Writes \cup {"open"} /\ op \notin {"create", "delete", "open", "status", "reorder"} /\ "write" \in Steps
    BY <1>4 DEF Steps, Writes, DayOps, CellWrites
  <2>2. Starts(h, op, "write", s, chosen, d)
    BY <1>2
  <2> QED BY <1>3, <2>1, <2>2, TaskStarts DEF OthersStay
<1>6. shown' = [of |-> s, sheet |-> y] /\ shown'.of = s /\ shown'.sheet = y
  BY <1>1, <1>3
<1>7. EditorShape'
  <2>1. row' = [t \in Schedules |-> row'[t]] /\ \A t \in Schedules : row'[t] = row[t]
    BY <1>2, RowsUnread
  <2>2. \A k \in Tasks : task'[k] = task[k] \/ task'[k] = NoTask \/ TaskIs(task'[k])
    BY <1>5 DEF OthersStay
  <2>3. chosen' \in Schedules \cup {Nothing} /\ crossed' \in BOOLEAN /\ order' \in {order, Nothing}
        /\ ask' \in AsksAre /\ doubt' \in BOOLEAN
    BY <1>1, <1>2 DEF EditorShape
  <2> QED BY <1>3, <1>4, <1>5, <1>6, <2>1, <2>2, <2>3, EditorShapeKept
<1>8. OneIsChosen'
  <2>1. (\A k \in Tasks : StaysWith(task[k], task'[k])) /\ AsksStay
    BY <1>2, <1>3, <1>5 DEF OthersStay, StaysWith, AsksStay, AskStays
  <2> QED BY <1>2, <1>3, <1>6, <2>1, ChosenKept
<1>9. ~doubt' => OrderFollows'
  <2>1. SameOrder(task[h], task'[h])
    BY <1>4, <1>5 DEF SameOrder, Unordered, NewDays, Waits
  <2> QED BY <1>1, <1>2, <1>5, <2>1, OrderKept DEF GridFollows
<1>10. ASSUME ~doubt' PROVE SheetFollows' \/ Reloading'
  <2>1. GridFollows
    BY <1>2, <1>10
  <2>2. CASE Reloading
    BY <1>5, <2>2, ReloadingKept DEF Reloads
  <2>3. CASE SheetFollows
    <3>2. Exists(s)' /\ y.status = row'[s].status /\ y.linked = row'[s].linked /\ Range(y.days) = Range(row'[s].days)
      BY <1>2, <1>4, <2>3 DEF SheetFollows, Exists
    <3>3. ASSUME NEW k \in Tasks PROVE /\ \A e \in Days : Staffs(task[k], s, e) <=> Staffs(task'[k], s, e)
                                       /\ \A e \in Days : Toggles(task[k], s, e) => Toggles(task'[k], s, e)
                                       /\ Orders(task[k])' <=> Orders(task[k])
                                       /\ Waits(task[k], s, {"reorder"}) <=> Waits(task'[k], s, {"reorder"})
                                       /\ k # h => task'[k] = task[k]
      BY <1>1, <1>4, <1>5 DEF OthersStay, Staffs, Toggles, Waits, Orders
    <3>4. ASSUME NEW k \in Tasks, Waits(task'[k], s, {"reorder"}), task'[k].answer \in {"none", "failed"}
          PROVE  order' # Nothing /\ order'.of = s
      <4>1. k # h
        BY <1>4, <1>5, <3>4 DEF Waits
      <4> QED BY <1>1, <2>3, <3>3, <3>4, <4>1 DEF SheetFollows
    <3>5. \A e \in Days : (e \in y.staffed <=> e \in row'[s].staffed) \/ \E k \in Tasks : Staffs(task'[k], s, e)
      BY <1>2, <1>4, <2>3, <3>3 DEF SheetFollows
    <3>6. Toggles(task'[h], s, d)
      BY <1>4, <1>5 DEF Toggles, Waits
    <3>7. ASSUME NEW e \in Days PROVE (e \in y.hidden <=> e \in row'[s].hidden) \/ \E k \in Tasks : Toggles(task'[k], s, e)
      <4>1. CASE e = d
        BY <3>6, <4>1
      <4>2. CASE e # d
        <5>1. e \in y.hidden <=> e \in x.hidden
          BY <1>4, <4>2
        <5>2. (e \in x.hidden <=> e \in row[s].hidden) \/ \E k \in Tasks : Toggles(task[k], s, e)
          BY <2>3 DEF SheetFollows
        <5> QED BY <1>2, <3>3, <5>1, <5>2
      <4> QED BY <4>1, <4>2
    <3>8. ASSUME NEW k \in Tasks, NEW e \in Days, Toggles(task'[k], s, e)
          PROVE  (e \in y.hidden <=> task'[k].op = "hide") \/ \E j \in Tasks \ {k} : Toggles(task'[j], s, e)
      <4>1. CASE k = h
        <5>1. e = d
          BY <1>5, <3>8, <4>1 DEF Toggles
        <5> QED BY <1>4, <1>5, <4>1, <5>1
      <4>2. CASE k # h /\ e = d
        BY <3>6, <4>2
      <4>3. CASE k # h /\ e # d
        <5>1. Toggles(task[k], s, e) /\ task'[k] = task[k]
          BY <3>3, <3>8, <4>3
        <5>2. (e \in x.hidden <=> task[k].op = "hide") \/ \E j \in Tasks \ {k} : Toggles(task[j], s, e)
          BY <2>3, <5>1 DEF SheetFollows
        <5>3. e \in y.hidden <=> e \in x.hidden
          BY <1>4, <4>3
        <5> QED BY <3>3, <5>1, <5>2, <5>3
      <4> QED BY <4>1, <4>2, <4>3
    <3>9. ShownDays' = row'[s].days \/ \E k \in Tasks : Orders(task[k])' /\ order'.of = s /\ Range(order'.days) = Range(y.days)
      <4>1. ShownDays' = ShownDays
        BY <1>1, <1>3, <1>4, <1>6 DEF ShownDays
      <4>2. ShownDays = row[s].days \/ \E k \in Tasks : Orders(task[k]) /\ order.of = s /\ Range(order.days) = Range(x.days)
        BY <2>3 DEF SheetFollows
      <4> QED BY <1>1, <1>2, <1>4, <3>3, <4>1, <4>2
    <3> QED BY <1>6, <3>2, <3>4, <3>5, <3>7, <3>8, <3>9 DEF SheetFollows
  <2> QED BY <1>3, <2>1, <2>2, <2>3 DEF GridFollows
<1> QED BY <1>7, <1>8, <1>9, <1>10 DEF GridFollows

LEMMA AwaitedIs ==
  ASSUME EditorShape, NEW h \in Tasks, task[h] # NoTask
  PROVE  TaskIs(task[h]) /\ task[h].on \in Schedules /\ task[h].op \in Writes \cup {"open"} /\ task[h].step \in Steps
         /\ task[h].answer \in {"none", "ok", "failed", "warned"}
BY DEF EditorShape, Awaited, TaskIs, TaskFields

LEMMA EndsKeep ==
  ASSUME EditorInv, NEW h \in Tasks, Ends(h), UNCHANGED <<row, chosen, shown, order, crossed>>, ask' \in AsksAre,
         AsksStay, doubt' \in BOOLEAN, doubt => doubt',
         ~doubt' => Quiet(task[h]) /\ ~Reloads(task[h])
  PROVE  EditorInv'
<1> USE DEF EditorInv
<1>1. task'[h] = NoTask /\ OthersStay(h) /\ task' = [k \in Tasks |-> task'[k]]
  BY TaskEnds DEF OthersStay
<1>2. ~doubt' => SameOrder(task[h], task'[h]) /\ SameCells(task[h], task'[h])
  BY <1>1, QuietIsSame DEF Quiet
<1>3. StaysWith(task[h], task'[h])
  BY <1>1 DEF StaysWith
<1> QED BY <1>1, <1>2, <1>3, QuietStep

\* The sheet is loaded again: until it is, nothing is asked of the copy.
LEMMA RefreshKeeps ==
  ASSUME EditorInv, NEW h \in Tasks, task[h] # NoTask, task[h].step = "write", task[h].op \notin {"open", "create", "confirm"}, Refreshes(h),
         UNCHANGED <<row, shown, chosen, crossed, ask, doubt>>
  PROVE  EditorInv'
<1> USE DEF EditorInv
<1>0. order' = Nothing
  BY DEF Refreshes, GridCloses
<1>1. /\ TaskIs(task'[h]) /\ task'[h] # NoTask /\ OthersStay(h) /\ task' = [k \in Tasks |-> task'[k]]
      /\ task'[h].op = task[h].op /\ task'[h].step = "read" /\ task'[h].on = task[h].back /\ task'[h].back = task[h].back
  BY TaskRefreshed DEF OthersStay
<1>2. EditorShape'
  <2>1. row' = [t \in Schedules |-> row'[t]] /\ \A t \in Schedules : row'[t] = row[t]
    BY RowsUnread
  <2>2. \A k \in Tasks : task'[k] = task[k] \/ task'[k] = NoTask \/ TaskIs(task'[k])
    BY <1>1 DEF OthersStay
  <2>3. chosen' \in Schedules \cup {Nothing} /\ crossed' \in BOOLEAN /\ order' \in {order, Nothing} /\ shown' \in {shown, Nothing}
        /\ ask' \in AsksAre /\ doubt' \in BOOLEAN
    BY <1>0 DEF EditorShape
  <2> QED BY <1>1, <2>1, <2>2, <2>3, EditorShapeKept
<1>3. OneIsChosen'
  <2>1. (\A k \in Tasks : StaysWith(task[k], task'[k])) /\ AsksStay
    BY <1>1 DEF OthersStay, StaysWith, AsksStay, AskStays
  <2> QED BY <2>1, ChosenKept
<1>4. Reloading'
  BY <1>1 DEF Reloading, Reloads
<1> QED BY <1>0, <1>2, <1>3, <1>4 DEF GridFollows, OrderFollows

LEMMA CreatedKeeps == ASSUME EditorInv, NEW h \in Tasks, created(h) PROVE EditorInv'
<1>0. task[h] # NoTask /\ task[h].op = "create" /\ task[h].step = "write" /\ UNCHANGED <<row, ask, doubt>>
  BY DEF created, Arrived
<1>1. EditorShape /\ task[h].on \in Schedules /\ task[h].back = task[h].on
  BY <1>0, AwaitedIs DEF EditorInv, TaskIs
<1>2. CASE task[h].answer = "ok"
  <2>1. Goes(h, "read") /\ fetchDetail(h, task[h].on)
    BY <1>2 DEF created
  <2>2. /\ TaskIs(task'[h]) /\ OthersStay(h) /\ task' = [k \in Tasks |-> task'[k]] /\ task'[h].on = task[h].on
        /\ task'[h].back = task[h].on
    BY <1>0, <1>1, <2>1, TaskMoves DEF Awaited, OthersStay
  <2> QED BY <1>0, <1>1, <2>1, <2>2, FetchKeeps
<1>3. CASE task[h].answer # "ok"
  <2>1. Ends(h) /\ UNCHANGED <<chosen, shown, order, crossed>>
    BY <1>3 DEF created
  <2>2. Quiet(task[h]) /\ ~Reloads(task[h])
    BY <1>0 DEF Quiet, Reloads
  <2>3. ask \in AsksAre /\ doubt \in BOOLEAN /\ AsksStay
    BY <1>0, <1>1 DEF EditorShape, AsksStay, AskStays
  <2> QED BY <1>0, <2>1, <2>2, <2>3, EndsKeep
<1> QED BY <1>2, <1>3

LEMMA ToggledKeeps == ASSUME EditorInv, NEW h \in Tasks, toggled(h) PROVE EditorInv'
<1>0. /\ task[h] # NoTask /\ task[h].op \in {"hide", "show"} /\ task[h].step = "write"
      /\ UNCHANGED <<row, chosen, shown, ask, doubt, crossed>>
  BY DEF toggled, Arrived
<1>1. CASE task[h].answer = "ok"
  <2>1. Ends(h) /\ UNCHANGED order
    BY <1>1 DEF toggled
  <2>2. Quiet(task[h]) /\ ~Reloads(task[h])
    BY <1>0, <1>1 DEF Quiet, Reloads
  <2>3. ask \in AsksAre /\ doubt \in BOOLEAN /\ AsksStay
    BY <1>0 DEF EditorInv, EditorShape, AsksStay, AskStays
  <2> QED BY <1>0, <2>1, <2>2, <2>3, EndsKeep
<1>2. CASE task[h].answer # "ok"
  <2>1. Refreshes(h)
    BY <1>2 DEF toggled
  <2> QED BY <1>0, <2>1, RefreshKeeps
<1> QED BY <1>1, <1>2

LEMMA ReorderedKeeps == ASSUME EditorInv, NEW h \in Tasks, reordered(h) PROVE EditorInv'
<1>0. /\ task[h] # NoTask /\ task[h].answer # "none" /\ task[h].op = "reorder" /\ task[h].step = "write" /\ Ends(h)
      /\ UNCHANGED <<row, chosen, shown, order, ask, crossed>> /\ doubt' = (doubt \/ task[h].answer = "failed")
  BY DEF reordered, Arrived, page
<1>1. ask \in AsksAre /\ doubt \in BOOLEAN /\ AsksStay
  BY <1>0 DEF EditorInv, EditorShape, AsksStay, AskStays
<1>2. ~doubt' => task[h].answer = "ok"
  <2>1. TaskIs(task[h]) /\ task[h].answer \in {"none", "ok", "failed", "warned"}
    BY <1>0, AwaitedIs DEF EditorInv
  <2>2. task[h].answer # "warned"
    BY <1>0, <2>1 DEF TaskIs
  <2> QED BY <1>0, <2>1, <2>2
<1>3. ~doubt' => Quiet(task[h]) /\ ~Reloads(task[h])
  BY <1>0, <1>2 DEF Quiet, Reloads
<1> QED BY <1>0, <1>1, <1>3, EndsKeep

LEMMA WrittenAndReadKeeps == ASSUME EditorInv, NEW h \in Tasks, writtenAndRead(h) PROVE EditorInv'
<1>0. /\ task[h] # NoTask /\ task[h].answer # "none" /\ task[h].op \in {"status", "removeDay", "addDay", "link", "unlink"} /\ task[h].step = "write"
      /\ UNCHANGED <<row, chosen, shown, ask, doubt, crossed>>
  BY DEF writtenAndRead, Arrived
<1>1. CASE task[h].answer # "ok"
  <2>1. Ends(h) /\ UNCHANGED order
    BY <1>1 DEF writtenAndRead
  <2>2. Quiet(task[h]) /\ ~Reloads(task[h])
    BY <1>0, <1>1 DEF Quiet, Reloads
  <2>3. ask \in AsksAre /\ doubt \in BOOLEAN /\ AsksStay
    BY <1>0 DEF EditorInv, EditorShape, AsksStay, AskStays
  <2> QED BY <1>0, <2>1, <2>2, <2>3, EndsKeep
<1>2. CASE task[h].answer = "ok"
  <2>1. Refreshes(h)
    BY <1>2 DEF writtenAndRead
  <2> QED BY <1>0, <2>1, RefreshKeeps
<1> QED BY <1>1, <1>2

LEMMA MembersKeep == ASSUME EditorInv, NEW h \in Tasks, membersLoaded(h) PROVE EditorInv'
<1>0. /\ task[h] # NoTask /\ task[h].step = "roster" /\ Ends(h) /\ UNCHANGED <<row, chosen, shown, order, ask, doubt, crossed>>
  BY DEF membersLoaded, Arrived
<1>1. Quiet(task[h]) /\ ~Reloads(task[h])
  BY <1>0 DEF Quiet, Reloads
<1>2. ask \in AsksAre /\ doubt \in BOOLEAN /\ AsksStay
  BY <1>0 DEF EditorInv, EditorShape, AsksStay, AskStays
<1> QED BY <1>0, <1>1, <1>2, EndsKeep

\* An answer that changes one cell of the copy.
LEMMA PatchKeeps ==
  ASSUME EditorInv, NEW h \in Tasks, task[h] # NoTask, task[h].step = "write", task[h].op \in {"add", "remove", "confirm"},
         task[h].answer = "ok", Ends(h), shown' = Patched(task[h]), doubt' = (doubt \/ Undone(task[h])),
         UNCHANGED <<row, order, chosen, crossed>>, ask' \in AsksAre, AsksStay
  PROVE  EditorInv'
<1> USE DEF EditorInv
<1> PICK c : c = task[h]
  OBVIOUS
<1>1. task'[h] = NoTask /\ OthersStay(h) /\ task' = [k \in Tasks |-> task'[k]]
  BY TaskEnds DEF OthersStay
<1>2. TaskIs(c) /\ c.on \in Schedules /\ c.arg \in Days /\ c.op \in Writes \ {"create", "delete"} /\ c.op \in {"add", "remove", "confirm"}
      /\ c.op \notin {"status", "reorder"}
  <2>1. TaskIs(c) /\ c.on \in Schedules /\ c.op \in DayOps /\ c.op \in Writes \ {"create", "delete"}
    BY AwaitedIs DEF DayOps, Writes, CellWrites
  <2> QED BY <2>1 DEF TaskIs
<1>3. CASE shown = Nothing
  <2>1. shown' = shown
    BY <1>3 DEF Patched
  <2>2. ASSUME ~doubt' PROVE GridFollows'
    <3>1. SameOrder(task[h], task'[h])
      BY <1>1, <1>2 DEF SameOrder, Unordered, NewDays, Waits, NoTask
    <3> QED BY <1>1, <1>3, <2>1, <2>2, <3>1, OrderKept DEF GridFollows
  <2>3. EditorShape'
    <3>1. row' = [t \in Schedules |-> row'[t]] /\ \A t \in Schedules : row'[t] = row[t]
      BY RowsUnread
    <3>2. \A k \in Tasks : task'[k] = task[k] \/ task'[k] = NoTask
      BY <1>1 DEF OthersStay
    <3>3. chosen' \in Schedules \cup {Nothing} /\ crossed' \in BOOLEAN /\ order' \in {order, Nothing} /\ shown' \in {shown, Nothing} /\ doubt' \in BOOLEAN
      BY <2>1 DEF EditorShape, Undone
    <3> QED BY <1>1, <3>1, <3>2, <3>3, EditorShapeKept
  <2>4. OneIsChosen'
    <3>1. \A k \in Tasks : StaysWith(task[k], task'[k])
      BY <1>1 DEF OthersStay, StaysWith
    <3> QED BY <2>1, <3>1, ChosenKept
  <2> QED BY <2>2, <2>3, <2>4
<1>4. CASE shown # Nothing
  <2> PICK s, x, z : s = shown.of /\ x = shown.sheet /\ z = (IF s = c.on /\ Has(x, c.arg) THEN Written(x, c.op, c.arg) ELSE x)
    OBVIOUS
  <2>1. s \in Schedules /\ WasMade(s) /\ IsSheet(x) /\ shown = [of |-> s, sheet |-> x]
    BY <1>4 DEF EditorShape
  <2>2. /\ IsSheet(z) /\ z.status = x.status /\ z.linked = x.linked /\ z.hidden = x.hidden /\ z.days = x.days
        /\ ~(s = c.on /\ Has(x, c.arg)) => z.staffed = x.staffed
        /\ s = c.on /\ Has(x, c.arg) => z.staffed = (IF c.op = "remove" THEN x.staffed \ {c.arg} ELSE x.staffed \cup {c.arg})
    <3>1. CASE s = c.on /\ Has(x, c.arg)
      <4>1. z = Written(x, c.op, c.arg)
        BY <3>1
      <4>2. /\ IsSheet(z) /\ z.status = x.status /\ z.linked = x.linked /\ z.hidden = x.hidden /\ z.days = x.days
            /\ c.op \in {"add", "confirm"} => z.staffed = x.staffed \cup {c.arg}
            /\ c.op = "remove" => z.staffed = x.staffed \ {c.arg}
        BY <1>2, <2>1, <3>1, <4>1, WrittenIs
      <4> QED BY <1>2, <3>1, <4>2
    <3>2. CASE ~(s = c.on /\ Has(x, c.arg))
      BY <2>1, <3>2
    <3> QED BY <3>1, <3>2
  <2>3. shown' = [of |-> s, sheet |-> z]
    <3>1. CASE s = c.on /\ Has(x, c.arg)
      <4>1. shown' = [shown EXCEPT !.sheet = Written(shown.sheet, c.op, c.arg)]
        BY <1>4, <3>1 DEF Patched
      <4> QED BY <2>1, <3>1, <4>1
    <3>2. CASE ~(s = c.on /\ Has(x, c.arg))
      BY <1>4, <2>1, <3>2 DEF Patched
    <3> QED BY <3>1, <3>2
  <2>4. shown'.of = s /\ shown'.sheet = z
    BY <2>3
  <2>5. EditorShape'
    <3>1. row' = [t \in Schedules |-> row'[t]] /\ \A t \in Schedules : row'[t] = row[t]
      BY RowsUnread
    <3>2. \A k \in Tasks : task'[k] = task[k] \/ task'[k] = NoTask
      BY <1>1 DEF OthersStay
    <3>3. chosen' \in Schedules \cup {Nothing} /\ crossed' \in BOOLEAN /\ order' \in {order, Nothing} /\ doubt' \in BOOLEAN
      BY DEF EditorShape, Undone
    <3> QED BY <1>1, <2>1, <2>2, <2>3, <2>4, <3>1, <3>2, <3>3, EditorShapeKept
  <2>6. OneIsChosen'
    <3>1. \A k \in Tasks : StaysWith(task[k], task'[k])
      BY <1>1 DEF OthersStay, StaysWith
    <3> QED BY <1>4, <2>4, <3>1, ChosenKept
  <2>7. ASSUME ~doubt' PROVE GridFollows'
    <3>1. GridFollows /\ ~Undone(c)
      BY <2>7
    <3>2. OrderFollows'
      <4>1. SameOrder(task[h], task'[h])
        BY <1>1, <1>2 DEF SameOrder, Unordered, NewDays, Waits, NoTask
      <4> QED BY <1>1, <3>1, <4>1, OrderKept DEF GridFollows
    <3>3. ASSUME Reloading PROVE Reloading'
      BY <1>1, <1>2, <3>3, ReloadingKept DEF Reloads
    <3>4. ASSUME SheetFollows PROVE SheetFollows'
      <4>1. /\ Exists(s) /\ x.status = row[s].status /\ x.linked = row[s].linked /\ Range(x.days) = Range(row[s].days)
            /\ ShownDays = row[s].days \/ \E k \in Tasks : Orders(task[k]) /\ order.of = s /\ Range(order.days) = Range(x.days)
            /\ \A k \in Tasks : Waits(task[k], s, {"reorder"}) /\ task[k].answer \in {"none", "failed"} => order # Nothing /\ order.of = s
            /\ \A e \in Days : (e \in x.staffed <=> e \in row[s].staffed) \/ \E k \in Tasks : Staffs(task[k], s, e)
            /\ \A e \in Days : (e \in x.hidden <=> e \in row[s].hidden) \/ \E k \in Tasks : Toggles(task[k], s, e)
            /\ \A k \in Tasks, e \in Days : Toggles(task[k], s, e) =>
                 (e \in x.hidden <=> task[k].op = "hide") \/ \E j \in Tasks \ {k} : Toggles(task[j], s, e)
        BY <3>4 DEF SheetFollows
      <4>2. Exists(s)' /\ z.status = row'[s].status /\ z.linked = row'[s].linked /\ Range(z.days) = Range(row'[s].days)
        BY <2>2, <4>1 DEF Exists
      <4>3. ASSUME NEW k \in Tasks PROVE /\ Orders(task[k])' <=> Orders(task[k])
                                         /\ Waits(task[k], s, {"reorder"}) <=> Waits(task'[k], s, {"reorder"})
                                         /\ \A e \in Days : Toggles(task[k], s, e) <=> Toggles(task'[k], s, e)
                                         /\ k # h => task'[k] = task[k]
        BY <1>1, <1>2 DEF OthersStay, Toggles, Waits, Orders
      <4>4. ASSUME NEW k \in Tasks, Waits(task'[k], s, {"reorder"}), task'[k].answer \in {"none", "failed"}
            PROVE  order' # Nothing /\ order'.of = s
        <5>1. k # h
          BY <1>1, <4>4 DEF Waits
        <5> QED BY <4>1, <4>3, <4>4, <5>1
      <4>5. ASSUME NEW e \in Days PROVE (e \in z.hidden <=> e \in row'[s].hidden) \/ \E k \in Tasks : Toggles(task'[k], s, e)
        BY <2>2, <4>1, <4>3
      <4>6. ASSUME NEW k \in Tasks, NEW e \in Days, Toggles(task'[k], s, e)
            PROVE  (e \in z.hidden <=> task'[k].op = "hide") \/ \E j \in Tasks \ {k} : Toggles(task'[j], s, e)
        <5>1. k # h
          BY <1>1, <4>6 DEF Toggles, Waits
        <5>2. Toggles(task[k], s, e) /\ task'[k] = task[k]
          BY <4>3, <4>6, <5>1
        <5> QED BY <2>2, <4>1, <4>3, <5>2
      <4>7. ShownDays' = row'[s].days \/ \E k \in Tasks : Orders(task[k])' /\ order'.of = s /\ Range(order'.days) = Range(z.days)
        <5>1. ShownDays' = ShownDays
          BY <2>2, <2>4 DEF ShownDays
        <5> QED BY <2>2, <4>1, <4>3, <5>1
      <4>8. ASSUME NEW e \in Days PROVE (e \in z.staffed <=> e \in row'[s].staffed) \/ \E k \in Tasks : Staffs(task'[k], s, e)
        <5>1. CASE s = c.on /\ e = c.arg
          <6>1. Exists(s) /\ Written(row[s], c.op, c.arg) = row[s] /\ IsSheet(row[s])
            BY <2>1, <3>1, <4>1, <5>1, SheetStays DEF Undone
          <6>2. Has(row[s], c.arg) <=> Has(x, c.arg)
            BY <4>1 DEF Has
          <6>3. CASE Has(x, c.arg)
            <7>1. row[s].staffed = (IF c.op = "remove" THEN row[s].staffed \ {c.arg} ELSE row[s].staffed \cup {c.arg})
              <8>1. LET y == Written(row[s], c.op, c.arg) IN
                    /\ c.op \in {"add", "confirm"} => y.staffed = row[s].staffed \cup {c.arg}
                    /\ c.op = "remove" => y.staffed = row[s].staffed \ {c.arg}
                BY <1>2, <6>1, <6>2, <6>3, WrittenIs
              <8> QED BY <1>2, <6>1, <8>1
            <7>2. z.staffed = (IF c.op = "remove" THEN x.staffed \ {c.arg} ELSE x.staffed \cup {c.arg})
              BY <2>2, <5>1, <6>3
            <7>3. CASE c.op = "remove"
              <8>1. e \notin z.staffed /\ e \notin row[s].staffed
                BY <5>1, <7>1, <7>2, <7>3
              <8> QED BY <8>1
            <7>4. CASE c.op # "remove"
              <8>1. e \in z.staffed /\ e \in row[s].staffed
                BY <5>1, <7>1, <7>2, <7>4
              <8> QED BY <8>1
            <7> QED BY <7>3, <7>4
          <6>4. CASE ~Has(x, c.arg)
            BY <2>1, <2>2, <5>1, <6>1, <6>2, <6>4 DEF IsSheet, Has
          <6> QED BY <6>3, <6>4
        <5>2. CASE ~(s = c.on /\ e = c.arg)
          <6>1. e \in z.staffed <=> e \in x.staffed
            BY <2>2, <5>2
          <6>2. ASSUME NEW k \in Tasks, Staffs(task[k], s, e) PROVE Staffs(task'[k], s, e)
            <7>1. k # h
              BY <5>2, <6>2 DEF Staffs, Waits
            <7> QED BY <4>3, <6>2, <7>1
          <6> QED BY <4>1, <6>1, <6>2
        <5> QED BY <5>1, <5>2
      <4> QED BY <2>4, <4>2, <4>4, <4>5, <4>6, <4>7, <4>8 DEF SheetFollows
    <3> QED BY <1>4, <3>1, <3>2, <3>3, <3>4 DEF GridFollows
  <2> QED BY <2>5, <2>6, <2>7
<1> QED BY <1>3, <1>4

LEMMA GridWrittenKeeps == ASSUME EditorInv, NEW h \in Tasks, gridWritten(h) PROVE EditorInv'
<1>0. /\ task[h] # NoTask /\ task[h].answer # "none" /\ task[h].op \in {"add", "remove"} /\ task[h].step = "write" /\ Ends(h)
      /\ UNCHANGED <<row, chosen, order, crossed>> /\ doubt' = (doubt \/ Undone(task[h]))
      /\ shown' = (IF task[h].answer = "ok" THEN Patched(task[h]) ELSE shown)
      /\ ask' = (IF task[h].answer = "warned" THEN [ask EXCEPT !.warning = [of |-> task[h].on, day |-> task[h].arg]] ELSE ask)
  BY DEF gridWritten, Arrived
<1>1. ask \in AsksAre /\ doubt \in BOOLEAN /\ TaskIs(task[h])
  BY <1>0, AwaitedIs DEF EditorInv, EditorShape
<1>2. CASE task[h].answer = "ok"
  <2>1. ask' = ask /\ AsksStay
    BY <1>0, <1>2 DEF AsksStay, AskStays
  <2> QED BY <1>0, <1>1, <1>2, <2>1, PatchKeeps
<1>3. CASE task[h].answer # "ok"
  <2>1. Quiet(task[h]) /\ ~Reloads(task[h])
    BY <1>0, <1>3 DEF Quiet, Reloads
  <2>2. ask' \in AsksAre /\ AsksStay
    <3>1. CASE task[h].answer = "warned"
      <4>1. task[h].arg \in Days /\ task[h].on \in Schedules
        BY <1>0, <1>1 DEF TaskIs, TaskFields, DayOps, CellWrites
      <4>2. ask' = [ask EXCEPT !.warning = [of |-> task[h].on, day |-> task[h].arg]]
        BY <1>0, <3>1
      <4>3. ask' \in AsksAre /\ ask'.warning.of = task[h].on /\ ask'.status = ask.status /\ ask'.action = ask.action
        BY <1>1, <4>1, <4>2 DEF AsksAre
      <4>4. chosen # Nothing /\ ~crossed => task[h].on = chosen
        BY <1>0 DEF EditorInv, OneIsChosen, Awaited
      <4> QED BY <4>3, <4>4 DEF AsksStay, AskStays
    <3>2. CASE task[h].answer # "warned"
      BY <1>0, <1>1, <3>2 DEF AsksStay, AskStays
    <3> QED BY <3>1, <3>2
  <2>3. doubt' \in BOOLEAN
    BY <1>0, <1>1 DEF Undone
  <2> QED BY <1>0, <1>3, <2>1, <2>2, <2>3, EndsKeep
<1> QED BY <1>2, <1>3

LEMMA ConfirmedKeeps == ASSUME EditorInv, NEW h \in Tasks, confirmed(h) PROVE EditorInv'
<1>0. /\ task[h] # NoTask /\ task[h].answer # "none" /\ task[h].op \in {"delete", "confirm"} /\ task[h].step = "write" /\ Ends(h)
      /\ UNCHANGED <<row, crossed>> /\ doubt' = (doubt \/ (task[h].op = "confirm" /\ Undone(task[h])))
  BY DEF confirmed, Arrived
<1>1. ask \in AsksAre /\ doubt \in BOOLEAN /\ TaskIs(task[h])
  BY <1>0, AwaitedIs DEF EditorInv, EditorShape
<1>2. CASE task[h].answer # "ok"
  <2>1. Quiet(task[h]) /\ ~Reloads(task[h]) /\ UNCHANGED <<chosen, shown, order, ask>>
    BY <1>0, <1>2 DEF Quiet, Reloads, confirmed
  <2>2. doubt' \in BOOLEAN /\ AsksStay
    BY <1>0, <1>1, <2>1 DEF Undone, AsksStay, AskStays
  <2> QED BY <1>0, <1>1, <2>1, <2>2, EndsKeep
<1>3. CASE task[h].answer = "ok" /\ task[h].op = "confirm"
  <2>1. shown' = Patched(task[h]) /\ ask' = [ask EXCEPT !.warning = Nothing] /\ UNCHANGED <<chosen, order>>
    BY <1>3 DEF confirmed
  <2>2. ask' \in AsksAre /\ AsksStay
    <3>1. ask' \in AsksAre /\ ask'.status = ask.status /\ ask'.action = ask.action /\ ask'.warning = Nothing
      BY <1>1, <2>1 DEF AsksAre
    <3> QED BY <3>1 DEF AsksStay, AskStays
  <2>3. doubt' = (doubt \/ Undone(task[h]))
    BY <1>0, <1>3
  <2> QED BY <1>0, <1>3, <2>1, <2>2, <2>3, PatchKeeps
<1>4. CASE task[h].answer = "ok" /\ task[h].op = "delete"
  <2>1. chosen' = Nothing /\ shown' = Nothing /\ order' = Nothing /\ ask' = [ask EXCEPT !.action = Nothing] /\ doubt' = doubt
    <3>1. chosen' = Nothing /\ shown' = Nothing /\ GridCloses /\ ask' = [ask EXCEPT !.action = Nothing]
      BY <1>4 DEF confirmed
    <3>2. doubt' = doubt
      BY <1>0, <1>1, <1>4
    <3> QED BY <3>1, <3>2 DEF GridCloses
  <2>2. ask' \in AsksAre
    BY <1>1, <2>1 DEF AsksAre
  <2>3. task'[h] = NoTask /\ OthersStay(h) /\ task' = [k \in Tasks |-> task'[k]]
    BY <1>0, TaskEnds DEF EditorInv, OthersStay
  <2>4. EditorShape'
    <3>1. row' = [t \in Schedules |-> row'[t]] /\ \A t \in Schedules : row'[t] = row[t]
      BY <1>0, RowsUnread DEF EditorInv
    <3>2. \A k \in Tasks : task'[k] = task[k] \/ task'[k] = NoTask
      BY <2>3 DEF OthersStay
    <3>3. chosen' \in Schedules \cup {Nothing} /\ crossed' \in BOOLEAN /\ order' \in {order, Nothing} /\ shown' \in {shown, Nothing} /\ doubt' \in BOOLEAN
      BY <1>0, <2>1 DEF EditorInv, EditorShape
    <3> QED BY <2>2, <2>3, <3>1, <3>2, <3>3, EditorShapeKept DEF EditorInv
  <2>5. OneIsChosen' /\ GridFollows'
    BY <2>1 DEF OneIsChosen, ActsOnWhatIsShown, GridFollows, OrderFollows
  <2> QED BY <2>4, <2>5 DEF EditorInv
<1> QED BY <1>0, <1>2, <1>3, <1>4

\* A sheet that is loaded is that of the rows, unless something was written since.
LEMMA LoadedKeeps == ASSUME EditorInv, NEW h \in Tasks, loaded(h) PROVE EditorInv'
<1> USE DEF EditorInv
<1> PICK c, first : c = task[h] /\ first = (task[h].op \in {"open", "create"})
  OBVIOUS
<1>0. /\ c # NoTask /\ c.answer # "none" /\ c.step = "read" /\ UNCHANGED <<row, chosen, order, crossed>>
      /\ shown' = (IF c.answer # "failed" THEN [of |-> c.on, sheet |-> c.data] ELSE shown)
      /\ IF first /\ c.answer # "failed" THEN Goes(h, "roster") ELSE Ends(h)
      /\ ask' = (IF c.answer = "failed" THEN ask
                 ELSE IF c.op = "status" THEN [ask EXCEPT !.status = Nothing]
                 ELSE IF c.op = "removeDay" THEN [ask EXCEPT !.action = Nothing] ELSE ask)
      /\ doubt' = (IF c.answer # "failed" THEN c.data # row[c.on] \/ Unseen(c.on) \/ (doubt /\ order # Nothing) ELSE doubt \/ ~first)
  BY DEF loaded, Arrived
<1>1. TaskIs(c) /\ c.on \in Schedules /\ ask \in AsksAre /\ doubt \in BOOLEAN
  BY <1>0, AwaitedIs DEF EditorShape
<1>2. CASE c.answer = "failed"
  <2>1. Ends(h) /\ UNCHANGED <<shown, ask>> /\ doubt' = (doubt \/ ~first)
    BY <1>0, <1>2
  <2>2. ~doubt' => Quiet(task[h]) /\ ~Reloads(task[h])
    BY <1>0, <2>1 DEF Quiet, Reloads
  <2>3. doubt' \in BOOLEAN /\ (doubt => doubt') /\ ask' \in AsksAre /\ AsksStay
    BY <1>1, <2>1 DEF AsksStay, AskStays
  <2> QED BY <1>0, <2>1, <2>2, <2>3, EndsKeep
<1>3. CASE c.answer # "failed"
  <2> PICK s, x : s = c.on /\ x = c.data
    OBVIOUS
  <2>1. c.answer = "ok" /\ IsSheet(x) /\ WasMade(s) /\ s \in Schedules
    <3>1. c.answer \in {"none", "ok", "failed", "warned"}
      BY <1>0, AwaitedIs
    <3> QED BY <1>0, <1>1, <1>3, <3>1 DEF TaskIs
  <2>2. shown' = [of |-> s, sheet |-> x] /\ shown'.of = s /\ shown'.sheet = x
    BY <1>0, <1>3
  <2>3. doubt' = (x # row[s] \/ Unseen(s) \/ (doubt /\ order # Nothing)) /\ doubt' \in BOOLEAN
    BY <1>0, <1>1, <1>3
  <2>4. /\ OthersStay(h) /\ task' = [k \in Tasks |-> task'[k]]
        /\ task'[h] = NoTask \/ (TaskIs(task'[h]) /\ task'[h].step = "roster" /\ task'[h].on = s /\ task'[h].back = c.back /\ task'[h].op = c.op)
    <3>1. CASE first
      <4>1. Goes(h, "roster")
        BY <1>0, <1>3, <3>1
      <4> QED BY <1>0, <4>1, TaskMoves DEF OthersStay, Awaited
    <3>2. CASE ~first
      <4>1. Ends(h)
        BY <1>0, <3>2
      <4> QED BY <4>1, TaskEnds DEF OthersStay
    <3> QED BY <3>1, <3>2
  <2>5. ask' \in AsksAre /\ AsksStay
    <3>1. CASE c.op = "status"
      <4>1. ask' \in AsksAre /\ ask'.status = Nothing /\ ask'.action = ask.action /\ ask'.warning = ask.warning
        BY <1>0, <1>1, <1>3, <3>1 DEF AsksAre
      <4> QED BY <4>1 DEF AsksStay, AskStays
    <3>2. CASE c.op = "removeDay"
      <4>1. ask' \in AsksAre /\ ask'.action = Nothing /\ ask'.status = ask.status /\ ask'.warning = ask.warning
        BY <1>0, <1>1, <1>3, <3>2 DEF AsksAre
      <4> QED BY <4>1 DEF AsksStay, AskStays
    <3>3. CASE c.op \notin {"status", "removeDay"}
      BY <1>0, <1>1, <1>3, <3>3 DEF AsksStay, AskStays
    <3> QED BY <3>1, <3>2, <3>3
  <2>6. EditorShape'
    <3>1. row' = [t \in Schedules |-> row'[t]] /\ \A t \in Schedules : row'[t] = row[t]
      BY <1>0, RowsUnread
    <3>2. \A k \in Tasks : task'[k] = task[k] \/ task'[k] = NoTask \/ TaskIs(task'[k])
      BY <2>4 DEF OthersStay
    <3>3. chosen' \in Schedules \cup {Nothing} /\ crossed' \in BOOLEAN /\ order' \in {order, Nothing}
      BY <1>0 DEF EditorShape
    <3> QED BY <2>1, <2>2, <2>3, <2>4, <2>5, <3>1, <3>2, <3>3, EditorShapeKept
  <2>7. OneIsChosen'
    <3>1. \A k \in Tasks : StaysWith(task[k], task'[k])
      BY <1>0, <2>4 DEF OthersStay, StaysWith
    <3>2. chosen # Nothing /\ ~crossed => s = chosen
      BY <1>0 DEF OneIsChosen, Awaited
    <3> QED BY <1>0, <2>2, <2>5, <3>1, <3>2, ChosenKept
  <2>8. ASSUME ~doubt' PROVE GridFollows'
    <3>1. x = row[s] /\ ~Unseen(s) /\ (order # Nothing => ~doubt)
      BY <2>3, <2>8
    <3>2. OrderFollows'
      <4>1. CASE order = Nothing
        BY <1>0, <4>1 DEF OrderFollows
      <4>2. CASE order # Nothing
        <5>1. Quiet(task[h]) /\ Quiet(task'[h])
          BY <1>0, <2>4 DEF Quiet
        <5>2. SameOrder(task[h], task'[h])
          BY <5>1, QuietIsSame
        <5> QED BY <1>0, <2>4, <3>1, <4>2, <5>2, OrderKept DEF GridFollows
      <4> QED BY <4>1, <4>2
    <3>3. ASSUME ~Reloading' PROVE SheetFollows'
      <4>1. Exists(s)' /\ row'[s] = x
        <5>1. IsSheet(row[s])
          BY <2>1, <3>1
        <5> QED BY <1>0, <2>1, <3>1, <5>1, SheetStays DEF Exists
      <4>2. ASSUME NEW k \in Tasks, Waits(task'[k], s, {"hide", "show", "reorder"}) PROVE FALSE
        <5>1. k # h
          BY <2>4, <4>2 DEF Waits
        <5>2. task[k] # NoTask /\ task[k].on = s /\ task[k].op \in {"hide", "show", "reorder"}
          BY <2>4, <4>2, <5>1 DEF OthersStay, Waits
        <5> QED BY <3>1, <5>2 DEF Unseen, Awaited
      <4>3. ShownDays' = x.days
        <5>1. CASE order' # Nothing /\ order'.of = s /\ Range(order'.days) = Range(x.days)
          <6>1. ShownDays' = order'.days
            BY <2>2, <5>1 DEF ShownDays
          <6>2. \/ order'.days = x.days
                \/ \E k \in Tasks : Orders(task[k])' \/ NewDays(task'[k], s)
            BY <3>2, <4>1, <5>1 DEF OrderFollows
          <6>3. ASSUME NEW k \in Tasks, Orders(task[k])' PROVE FALSE
            <7>1. Waits(task'[k], s, {"reorder"})
              BY <5>1, <6>3 DEF Orders
            <7> QED BY <4>2, <7>1 DEF Waits
          <6>4. ASSUME NEW k \in Tasks, NewDays(task'[k], s) PROVE FALSE
            <7>1. Reloads(task'[k])
              BY <6>4 DEF NewDays, Waits, Reloads
            <7> QED BY <3>3, <7>1 DEF Reloading
          <6> QED BY <6>1, <6>2, <6>3, <6>4
        <5>2. CASE ~(order' # Nothing /\ order'.of = s /\ Range(order'.days) = Range(x.days))
          BY <2>2, <5>2 DEF ShownDays
        <5> QED BY <5>1, <5>2
      <4>4. \A k \in Tasks, e \in Days : ~Toggles(task'[k], s, e)
        BY <4>2 DEF Toggles, Waits
      <4>5. \A k \in Tasks : ~Waits(task'[k], s, {"reorder"})
        BY <4>2 DEF Waits
      <4> QED BY <2>2, <4>1, <4>3, <4>4, <4>5 DEF SheetFollows
    <3> QED BY <3>2, <3>3 DEF GridFollows
  <2> QED BY <2>6, <2>7, <2>8
<1> QED BY <1>2, <1>3

LEMMA ServeKeeps == ASSUME EditorInv, NEW h \in Tasks, serve(h) PROVE EditorInv'
<1> USE DEF EditorInv
<1> PICK c, r : c = task[h] /\ r = c.on
  OBVIOUS
<1>0. /\ InFlight(h) /\ c # NoTask /\ c.answer = "none" /\ c.step = "write" /\ UNCHANGED <<chosen, shown, order, ask, crossed>>
      /\ IF c.op = "create" THEN row[r].status = "unmade" ELSE Exists(r) /\ Accepts(row[r], c.op, c.arg)
      /\ row' = [row EXCEPT ![r] = IF c.op = "create" THEN NewSheet ELSE Written(row[r], c.op, c.arg)]
      /\ \/ Answered(h, "ok") /\ doubt' = (doubt \/ Overlapped(h))
         \/ Answered(h, "failed") /\ doubt' = TRUE
  BY DEF serve, page, InFlight
<1>1. TaskIs(c) /\ r \in Schedules /\ c.op \in Writes
  BY <1>0, AwaitedIs DEF TaskIs
<1>2. /\ row' = [t \in Schedules |-> row'[t]] /\ \A t \in Schedules \ {r} : row'[t] = row[t]
      /\ row'[r] = (IF c.op = "create" THEN NewSheet ELSE Written(row[r], c.op, c.arg))
  BY <1>0, <1>1 DEF EditorShape
<1>3. ASSUME c.op \notin {"create", "delete"}
      PROVE  LET p == row[r]
                 y == row'[r] IN
             /\ Exists(r) /\ Exists(r)' /\ IsSheet(p) /\ IsSheet(y)
             /\ c.op # "status" => y.status = p.status
             /\ c.op \notin {"link", "unlink", "removeDay"} => y.linked = p.linked
             /\ c.op \notin {"add", "confirm", "remove", "removeDay"} => y.staffed = p.staffed
             /\ c.op \in {"add", "confirm"} => y.staffed = p.staffed \cup {c.arg}
             /\ c.op = "remove" => y.staffed = p.staffed \ {c.arg}
             /\ c.op \notin {"hide", "show", "removeDay"} => y.hidden = p.hidden
             /\ c.op = "hide" => y.hidden = p.hidden \cup {c.arg}
             /\ c.op = "show" => y.hidden = p.hidden \ {c.arg}
             /\ c.op \notin {"addDay", "removeDay", "reorder"} => y.days = p.days
             /\ c.op = "reorder" => y.days = Reordered(p.days, c.arg)
  <2>1. Exists(r) /\ Accepts(row[r], c.op, c.arg) /\ row'[r] = Written(row[r], c.op, c.arg) /\ c.op \in Writes \ {"create", "delete"}
    BY <1>0, <1>1, <1>2, <1>3
  <2>2. IsSheet(row[r])
    BY <1>1, <2>1, SheetStays
  <2>3. c.op \in {"add", "confirm", "removeDay"} => Has(row[r], c.arg)
    BY <2>1 DEF Accepts
  <2>4. (c.op \in DayOps => c.arg \in Days) /\ (c.op = "status" => c.arg \in Statuses) /\ (c.op = "reorder" => c.arg \in Seq(Days))
    BY <1>1 DEF TaskIs
  <2> PICK y : y = row'[r]
    OBVIOUS
  <2>5. /\ IsSheet(y)
        /\ c.op # "status" => y.status = row[r].status
        /\ c.op \notin {"link", "unlink", "removeDay"} => y.linked = row[r].linked
        /\ c.op \notin {"add", "confirm", "remove", "removeDay"} => y.staffed = row[r].staffed
        /\ c.op \in {"add", "confirm"} => y.staffed = row[r].staffed \cup {c.arg}
        /\ c.op = "remove" => y.staffed = row[r].staffed \ {c.arg}
        /\ c.op \notin {"hide", "show", "removeDay"} => y.hidden = row[r].hidden
        /\ c.op = "hide" => y.hidden = row[r].hidden \cup {c.arg}
        /\ c.op = "show" => y.hidden = row[r].hidden \ {c.arg}
        /\ c.op \notin {"addDay", "removeDay", "reorder"} => y.days = row[r].days
        /\ c.op = "reorder" => y.days = Reordered(row[r].days, c.arg)
    BY <2>1, <2>2, <2>3, <2>4, WrittenIs
  <2>6. y.status \in Statuses
    BY <2>5, SheetParts
  <2>7. Exists(r)'
    BY <2>6 DEF Exists
  <2> QED BY <2>1, <2>2, <2>5, <2>7
<1>4. IsSheet(row'[r]) \/ row'[r] = [status |-> "gone"]
  <2>1. CASE c.op = "create"
    BY <1>2, <2>1, NewSheetIs
  <2>2. CASE c.op = "delete"
    BY <1>2, <2>2 DEF Written
  <2>3. CASE c.op \notin {"create", "delete"}
    BY <1>3, <2>3
  <2> QED BY <2>1, <2>2, <2>3
<1>5. /\ TaskIs(task'[h]) /\ task'[h] # NoTask /\ OthersStay(h) /\ task' = [k \in Tasks |-> task'[k]]
      /\ task'[h].op = c.op /\ task'[h].step = "write" /\ task'[h].on = r /\ task'[h].back = c.back /\ task'[h].arg = c.arg
      /\ task'[h].answer \in {"ok", "failed"} /\ (~doubt' => task'[h].answer = "ok" /\ ~doubt /\ ~Overlapped(h))
  <2>1. CASE Answered(h, "ok") /\ doubt' = (doubt \/ Overlapped(h))
    BY <1>0, <2>1, AnswerIsSet
  <2>2. CASE Answered(h, "failed") /\ doubt' = TRUE
    BY <1>0, <2>2, AnswerIsSet
  <2> QED BY <1>0, <2>1, <2>2
<1>6. EditorShape'
  <2>1. \A t \in Schedules : row'[t] = row[t] \/ IsSheet(row'[t]) \/ row'[t] = [status |-> "gone"]
    BY <1>2, <1>4
  <2>2. \A k \in Tasks : task'[k] = task[k] \/ task'[k] = NoTask \/ TaskIs(task'[k])
    BY <1>5 DEF OthersStay
  <2>3. /\ chosen' \in Schedules \cup {Nothing} /\ shown' \in {shown, Nothing} /\ order' \in {order, Nothing}
        /\ ask' \in AsksAre /\ crossed' \in BOOLEAN
    BY <1>0 DEF EditorShape
  <2>4. doubt' \in BOOLEAN
    BY <1>0 DEF EditorShape, Overlapped
  <2> QED BY <1>2, <1>5, <2>1, <2>2, <2>3, <2>4, EditorShapeKept
<1>7. OneIsChosen'
  <2>1. (\A k \in Tasks : StaysWith(task[k], task'[k])) /\ AsksStay
    BY <1>0, <1>5 DEF OthersStay, StaysWith, AsksStay, AskStays
  <2> QED BY <1>0, <2>1, ChosenKept
<1>8. ASSUME ~doubt' PROVE GridFollows'
  <2>1. GridFollows /\ ~Overlapped(h) /\ task'[h].answer = "ok"
    BY <1>5, <1>8
  <2>2. ASSUME NEW k \in Tasks \ {h}, task[k] # NoTask, task[k].step = "write", task[k].on = r
        PROVE  c.op \in CellWrites /\ task[k].op \in CellWrites /\ task[k].arg # c.arg
    BY <2>1, <2>2 DEF Overlapped, Awaited
  <2>3. ASSUME NEW k \in Tasks \ {h} PROVE task'[k] = task[k] /\ (Orders(task[k])' <=> Orders(task[k]))
    BY <1>0, <1>5 DEF OthersStay, Orders
  <2>4. ~Orders(task[h])' /\ (Orders(task[h]) => c.op = "reorder" /\ order.of = r)
    BY <1>5, <2>1 DEF Orders, Waits
  <2>5. ASSUME order # Nothing, c.op = "reorder", order.of = r PROVE c.arg = order.days
    <3>1. Waits(task[h], order.of, {"reorder"}) /\ task[h].answer = "none"
      BY <1>0, <2>5 DEF Waits
    <3>2. c.arg = order.days \/ \E k \in Tasks \ {h} : Orders(task[k])
      BY <2>1, <2>5, <3>1 DEF GridFollows, OrderFollows
    <3>3. ASSUME NEW k \in Tasks \ {h}, Orders(task[k]) PROVE FALSE
      BY <2>2, <2>5, <3>3 DEF Orders, Waits, CellWrites
    <3> QED BY <3>2, <3>3
  <2>6. ASSUME c.op = "create", NEW t \in Schedules, WasMade(t) PROVE t # r
    BY <1>0, <2>6 DEF WasMade
  <2>7. OrderFollows'
    <3> SUFFICES ASSUME order # Nothing PROVE OrderFollows'
      BY <1>0 DEF OrderFollows
    <3> PICK o : o = order.of
      OBVIOUS
    <3>1. o \in Schedules /\ WasMade(o) /\ UNCHANGED order
      BY <1>0 DEF EditorShape
    <3>2. /\ \A k \in Tasks : Waits(task[k], o, {"reorder"}) /\ task[k].answer = "none" =>
               task[k].arg = order.days \/ \E j \in Tasks \ {k} : Orders(task[j])
          /\ \/ (Exists(o) /\ Range(order.days) = Range(row[o].days) => order.days = row[o].days)
             \/ \E k \in Tasks : Orders(task[k]) \/ NewDays(task[k], o)
      BY <2>1 DEF GridFollows, OrderFollows
    <3>3. ASSUME NEW k \in Tasks, Waits(task'[k], o, {"reorder"}), task'[k].answer = "none"
          PROVE  task'[k].arg = order.days \/ \E j \in Tasks \ {k} : Orders(task[j])'
      <4>1. k # h
        BY <2>1, <3>3
      <4>2. Waits(task[k], o, {"reorder"}) /\ task'[k] = task[k]
        BY <2>3, <3>3, <4>1
      <4>3. task[k].arg = order.days \/ \E j \in Tasks \ {k} : Orders(task[j])
        BY <3>2, <3>3, <4>2
      <4>4. ASSUME NEW j \in Tasks \ {k}, Orders(task[j]) PROVE j # h /\ Orders(task[j])'
        <5>1. j # h
          BY <2>2, <2>4, <4>1, <4>2, <4>4 DEF Waits, CellWrites
        <5> QED BY <2>3, <4>4, <5>1
      <4> QED BY <4>2, <4>3, <4>4
    <3>4. \/ (Exists(o)' /\ Range(order.days) = Range(row'[o].days) => order.days = row'[o].days)
          \/ \E k \in Tasks : Orders(task[k])' \/ NewDays(task'[k], o)
      <4>1. CASE o = r /\ c.op = "reorder"
        <5>1. row'[o].days = Reordered(row[o].days, order.days)
          BY <1>3, <2>5, <4>1
        <5>2. Range(order.days) = Range(row'[o].days) => order.days = row'[o].days
          BY <5>1 DEF Reordered
        <5> QED BY <5>2
      <4>2. CASE o = r /\ c.op \in {"addDay", "removeDay"}
        BY <1>5, <2>1, <4>2 DEF NewDays, Waits
      <4>3. CASE o = r /\ c.op = "delete"
        <5>1. row'[o] = [status |-> "gone"]
          BY <1>2, <4>3 DEF Written
        <5> QED BY <5>1 DEF Exists, Statuses
      <4>4. CASE o # r \/ c.op \notin {"reorder", "addDay", "removeDay", "delete"}
        <5>1. (Exists(o)' => Exists(o)) /\ (Exists(o)' => row'[o].days = row[o].days)
          <6>1. CASE o # r
            BY <1>2, <3>1, <6>1 DEF Exists
          <6>2. CASE o = r
            <7>1. c.op # "create"
              BY <2>6, <3>1, <6>2
            <7> QED BY <1>3, <4>4, <6>2, <7>1
          <6> QED BY <6>1, <6>2
        <5>2. ASSUME NEW k \in Tasks, Orders(task[k]) \/ NewDays(task[k], o) PROVE Orders(task[k])' \/ NewDays(task'[k], o)
          <6>1. k # h
            BY <1>0, <2>4, <4>4, <5>2 DEF NewDays, Waits
          <6> QED BY <2>3, <5>2, <6>1
        <5> QED BY <3>2, <5>1, <5>2
      <4> QED BY <1>0, <4>1, <4>2, <4>3, <4>4
    <3> QED BY <3>1, <3>3, <3>4 DEF OrderFollows
  <2>8. ASSUME shown' # Nothing, ~Reloading' PROVE SheetFollows'
    <3> PICK s, x : s = shown.of /\ x = shown.sheet
      OBVIOUS
    <3>1. shown # Nothing /\ s \in Schedules /\ WasMade(s) /\ IsSheet(x) /\ shown'.of = s /\ shown'.sheet = x /\ ShownDays' = ShownDays
      BY <1>0, <2>8 DEF EditorShape, ShownDays
    <3>2. ~Reloading
      <4>1. ~Reloads(task[h])
        BY <1>0 DEF Reloads
      <4> QED BY <2>8, <4>1, <1>5, ReloadingKept
    <3>3. /\ Exists(s) /\ x.status = row[s].status /\ x.linked = row[s].linked /\ Range(x.days) = Range(row[s].days)
          /\ ShownDays = row[s].days \/ \E k \in Tasks : Orders(task[k]) /\ order.of = s /\ Range(order.days) = Range(x.days)
          /\ \A k \in Tasks : Waits(task[k], s, {"reorder"}) /\ task[k].answer \in {"none", "failed"} => order # Nothing /\ order.of = s
          /\ \A e \in Days : (e \in x.staffed <=> e \in row[s].staffed) \/ \E k \in Tasks : Staffs(task[k], s, e)
          /\ \A e \in Days : (e \in x.hidden <=> e \in row[s].hidden) \/ \E k \in Tasks : Toggles(task[k], s, e)
          /\ \A k \in Tasks, e \in Days : Toggles(task[k], s, e) =>
               (e \in x.hidden <=> task[k].op = "hide") \/ \E j \in Tasks \ {k} : Toggles(task[j], s, e)
      BY <2>1, <3>1, <3>2 DEF GridFollows, SheetFollows
    <3>4. ASSUME s = r PROVE c.op \in {"reorder", "add", "confirm", "remove", "hide", "show"}
      <4>1. c.op # "create"
        BY <2>6, <3>1, <3>4
      <4>2. c.op \notin {"status", "addDay", "removeDay", "link", "unlink", "delete"}
        <5>1. ~Reloads(task'[h])
          BY <2>8 DEF Reloading
        <5> QED BY <1>5, <2>1, <5>1 DEF Reloads
      <4> QED BY <1>1, <4>1, <4>2 DEF Writes, CellWrites
    <3>5. Exists(s)' /\ x.status = row'[s].status /\ x.linked = row'[s].linked /\ Range(x.days) = Range(row'[s].days)
      <4>1. CASE s = r
        <5>1. c.op \in {"reorder", "add", "confirm", "remove", "hide", "show"}
          BY <3>4, <4>1
        <5>2. Exists(s)' /\ row'[s].status = row[s].status /\ row'[s].linked = row[s].linked
          BY <1>3, <4>1, <5>1
        <5>3. Range(row'[s].days) = Range(row[s].days)
          <6>1. c.op = "reorder" => row'[s].days = Reordered(row[s].days, c.arg)
            BY <1>3, <4>1
          <6>2. c.op # "reorder" => row'[s].days = row[s].days
            BY <1>3, <4>1, <5>1
          <6> QED BY <6>1, <6>2 DEF Reordered
        <5> QED BY <3>3, <5>2, <5>3
      <4>2. CASE s # r
        BY <1>2, <3>1, <3>3, <4>2 DEF Exists
      <4> QED BY <4>1, <4>2
    <3>6. ShownDays' = row'[s].days \/ \E k \in Tasks : Orders(task[k])' /\ order'.of = s /\ Range(order'.days) = Range(x.days)
      <4>1. CASE s = r /\ c.op = "reorder"
        <5>1. order # Nothing /\ order.of = s
          <6>1. Waits(task[h], s, {"reorder"}) /\ task[h].answer = "none"
            BY <1>0, <4>1 DEF Waits
          <6> QED BY <3>3, <6>1
        <5>2. c.arg = order.days
          BY <2>5, <4>1, <5>1
        <5>3. row'[s].days = Reordered(row[s].days, order.days)
          BY <1>3, <4>1, <5>2
        <5>4. CASE Range(order.days) = Range(x.days)
          <6>1. ShownDays = order.days
            BY <3>1, <5>1, <5>4 DEF ShownDays
          <6>2. row'[s].days = order.days
            BY <3>3, <5>3, <5>4 DEF Reordered
          <6> QED BY <3>1, <6>1, <6>2
        <5>5. CASE Range(order.days) # Range(x.days)
          <6>1. ShownDays = row[s].days
            BY <3>3, <5>5
          <6>2. row'[s].days = row[s].days
            BY <3>3, <5>3, <5>5 DEF Reordered
          <6> QED BY <3>1, <6>1, <6>2
        <5> QED BY <5>4, <5>5
      <4>2. CASE s # r \/ c.op # "reorder"
        <5>1. row'[s].days = row[s].days
          <6>1. CASE s # r
            BY <1>2, <3>1, <6>1
          <6>2. CASE s = r
            <7>1. c.op \in {"add", "confirm", "remove", "hide", "show"}
              BY <3>4, <4>2, <6>2
            <7> QED BY <1>3, <6>2, <7>1
          <6> QED BY <6>1, <6>2
        <5>2. ASSUME NEW k \in Tasks, Orders(task[k]), order.of = s PROVE Orders(task[k])'
          <6>1. k # h
            BY <2>4, <4>2, <5>2
          <6> QED BY <2>3, <5>2, <6>1
        <5> QED BY <1>0, <3>1, <3>3, <5>1, <5>2
      <4> QED BY <4>1, <4>2
    <3>7. ASSUME NEW k \in Tasks, Waits(task'[k], s, {"reorder"}), task'[k].answer \in {"none", "failed"} PROVE order' # Nothing /\ order'.of = s
      <4>1. k # h
        BY <2>1, <3>7
      <4> QED BY <1>0, <2>3, <3>3, <3>7, <4>1
    <3>8. ASSUME NEW e \in Days PROVE (e \in x.staffed <=> e \in row'[s].staffed) \/ \E k \in Tasks : Staffs(task'[k], s, e)
      <4>1. CASE s = r /\ e = c.arg /\ c.op \in {"add", "confirm", "remove"}
        <5>1. Staffs(task'[h], s, e)
          BY <1>5, <2>1, <4>1 DEF Staffs, Waits
        <5> QED BY <5>1
      <4>2. CASE ~(s = r /\ e = c.arg /\ c.op \in {"add", "confirm", "remove"})
        <5>1. e \in row'[s].staffed <=> e \in row[s].staffed
          <6>1. CASE s # r
            BY <1>2, <3>1, <6>1
          <6>2. CASE s = r /\ c.op \in {"reorder", "hide", "show"}
            BY <1>3, <6>2
          <6>3. CASE s = r /\ c.op \in {"add", "confirm"}
            <7>1. row'[s].staffed = row[s].staffed \cup {c.arg}
              BY <1>3, <6>3
            <7> QED BY <4>2, <6>3, <7>1
          <6>4. CASE s = r /\ c.op = "remove"
            <7>1. row'[s].staffed = row[s].staffed \ {c.arg}
              BY <1>3, <6>4
            <7> QED BY <4>2, <6>4, <7>1
          <6> QED BY <3>4, <6>1, <6>2, <6>3, <6>4
        <5>2. ASSUME NEW k \in Tasks, Staffs(task[k], s, e) PROVE Staffs(task'[k], s, e)
          <6>1. k # h
            BY <1>0, <5>2 DEF Staffs
          <6> QED BY <2>3, <5>2, <6>1
        <5> QED BY <3>3, <5>1, <5>2
      <4> QED BY <4>1, <4>2
    <3>9. ASSUME NEW k \in Tasks, NEW e \in Days, Toggles(task'[k], s, e) PROVE k # h /\ Toggles(task[k], s, e) /\ task'[k] = task[k]
      <4>1. k # h
        BY <2>1, <3>9 DEF Toggles
      <4> QED BY <2>3, <3>9, <4>1
    <3>10. ASSUME NEW e \in Days, s = r, e = c.arg, c.op \in {"hide", "show"} PROVE (e \in x.hidden <=> c.op = "hide") /\ \A k \in Tasks \ {h} : ~Toggles(task[k], s, e)
      <4>1. \A k \in Tasks \ {h} : ~Toggles(task[k], s, e)
        BY <2>2, <3>10 DEF Toggles, Waits
      <4>2. Toggles(task[h], s, e)
        BY <1>0, <3>10 DEF Toggles, Waits
      <4> QED BY <3>3, <4>1, <4>2
    <3>11. ASSUME NEW e \in Days PROVE (e \in x.hidden <=> e \in row'[s].hidden) \/ \E k \in Tasks : Toggles(task'[k], s, e)
      <4>1. CASE s = r /\ e = c.arg /\ c.op \in {"hide", "show"}
        <5>1. (c.op = "hide" => row'[s].hidden = row[s].hidden \cup {c.arg}) /\ (c.op = "show" => row'[s].hidden = row[s].hidden \ {c.arg})
          BY <1>3, <4>1
        <5>2. e \in row'[s].hidden <=> c.op = "hide"
          BY <4>1, <5>1
        <5> QED BY <3>10, <4>1, <5>2
      <4>2. CASE ~(s = r /\ e = c.arg /\ c.op \in {"hide", "show"})
        <5>1. e \in row'[s].hidden <=> e \in row[s].hidden
          <6>1. CASE s # r
            BY <1>2, <3>1, <6>1
          <6>2. CASE s = r /\ c.op \in {"reorder", "add", "confirm", "remove"}
            BY <1>3, <6>2
          <6>3. CASE s = r /\ c.op = "hide"
            <7>1. row'[s].hidden = row[s].hidden \cup {c.arg}
              BY <1>3, <6>3
            <7> QED BY <4>2, <6>3, <7>1
          <6>4. CASE s = r /\ c.op = "show"
            <7>1. row'[s].hidden = row[s].hidden \ {c.arg}
              BY <1>3, <6>4
            <7> QED BY <4>2, <6>4, <7>1
          <6> QED BY <3>4, <6>1, <6>2, <6>3, <6>4
        <5>2. ASSUME NEW k \in Tasks, Toggles(task[k], s, e) PROVE Toggles(task'[k], s, e)
          <6>1. k # h
            BY <4>2, <5>2 DEF Toggles, Waits
          <6> QED BY <2>3, <5>2, <6>1
        <5> QED BY <3>3, <5>1, <5>2
      <4> QED BY <4>1, <4>2
    <3>12. ASSUME NEW k \in Tasks, NEW e \in Days, Toggles(task'[k], s, e)
           PROVE  (e \in x.hidden <=> task'[k].op = "hide") \/ \E j \in Tasks \ {k} : Toggles(task'[j], s, e)
      <4>1. k # h /\ Toggles(task[k], s, e) /\ task'[k] = task[k]
        BY <3>9, <3>12
      <4>2. (e \in x.hidden <=> task[k].op = "hide") \/ \E j \in Tasks \ {k} : Toggles(task[j], s, e)
        BY <3>3, <4>1
      <4>3. ASSUME NEW j \in Tasks \ {k}, Toggles(task[j], s, e) PROVE Toggles(task'[j], s, e)
        <5>1. j # h
          <6>1. j = h => s = r /\ e = c.arg /\ c.op \in {"hide", "show"}
            BY <4>3 DEF Toggles, Waits
          <6> QED BY <3>10, <4>1, <6>1
        <5> QED BY <2>3, <4>3, <5>1
      <4> QED BY <4>1, <4>2, <4>3
    <3> QED BY <3>1, <3>5, <3>6, <3>7, <3>8, <3>11, <3>12 DEF SheetFollows
  <2> QED BY <2>7, <2>8 DEF GridFollows
<1> QED BY <1>6, <1>7, <1>8

LEMMA EditorInitInv == EditorInit => EditorInv
<1> SUFFICES ASSUME EditorInit PROVE EditorInv
  OBVIOUS
<1>1. EditorShape
  <2>1. \A s \in Schedules : IsSheet(row[s]) \/ row[s] \in [status : {"unmade", "gone"}]
    BY NewSheetIs DEF EditorInit
  <2>2. ask \in AsksAre
    BY DEF EditorInit, NoDialogs, AsksAre
  <2> QED BY <2>1, <2>2 DEF EditorInit, EditorShape, Awaited
<1>2. OneIsChosen /\ GridFollows
  BY DEF EditorInit, OneIsChosen, ActsOnWhatIsShown, GridFollows, OrderFollows
<1> QED BY <1>1, <1>2 DEF EditorInv

LEMMA EditorStep == EditorInv /\ [EditorNext]_editorVars => EditorInv'
<1> SUFFICES ASSUME EditorInv, [EditorNext]_editorVars PROVE EditorInv'
  OBVIOUS
<1>1. CASE UNCHANGED editorVars
  <2>1. UNCHANGED <<row, chosen, shown, order, ask, task, doubt, crossed>>
    BY <1>1 DEF editorVars
  <2>2. ask \in AsksAre /\ AsksStay
    BY <2>1 DEF EditorInv, EditorShape, AsksStay, AskStays
  <2> QED BY <2>1, <2>2, EditorDialogsKeep
<1>2. ASSUME NEW h \in Tasks, serve(h) \/ warn(h) \/ findOne(h) \/ refuse(h) PROVE EditorInv'
  BY <1>2, ServeKeeps, WarnKeeps, FindKeeps, RefuseKeeps
<1>3. ASSUME NEW h \in Tasks, NEW s \in Schedules, chooseCard(h, s) \/ handleCreate(h, s) PROVE EditorInv'
  BY <1>3, ChooseKeeps, CreateKeeps
<1>4. ASSUME NEW h \in Tasks,
             \/ \E to \in Statuses : handleUpdateStatus(h, to)
             \/ executePendingAction(h) \/ confirmWarningAllocation(h)
      PROVE  EditorInv'
  BY <1>4, ConfirmsKeep
<1>5. ASSUME NEW h \in Tasks, NEW d \in Days,
             onAddMembro(h, d) \/ onRemoveMembro(h, d) \/ onUpdateDiaEvento(h, d) \/ onAddDia(h, d) \/ handleToggleCelula(h, d)
      PROVE  EditorInv'
  BY <1>5, GridWritesKeep, ToggleKeeps
<1>6. ASSUME NEW h \in Tasks,
             \/ created(h) \/ gridWritten(h) \/ toggled(h) \/ reordered(h) \/ writtenAndRead(h)
             \/ confirmed(h) \/ loaded(h) \/ membersLoaded(h) \/ moveDia(h)
      PROVE  EditorInv'
  BY <1>6, CreatedKeeps, GridWrittenKeeps, ToggledKeeps, ReorderedKeeps, WrittenAndReadKeeps, ConfirmedKeeps, LoadedKeeps,
     MembersKeep, MoveKeeps
<1>7. ASSUME NEW s \in Schedules, othersWrite(s) PROVE EditorInv'
  BY <1>7, OthersKeep
<1>8. ASSUME \/ askStatus \/ \E action \in Days \cup {"delete"} : askAction(action)
             \/ \E which \in {"action", "status", "warning"} : closeDialog(which)
      PROVE  EditorInv'
  BY <1>8, AsksKeep
<1> QED BY <1>1, <1>2, <1>3, <1>4, <1>5, <1>6, <1>7, <1>8 DEF EditorNext

\* Between two answers the copy of the page differs from the rows only where an
\* answer that is awaited will change it (page.tsx, escala-grid.tsx).
THEOREM EditorInvariant == EditorSpec => []EditorInv
<1> QED BY EditorInitInv, EditorStep, PTL DEF EditorSpec

\* Once nothing is awaited, unless a write of another, a lost answer or an
\* overtaken load came between, the grid shows what is stored; and the buttons and
\* the dialogs act on what it shows, unless a card was chosen while another was
\* awaited.
THEOREM GridIsTruthful == EditorSpec => []GridTellsTheTruth
<1>1. EditorInv => GridTellsTheTruth
  <2> SUFFICES ASSUME EditorInv PROVE GridTellsTheTruth
    OBVIOUS
  <2>1. ActsOnWhatIsShown
    BY DEF EditorInv, OneIsChosen
  <2>2. ASSUME shown # Nothing, ~doubt, \A h \in Tasks : ~Awaited(h)
        PROVE  [shown.sheet EXCEPT !.days = ShownDays] = row[shown.of]
    <3> PICK s, x, y : s = shown.of /\ x = shown.sheet /\ y = row[s]
      OBVIOUS
    <3>1. \A h \in Tasks : task[h] = NoTask
      BY <2>2 DEF Awaited
    <3>2. SheetFollows
      BY <2>2, <3>1 DEF EditorInv, GridFollows, Reloading, Reloads
    <3>3. /\ Exists(s) /\ x.status = y.status /\ x.linked = y.linked /\ ShownDays = y.days
          /\ \A e \in Days : (e \in x.staffed <=> e \in y.staffed) /\ (e \in x.hidden <=> e \in y.hidden)
      BY <3>1, <3>2 DEF SheetFollows, Orders, Staffs, Toggles, Waits
    <3>4. IsSheet(x) /\ IsSheet(y)
      BY <2>2, <3>3, SheetStays DEF EditorInv, EditorShape
    <3>5. /\ x = [status |-> x.status, days |-> x.days, staffed |-> x.staffed, hidden |-> x.hidden, linked |-> x.linked]
          /\ y = [status |-> y.status, days |-> y.days, staffed |-> y.staffed, hidden |-> y.hidden, linked |-> y.linked]
          /\ x.staffed = y.staffed /\ x.hidden = y.hidden
      BY <3>3, <3>4, SheetParts
    <3>6. [x EXCEPT !.days = y.days] = [status |-> x.status, days |-> y.days, staffed |-> x.staffed, hidden |-> x.hidden, linked |-> x.linked]
      BY <3>5
    <3> QED BY <3>3, <3>5, <3>6
  <2> QED BY <2>1, <2>2 DEF GridTellsTheTruth, ShowsWhatIsStored
<1> QED BY <1>1, EditorInvariant, PTL
-----------------------------------------------------------------------------
\* The pages together.

\* A behaviour of the application is one of each of its pages and of the tabs and
\* the device of a browser, so what is proved of a page holds whichever the runs
\* follow (WebClient).
THEOREM EachPageIsItself ==
  WebSpec => EditorSpec /\ DialogSpec /\ RecordPagesSpec /\ SettingsSpec /\ BrowserSpec /\ PushSpec /\ ShareSpec
<1>1. WebInit => EditorInit /\ DialogInit /\ RecordPagesInit /\ SettingsInit /\ BrowserInit /\ PushInit /\ ShareInit
  BY DEF WebInit
<1>2. [WebNext]_webVars =>
        /\ [EditorNext]_editorVars /\ [DialogNext]_dialogVars /\ [RecordPagesNext]_recordVars /\ [SettingsNext]_settingVars
        /\ [BrowserNext]_sessionVars /\ [PushNext]_deviceVars /\ [ShareNext]_shareVars
  BY DEF WebNext, webVars
<1> QED BY <1>1, <1>2, PTL DEF WebSpec, EditorSpec, DialogSpec, RecordPagesSpec, SettingsSpec, BrowserSpec, PushSpec, ShareSpec
=============================================================================
