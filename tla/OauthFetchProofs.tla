--------------------------- MODULE OauthFetchProofs ---------------------------
(***************************************************************************)
(* Proofs about OauthFetch, for any retries, waits and TTLs: FetchSecret   *)
(* implements the single fetch of Proxy, no expired JWT is sent, a JWT is  *)
(* made of a mixed pair only after a rotation, and the retries outlast a   *)
(* single outage that is shorter than their waits.                         *)
(***************************************************************************)
EXTENDS OauthFetch, ProxyProofs, Integers, WellFoundedInduction

\* A failed attempt and the wait after it, at most; n of them.
Span == AttemptTime + RetryWaitMax
Spans(n) == n * Span

Fetching == {"key", "cert", "attempt", "wait"}
Signed(f) == f.exp - JwtDuration

\* Which step of FetchSecret goes with which step of Proxy.
Phase(r) ==
  /\ pc[r] = "fetch" <=> fetch[r].step \in Fetching
  /\ pc[r] = "add" <=> fetch[r].step = "answer"
  /\ pc[r] = "lookup" => began[r] = now

\* When the step under way ends, at the latest.
Deadline(r) ==
  LET f == fetch[r]
      ends == now + f.timer
  IN /\ f.step \in Items => f.timer <= ReadTime
     /\ f.step = "key" => ends <= began[r] + ReadTime
     /\ f.step = "cert" => ends <= began[r] + ReadTime + ReadTime
     /\ f.step \in {"attempt", "wait"} =>
          /\ f.exp >= JwtDuration
          /\ Signed(f) <= now /\ Signed(f) <= began[r] + ReadTime + ReadTime
     /\ f.step = "attempt" => ends <= Signed(f) + Spans(f.tries) + AttemptTime
     /\ f.step = "wait" => ends <= Signed(f) + Spans(f.tries)
     /\ f.step = "answer" => ends <= began[r] + Flight

\* How long ago an item was replaced that the request has read.
Outdated(f) == f.key # pem["key"] \/ f.cert # pem["cert"]
PairAge(r) ==
  LET f == fetch[r]
  IN /\ f.step = "cert" /\ f.key # pem["key"] => now + f.timer <= lastPut + CertTtl + ReadTime
     /\ f.step \in {"attempt", "wait"} /\ Outdated(f) => Signed(f) <= lastPut + CertTtl + ReadTime

RequestInv(r) == Phase(r) /\ Deadline(r) /\ PairAge(r)

\* What is cached of an old version was cached before it was replaced.
HeldAge ==
  /\ lastPut <= now /\ \A i \in Items : held[i].at <= now
  /\ \A i \in Items : held[i].version # pem[i] => held[i].at <= lastPut

OauthInv == OauthTypeOK /\ HeldAge /\ \A r \in Requests : RequestInv(r)

-----------------------------------------------------------------------------
LEMMA Times ==
  /\ {CertTtl, JwtDuration, RetryMax, RetryWaitMin, RetryWaitMax, ReadTime, AttemptTime,
      MaxPuts, MaxOutages, MaxFlight, MaxTime, Span, Exchange, Flight} \subseteq Nat
  /\ Exchange = AttemptTime + Spans(RetryMax)
  /\ Flight = ReadTime + ReadTime + Exchange
  /\ Flight <= MaxFlight
<1>1. {CertTtl, JwtDuration, RetryMax, RetryWaitMin, RetryWaitMax, ReadTime, AttemptTime,
       MaxPuts, MaxOutages, MaxFlight, MaxTime, Span} \subseteq Nat
  BY OauthAssumption, ProxyAssumption DEF Span
<1>2. Spans(RetryMax) \in Nat
  BY <1>1 DEF Spans
<1>3. Exchange = AttemptTime + Spans(RetryMax)
  BY DEF Exchange, Spans, Span
<1> QED
  BY <1>1, <1>2, <1>3, OauthAssumption DEF Flight

LEMMA SpansGrow ==
  \A n \in Nat : /\ Spans(n) \in Nat
                 /\ Spans(n + 1) = Spans(n) + AttemptTime + RetryWaitMax
                 /\ n <= RetryMax => Spans(n) <= Spans(RetryMax)
<1> SUFFICES ASSUME NEW n \in Nat
             PROVE  /\ Spans(n) \in Nat
                    /\ Spans(n + 1) = Spans(n) + AttemptTime + RetryWaitMax
                    /\ n <= RetryMax => Spans(n) <= Spans(RetryMax)
  OBVIOUS
<1>1. Span \in Nat /\ AttemptTime \in Nat /\ RetryWaitMax \in Nat /\ RetryMax \in Nat
  BY Times
<1>2. \A m, k \in Nat : m * Span \in Nat /\ (m + 1) * Span = m * Span + Span
                        /\ (m + k) * Span = m * Span + k * Span
  BY <1>1
<1>3. ASSUME n <= RetryMax PROVE Spans(n) <= Spans(RetryMax)
  <2>1. PICK k \in Nat : RetryMax = n + k
    <3>1. RetryMax - n \in Nat /\ RetryMax = n + (RetryMax - n)
      BY <1>1, <1>3
    <3> QED
      BY <3>1
  <2>2. RetryMax * Span = n * Span + k * Span /\ n * Span \in Nat /\ k * Span \in Nat
    BY <2>1, <1>2
  <2> QED
    BY <2>2 DEF Spans
<1> QED
  BY <1>1, <1>2, <1>3 DEF Spans, Span

-----------------------------------------------------------------------------
\* FetchSecret implements the single fetch of Proxy: its deadlines add up to no
\* more than Flight.
LEMMA Implements == OauthInv /\ [OauthNext]_oauthVars => [Next]_vars
<1> SUFFICES ASSUME OauthInv, [OauthNext]_oauthVars PROVE [Next]_vars
  OBVIOUS
<1>1. CASE UNCHANGED oauthVars
  BY <1>1 DEF oauthVars
<1>2. CASE ProxyStep
  BY <1>2 DEF ProxyStep, Next, ServeHTTP
<1>3. CASE OauthTick
  <2>1. ASSUME NEW r \in Requests, ~Free(r) PROVE now < began[r] + MaxFlight
    <3>1. fetch[r].step # "none" /\ fetch[r].timer > 0 /\ Waits(r)
      BY <1>3, <2>1 DEF OauthTick, Waits, Step
    <3>2. /\ fetch[r] \in FetchState /\ now \in Nat /\ began[r] \in Nat
          /\ fetch[r].tries \in Nat /\ fetch[r].tries <= RetryMax
      BY Times DEF OauthInv, OauthTypeOK, TypeOK, FetchState
    <3>3. now + fetch[r].timer <= began[r] + Flight
      <4>1. /\ Spans(fetch[r].tries) \in Nat
            /\ Spans(fetch[r].tries) <= Spans(RetryMax)
            /\ Spans(RetryMax) \in Nat
        BY <3>2, SpansGrow, Times
      <4>2. Deadline(r)
        BY DEF OauthInv, RequestInv
      <4> QED
        BY <3>1, <3>2, <4>1, <4>2, Times DEF Deadline, FetchState, Signed
    <3> QED
      BY <3>1, <3>2, <3>3, Times DEF FetchState
  <2>2. Tick
    BY <1>3, <2>1 DEF OauthTick, Tick
  <2> QED
    BY <2>2 DEF Next
<1>4. CASE EndpointDown \/ EndpointUp \/ \E i \in Items : PutItem(i)
  BY <1>4 DEF EndpointDown, EndpointUp, PutItem
<1>5. ASSUME NEW r \in Requests, FetchSecret(r) PROVE [Next]_vars
  BY <1>5 DEF FetchSecret, OauthMiss, ReadKey, ReadCert, ReadFails, Answered, Refused,
     AttemptFails, Retry, GiveUp, TokenMissing, AddToken, Next, ServeHTTP
<1> QED
  BY <1>1, <1>2, <1>3, <1>4, <1>5 DEF OauthNext

-----------------------------------------------------------------------------
(* The invariant, one step after the other.  A step of one request leaves the
   others as they are. *)

LEMMA Kept ==
  ASSUME NEW q \in Requests, RequestInv(q),
         fetch'[q] = fetch[q], pc'[q] = pc[q], began'[q] = began[q],
         now' = now, lastPut' = lastPut, pem' = pem
  PROVE  RequestInv(q)'
BY DEF RequestInv, Phase, Deadline, PairAge, Outdated, Signed

\* A request that is not in FetchSecret has no deadline.
LEMMA Outside ==
  ASSUME NEW q \in Requests, fetch'[q].step = "none", pc'[q] \notin {"fetch", "add"},
         pc'[q] = "lookup" => began'[q] = now'
  PROVE  RequestInv(q)'
BY DEF RequestInv, Phase, Deadline, PairAge, Fetching, Items

LEMMA Idle ==
  ASSUME OauthInv, NEW q \in Requests, pc[q] \notin {"fetch", "add"}
  PROVE  fetch[q].step = "none"
BY DEF OauthInv, OauthTypeOK, FetchState, RequestInv, Phase, Fetching

LEMMA StepProxy == ASSUME OauthInv, TypeOK', ProxyStep PROVE OauthInv'
<1>1. OauthTypeOK' /\ HeldAge'
  <2>1. now' = now
    BY DEF ProxyStep, Rotate, Purge, handler, Accept, Reject, Refuse, Hit, Forward, RejectTemplate
  <2> QED
    BY <2>1 DEF OauthInv, OauthTypeOK, HeldAge, ProxyStep, sm, endpoint
<1>2. ASSUME NEW q \in Requests PROVE RequestInv(q)'
  <2>1. UNCHANGED <<fetch, lastPut, pem, now>> /\ TypeOK /\ RequestInv(q)
    BY DEF ProxyStep, sm, endpoint, Rotate, Purge, handler, Accept, Reject, Refuse, Hit, Forward,
       RejectTemplate, OauthInv, OauthTypeOK
  <2>2. CASE pc'[q] = pc[q] /\ began'[q] = began[q]
    BY <2>1, <2>2, Kept
  <2>3. CASE ~(pc'[q] = pc[q] /\ began'[q] = began[q])
    <3>1. /\ pc[q] \notin {"fetch", "add"} /\ pc'[q] \notin {"fetch", "add"}
          /\ pc'[q] = "lookup" => began'[q] = now'
      <4>1. CASE (\E s \in Secrets : Rotate(s)) \/ Purge
        BY <4>1, <2>3 DEF Rotate, Purge, handler
      <4>2. ASSUME NEW r \in Requests,
                   Accept(r) \/ Reject(r) \/ Hit(r) \/ Forward(r) \/ RejectTemplate(r)
            PROVE  <3>1!1 /\ <3>1!2
        <5>1. r = q
          BY <2>1, <2>3, <4>2
          DEF TypeOK, Accept, Reject, Refuse, Hit, Forward, RejectTemplate, Goto
        <5> QED
          BY <2>1, <4>2, <5>1
          DEF TypeOK, Accept, Reject, Refuse, Hit, Forward, RejectTemplate, Goto, Free
      <4> QED
        BY <4>1, <4>2 DEF ProxyStep
    <3>2. fetch'[q].step = "none"
      BY <3>1, <2>1, Idle
    <3> QED
      BY <3>1, <3>2, Outside
  <2> QED
    BY <2>2, <2>3
<1> QED
  BY <1>1, <1>2 DEF OauthInv

LEMMA StepOauthTick == ASSUME OauthInv, TypeOK', OauthTick PROVE OauthInv'
<1> USE Times
<1>1. /\ \A q \in Requests : Free(q) \/ Waits(q)
      /\ now \in Nat /\ now' = now + 1 /\ now' \in 0..MaxTime
      /\ UNCHANGED <<pc, began, pem, lastPut, held, up>>
  BY DEF OauthTick, handler, sm, OauthInv, OauthTypeOK, TypeOK
<1>2. ASSUME NEW q \in Requests
      PROVE  /\ RequestInv(q)'
             /\ fetch'[q] \in FetchState
  <2>1. fetch[q] \in FetchState /\ RequestInv(q)
    BY DEF OauthInv, OauthTypeOK
  <2>2. CASE fetch[q].step = "none"
    <3>1. fetch'[q] = fetch[q] /\ Free(q)
      BY <1>1, <2>2 DEF OauthTick, Step, Waits
    <3> QED
      BY <1>1, <2>1, <2>2, <3>1, Outside DEF Free
  <2>3. CASE fetch[q].step # "none"
    <3>1. /\ fetch'[q] = [fetch[q] EXCEPT !.timer = @ - 1]
          /\ fetch[q].timer \in Nat
      BY <2>1, <2>3 DEF OauthTick, Step, FetchState
    <3>2. fetch[q].timer > 0 /\ pc[q] # "lookup"
      BY <1>1, <2>1, <2>3 DEF Free, Waits, Step, RequestInv, Phase, Fetching, FetchState
    <3>3. fetch'[q] \in FetchState
      BY <2>1, <3>1, <3>2 DEF FetchState
    <3>4. now' + fetch'[q].timer = now + fetch[q].timer
      BY <1>1, <2>1, <3>1, <3>2 DEF FetchState
    <3>5. /\ fetch'[q].step = fetch[q].step /\ fetch'[q].key = fetch[q].key
          /\ fetch'[q].cert = fetch[q].cert /\ fetch'[q].exp = fetch[q].exp
          /\ fetch'[q].tries = fetch[q].tries
      BY <2>1, <3>1 DEF FetchState
    <3>6. Phase(q)'
      BY <1>1, <2>1, <3>2, <3>5 DEF RequestInv, Phase
    <3>7. Deadline(q)'
      <4>1. /\ fetch[q].exp \in Nat /\ fetch'[q].timer \in Nat
            /\ fetch'[q].timer <= fetch[q].timer /\ fetch[q].timer \in Nat
        BY <2>1, <3>1, <3>2 DEF FetchState
      <4> QED
        BY <1>1, <2>1, <3>4, <3>5, <4>1 DEF RequestInv, Deadline, Signed
    <3>8. PairAge(q)'
      BY <1>1, <2>1, <3>4, <3>5 DEF RequestInv, PairAge, Outdated, Signed
    <3> QED
      BY <3>3, <3>6, <3>7, <3>8 DEF RequestInv
  <2> QED
    BY <2>2, <2>3
<1>3. fetch' \in [Requests -> FetchState]
  BY <1>2 DEF OauthTick
<1>4. outage' \in [count : 0..MaxOutages, length : Nat]
  BY DEF OauthTick, OauthInv, OauthTypeOK
<1>5. HeldAge'
  BY <1>1 DEF HeldAge, OauthInv, OauthTypeOK
<1> QED
  BY <1>1, <1>2, <1>3, <1>4, <1>5 DEF OauthInv, OauthTypeOK

LEMMA StepEndpoint == ASSUME OauthInv, TypeOK', EndpointDown \/ EndpointUp PROVE OauthInv'
<1>1. ASSUME NEW q \in Requests
      PROVE  RequestInv(q)' /\ fetch'[q] \in FetchState
  <2>1. /\ fetch[q] \in FetchState /\ RequestInv(q)
        /\ UNCHANGED <<pc, began, now, pem, lastPut>>
    BY DEF OauthInv, OauthTypeOK, EndpointDown, EndpointUp, vars, sm
  <2>2. CASE EndpointUp
    BY <2>1, <2>2, Kept DEF EndpointUp
  <2>3. CASE EndpointDown
    <3>1. fetch'[q] = [fetch[q] EXCEPT !.doomed = @ \/ fetch[q].step = "attempt"]
      BY <2>3 DEF EndpointDown
    <3>2. (fetch[q].doomed \/ fetch[q].step = "attempt") \in BOOLEAN
      OBVIOUS
    <3>3. fetch'[q] \in FetchState
      BY <2>1, <3>1, <3>2 DEF FetchState
    <3>4. /\ fetch'[q].step = fetch[q].step /\ fetch'[q].key = fetch[q].key
          /\ fetch'[q].cert = fetch[q].cert /\ fetch'[q].exp = fetch[q].exp
          /\ fetch'[q].tries = fetch[q].tries /\ fetch'[q].timer = fetch[q].timer
      BY <2>1, <3>1 DEF FetchState
    <3> QED
      BY <2>1, <3>3, <3>4 DEF RequestInv, Phase, Deadline, PairAge, Outdated, Signed
  <2> QED
    BY <2>2, <2>3
<1>2. fetch' \in [Requests -> FetchState]
  BY <1>1 DEF EndpointDown, EndpointUp, OauthInv, OauthTypeOK
<1>3. /\ up' \in BOOLEAN /\ outage' \in [count : 0..MaxOutages, length : Nat]
      /\ UNCHANGED <<now, sm>>
  <2>1. up' \in BOOLEAN
    BY DEF EndpointDown, EndpointUp
  <2>2. outage' \in [count : 0..MaxOutages, length : Nat]
    BY Times DEF EndpointDown, EndpointUp, OauthInv, OauthTypeOK
  <2> QED
    BY <2>1, <2>2 DEF EndpointDown, EndpointUp, vars
<1> QED
  BY <1>1, <1>2, <1>3 DEF OauthInv, OauthTypeOK, HeldAge, sm

LEMMA StepPut == ASSUME OauthInv, TypeOK', NEW i \in Items, PutItem(i) PROVE OauthInv'
<1> USE Times
<1>1. /\ UNCHANGED <<now, pc, began, fetch, held, up, outage>>
      /\ pem' = [pem EXCEPT ![i] = @ + 1] /\ lastPut' = now
      /\ now \in Nat /\ lastPut \in Nat /\ lastPut <= now
  BY DEF PutItem, vars, endpoint, OauthInv, OauthTypeOK, TypeOK, HeldAge
<1>2. pem' \in [Items -> 1..MaxPuts] /\ lastPut' \in 0..MaxTime
  <2>1. pem \in [Items -> 1..MaxPuts] /\ pem[i] < MaxPuts /\ now \in 0..MaxTime
    BY DEF PutItem, OauthInv, OauthTypeOK, TypeOK
  <2>2. pem[i] + 1 \in 1..MaxPuts
    BY <2>1
  <2> QED
    BY <1>1, <2>1, <2>2
<1>3. OauthTypeOK'
  BY <1>1, <1>2 DEF OauthInv, OauthTypeOK
<1>4. HeldAge'
  <2>1. \A j \in Items : held[j].at <= now
    BY DEF OauthInv, HeldAge
  <2> QED
    BY <1>1, <2>1 DEF HeldAge
<1>5. ASSUME NEW q \in Requests PROVE RequestInv(q)'
  <2>1. fetch[q] \in FetchState /\ RequestInv(q)
    BY DEF OauthInv, OauthTypeOK
  <2>2. Phase(q)' /\ Deadline(q)'
    BY <1>1, <2>1 DEF RequestInv, Phase, Deadline, Signed
  <2>3. PairAge(q)'
    BY <1>1, <2>1 DEF RequestInv, PairAge, Outdated, Signed, Deadline, FetchState, Items
  <2> QED
    BY <2>2, <2>3 DEF RequestInv
<1> QED
  BY <1>3, <1>4, <1>5 DEF OauthInv

\* A step of FetchSecret changes the fetch of one request, and may refresh what
\* is cached of the pair.
LEMMA OneRequest ==
  ASSUME OauthInv, TypeOK', NEW r \in Requests, NEW f \in FetchState,
         fetch' = [fetch EXCEPT ![r] = f],
         \A q \in Requests \ {r} : pc'[q] = pc[q] /\ began'[q] = began[q],
         UNCHANGED <<now, pem, lastPut, up, outage>>,
         held' = held \/ \E i \in Items :
           held' = [held EXCEPT ![i] = [version |-> pem[i], at |-> now]],
         RequestInv(r)'
  PROVE  OauthInv'
<1>1. fetch' \in [Requests -> FetchState]
  BY DEF OauthInv, OauthTypeOK
<1>2. held' \in [Items -> [version : 0..MaxPuts, at : 0..MaxTime]] /\ HeldAge'
  <2>1. /\ held \in [Items -> [version : 0..MaxPuts, at : 0..MaxTime]]
        /\ pem \in [Items -> 1..MaxPuts] /\ now \in 0..MaxTime /\ HeldAge
    BY DEF OauthInv, OauthTypeOK, TypeOK
  <2>2. CASE held' = held
    BY <2>1, <2>2 DEF HeldAge
  <2>3. ASSUME NEW i \in Items, held' = [held EXCEPT ![i] = [version |-> pem[i], at |-> now]]
        PROVE  held' \in [Items -> [version : 0..MaxPuts, at : 0..MaxTime]] /\ HeldAge'
    <3>1. pem[i] \in 0..MaxPuts
      BY <2>1, Times
    <3>2. [version |-> pem[i], at |-> now] \in [version : 0..MaxPuts, at : 0..MaxTime]
      BY <2>1, <3>1
    <3>3. held' \in [Items -> [version : 0..MaxPuts, at : 0..MaxTime]]
      BY <2>1, <2>3, <3>2
    <3>4. \A j \in Items : held'[j] = IF j = i THEN [version |-> pem[i], at |-> now] ELSE held[j]
      BY <2>1, <2>3
    <3> QED
      BY <2>1, <3>3, <3>4 DEF HeldAge
  <2> QED
    BY <2>2, <2>3
<1>3. ASSUME NEW q \in Requests PROVE RequestInv(q)'
  <2>1. CASE q # r
    BY <2>1, Kept DEF OauthInv, OauthTypeOK
  <2> QED
    BY <2>1
<1> QED
  BY <1>1, <1>2, <1>3 DEF OauthInv, OauthTypeOK

LEMMA NoFetchTyped == NoFetch \in FetchState
<1>1. 0 \in 0..MaxPuts /\ 0 \in 0..RetryMax /\ 0 \in 0..RetryWaitMax /\ 0 \in Nat
  BY Times
<1>2. FALSE \in BOOLEAN
  OBVIOUS
<1> QED
  BY <1>1, <1>2, Zenon DEF NoFetch, FetchState

\* The fetch fails: the request is over.
LEMMA StepFails ==
  ASSUME OauthInv, TypeOK', NEW r \in Requests, FetchFails(r), Done(r), UNCHANGED <<sm, endpoint>>
  PROVE  OauthInv'
<1>1. pc' = [pc EXCEPT ![r] = "idle"] /\ began' = [began EXCEPT ![r] = 0] /\ now' = now
  BY DEF FetchFails, Refuse, Goto
<1>2. pc \in [Requests -> {"idle", "lookup", "fetch", "add", "template", "forwarded"}]
  BY DEF OauthInv, OauthTypeOK, TypeOK
<1>3. fetch'[r].step = "none" /\ pc'[r] = "idle"
  BY <1>1, <1>2 DEF Done, NoFetch, OauthInv, OauthTypeOK
<1>4. RequestInv(r)'
  BY <1>3, Outside
<1> QED
  BY <1>1, <1>4, NoFetchTyped, OneRequest DEF Done, sm, endpoint, OauthInv, OauthTypeOK, TypeOK

LEMMA StepMissed == ASSUME OauthInv, TypeOK', NEW r \in Requests, OauthMiss(r) PROVE OauthInv'
<1> DEFINE f == [NoFetch EXCEPT !.step = "key", !.timer = ReadTime]
<1>1. /\ f \in FetchState /\ f.step = "key" /\ f.timer = ReadTime
  BY NoFetchTyped, Times DEF NoFetch, FetchState
<1>2. /\ pc[r] = "lookup" /\ pc' = [pc EXCEPT ![r] = "fetch"]
      /\ fetch' = [fetch EXCEPT ![r] = f]
      /\ UNCHANGED <<now, began, sm, endpoint>>
  BY DEF OauthMiss, Miss, Goto
<1>3. /\ pc \in [Requests -> {"idle", "lookup", "fetch", "add", "template", "forwarded"}]
      /\ began[r] = now /\ now \in Nat /\ fetch \in [Requests -> FetchState]
  BY <1>2 DEF OauthInv, OauthTypeOK, TypeOK, RequestInv, Phase
<1>4. pc'[r] = "fetch" /\ fetch'[r] = f
  BY <1>2, <1>3
<1>5. RequestInv(r)'
  BY <1>1, <1>2, <1>3, <1>4, Times DEF RequestInv, Phase, Deadline, PairAge, Fetching, Items
<1> QED
  BY <1>1, <1>2, <1>3, <1>5, OneRequest DEF sm, endpoint

LEMMA StartTyped ==
  ASSUME NEW g \in FetchState PROVE StartAttempt(g) \in FetchState
<1>1. (~up) \in BOOLEAN /\ AttemptTime \in Nat
  BY Times
<1> QED
  BY <1>1 DEF StartAttempt, FetchState

LEMMA StepReadKey == ASSUME OauthInv, TypeOK', NEW r \in Requests, ReadKey(r) PROVE OauthInv'
<1>1. PICK v \in 1..MaxPuts :
        /\ GetSecretString("key", v)
        /\ fetch' = [fetch EXCEPT ![r].step = "cert", ![r].key = v, ![r].timer = ReadTime]
  BY DEF ReadKey
<1> DEFINE f == [fetch[r] EXCEPT !.step = "cert", !.key = v, !.timer = ReadTime]
<1>2. /\ fetch[r] \in FetchState /\ fetch \in [Requests -> FetchState] /\ RequestInv(r)
      /\ fetch[r].step = "key" /\ "key" \in Items /\ now \in Nat /\ began[r] \in Nat
      /\ UNCHANGED <<now, pc, began, pem, lastPut, endpoint>>
      /\ pem \in [Items -> 1..MaxPuts] /\ lastPut \in Nat
  BY DEF ReadKey, Step, vars, OauthInv, OauthTypeOK, TypeOK, Items
<1>3. /\ f \in FetchState /\ f.step = "cert" /\ f.timer = ReadTime /\ f.key = v
      /\ fetch' = [fetch EXCEPT ![r] = f] /\ fetch'[r] = f
  <2>1. v \in 0..MaxPuts /\ ReadTime \in Nat
    BY Times
  <2>2. f \in FetchState
    BY <1>2, <2>1 DEF FetchState
  <2> QED
    BY <1>1, <1>2, <2>2 DEF FetchState
<1>4. v # pem["key"] => now <= lastPut + CertTtl
  BY <1>1, <1>2, Times DEF GetSecretString, OauthInv, OauthTypeOK, HeldAge
<1>5. Phase(r)' /\ Deadline(r)'
  BY <1>2, <1>3, Times DEF RequestInv, Phase, Deadline, Fetching, Items, FetchState
<1>6. PairAge(r)'
  BY <1>2, <1>3, <1>4, Times DEF PairAge
<1>7. held' = held \/ held' = [held EXCEPT !["key"] = [version |-> pem["key"], at |-> now]]
  BY <1>1 DEF GetSecretString
<1> QED
  BY <1>2, <1>3, <1>5, <1>6, <1>7, OneRequest DEF RequestInv, endpoint

LEMMA StepReadCert == ASSUME OauthInv, TypeOK', NEW r \in Requests, ReadCert(r) PROVE OauthInv'
<1>1. PICK v \in 1..MaxPuts :
        /\ GetSecretString("cert", v)
        /\ fetch' = [fetch EXCEPT ![r] =
             StartAttempt([fetch[r] EXCEPT !.cert = v, !.exp = now + JwtDuration,
                                             !.wait = Least(RetryWaitMin, RetryWaitMax)])]
  BY DEF ReadCert
<1> DEFINE f == StartAttempt([fetch[r] EXCEPT !.cert = v, !.exp = now + JwtDuration,
                                              !.wait = Least(RetryWaitMin, RetryWaitMax)])
<1>2. /\ fetch[r] \in FetchState /\ fetch \in [Requests -> FetchState] /\ RequestInv(r)
      /\ fetch[r].step = "cert" /\ "cert" \in Items /\ now \in Nat /\ began[r] \in Nat
      /\ UNCHANGED <<now, pc, began, pem, lastPut, endpoint>>
      /\ pem \in [Items -> 1..MaxPuts] /\ lastPut \in Nat
  BY DEF ReadCert, Step, vars, OauthInv, OauthTypeOK, TypeOK, Items
<1>3. /\ f.step = "attempt" /\ f.timer = AttemptTime /\ f.cert = v /\ f.exp = now + JwtDuration
      /\ f.key = fetch[r].key /\ f.tries = fetch[r].tries /\ f.doomed = ~up
      /\ f.wait = Least(RetryWaitMin, RetryWaitMax)
      /\ fetch' = [fetch EXCEPT ![r] = f] /\ fetch'[r] = f
  BY <1>1, <1>2 DEF FetchState, StartAttempt
<1>4. f \in FetchState
  <2>1. (~up) \in BOOLEAN
    OBVIOUS
  <2>2. Least(RetryWaitMin, RetryWaitMax) \in 0..RetryWaitMax
    BY Times DEF Least
  <2>3. v \in 0..MaxPuts /\ AttemptTime \in Nat /\ now + JwtDuration \in Nat
    BY <1>2, Times
  <2>4. [fetch[r] EXCEPT !.cert = v, !.exp = now + JwtDuration,
                         !.wait = Least(RetryWaitMin, RetryWaitMax)] \in FetchState
    BY <1>2, <2>2, <2>3 DEF FetchState
  <2> QED
    BY <2>1, <2>3, <2>4, StartTyped
<1>5. v # pem["cert"] => now <= lastPut + CertTtl
  BY <1>1, <1>2, Times DEF GetSecretString, OauthInv, OauthTypeOK, HeldAge
<1>6. Signed(f) = now /\ f.exp >= JwtDuration
  BY <1>2, <1>3, Times DEF Signed
<1>7. Phase(r)' /\ Deadline(r)'
  <2>1. /\ fetch[r].timer \in Nat /\ fetch[r].tries \in Nat /\ Spans(fetch[r].tries) \in Nat
        /\ now <= began[r] + ReadTime + ReadTime
    BY <1>2, Times, SpansGrow DEF FetchState, RequestInv, Deadline
  <2>2. Phase(r)'
    BY <1>2, <1>3 DEF RequestInv, Phase, Fetching
  <2>3. Deadline(r)'
    BY <1>2, <1>3, <1>6, <2>1, Times DEF Deadline, Items, Signed
  <2> QED
    BY <2>2, <2>3
<1>8. PairAge(r)'
  <2>1. fetch[r].key # pem["key"] => now <= lastPut + CertTtl + ReadTime
    BY <1>2, Times DEF FetchState, RequestInv, PairAge
  <2> QED
    BY <1>2, <1>3, <1>5, <1>6, <2>1, Times DEF PairAge, Outdated, Signed
<1>9. held' = held \/ held' = [held EXCEPT !["cert"] = [version |-> pem["cert"], at |-> now]]
  BY <1>1 DEF GetSecretString
<1> QED
  BY <1>2, <1>3, <1>4, <1>7, <1>8, <1>9, OneRequest DEF RequestInv, endpoint

LEMMA StepAnswered == ASSUME OauthInv, TypeOK', NEW r \in Requests, Answered(r) PROVE OauthInv'
<1> DEFINE f == [NoFetch EXCEPT !.step = "answer", !.timer = fetch[r].timer]
<1>1. /\ fetch[r] \in FetchState /\ fetch \in [Requests -> FetchState] /\ RequestInv(r)
      /\ fetch[r].step = "attempt" /\ now \in Nat /\ began[r] \in Nat
      /\ pc \in [Requests -> {"idle", "lookup", "fetch", "add", "template", "forwarded"}]
  BY DEF Answered, Step, OauthInv, OauthTypeOK, TypeOK
<1>2. /\ fetch' = [fetch EXCEPT ![r] = f] /\ pc' = [pc EXCEPT ![r] = "add"]
      /\ UNCHANGED <<now, began, sm, endpoint>>
  BY DEF Answered, FetchAnswers, Goto
<1>3. f.step = "answer" /\ f.timer = fetch[r].timer /\ f \in FetchState
  BY <1>1, NoFetchTyped DEF FetchState, NoFetch
<1>4. fetch'[r] = f /\ pc'[r] = "add"
  BY <1>1, <1>2
<1>5. now + f.timer <= began[r] + Flight
  <2>1. fetch[r].tries \in Nat /\ fetch[r].tries <= RetryMax /\ fetch[r].timer \in Nat /\ fetch[r].exp \in Nat
    BY <1>1, Times DEF FetchState
  <2>2. Spans(fetch[r].tries) \in Nat /\ Spans(fetch[r].tries) <= Spans(RetryMax) /\ Spans(RetryMax) \in Nat
    BY <2>1, SpansGrow, Times
  <2> QED
    BY <1>1, <1>3, <2>1, <2>2, Times DEF RequestInv, Deadline, Signed
<1>6. RequestInv(r)'
  BY <1>2, <1>3, <1>4, <1>5 DEF RequestInv, Phase, Deadline, PairAge, Fetching, Items
<1> QED
  BY <1>1, <1>2, <1>3, <1>6, OneRequest DEF sm, endpoint

LEMMA StepAttemptFails == ASSUME OauthInv, TypeOK', NEW r \in Requests, AttemptFails(r) PROVE OauthInv'
<1> DEFINE g == fetch[r]
           f == Backoff(g)
<1>1. /\ g \in FetchState /\ fetch \in [Requests -> FetchState] /\ RequestInv(r)
      /\ g.step = "attempt" /\ now \in Nat /\ began[r] \in Nat /\ g.tries < RetryMax
      /\ UNCHANGED <<now, pc, began, pem, lastPut, held, up, outage>>
      /\ fetch' = [fetch EXCEPT ![r] = f]
  <2>1. /\ g \in FetchState /\ fetch \in [Requests -> FetchState] /\ RequestInv(r)
        /\ now \in Nat /\ began[r] \in Nat
    BY DEF OauthInv, OauthTypeOK, TypeOK
  <2>2. /\ g.step = "attempt" /\ g.tries < RetryMax
        /\ UNCHANGED <<now, pc, began, pem, lastPut, held, up, outage>>
    BY DEF AttemptFails, Step, vars, sm, endpoint
  <2>3. fetch' = [fetch EXCEPT ![r] = f]
    BY DEF AttemptFails
  <2> QED
    BY <2>1, <2>2, <2>3
<1>2. /\ g.wait \in Nat /\ g.wait <= RetryWaitMax /\ g.tries \in Nat /\ g.exp \in Nat /\ g.timer \in Nat
  BY <1>1, Times DEF FetchState
<1>3. /\ f.step = "wait" /\ f.timer = g.wait /\ f.tries = g.tries + 1 /\ f.exp = g.exp
      /\ f.key = g.key /\ f.cert = g.cert
  BY <1>1 DEF FetchState, Backoff
<1>4. f \in FetchState
  <2>1. Least(2 * g.wait, RetryWaitMax) \in 0..RetryWaitMax
    BY <1>2, Times DEF Least
  <2>2. g.tries + 1 \in 0..RetryMax
    BY <1>1, <1>2, Times
  <2>3. FALSE \in BOOLEAN
    OBVIOUS
  <2> QED
    BY <1>1, <1>2, <2>1, <2>2, <2>3 DEF FetchState, Backoff
<1>5. fetch'[r] = f
  BY <1>1
<1>6. now + f.timer <= Signed(f) + Spans(f.tries)
  <2>1. Spans(g.tries + 1) = Spans(g.tries) + AttemptTime + RetryWaitMax /\ Spans(g.tries) \in Nat
    BY <1>2, SpansGrow
  <2>2. now + g.timer <= Signed(g) + Spans(g.tries) + AttemptTime
    BY <1>1 DEF RequestInv, Deadline
  <2>3. Signed(f) = Signed(g) /\ Signed(g) \in Int
    BY <1>2, <1>3, Times DEF Signed
  <2> QED
    BY <1>1, <1>2, <1>3, <2>1, <2>2, <2>3, Times
<1>7. RequestInv(r)'
  <2>1. Phase(r)'
    BY <1>1, <1>3, <1>5 DEF RequestInv, Phase, Fetching
  <2>2. Deadline(r)'
    BY <1>1, <1>3, <1>5, <1>6 DEF RequestInv, Deadline, Signed, Items
  <2>3. PairAge(r)'
    BY <1>1, <1>3, <1>5 DEF RequestInv, PairAge, Outdated, Signed
  <2> QED
    BY <2>1, <2>2, <2>3 DEF RequestInv
<1> QED
  BY <1>1, <1>4, <1>7, OneRequest

LEMMA StepRetry == ASSUME OauthInv, TypeOK', NEW r \in Requests, Retry(r) PROVE OauthInv'
<1> DEFINE g == fetch[r]
           f == StartAttempt(g)
<1>1. /\ g \in FetchState /\ fetch \in [Requests -> FetchState] /\ RequestInv(r)
      /\ g.step = "wait" /\ g.timer = 0 /\ now \in Nat /\ began[r] \in Nat
      /\ UNCHANGED <<now, pc, began, pem, lastPut, held, up, outage>>
      /\ fetch' = [fetch EXCEPT ![r] = f]
  BY DEF Retry, Step, vars, sm, endpoint, OauthInv, OauthTypeOK, TypeOK
<1>2. /\ f.step = "attempt" /\ f.timer = AttemptTime /\ f.tries = g.tries /\ f.exp = g.exp
      /\ f.key = g.key /\ f.cert = g.cert /\ f \in FetchState
  <2>1. f \in FetchState
    BY <1>1, StartTyped
  <2> QED
    BY <1>1, <2>1 DEF FetchState, StartAttempt
<1>3. fetch'[r] = f
  BY <1>1
<1>4. now + AttemptTime <= Signed(g) + Spans(g.tries) + AttemptTime
  <2>1. g.tries \in Nat /\ g.exp \in Nat /\ Spans(g.tries) \in Nat
    BY <1>1, Times, SpansGrow DEF FetchState
  <2>2. now + 0 <= Signed(g) + Spans(g.tries) /\ Signed(g) \in Int
    BY <1>1, <2>1, Times DEF RequestInv, Deadline, Signed
  <2> QED
    BY <1>1, <2>1, <2>2, Times
<1>5. RequestInv(r)'
  <2>1. Phase(r)'
    BY <1>1, <1>2, <1>3 DEF RequestInv, Phase, Fetching
  <2>2. Deadline(r)'
    BY <1>1, <1>2, <1>3, <1>4 DEF RequestInv, Deadline, Signed, Items
  <2>3. PairAge(r)'
    BY <1>1, <1>2, <1>3 DEF RequestInv, PairAge, Outdated, Signed
  <2> QED
    BY <2>1, <2>2, <2>3 DEF RequestInv
<1> QED
  BY <1>1, <1>2, <1>5, OneRequest

LEMMA StepAddToken == ASSUME OauthInv, TypeOK', NEW r \in Requests, AddToken(r) PROVE OauthInv'
<1>1. /\ pc' = [pc EXCEPT ![r] = "template"] /\ began' = began /\ now' = now
      /\ fetch' = [fetch EXCEPT ![r] = NoFetch] /\ UNCHANGED <<sm, endpoint>>
  BY DEF AddToken, Add, Goto, Done
<1>2. /\ pc \in [Requests -> {"idle", "lookup", "fetch", "add", "template", "forwarded"}]
      /\ fetch \in [Requests -> FetchState]
  BY DEF OauthInv, OauthTypeOK, TypeOK
<1>3. fetch'[r].step = "none" /\ pc'[r] = "template"
  BY <1>1, <1>2 DEF NoFetch
<1>4. RequestInv(r)'
  BY <1>3, Outside
<1> QED
  BY <1>1, <1>2, <1>4, NoFetchTyped, OneRequest DEF sm, endpoint

-----------------------------------------------------------------------------
LEMMA OauthInitInv == OauthInit /\ TypeOK => OauthInv
<1> SUFFICES ASSUME OauthInit, TypeOK PROVE OauthInv
  OBVIOUS
<1>1. /\ now = 0 /\ pem = [i \in Items |-> 1] /\ lastPut = 0
      /\ held = [i \in Items |-> [version |-> 0, at |-> 0]]
      /\ fetch = [r \in Requests |-> NoFetch] /\ up = TRUE
      /\ outage = [count |-> 0, length |-> 0] /\ pc = [r \in Requests |-> "idle"]
  BY DEF OauthInit, Init
<1>2. MaxPuts >= 1
  BY OauthAssumption
<1>3. OauthTypeOK /\ HeldAge
  BY <1>1, <1>2, Times, NoFetchTyped DEF OauthTypeOK, HeldAge
<1>4. ASSUME NEW r \in Requests PROVE RequestInv(r)
  BY <1>1 DEF NoFetch, RequestInv, Phase, Deadline, PairAge, Fetching, Items
<1> QED
  BY <1>3, <1>4 DEF OauthInv

LEMMA OauthStepInv == OauthInv /\ TypeOK' /\ [OauthNext]_oauthVars => OauthInv'
<1> SUFFICES ASSUME OauthInv, TypeOK', [OauthNext]_oauthVars PROVE OauthInv'
  OBVIOUS
<1>1. CASE UNCHANGED oauthVars
  <2>1. ASSUME NEW q \in Requests PROVE RequestInv(q)'
    BY <1>1, Kept DEF OauthInv, oauthVars, vars, sm
  <2> QED
    BY <1>1, <2>1 DEF oauthVars, vars, sm, endpoint, OauthInv, OauthTypeOK, HeldAge
<1>2. CASE ProxyStep \/ OauthTick \/ EndpointDown \/ EndpointUp \/ \E i \in Items : PutItem(i)
  BY <1>2, StepProxy, StepOauthTick, StepEndpoint, StepPut
<1>3. ASSUME NEW r \in Requests, FetchSecret(r) PROVE OauthInv'
  <2>1. CASE OauthMiss(r) \/ ReadKey(r) \/ ReadCert(r)
    BY <2>1, StepMissed, StepReadKey, StepReadCert
  <2>2. CASE ReadFails(r) \/ Refused(r) \/ GiveUp(r) \/ TokenMissing(r)
    BY <2>2, StepFails DEF ReadFails, Refused, GiveUp, TokenMissing
  <2>3. CASE Answered(r) \/ AttemptFails(r) \/ Retry(r) \/ AddToken(r)
    BY <2>3, StepAnswered, StepAttemptFails, StepRetry, StepAddToken
  <2> QED
    BY <1>3, <2>1, <2>2, <2>3 DEF FetchSecret
<1> QED
  BY <1>1, <1>2, <1>3 DEF OauthNext

LEMMA OauthInductive == OauthSpec => [](IInv /\ OauthInv)
<1>1. OauthInit => IInv /\ OauthInv
  BY InitInv, OauthInitInv DEF OauthInit, IInv
<1>2. IInv /\ OauthInv /\ [OauthNext]_oauthVars => IInv' /\ OauthInv'
  <2>1. IInv /\ OauthInv /\ [OauthNext]_oauthVars => IInv'
    BY Implements, StepInv
  <2>2. IInv' => TypeOK'
    BY DEF IInv
  <2> QED
    BY <2>1, <2>2, OauthStepInv
<1> QED
  BY <1>1, <1>2, PTL DEF OauthSpec

\* The variables keep their types, and a cached or read item is one that Secrets
\* Manager has held.
THEOREM OauthTypeCorrect == OauthSpec => []OauthTypeOK
<1>1. OauthInv => OauthTypeOK
  BY DEF OauthInv
<1> QED
  BY <1>1, OauthInductive, PTL

\* The detailed FetchSecret implements Proxy: whatever the retries and the waits
\* are, a fetch is one step that ends within the flight Proxy allows, and all
\* that is proved of Proxy holds of proxy_aws_sm_oauth.
THEOREM OauthImplementsProxy == OauthSpec => ProxySpec
<1>1. OauthInit => Init
  BY DEF OauthInit
<1> QED
  BY <1>1, Implements, OauthInductive, PTL DEF OauthSpec, ProxySpec, Spec

\* What is proved of Proxy comes with it: a request is forwarded with the access
\* token of its own secret, although its fetch has many steps and shares the
\* cache of the key pair with others.
THEOREM OauthOwnSecret == UniqueCacheKeys => (OauthSpec => []AnswersOwnSecret)
<1> SUFFICES ASSUME UniqueCacheKeys PROVE OauthSpec => []AnswersOwnSecret
  OBVIOUS
<1>1. Spec => []AnswersOwnSecret
  BY OwnSecret
<1> QED
  BY <1>1, OauthImplementsProxy, PTL DEF ProxySpec

\* So does the bound on its age: an access token that was superseded is
\* not forwarded for longer than its TTL and two flights, retries and all.
THEOREM OauthStaleness == Expiring => (OauthSpec => StaleAtMostTtl)
<1> SUFFICES ASSUME Expiring PROVE OauthSpec => StaleAtMostTtl
  OBVIOUS
<1>1. Spec => StaleAtMostTtl
  BY BoundedStaleness
<1>2. OauthSpec => Spec
  BY OauthImplementsProxy DEF ProxySpec
<1> QED
  BY <1>1, <1>2

\* With a jwt_duration longer than the retries, no attempt carries a JWT that
\* has expired on the way.
THEOREM JwtOutlivesRetries == OauthSpec => []NoExpiredJwt
<1>1. OauthInv => NoExpiredJwt
  <2> SUFFICES ASSUME OauthInv, JwtDuration > Exchange,
                      NEW r \in Requests, Step(r, "attempt")
               PROVE  ~(now >= fetch[r].exp)
    BY DEF NoExpiredJwt, Expired
  <2>1. /\ fetch[r] \in FetchState /\ fetch[r].step = "attempt" /\ now \in Nat /\ Deadline(r)
    BY DEF Step, OauthInv, OauthTypeOK, TypeOK, RequestInv
  <2>2. Spans(fetch[r].tries) \in Nat /\ Spans(fetch[r].tries) <= Spans(RetryMax) /\ Spans(RetryMax) \in Nat
    BY <2>1, SpansGrow, Times DEF FetchState
  <2>3. now + fetch[r].timer <= Signed(fetch[r]) + Spans(fetch[r].tries) + AttemptTime
    BY <2>1 DEF Deadline
  <2>4. fetch[r].timer \in Nat /\ fetch[r].exp \in Nat
    BY <2>1 DEF FetchState
  <2> QED
    BY <2>1, <2>2, <2>3, <2>4, Times DEF Signed
<1> QED
  BY <1>1, OauthInductive, PTL

\* A JWT of a key and a certificate that do not belong together is only sent
\* while a rotation is under way, or soon after one.
THEOREM PairsMatch == OauthSpec => []MixedOnlyAfterRotation
<1>1. OauthInv => MixedOnlyAfterRotation
  <2> SUFFICES ASSUME OauthInv, NEW r \in Requests, Step(r, "attempt"), Mixed(r),
                      pem["key"] = pem["cert"]
               PROVE  now <= lastPut + CertTtl + ReadTime + Exchange
    BY DEF MixedOnlyAfterRotation
  <2>1. /\ fetch[r] \in FetchState /\ fetch[r].step = "attempt" /\ now \in Nat /\ lastPut \in Nat
        /\ Deadline(r) /\ PairAge(r)
    BY DEF Step, OauthInv, OauthTypeOK, TypeOK, RequestInv
  <2>2. Signed(fetch[r]) <= lastPut + CertTtl + ReadTime
    BY <2>1 DEF Mixed, Outdated, PairAge
  <2>3. Spans(fetch[r].tries) \in Nat /\ Spans(fetch[r].tries) <= Spans(RetryMax) /\ Spans(RetryMax) \in Nat
    BY <2>1, SpansGrow, Times DEF FetchState
  <2>4. now + fetch[r].timer <= Signed(fetch[r]) + Spans(fetch[r].tries) + AttemptTime
    BY <2>1 DEF Deadline
  <2>5. fetch[r].timer \in Nat /\ Signed(fetch[r]) \in Int
    BY <2>1, Times DEF FetchState, Signed
  <2> QED
    BY <2>1, <2>2, <2>3, <2>4, <2>5, Times
<1> QED
  BY <1>1, OauthInductive, PTL

-----------------------------------------------------------------------------
(* What is defined by recursion over the natural numbers has the values that the
   recursion says.  The library's theorems about it take an operator, which the
   provers cannot instantiate: here the step of the recursion is a function, and
   induction is over a set. *)

\* Induction over the natural numbers, for a set.
LEMMA SetInduction ==
  ASSUME NEW S, 0 \in S, \A n \in Nat : n \in S => n + 1 \in S
  PROVE  Nat \subseteq S
<1> SUFFICES ASSUME Nat \ S # {} PROVE FALSE
  OBVIOUS
<1> DEFINE R == {ss \in Nat \X Nat : ss[1] < ss[2]}
<1>0. IsWellFoundedOn(R, Nat)
  BY NatLessThanWellFounded, Zenon DEF OpToRel
<1>1. PICK x \in Nat \ S : \A y \in Nat \ S : <<y, x>> \notin R
  <2> HIDE DEF R
  <2> QED
    BY <1>0, WFMin
<1>2. x # 0 /\ x - 1 \in Nat /\ x - 1 < x /\ x = (x - 1) + 1
  BY <1>1
<1>3. <<x - 1, x>> \in R
  BY <1>2
<1> QED
  BY <1>1, <1>2, <1>3

\* h is a function on 0..n that begins with a and goes on with F.
Runs(h, n, V, a, F) ==
  /\ h \in [0..n -> V] /\ h[0] = a
  /\ \A k \in Nat : k < n => h[k + 1] = F[k][h[k]]

LEMMA RunsExist ==
  ASSUME NEW V, NEW a \in V, NEW F \in [Nat -> [V -> V]]
  PROVE  \A n \in Nat : \E h : Runs(h, n, V, a, F)
<1> DEFINE S == {n \in Nat : \E h : Runs(h, n, V, a, F)}
<1>1. 0 \in S
  <2>1. Runs([k \in 0..0 |-> a], 0, V, a, F)
    BY DEF Runs
  <2> QED
    BY <2>1
<1>2. ASSUME NEW n \in Nat, n \in S PROVE n + 1 \in S
  <2>1. PICK h : Runs(h, n, V, a, F)
    BY <1>2
  <2> DEFINE g == [k \in 0..(n + 1) |-> IF k = n + 1 THEN F[n][h[n]] ELSE h[k]]
  <2>2. h[n] \in V
    BY <2>1 DEF Runs
  <2>3. g \in [0..(n + 1) -> V]
    BY <2>1, <2>2 DEF Runs
  <2>4. g[0] = a
    BY <2>1 DEF Runs
  <2>5. ASSUME NEW k \in Nat, k < n + 1 PROVE g[k + 1] = F[k][g[k]]
    <3>1. CASE k = n
      BY <3>1
    <3>2. CASE k < n
      <4>1. h[k + 1] = F[k][h[k]]
        BY <2>1, <3>2 DEF Runs
      <4>2. g[k + 1] = h[k + 1] /\ g[k] = h[k]
        BY <3>2
      <4> QED
        BY <4>1, <4>2
    <3> QED
      BY <2>5, <3>1, <3>2
  <2>6. Runs(g, n + 1, V, a, F)
    BY <2>3, <2>4, <2>5 DEF Runs
  <2> QED
    BY <2>6
<1> HIDE DEF S
<1>3. Nat \subseteq S
  BY <1>1, <1>2, SetInduction
<1> QED
  BY <1>3 DEF S

LEMMA RunsAgree ==
  ASSUME NEW V, NEW a, NEW F, NEW m \in Nat, NEW n \in Nat, NEW g, NEW h,
         Runs(g, m, V, a, F), Runs(h, n, V, a, F)
  PROVE  \A i \in Nat : i <= m /\ i <= n => g[i] = h[i]
<1> DEFINE S == {i \in Nat : i <= m /\ i <= n => g[i] = h[i]}
<1>1. 0 \in S
  BY DEF Runs
<1>2. ASSUME NEW i \in Nat, i \in S PROVE i + 1 \in S
  <2>1. i + 1 <= m => g[i + 1] = F[i][g[i]]
    BY DEF Runs
  <2>2. i + 1 <= n => h[i + 1] = F[i][h[i]]
    BY DEF Runs
  <2> QED
    BY <1>2, <2>1, <2>2
<1> HIDE DEF S
<1>3. Nat \subseteq S
  BY <1>1, <1>2, SetInduction
<1> QED
  BY <1>3 DEF S

\* f is defined by recursion from a and F.
Recurs(f, V, a, F) == f \in [Nat -> V] /\ f[0] = a /\ \A n \in Nat : f[n + 1] = F[n][f[n]]

LEMMA Recursion ==
  ASSUME NEW V, NEW a \in V, NEW F \in [Nat -> [V -> V]]
  PROVE  \E f : Recurs(f, V, a, F)
<1> DEFINE run(n) == CHOOSE h : Runs(h, n, V, a, F)
           f == [n \in Nat |-> run(n)[n]]
<1>1. \A n \in Nat : Runs(run(n), n, V, a, F)
  BY RunsExist, Zenon
<1> HIDE DEF run
<1>2. \A n \in Nat : f[n] \in V
  <2> TAKE n \in Nat
  <2>1. Runs(run(n), n, V, a, F)
    BY <1>1
  <2> QED
    BY <2>1 DEF Runs
<1>3. f[0] = a
  <2>1. Runs(run(0), 0, V, a, F)
    BY <1>1
  <2> QED
    BY <2>1 DEF Runs
<1>4. ASSUME NEW n \in Nat PROVE f[n + 1] = F[n][f[n]]
  <2>1. Runs(run(n), n, V, a, F) /\ Runs(run(n + 1), n + 1, V, a, F)
    BY <1>1
  <2>2. run(n + 1)[n] = run(n)[n]
    <3>1. n \in Nat /\ n + 1 \in Nat /\ n <= n + 1 /\ n <= n
      OBVIOUS
    <3> QED
      BY <2>1, <3>1, RunsAgree
  <2>3. run(n + 1)[n + 1] = F[n][run(n + 1)[n]]
    BY <2>1 DEF Runs
  <2> QED
    BY <2>2, <2>3
<1> QED
  <2>1. Recurs(f, V, a, F)
    <3>1. f \in [Nat -> V]
      BY <1>2
    <3> HIDE DEF f
    <3> QED
      BY <3>1, <1>3, <1>4 DEF Recurs
  <2> QED
    BY <2>1

-----------------------------------------------------------------------------
(* The waits of a fetch and an outage of the endpoint. *)

\* The waits double up to RetryWaitMax.
LEMMA WaitBeforeIs ==
  /\ WaitBefore[0] = Least(RetryWaitMin, RetryWaitMax)
  /\ \A n \in Nat : /\ WaitBefore[n] \in Nat
                    /\ WaitBefore[n + 1] = Least(2 * WaitBefore[n], RetryWaitMax)
<1> DEFINE first == Least(RetryWaitMin, RetryWaitMax)
           next(w) == Least(2 * w, RetryWaitMax)
           F == [n \in Nat |-> [w \in Nat |-> next(w)]]
           P(g) == g = [n \in Nat |-> IF n = 0 THEN Least(RetryWaitMin, RetryWaitMax)
                                      ELSE Least(2 * g[n - 1], RetryWaitMax)]
<1>1. first \in Nat /\ \A w \in Nat : next(w) \in Nat
  <2>1. RetryWaitMin \in Nat /\ RetryWaitMax \in Nat
    BY Times
  <2> QED
    BY <2>1 DEF Least
<1>2. PICK f : Recurs(f, Nat, first, F)
  <2>1. F \in [Nat -> [Nat -> Nat]]
    <3> HIDE DEF next
    <3> QED
      BY <1>1
  <2>2. first \in Nat
    BY <1>1
  <2> HIDE DEF F, first
  <2> QED
    BY <2>1, <2>2, Recursion
<1>3. P(f)
  <2>1. ASSUME NEW n \in Nat, n # 0 PROVE f[n] = Least(2 * f[n - 1], RetryWaitMax)
    <3>1. n - 1 \in Nat /\ n = (n - 1) + 1
      BY <2>1
    <3>2. f[n - 1] \in Nat /\ f[(n - 1) + 1] = F[n - 1][f[n - 1]]
      BY <1>2, <3>1 DEF Recurs
    <3> QED
      BY <3>1, <3>2
  <2> QED
    BY <1>2, <2>1 DEF Recurs
<1>4. WaitBefore = CHOOSE g : P(g)
  BY Zenon DEF WaitBefore
<1>5. P(WaitBefore)
  <2> HIDE DEF P
  <2> QED
    BY <1>3, <1>4, Zenon
<1>6. \A n \in Nat : WaitBefore[n] = IF n = 0 THEN first ELSE next(WaitBefore[n - 1])
  BY <1>5, Zenon
<1> HIDE DEF next, first, P, F
<1>7. WaitBefore[0] = first /\ \A n \in Nat : WaitBefore[n + 1] = next(WaitBefore[n])
  BY <1>6
<1> DEFINE S == {n \in Nat : WaitBefore[n] \in Nat}
<1>8. Nat \subseteq S
  <2>1. 0 \in S /\ \A n \in Nat : n \in S => n + 1 \in S
    BY <1>1, <1>7
  <2> HIDE DEF S
  <2> QED
    BY <2>1, SetInduction
<1> QED
  BY <1>7, <1>8 DEF first, next

\* What all waits before the n-th retry add up to.
LEMMA WaitedIs ==
  /\ Waited[0] = 0
  /\ \A n \in Nat : Waited[n] \in Nat /\ Waited[n + 1] = Waited[n] + WaitBefore[n]
<1> DEFINE F == [n \in Nat |-> [t \in Nat |-> t + WaitBefore[n]]]
           P(g) == g = [n \in Nat |-> IF n = 0 THEN 0 ELSE g[n - 1] + WaitBefore[n - 1]]
<1>1. \A n \in Nat : WaitBefore[n] \in Nat
  BY WaitBeforeIs
<1>2. PICK f : Recurs(f, Nat, 0, F)
  <2>1. F \in [Nat -> [Nat -> Nat]] /\ 0 \in Nat
    BY <1>1
  <2> HIDE DEF F
  <2> QED
    BY <2>1, Recursion
<1>3. P(f)
  <2>1. ASSUME NEW n \in Nat, n # 0 PROVE f[n] = f[n - 1] + WaitBefore[n - 1]
    <3>1. n - 1 \in Nat /\ n = (n - 1) + 1
      BY <2>1
    <3>2. f[n - 1] \in Nat /\ f[(n - 1) + 1] = F[n - 1][f[n - 1]]
      BY <1>2, <3>1 DEF Recurs
    <3> QED
      BY <3>1, <3>2
  <2> QED
    BY <1>2, <2>1 DEF Recurs
<1>4. Waited = CHOOSE g : P(g)
  BY Zenon DEF Waited
<1>5. P(Waited)
  <2> HIDE DEF P
  <2> QED
    BY <1>3, <1>4, Zenon
<1>6. \A n \in Nat : Waited[n] = IF n = 0 THEN 0 ELSE Waited[n - 1] + WaitBefore[n - 1]
  BY <1>5, Zenon
<1>7. Waited[0] = 0 /\ \A n \in Nat : Waited[n + 1] = Waited[n] + WaitBefore[n]
  BY <1>6
<1> DEFINE S == {n \in Nat : Waited[n] \in Nat}
<1>8. Nat \subseteq S
  <2>1. 0 \in S /\ \A n \in Nat : n \in S => n + 1 \in S
    BY <1>1, <1>7
  <2> HIDE DEF S
  <2> QED
    BY <2>1, SetInduction
<1> QED
  BY <1>7, <1>8

\* Without an outage no attempt fails; with a single one, a failed attempt was
\* begun in it, after all the waits before that attempt.
WaitsInOutage(r) ==
  LET f == fetch[r]
  IN /\ f.step \in {"attempt", "wait"} => f.wait = WaitBefore[f.tries]
     /\ f.step \notin {"attempt", "wait"} => f.tries = 0
     /\ f.doomed => f.step = "attempt"
     /\ outage.count = 0 => up /\ ~f.doomed /\ f.tries = 0
     /\ outage.count = 1 =>
          /\ f.step = "attempt" /\ f.doomed => outage.length >= Waited[f.tries]
          /\ f.step = "wait" /\ ~up => outage.length + f.timer >= Waited[f.tries]

LEMMA WaitsKept ==
  ASSUME NEW q \in Requests, WaitsInOutage(q), fetch'[q] = fetch[q], outage' = outage, up' = up
  PROVE  WaitsInOutage(q)'
BY DEF WaitsInOutage

\* Time passes: the wait gets shorter as the outage gets longer.
LEMMA WaitsTick ==
  ASSUME OauthInv, OauthTick, NEW q \in Requests, WaitsInOutage(q)
  PROVE  WaitsInOutage(q)'
<1>1. /\ fetch[q] \in FetchState /\ outage \in [count : 0..MaxOutages, length : Nat]
      /\ UNCHANGED up
      /\ outage' = IF up THEN outage ELSE [outage EXCEPT !.length = @ + 1]
      /\ fetch'[q] = IF Step(q, "none") THEN fetch[q] ELSE [fetch[q] EXCEPT !.timer = @ - 1]
  BY DEF OauthTick, OauthInv, OauthTypeOK
<1>2. /\ fetch'[q].step = fetch[q].step /\ fetch'[q].wait = fetch[q].wait
      /\ fetch'[q].tries = fetch[q].tries /\ fetch'[q].doomed = fetch[q].doomed
      /\ fetch[q].step # "none" => fetch'[q].timer = fetch[q].timer - 1
      /\ fetch[q].timer \in Nat /\ fetch[q].tries \in Nat
  BY <1>1, Times DEF FetchState, Step
<1>3. /\ outage'.count = outage.count /\ outage.length \in Nat
      /\ outage'.length = IF up THEN outage.length ELSE outage.length + 1
  BY <1>1
<1>4. Waited[fetch[q].tries] \in Nat
  BY <1>2, WaitedIs
<1> QED
  BY <1>1, <1>2, <1>3, <1>4 DEF WaitsInOutage

\* An outage begins: it is the second one, or no attempt has failed yet.
LEMMA WaitsDown ==
  ASSUME OauthInv, EndpointDown, NEW q \in Requests, WaitsInOutage(q)
  PROVE  WaitsInOutage(q)'
<1>1. /\ fetch[q] \in FetchState /\ outage.count \in Nat
      /\ ~up' /\ outage' = [count |-> outage.count + 1, length |-> 0]
      /\ fetch'[q] = [fetch[q] EXCEPT !.doomed = @ \/ fetch[q].step = "attempt"]
  BY Times DEF EndpointDown, OauthInv, OauthTypeOK
<1>2. /\ fetch'[q].step = fetch[q].step /\ fetch'[q].wait = fetch[q].wait
      /\ fetch'[q].tries = fetch[q].tries
      /\ fetch'[q].doomed <=> fetch[q].doomed \/ fetch[q].step = "attempt"
      /\ fetch'[q].timer = fetch[q].timer /\ fetch[q].timer \in Nat
  BY <1>1 DEF FetchState
<1>3. outage'.count = outage.count + 1 /\ outage'.length = 0
  BY <1>1
<1>4. outage'.count # 0 /\ (outage'.count = 1 => outage.count = 0)
  BY <1>1, <1>3
<1> QED
  BY <1>1, <1>2, <1>3, <1>4, WaitedIs DEF WaitsInOutage

LEMMA WaitsAttemptFails ==
  ASSUME OauthInv, NEW r \in Requests, AttemptFails(r), WaitsInOutage(r)
  PROVE  WaitsInOutage(r)'
<1> DEFINE g == fetch[r]
<1>1. /\ g \in FetchState /\ g.step = "attempt" /\ g.doomed
      /\ fetch'[r] = Backoff(g) /\ UNCHANGED <<outage, up>> /\ outage.length \in Nat
  BY DEF AttemptFails, Step, endpoint, OauthInv, OauthTypeOK
<1>2. /\ fetch'[r].step = "wait" /\ fetch'[r].timer = g.wait /\ ~fetch'[r].doomed
      /\ fetch'[r].tries = g.tries + 1 /\ fetch'[r].wait = Least(2 * g.wait, RetryWaitMax)
      /\ g.tries \in Nat
  BY <1>1, Times DEF FetchState, Backoff
<1>3. /\ g.wait = WaitBefore[g.tries] /\ outage.count # 0
      /\ outage.count = 1 => outage.length >= Waited[g.tries]
  BY <1>1 DEF WaitsInOutage
<1>4. /\ fetch'[r].wait = WaitBefore[g.tries + 1]
      /\ Waited[g.tries + 1] = Waited[g.tries] + g.wait /\ Waited[g.tries] \in Nat /\ g.wait \in Nat
  BY <1>2, <1>3, WaitBeforeIs, WaitedIs
<1> QED
  BY <1>1, <1>2, <1>3, <1>4 DEF WaitsInOutage

LEMMA WaitsRetry ==
  ASSUME OauthInv, NEW r \in Requests, Retry(r), WaitsInOutage(r)
  PROVE  WaitsInOutage(r)'
<1> DEFINE g == fetch[r]
<1>1. /\ g \in FetchState /\ g.step = "wait" /\ g.timer = 0
      /\ fetch'[r] = StartAttempt(g) /\ UNCHANGED <<outage, up>> /\ outage.length \in Nat
  BY DEF Retry, Step, endpoint, OauthInv, OauthTypeOK
<1>2. /\ fetch'[r].step = "attempt" /\ fetch'[r].tries = g.tries /\ fetch'[r].wait = g.wait
      /\ fetch'[r].doomed <=> ~up
  BY <1>1 DEF FetchState, StartAttempt
<1> QED
  BY <1>1, <1>2 DEF WaitsInOutage

LEMMA WaitsReadCert ==
  ASSUME OauthInv, NEW r \in Requests, ReadCert(r), WaitsInOutage(r)
  PROVE  WaitsInOutage(r)'
<1> DEFINE g == fetch[r]
<1>1. PICK v : fetch' = [fetch EXCEPT ![r] =
                 StartAttempt([fetch[r] EXCEPT !.cert = v, !.exp = now + JwtDuration,
                                                 !.wait = Least(RetryWaitMin, RetryWaitMax)])]
  BY DEF ReadCert
<1>2. /\ g \in FetchState /\ fetch \in [Requests -> FetchState] /\ g.step = "cert"
      /\ UNCHANGED <<outage, up>> /\ outage.length \in Nat
  BY DEF ReadCert, Step, endpoint, OauthInv, OauthTypeOK
<1>3. /\ fetch'[r].step = "attempt" /\ fetch'[r].tries = g.tries
      /\ fetch'[r].wait = Least(RetryWaitMin, RetryWaitMax)
      /\ fetch'[r].doomed <=> ~up
  BY <1>1, <1>2 DEF FetchState, StartAttempt
<1>4. g.tries = 0 /\ (outage.count = 0 => up)
  BY <1>2 DEF WaitsInOutage
<1> QED
  BY <1>2, <1>3, <1>4, WaitBeforeIs, WaitedIs DEF WaitsInOutage

\* Before its first attempt and after its last one a fetch waits for no outage.
LEMMA WaitsOutside ==
  ASSUME NEW r \in Requests, WaitsInOutage(r), UNCHANGED <<outage, up>>,
         fetch'[r].step \notin {"attempt", "wait"}, fetch'[r].tries = 0, ~fetch'[r].doomed
  PROVE  WaitsInOutage(r)'
BY DEF WaitsInOutage

LEMMA WaitsStep ==
  ASSUME OauthInv, [OauthNext]_oauthVars, NEW q \in Requests, WaitsInOutage(q)
  PROVE  WaitsInOutage(q)'
<1>0. fetch \in [Requests -> FetchState]
  BY DEF OauthInv, OauthTypeOK
<1>1. CASE UNCHANGED <<fetch, outage, up>>
  BY <1>1, WaitsKept
<1>2. CASE ProxyStep \/ (\E i \in Items : PutItem(i)) \/ UNCHANGED oauthVars
  BY <1>1, <1>2 DEF ProxyStep, PutItem, oauthVars, endpoint
<1>3. CASE OauthTick
  BY <1>3, WaitsTick
<1>4. CASE EndpointDown
  BY <1>4, WaitsDown
<1>5. CASE EndpointUp
  BY <1>5 DEF EndpointUp, WaitsInOutage
<1>6. ASSUME NEW r \in Requests, FetchSecret(r), q # r PROVE WaitsInOutage(q)'
  <2>1. UNCHANGED <<outage, up>> /\ fetch'[q] = fetch[q]
    BY <1>0, <1>6
    DEF FetchSecret, OauthMiss, ReadKey, ReadCert, ReadFails, Answered, Refused, AttemptFails,
        Retry, GiveUp, TokenMissing, AddToken, Done, endpoint
  <2> QED
    BY <2>1, WaitsKept
<1>7. CASE FetchSecret(q)
  <2>1. CASE ReadFails(q) \/ Refused(q) \/ GiveUp(q) \/ TokenMissing(q) \/ AddToken(q)
    <3>1. UNCHANGED <<outage, up>> /\ fetch'[q] = NoFetch
      BY <1>0, <2>1 DEF ReadFails, Refused, GiveUp, TokenMissing, AddToken, Done, endpoint
    <3> QED
      BY <3>1, WaitsOutside DEF NoFetch
  <2>2. CASE OauthMiss(q) \/ Answered(q)
    <3>1. /\ UNCHANGED <<outage, up>> /\ fetch'[q].step \in {"key", "answer"}
          /\ fetch'[q].tries = 0 /\ ~fetch'[q].doomed
      BY <1>0, <2>2 DEF OauthMiss, Answered, NoFetch, endpoint
    <3> QED
      BY <3>1, WaitsOutside
  <2>3. CASE ReadKey(q)
    <3>1. /\ UNCHANGED <<outage, up>> /\ fetch'[q].step = "cert" /\ fetch[q].step = "key"
          /\ fetch'[q].tries = fetch[q].tries /\ fetch'[q].doomed = fetch[q].doomed
      BY <1>0, <2>3 DEF ReadKey, Step, FetchState, endpoint
    <3> QED
      BY <3>1, WaitsOutside DEF WaitsInOutage
  <2>4. CASE ReadCert(q) \/ AttemptFails(q) \/ Retry(q)
    BY <2>4, WaitsReadCert, WaitsAttemptFails, WaitsRetry
  <2> QED
    BY <1>7, <2>1, <2>2, <2>3, <2>4 DEF FetchSecret
<1> QED
  BY <1>2, <1>3, <1>4, <1>5, <1>6, <1>7 DEF OauthNext

\* A fetch rides out a single outage that is shorter than its waits together,
\* whatever the retries and the limits of the waits are.
THEOREM RetriesOutlastOutage == OauthSpec => RidesOutOutage
<1> DEFINE W == \A r \in Requests : WaitsInOutage(r)
<1>1. OauthInit => W
  <2> SUFFICES ASSUME OauthInit, NEW r \in Requests
               PROVE  WaitsInOutage(r)
    OBVIOUS
  <2>1. fetch[r].step = "none" /\ fetch[r].tries = 0 /\ fetch[r].doomed = FALSE
    BY DEF OauthInit, NoFetch
  <2>2. outage.count = 0 /\ up
    BY DEF OauthInit
  <2> QED
    BY <2>1, <2>2 DEF WaitsInOutage
<1>2. OauthInv /\ W /\ [OauthNext]_oauthVars => W'
  BY WaitsStep
<1>3. ASSUME OauthInv, W, NEW r \in Requests, GiveUp(r), outage.count = 1
      PROVE  outage.length >= Waited[RetryMax]
  <2>1. fetch[r].tries = RetryMax
    <3>1. fetch[r] \in FetchState
      BY <1>3 DEF OauthInv, OauthTypeOK
    <3>2. fetch[r].tries \in 0..RetryMax
      BY <3>1 DEF FetchState
    <3>3. fetch[r].tries >= RetryMax
      BY <1>3 DEF GiveUp
    <3> QED
      BY <3>2, <3>3, Times
  <2> QED
    BY <1>3, <2>1 DEF GiveUp, Step, WaitsInOutage
<1>4. OauthInv /\ W =>
        [\A r \in Requests : GiveUp(r) /\ outage.count = 1 => outage.length >= Waited[RetryMax]]_oauthVars
  BY <1>3
<1> QED
  BY <1>1, <1>2, <1>4, OauthInductive, PTL DEF OauthSpec, RidesOutOutage

=============================================================================
