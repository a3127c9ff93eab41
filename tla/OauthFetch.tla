------------------------------ MODULE OauthFetch ------------------------------
(***************************************************************************)
(* FetchSecret of proxy_aws_sm_oauth, in detail: on a miss of the token    *)
(* cache a request reads the private key and the certificate, one after    *)
(* the other, through a cache of Secrets Manager that the requests share,  *)
(* signs a JWT, and sends this one JWT again and again to the OAuth        *)
(* endpoint until it answers or the retries are used up.  The rest of a    *)
(* request is Proxy's, and so is the abstract specification: a fetch is    *)
(* there a single step that ends within MaxFlight.                         *)
(*                                                                         *)
(* Time passes only where a request waits for the network.  The requests   *)
(* modelled here name one key pair.                                        *)
(***************************************************************************)
EXTENDS Proxy

CONSTANTS
  CertTtl,       \* certificate_cache_ttl
  JwtDuration,   \* jwt_duration
  RetryMax,      \* http_retry_attempts
  RetryWaitMin,  \* http_retry_min_wait
  RetryWaitMax,  \* http_retry_max_wait
  ReadTime,      \* longest time a read of Secrets Manager takes, with its retries
  AttemptTime,   \* longest time the endpoint takes for an answer (the client has no timeout)
  MaxPuts,       \* bound on the versions of the key and of the certificate
  MaxOutages     \* bound on the outages of the endpoint

VARIABLES
  pem,      \* Secrets Manager: per item of the pair, its version
  lastPut,  \* the time of the last put of either
  held,     \* awsSecretsManager: per item, the version it has cached, and since when
  fetch,    \* per request, the FetchSecret under way
  up,       \* is the endpoint reachable, with answers other than 429 and 5xx?
  outage    \* the outages so far, and how long the last one is or was

sm == <<pem, lastPut, held>>
endpoint == <<up, outage>>
oauthVars == <<vars, sm, fetch, endpoint>>

Items == {"key", "cert"}

Least(a, b) == IF a <= b THEN a ELSE b

\* From the signing of a JWT to the end of its last attempt.
Exchange == AttemptTime + RetryMax * (AttemptTime + RetryWaitMax)
\* From the miss to the answer.
Flight == ReadTime + ReadTime + Exchange

ASSUME OauthAssumption ==
  /\ {CertTtl, JwtDuration, RetryMax, RetryWaitMin, RetryWaitMax} \subseteq Nat
  /\ {ReadTime, AttemptTime, MaxPuts, MaxOutages} \subseteq Nat
  /\ MaxPuts > 0 /\ Flight <= MaxFlight

\* The locals of FetchSecret: the versions read, the JWT's exp, the retries made,
\* the next wait, and what is left at most of what it waits for.
NoFetch == [step |-> "none", key |-> 0, cert |-> 0, exp |-> 0,
            tries |-> 0, wait |-> 0, timer |-> 0, doomed |-> FALSE]

OauthInit ==
  /\ Init
  /\ pem = [i \in Items |-> 1] /\ lastPut = 0
  /\ held = [i \in Items |-> [version |-> 0, at |-> 0]]
  /\ fetch = [r \in Requests |-> NoFetch]
  /\ up = TRUE
  /\ outage = [count |-> 0, length |-> 0]

Step(r, step) == fetch[r].step = step
Done(r) == fetch' = [fetch EXCEPT ![r] = NoFetch]

-----------------------------------------------------------------------------
(* The world: Secrets Manager, the endpoint, the clock. *)

\* A pair is rotated by one put of the key and one of the certificate.
PutItem(i) ==
  /\ pem[i] < MaxPuts
  /\ pem' = [pem EXCEPT ![i] = @ + 1] /\ lastPut' = now
  /\ UNCHANGED <<vars, held, fetch, endpoint>>

\* An attempt that meets an outage fails, and is one to be retried.
EndpointDown ==
  /\ up /\ outage.count < MaxOutages
  /\ up' = FALSE
  /\ outage' = [count |-> outage.count + 1, length |-> 0]
  /\ fetch' = [r \in Requests |->
                 [fetch[r] EXCEPT !.doomed = @ \/ fetch[r].step = "attempt"]]
  /\ UNCHANGED <<vars, sm>>

EndpointUp ==
  /\ ~up
  /\ up' = TRUE
  /\ UNCHANGED <<vars, sm, fetch, outage>>

Waits(r) == ~Step(r, "none") /\ fetch[r].timer > 0

OauthTick ==
  /\ now < MaxTime
  /\ \A r \in Requests : Free(r) \/ Waits(r)
  /\ now' = now + 1
  /\ fetch' = [r \in Requests |->
                 IF Step(r, "none") THEN fetch[r] ELSE [fetch[r] EXCEPT !.timer = @ - 1]]
  /\ outage' = IF up THEN outage ELSE [outage EXCEPT !.length = @ + 1]
  /\ UNCHANGED <<store, cache, handler, sm, up>>

-----------------------------------------------------------------------------
(* createJwtToken *)

\* Slip: what is cached is never fetched anew (the TTL is not set).
GetSecretStringOnce(i, v) ==
  \/ v = held[i].version /\ v > 0 /\ UNCHANGED held
  \/ /\ held[i].version = 0 /\ v = pem[i]
     /\ held' = [held EXCEPT ![i] = [version |-> v, at |-> now]]

\* A cached item is used up to its TTL; the cache may fetch it anew before that.
\* (That a cache whose renewal fails goes on with what it has is left out.)
GetSecretString(i, v) ==
  \/ /\ v = held[i].version /\ v > 0 /\ now < held[i].at + CertTtl
     /\ UNCHANGED held
  \/ /\ v = pem[i]
     /\ held' = [held EXCEPT ![i] = [version |-> v, at |-> now]]

OauthMiss(r) ==
  /\ Miss(r)
  /\ fetch' = [fetch EXCEPT ![r] = [NoFetch EXCEPT !.step = "key", !.timer = ReadTime]]
  /\ UNCHANGED <<sm, endpoint>>

ReadKey(r) ==
  /\ Step(r, "key")
  /\ \E v \in 1..MaxPuts :
       /\ GetSecretString("key", v)
       /\ fetch' = [fetch EXCEPT ![r].step = "cert", ![r].key = v, ![r].timer = ReadTime]
  /\ UNCHANGED <<vars, pem, lastPut, endpoint>>

\* The endpoint is called for the first time.
StartAttempt(f) ==
  [f EXCEPT !.step = "attempt", !.timer = AttemptTime, !.doomed = ~up]

\* The certificate is read, the JWT signed and sent.
ReadCert(r) ==
  /\ Step(r, "cert")
  /\ \E v \in 1..MaxPuts :
       /\ GetSecretString("cert", v)
       /\ fetch' = [fetch EXCEPT ![r] =
            StartAttempt([fetch[r] EXCEPT !.cert = v, !.exp = now + JwtDuration,
                                            !.wait = Least(RetryWaitMin, RetryWaitMax)])]
  /\ UNCHANGED <<vars, pem, lastPut, endpoint>>

\* Secrets Manager does not answer within its retries, or has no such secret or
\* one that is no key or no certificate.
ReadFails(r) ==
  /\ fetch[r].step \in Items
  /\ FetchFails(r) /\ Done(r)
  /\ UNCHANGED <<sm, endpoint>>

-----------------------------------------------------------------------------
(* getAccessToken: the JWT's signature is that of the key, its kid the
   fingerprint of the certificate. *)

Mixed(r) == fetch[r].key # fetch[r].cert
Expired(r) == now >= fetch[r].exp

\* The endpoint takes the JWT and answers with 200; the body of the response may
\* take the rest of the attempt's time.
Answered(r) ==
  /\ Step(r, "attempt") /\ up /\ ~Mixed(r) /\ ~Expired(r)
  /\ FetchAnswers(r)
  /\ fetch' = [fetch EXCEPT ![r] = [NoFetch EXCEPT !.step = "answer", !.timer = fetch[r].timer]]
  /\ UNCHANGED <<sm, endpoint>>

\* Any other status that is not retried, for a JWT that is no good or for a good
\* one, and an error that is not retried: no further attempt, no fresh JWT.
Refused(r) ==
  /\ Step(r, "attempt") /\ up
  /\ FetchFails(r) /\ Done(r)
  /\ UNCHANGED <<sm, endpoint>>

\* Slip: the wait doubles without end.
BackoffUncapped(f) ==
  [f EXCEPT !.step = "wait", !.tries = f.tries + 1, !.timer = f.wait,
            !.wait = 2 * f.wait, !.doomed = FALSE]

\* No connection, or a status of 429 or 5xx: the same JWT is sent again after a
\* wait, which doubles up to its maximum.
Backoff(f) ==
  [f EXCEPT !.step = "wait", !.tries = f.tries + 1, !.timer = f.wait,
            !.wait = Least(2 * f.wait, RetryWaitMax), !.doomed = FALSE]

\* Slip: one retry too many.
AttemptFailsOnceMore(r) ==
  /\ Step(r, "attempt") /\ fetch[r].doomed /\ fetch[r].tries <= RetryMax
  /\ fetch' = [fetch EXCEPT ![r] = Backoff(fetch[r])]
  /\ UNCHANGED <<vars, sm, endpoint>>

AttemptFails(r) ==
  /\ Step(r, "attempt") /\ fetch[r].doomed /\ fetch[r].tries < RetryMax
  /\ fetch' = [fetch EXCEPT ![r] = Backoff(fetch[r])]
  /\ UNCHANGED <<vars, sm, endpoint>>

\* Slip: no wait.
RetryAtOnce(r) ==
  /\ Step(r, "wait")
  /\ fetch' = [fetch EXCEPT ![r] = StartAttempt(fetch[r])]
  /\ UNCHANGED <<vars, sm, endpoint>>

Retry(r) ==
  /\ Step(r, "wait") /\ fetch[r].timer = 0
  /\ fetch' = [fetch EXCEPT ![r] = StartAttempt(fetch[r])]
  /\ UNCHANGED <<vars, sm, endpoint>>

GiveUp(r) ==
  /\ Step(r, "attempt") /\ fetch[r].doomed /\ fetch[r].tries >= RetryMax
  /\ FetchFails(r) /\ Done(r)
  /\ UNCHANGED <<sm, endpoint>>

\* Slip: the error is dropped, and the empty string taken for the token.
TokenMissingTaken(r) ==
  /\ Step(r, "answer")
  /\ got' = [got EXCEPT ![r] = Empty(want[r])]
  /\ Put([key |-> cacheKey(want[r]), value |-> Empty(want[r]), added |-> now])
  /\ Goto(r, "template") /\ Done(r)
  /\ UNCHANGED <<store, now, want, began, sm, endpoint>>

\* The body of a 200 is not JSON, has no access_token, or one that is no string.
TokenMissing(r) ==
  /\ Step(r, "answer")
  /\ FetchFails(r) /\ Done(r)
  /\ UNCHANGED <<sm, endpoint>>

\* The access token of the response is added to the cache.
AddToken(r) ==
  /\ Add(r) /\ Done(r)
  /\ UNCHANGED <<sm, endpoint>>

-----------------------------------------------------------------------------
FetchSecret(r) ==
  \/ OauthMiss(r) \/ ReadKey(r) \/ ReadCert(r) \/ ReadFails(r)
  \/ Answered(r) \/ Refused(r) \/ AttemptFails(r) \/ Retry(r) \/ GiveUp(r)
  \/ TokenMissing(r) \/ AddToken(r)

\* The steps of Proxy that are no part of a fetch.
ProxyStep ==
  /\ \/ \E s \in Secrets : Rotate(s)
     \/ Purge
     \/ \E r \in Requests : \/ Accept(r) \/ Reject(r)
                            \/ Hit(r) \/ Forward(r) \/ RejectTemplate(r)
  /\ UNCHANGED <<fetch, sm, endpoint>>

OauthNext ==
  \/ ProxyStep \/ OauthTick \/ EndpointDown \/ EndpointUp
  \/ \E i \in Items : PutItem(i)
  \/ \E r \in Requests : FetchSecret(r)

OauthSpec == OauthInit /\ [][OauthNext]_oauthVars

-----------------------------------------------------------------------------
FetchState ==
  [step : {"none", "key", "cert", "attempt", "wait", "answer"},
   key : 0..MaxPuts, cert : 0..MaxPuts, exp : Nat, tries : 0..RetryMax,
   wait : 0..RetryWaitMax, timer : Nat, doomed : BOOLEAN]

OauthTypeOK ==
  /\ TypeOK
  /\ pem \in [Items -> 1..MaxPuts] /\ lastPut \in 0..MaxTime
  /\ held \in [Items -> [version : 0..MaxPuts, at : 0..MaxTime]]
  /\ fetch \in [Requests -> FetchState]
  /\ up \in BOOLEAN
  /\ outage \in [count : 0..MaxOutages, length : Nat]

\* A fetch, its retries and its waits included, is over in the time that Proxy
\* takes for granted: FetchSecret implements the single step of Proxy.
ProxySpec == Spec

\* The JWT, which is signed once and not renewed for a retry, has not expired
\* when the last retry is answered, if jwt_duration is longer than all of them, the
\* claims of the configuration leave exp alone and the endpoint sets no Retry-After.
NoExpiredJwt ==
  JwtDuration > Exchange =>
    \A r \in Requests : Step(r, "attempt") => ~Expired(r)

\* The key and the certificate of a JWT, which are read and cached one by one,
\* belong to each other, unless the pair was rotated just now: at most a TTL,
\* a read and an exchange ago, or by half.  This is as long as Secrets Manager
\* answers when the TTL of an item has passed.
MixedOnlyAfterRotation ==
  \A r \in Requests :
    Step(r, "attempt") /\ Mixed(r) =>
      \/ pem["key"] # pem["cert"]
      \/ now <= lastPut + CertTtl + ReadTime + Exchange

\* A fetch gives up over a single outage only if that is at least as long as all
\* its waits together.
WaitBefore[n \in Nat] ==
  IF n = 0 THEN Least(RetryWaitMin, RetryWaitMax) ELSE Least(2 * WaitBefore[n - 1], RetryWaitMax)
Waited[n \in Nat] == IF n = 0 THEN 0 ELSE Waited[n - 1] + WaitBefore[n - 1]
RidesOutOutage ==
  [][\A r \in Requests :
       GiveUp(r) /\ outage.count = 1 => outage.length >= Waited[RetryMax]]_oauthVars

=============================================================================
