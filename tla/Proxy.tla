-------------------------------- MODULE Proxy --------------------------------
(***************************************************************************)
(* The proxy route of the sidecar: concurrent requests, each of which has  *)
(* its headers checked, gets a secret from the cache of a provider or from *)
(* the provider's backend, and is forwarded with the secret in a header,   *)
(* or refused.  The cache is shared by the requests and locked only within *)
(* Get and Add: between a miss and the Add that follows it, other requests *)
(* run and the secret may be rotated.                                      *)
(*                                                                         *)
(* The providers differ in what a request names (Secrets), how the cache   *)
(* key is formatted (Separators) and whether the cache drops entries by    *)
(* age (Expiring).                                                         *)
(***************************************************************************)
EXTENDS Naturals, Sequences

CONSTANTS
  Requests,     \* the concurrent requests, one goroutine each
  Secrets,      \* what a request can ask for: four strings, as token sequences
  Separators,   \* the three separators of the provider's cache key
  CacheSize,    \* capacity of the cache, 0 if unbounded
  Expiring,     \* does the cache drop entries by age?
  CacheTtl,     \* the configured TTL
  MaxFlight,    \* a request is forwarded at most this long after its lookup
  MaxTime,      \* bound on the clock
  MaxVersion    \* bound on the rotations of a secret

VARIABLES
  store,   \* per secret, the times at which its versions were stored
  now,     \* the clock
  cache,   \* the entries of the LRU cache, most recently used first
  pc,      \* per request, its next step
  want,    \* per request, the secretFetcher: what it asks for
  got,     \* per request, the secret it has
  began    \* per request, the time of its lookup

vars == <<store, now, cache, pc, want, got, began>>
handler == <<pc, want, got, began>>

\* The code's only requirement on a configuration: counts are not negative.
ASSUME ProxyAssumption ==
  /\ {CacheSize, CacheTtl, MaxFlight, MaxTime, MaxVersion} \subseteq Nat
  /\ MaxVersion > 0 /\ Expiring \in BOOLEAN

\* A secret as a version that a backend has held; version 0 is the empty string
\* that comes with an error.
Value == [of : Secrets, version : 0..MaxVersion]
Empty(s) == [of |-> s, version |-> 0]
Current(s) == [of |-> s, version |-> Len(store[s])]

-----------------------------------------------------------------------------
(* The cache: hashicorp/golang-lru, simple or expirable. *)

\* Slip: the second string, the backend id of an OAuth request, is left out.
cacheKeyOfThree(s) == s[1] \o Separators[1] \o s[3] \o Separators[3] \o s[4]

cacheKey(s) ==
  s[1] \o Separators[1] \o s[2] \o Separators[2] \o s[3] \o Separators[3] \o s[4]

Live(entry) == ~Expiring \/ CacheTtl = 0 \/ now < entry.added + CacheTtl

At(key) == {i \in 1..Len(cache) : cache[i].key = key}

\* The cache with entry first and, if it had one, without its i-th.
ToFront(entry, i) ==
  [j \in 1..(IF i > Len(cache) THEN i ELSE Len(cache)) |->
     IF j = 1 THEN entry ELSE IF j <= i THEN cache[j - 1] ELSE cache[j]]

Full == CacheSize > 0 /\ Len(cache) >= CacheSize

\* Add overwrites the entry of the key, or else evicts the least recently used
\* one of a full cache.
Put(entry) ==
  IF At(entry.key) # {} THEN \E i \in At(entry.key) : cache' = ToFront(entry, i)
  ELSE cache' = ToFront(entry, IF Full THEN Len(cache) ELSE Len(cache) + 1)

-----------------------------------------------------------------------------
Init ==
  /\ store = [s \in Secrets |-> <<0>>]
  /\ now = 0
  /\ cache = <<>>
  /\ pc = [r \in Requests |-> "idle"]
  /\ want \in [Requests -> Secrets]
  /\ got = [r \in Requests |-> Empty(want[r])]
  /\ began = [r \in Requests |-> 0]

Goto(r, step) == pc' = [pc EXCEPT ![r] = step]
Free(r) == pc[r] \in {"idle", "forwarded"}

\* The handler returns, and its locals are gone.
Refuse(r) ==
  /\ Goto(r, "idle")
  /\ got' = [got EXCEPT ![r] = Empty(want[r])]
  /\ began' = [began EXCEPT ![r] = 0]
  /\ UNCHANGED <<store, now, cache, want>>

\* A secret is rotated in the backend.
Rotate(s) ==
  /\ Len(store[s]) < MaxVersion
  /\ store' = [store EXCEPT ![s] = Append(@, now)]
  /\ UNCHANGED <<now, cache, handler>>

\* Time passes.  No request is under way for more than MaxFlight.
Tick ==
  /\ now < MaxTime
  /\ \A r \in Requests : Free(r) \/ now < began[r] + MaxFlight
  /\ now' = now + 1
  /\ UNCHANGED <<store, cache, handler>>

\* The expirable cache drops old entries in the background.
Purge ==
  \E i \in 1..Len(cache) :
    /\ ~Live(cache[i])
    /\ cache' = [j \in 1..(Len(cache) - 1) |-> IF j < i THEN cache[j] ELSE cache[j + 1]]
    /\ UNCHANGED <<store, now, handler>>

-----------------------------------------------------------------------------
(* The steps of one request. *)

\* Headers, destination URL, provider name and the provider's own headers are
\* in order: getRequestConfig, parseDestinationUrl, getProvider, SecretFetcher.
Accept(r) ==
  /\ Free(r)
  /\ \E s \in Secrets : want' = [want EXCEPT ![r] = s] /\ got' = [got EXCEPT ![r] = Empty(s)]
  /\ Goto(r, "lookup")
  /\ began' = [began EXCEPT ![r] = now]
  /\ UNCHANGED <<store, now, cache>>

\* One of them is not: 400.
Reject(r) ==
  /\ Free(r)
  /\ Refuse(r)

Found(r) == {i \in At(cacheKey(want[r])) : Live(cache[i])}

\* Slip: a hit renews the entry.
HitRenewing(r) ==
  /\ pc[r] = "lookup"
  /\ \E i \in Found(r) :
       /\ got' = [got EXCEPT ![r] = cache[i].value]
       /\ cache' = ToFront([cache[i] EXCEPT !.added = now], i)
  /\ Goto(r, "template")
  /\ UNCHANGED <<store, now, want, began>>

Hit(r) ==
  /\ pc[r] = "lookup"
  /\ \E i \in Found(r) : got' = [got EXCEPT ![r] = cache[i].value] /\ cache' = ToFront(cache[i], i)
  /\ Goto(r, "template")
  /\ UNCHANGED <<store, now, want, began>>

Miss(r) ==
  /\ pc[r] = "lookup" /\ Found(r) = {}
  /\ Goto(r, "fetch")
  /\ UNCHANGED <<store, now, cache, want, got, began>>

\* The backend answers with the secret as it is now; the answer is yet to be read.
FetchAnswers(r) ==
  /\ pc[r] = "fetch"
  /\ got' = [got EXCEPT ![r] = Current(want[r])]
  /\ Goto(r, "add")
  /\ UNCHANGED <<store, now, cache, want, began>>

\* Slip: the error is dropped and the empty string taken for the secret.
FetchErrorDropped(r) ==
  /\ pc[r] = "fetch"
  /\ Goto(r, "add")
  /\ UNCHANGED <<store, now, cache, want, got, began>>

\* The backend is not reached within the timeout and the retries, refuses, has no
\* such secret, or (aws_sm_oauth) there is no key to sign a JWT with; or it has
\* answered, and the answer has no value, no such field, or (aws_sm_oauth) no
\* access token: 400, and nothing is added to the cache.
FetchFails(r) ==
  /\ pc[r] \in {"fetch", "add"}
  /\ Refuse(r)

Add(r) ==
  /\ pc[r] = "add"
  /\ Put([key |-> cacheKey(want[r]), value |-> got[r], added |-> now])
  /\ Goto(r, "template")
  /\ UNCHANGED <<store, now, want, got, began>>

\* The header is filled and the request sent on.
Forward(r) ==
  /\ pc[r] = "template"
  /\ Goto(r, "forwarded")
  /\ began' = [began EXCEPT ![r] = 0]
  /\ UNCHANGED <<store, now, cache, want, got>>

\* The header template is not of the form "name: value": 400, after the fetch.
RejectTemplate(r) ==
  /\ pc[r] = "template"
  /\ Refuse(r)

ServeHTTP(r) ==
  \/ Hit(r) \/ Miss(r) \/ FetchAnswers(r) \/ FetchFails(r)
  \/ Add(r) \/ Forward(r) \/ RejectTemplate(r)

Next ==
  \/ \E s \in Secrets : Rotate(s)
  \/ Tick \/ Purge
  \/ \E r \in Requests : Accept(r) \/ Reject(r) \/ ServeHTTP(r)

Spec == Init /\ [][Next]_vars

-----------------------------------------------------------------------------
\* What is cached has been fetched: no error, no empty string.
Entry == [key : {cacheKey(s) : s \in Secrets},
          value : [of : Secrets, version : 1..MaxVersion],
          added : 0..MaxTime]

TypeOK ==
  /\ store \in [Secrets -> Seq(0..MaxTime)]
  /\ \A s \in Secrets : Len(store[s]) \in 1..MaxVersion
  /\ now \in 0..MaxTime
  /\ cache \in Seq(Entry)
  /\ pc \in [Requests -> {"idle", "lookup", "fetch", "add", "template", "forwarded"}]
  /\ want \in [Requests -> Secrets] /\ got \in [Requests -> Value]
  /\ began \in [Requests -> 0..MaxTime]

\* A request is forwarded with the secret it asked for, in a version the backend
\* has held: never with the secret that another request put in the cache, nor with
\* what a failed fetch returns.  Nothing in the code but the format of the cache key
\* keeps two requests apart: the property holds of names without the separators,
\* and not of every name the headers can give.
AnswersOwnSecret ==
  \A r \in Requests : pc[r] \in {"template", "forwarded"} =>
    got[r].of = want[r] /\ got[r].version \in 1..Len(store[want[r]])

\* A rotated secret is not handed out for ever: a request is forwarded with the
\* old version within the TTL and the time of two requests after the rotation,
\* though hits keep the entry in the cache and a slow request may add the old
\* version after a faster one has added the new one.
Superseded(v) == Len(store[v.of]) > v.version
StaleAtMostTtl ==
  [][\A r \in Requests :
       /\ pc[r] # "forwarded" /\ pc'[r] = "forwarded"
       /\ CacheTtl > 0 /\ Superseded(got[r])
       => now < store[got[r].of][got[r].version + 1] + CacheTtl + 2 * MaxFlight]_vars
=============================================================================
