----------------------------- MODULE ProxyProofs -----------------------------
(***************************************************************************)
(* Proofs about Proxy, for any requests, secrets, capacity and TTL: a      *)
(* request is answered with the secret it asked for if the cache keys are  *)
(* unique, the keys are unique if the names hold no separator, and a       *)
(* rotated secret is not handed out for longer than the TTL allows.        *)
(***************************************************************************)
EXTENDS Proxy, SequenceTheorems, TLAPS

Entries == {cache[i] : i \in 1..Len(cache)}
ReplacedAt(v) == store[v.of][v.version + 1]

-----------------------------------------------------------------------------
(* What the operations of the cache do to its entries. *)

\* Where the j-th entry of ToFront(e, i) was, for j > 1.
Origin(i, j) == IF j <= i THEN j - 1 ELSE j
\* The length of ToFront(e, i).
Longer(i) == IF i > Len(cache) THEN i ELSE Len(cache)

\* ToFront puts the entry first, drops the i-th and keeps the others in order.
LEMMA FrontFacts ==
  ASSUME NEW S, cache \in Seq(S), NEW e \in S, NEW i \in 1..(Len(cache) + 1)
  PROVE  /\ ToFront(e, i) \in Seq(S) /\ Len(ToFront(e, i)) = Longer(i) /\ ToFront(e, i)[1] = e
         /\ Longer(i) \in Nat /\ Longer(i) >= 1
         /\ \A j \in 2..Longer(i) :
              /\ Origin(i, j) \in 1..Len(cache) /\ Origin(i, j) # i
              /\ ToFront(e, i)[j] = cache[Origin(i, j)]
         /\ \A j, k \in 2..Longer(i) : Origin(i, j) = Origin(i, k) => j = k
<1>1. Len(cache) \in Nat /\ Longer(i) \in Nat /\ Longer(i) >= 1
  BY DEF Longer
<1>2. \A j \in 2..Longer(i) : Origin(i, j) \in 1..Len(cache) /\ Origin(i, j) # i
  BY <1>1 DEF Longer, Origin
<1>3. \A j \in 1..Longer(i) : ToFront(e, i)[j] \in S
  BY <1>1, <1>2 DEF ToFront, Longer, Origin
<1>4. ToFront(e, i) \in Seq(S) /\ Len(ToFront(e, i)) = Longer(i)
  BY <1>1, <1>3 DEF ToFront, Longer
<1>5. ToFront(e, i)[1] = e
  BY <1>1 DEF ToFront, Longer
<1>6. \A j \in 2..Longer(i) : ToFront(e, i)[j] = cache[Origin(i, j)]
  BY <1>1 DEF ToFront, Longer, Origin
<1>7. \A j, k \in 2..Longer(i) : Origin(i, j) = Origin(i, k) => j = k
  BY <1>1 DEF Origin
<1> QED
  BY <1>1, <1>2, <1>4, <1>5, <1>6, <1>7

UniqueKeys == \A i, j \in 1..Len(cache) : cache[i].key = cache[j].key => i = j

\* Keys stay unique when the entry's key is at no other position.
LEMMA FrontUnique ==
  ASSUME NEW S, cache \in Seq(S), NEW e \in S, NEW i \in 1..(Len(cache) + 1),
         UniqueKeys, \A k \in 1..Len(cache) : cache[k].key = e.key => k = i,
         cache' = ToFront(e, i)
  PROVE  /\ cache' \in Seq(S) /\ Len(cache') = Longer(i)
         /\ UniqueKeys'
         /\ Entries' \subseteq Entries \cup {e}
<1>1. /\ cache' \in Seq(S) /\ Len(cache') = Longer(i) /\ cache'[1] = e
      /\ Longer(i) \in Nat /\ Longer(i) >= 1
      /\ \A j \in 2..Longer(i) : /\ Origin(i, j) \in 1..Len(cache) /\ Origin(i, j) # i
                                 /\ cache'[j] = cache[Origin(i, j)]
      /\ \A j, k \in 2..Longer(i) : Origin(i, j) = Origin(i, k) => j = k
  BY FrontFacts
<1>2. \A j, k \in 2..Longer(i) : cache'[j].key = cache'[k].key => j = k
  BY <1>1 DEF UniqueKeys
<1>3. \A j \in 2..Longer(i) : cache'[j].key # e.key
  BY <1>1
<1>4. \A j \in 1..Longer(i) : j = 1 \/ j \in 2..Longer(i)
  BY <1>1
<1>5. UniqueKeys'
  BY <1>1, <1>2, <1>3, <1>4 DEF UniqueKeys
<1>6. ASSUME NEW j \in 1..Longer(i) PROVE cache'[j] \in Entries \cup {e}
  <2>1. CASE j = 1
    BY <2>1, <1>1
  <2>2. CASE j \in 2..Longer(i)
    BY <2>2, <1>1, Zenon DEF Entries
  <2> QED
    BY <2>1, <2>2, <1>4
<1>7. Entries' \subseteq Entries \cup {e}
  BY <1>1, <1>6, Zenon DEF Entries
<1> QED
  BY <1>1, <1>5, <1>7

\* Add keeps the keys unique, and adds one entry at most.
LEMMA PutFacts ==
  ASSUME ProxyAssumption, NEW S, cache \in Seq(S), NEW e \in S, UniqueKeys, Put(e)
  PROVE  cache' \in Seq(S) /\ UniqueKeys' /\ Entries' \subseteq Entries \cup {e}
<1>1. UniqueKeys /\ Len(cache) \in Nat /\ CacheSize \in Nat
  BY ProxyAssumption DEF UniqueKeys
<1>2. PICK i \in 1..(Len(cache) + 1) :
        /\ cache' = ToFront(e, i)
        /\ \A k \in 1..Len(cache) : cache[k].key = e.key => k = i
  <2>1. CASE At(e.key) # {}
    <3>1. PICK i \in At(e.key) : cache' = ToFront(e, i)
      BY <2>1 DEF Put
    <3>2. i \in 1..Len(cache) /\ cache[i].key = e.key
      BY <3>1 DEF At
    <3> QED
      BY <1>1, <3>1, <3>2 DEF UniqueKeys
  <2>2. CASE At(e.key) = {}
    <3>1. cache' = ToFront(e, IF Full THEN Len(cache) ELSE Len(cache) + 1)
      BY <2>2 DEF Put
    <3>2. \A k \in 1..Len(cache) : cache[k].key # e.key
      BY <2>2 DEF At
    <3> QED
      BY <1>1, <3>1, <3>2 DEF Full, UniqueKeys
  <2> QED
    BY <2>1, <2>2
<1>3. /\ cache' \in Seq(S) /\ Len(cache') = Longer(i) /\ UniqueKeys'
      /\ Entries' \subseteq Entries \cup {e}
  BY <1>1, <1>2, FrontUnique
<1> QED
  BY <1>3

-----------------------------------------------------------------------------
(* The inductive invariant: what is cached or held has been fetched, and a  *)
(* request is not under way for longer than MaxFlight.                      *)

CacheInv ==
  \A e \in Entries :
    /\ e.key = cacheKey(e.value.of)
    /\ e.value.version <= Len(store[e.value.of])
    /\ e.added <= now

GotInv ==
  \A r \in Requests :
    /\ pc[r] \in {"add", "template", "forwarded"} => got[r].version \in 1..Len(store[got[r].of])
    /\ pc[r] = "add" => got[r].of = want[r]

FlightInv ==
  \A r \in Requests :
    pc[r] \notin {"idle", "forwarded"} => began[r] <= now /\ now <= began[r] + MaxFlight

IInv == TypeOK /\ UniqueKeys /\ CacheInv /\ GotInv /\ FlightInv

\* The constants are natural numbers.
LEMMA ConstantFacts ==
  /\ CacheSize \in Nat /\ CacheTtl \in Nat /\ MaxFlight \in Nat
  /\ MaxTime \in Nat /\ MaxVersion \in Nat /\ MaxVersion > 0
BY ProxyAssumption

\* Every entry of the cache is an Entry.
LEMMA EntriesTyped == ASSUME TypeOK PROVE Entries \subseteq Entry
BY DEF TypeOK, Entries

LEMMA InitInv == Init => IInv
<1> SUFFICES ASSUME Init PROVE IInv
  OBVIOUS
<1>1. Entries = {} /\ Len(cache) = 0
  BY DEF Init, Entries
<1>2. TypeOK
  <2>1. <<0>> \in Seq(0..MaxTime) /\ Len(<<0>>) = 1
    BY ConstantFacts
  <2>2. got \in [Requests -> Value]
    BY ConstantFacts DEF Init, Empty, Value
  <2> QED
    BY <2>1, <2>2, ConstantFacts DEF Init, TypeOK
<1>3. UniqueKeys
  BY <1>1, ConstantFacts DEF UniqueKeys
<1>4. CacheInv
  BY <1>1 DEF CacheInv
<1>5. GotInv /\ FlightInv
  BY DEF Init, GotInv, FlightInv
<1> QED
  BY <1>2, <1>3, <1>4, <1>5 DEF IInv

\* A rotation appends a version to one secret and changes no older one.
LEMMA RotateFacts ==
  ASSUME TypeOK, NEW s \in Secrets, Rotate(s)
  PROVE  /\ store' \in [Secrets -> Seq(0..MaxTime)]
         /\ \A t \in Secrets :
              /\ Len(store[t]) \in Nat
              /\ Len(store'[t]) = IF t = s THEN Len(store[t]) + 1 ELSE Len(store[t])
              /\ \A n \in 1..Len(store[t]) : store'[t][n] = store[t][n]
              /\ t = s => store'[t][Len(store[t]) + 1] = now
              /\ Len(store'[t]) \in 1..MaxVersion
<1>1. store[s] \in Seq(0..MaxTime) /\ now \in 0..MaxTime
  BY DEF TypeOK
<1>2. Append(store[s], now) \in Seq(0..MaxTime)
  BY <1>1
<1>3. store' \in [Secrets -> Seq(0..MaxTime)]
  BY <1>2 DEF TypeOK, Rotate
<1>4. ASSUME NEW t \in Secrets
      PROVE  /\ Len(store[t]) \in Nat
             /\ Len(store'[t]) = IF t = s THEN Len(store[t]) + 1 ELSE Len(store[t])
             /\ \A n \in 1..Len(store[t]) : store'[t][n] = store[t][n]
             /\ t = s => store'[t][Len(store[t]) + 1] = now
             /\ Len(store'[t]) \in 1..MaxVersion
  <2>1. store[t] \in Seq(0..MaxTime) /\ Len(store[t]) \in 1..MaxVersion
    BY DEF TypeOK
  <2>2. CASE t = s
    <3>1. store'[t] = Append(store[t], now)
      BY <2>2 DEF Rotate, TypeOK
    <3> QED
      BY <2>1, <2>2, <3>1, <1>1, ConstantFacts DEF Rotate
  <2>3. CASE t # s
    <3>1. store'[t] = store[t]
      BY <2>3 DEF Rotate, TypeOK
    <3> QED
      BY <2>1, <2>3, <3>1
  <2> QED
    BY <2>2, <2>3
<1> QED
  BY <1>3, <1>4

\* Purge drops an entry and keeps the others.
LEMMA PurgeFacts ==
  ASSUME TypeOK, UniqueKeys, Purge
  PROVE  cache' \in Seq(Entry) /\ UniqueKeys' /\ Entries' \subseteq Entries
<1>1. PICK i \in 1..Len(cache) :
        cache' = [j \in 1..(Len(cache) - 1) |-> IF j < i THEN cache[j] ELSE cache[j + 1]]
  BY DEF Purge
<1> DEFINE src(j) == IF j < i THEN j ELSE j + 1
<1>2. cache \in Seq(Entry) /\ Len(cache) \in Nat
  BY DEF TypeOK
<1>3. \A j \in 1..(Len(cache) - 1) : src(j) \in 1..Len(cache) /\ cache'[j] = cache[src(j)]
  BY <1>1, <1>2
<1>4. \A j \in 1..(Len(cache) - 1) : cache'[j] \in Entry
  BY <1>2, <1>3
<1>5. cache' \in Seq(Entry) /\ Len(cache') = Len(cache) - 1
  BY <1>1, <1>2, <1>4
<1>6. \A j, k \in 1..(Len(cache) - 1) : src(j) = src(k) => j = k
  BY <1>2
<1>7. UniqueKeys'
  <2>1. SUFFICES ASSUME NEW j \in 1..(Len(cache) - 1), NEW k \in 1..(Len(cache) - 1),
                        cache'[j].key = cache'[k].key
                 PROVE  j = k
    BY <1>5, Zenon DEF UniqueKeys
  <2> HIDE DEF src
  <2>2. /\ src(j) \in 1..Len(cache) /\ src(k) \in 1..Len(cache)
        /\ cache[src(j)].key = cache[src(k)].key
    BY <1>3, <2>1, Zenon
  <2>3. src(j) = src(k)
    BY <2>2, Zenon DEF UniqueKeys
  <2> QED
    BY <1>6, <2>3, Zenon
<1>8. \A j \in 1..(Len(cache) - 1) : cache'[j] \in Entries
  BY <1>3, Zenon DEF Entries
<1>9. Entries' \subseteq Entries
  BY <1>5, <1>8, Zenon DEF Entries
<1> QED
  BY <1>5, <1>7, <1>9

\* A hit moves the entry to the front.
LEMMA HitFacts ==
  ASSUME TypeOK, UniqueKeys, NEW r \in Requests, Hit(r)
  PROVE  /\ cache' \in Seq(Entry) /\ UniqueKeys' /\ Entries' \subseteq Entries
         /\ \E e \in Entries : /\ e.key = cacheKey(want[r]) /\ Live(e)
                               /\ got' = [got EXCEPT ![r] = e.value]
<1>1. PICK i \in Found(r) : got' = [got EXCEPT ![r] = cache[i].value] /\ cache' = ToFront(cache[i], i)
  BY DEF Hit
<1>2. i \in 1..Len(cache) /\ cache[i].key = cacheKey(want[r]) /\ Live(cache[i])
  BY <1>1, Zenon DEF Found, At
<1>3. cache \in Seq(Entry) /\ Len(cache) \in Nat /\ cache[i] \in Entry /\ cache[i] \in Entries
  BY <1>2 DEF TypeOK, Entries
<1>4. UniqueKeys /\ i \in 1..(Len(cache) + 1) /\ Longer(i) = Len(cache)
  BY <1>2, <1>3 DEF UniqueKeys, Longer
<1>5. \A k \in 1..Len(cache) : cache[k].key = cache[i].key => k = i
  BY <1>2, <1>4 DEF UniqueKeys
<1>6. /\ cache' \in Seq(Entry) /\ Len(cache') = Longer(i) /\ UniqueKeys'
      /\ Entries' \subseteq Entries \cup {cache[i]}
  BY <1>1, <1>3, <1>4, <1>5, FrontUnique
<1>7. UniqueKeys'
  BY <1>4, <1>6 DEF UniqueKeys
<1> QED
  BY <1>1, <1>2, <1>3, <1>6, <1>7

-----------------------------------------------------------------------------
(* Every action preserves the inductive invariant. *)

\* A step that changes only the requests leaves the cache as good as it was.
LEMMA LocalStep ==
  ASSUME IInv, UNCHANGED <<store, now, cache>>
  PROVE  UniqueKeys' /\ CacheInv' /\ Entries' = Entries
<1>1. Entries' = Entries
  BY DEF Entries
<1> QED
  BY <1>1 DEF IInv, UniqueKeys, CacheInv

LEMMA StepRotate == ASSUME IInv, NEW s \in Secrets, Rotate(s) PROVE IInv'
<1>1. /\ store' \in [Secrets -> Seq(0..MaxTime)]
      /\ \A t \in Secrets :
           /\ Len(store[t]) \in Nat
           /\ Len(store'[t]) = IF t = s THEN Len(store[t]) + 1 ELSE Len(store[t])
           /\ Len(store'[t]) \in 1..MaxVersion
  BY RotateFacts DEF IInv
<1>2. UNCHANGED <<now, cache, pc, want, got, began>> /\ Entries' = Entries
  BY DEF Rotate, handler, Entries
<1>3. TypeOK'
  BY <1>1, <1>2 DEF IInv, TypeOK
<1>4. UniqueKeys' /\ FlightInv'
  BY <1>2 DEF IInv, UniqueKeys, FlightInv
<1>5. CacheInv'
  <2>1. \A e \in Entries : e.value.of \in Secrets /\ e.value.version \in Nat
    BY EntriesTyped, ConstantFacts DEF IInv, Entry
  <2> QED
    BY <1>1, <1>2, <2>1 DEF IInv, CacheInv
<1>6. GotInv'
  <2>1. \A r \in Requests : got[r].of \in Secrets /\ got[r].version \in Nat
    BY ConstantFacts DEF IInv, TypeOK, Value
  <2> QED
    BY <1>1, <1>2, <2>1 DEF IInv, GotInv
<1> QED
  BY <1>3, <1>4, <1>5, <1>6 DEF IInv

LEMMA StepTick == ASSUME IInv, Tick PROVE IInv'
<1>1. now' = now + 1 /\ now < MaxTime /\ now \in Nat /\ now' \in 0..MaxTime
  BY ConstantFacts DEF IInv, TypeOK, Tick
<1>2. UNCHANGED <<store, cache, pc, want, got, began>> /\ Entries' = Entries
  BY DEF Tick, handler, Entries
<1>3. TypeOK'
  BY <1>1, <1>2 DEF IInv, TypeOK
<1>4. UniqueKeys' /\ GotInv'
  BY <1>2 DEF IInv, UniqueKeys, GotInv
<1>5. CacheInv'
  <2>1. \A e \in Entries : e.added \in Nat
    BY EntriesTyped, ConstantFacts DEF IInv, Entry
  <2> QED
    BY <1>1, <1>2, <2>1 DEF IInv, CacheInv
<1>6. FlightInv'
  <2>1. \A r \in Requests : began[r] \in Nat
    BY ConstantFacts DEF IInv, TypeOK
  <2> QED
    BY <1>1, <1>2, <2>1, ConstantFacts DEF IInv, FlightInv, Tick, Free
<1> QED
  BY <1>3, <1>4, <1>5, <1>6 DEF IInv

LEMMA StepPurge == ASSUME IInv, Purge PROVE IInv'
<1>1. UNCHANGED <<store, now, pc, want, got, began>>
  BY DEF Purge, handler
<1>2. cache' \in Seq(Entry) /\ UniqueKeys' /\ Entries' \subseteq Entries
  BY PurgeFacts DEF IInv
<1>3. TypeOK'
  BY <1>1, <1>2 DEF IInv, TypeOK, Entry, Value
<1>4. CacheInv' /\ GotInv' /\ FlightInv'
  BY <1>1, <1>2 DEF IInv, CacheInv, GotInv, FlightInv
<1> QED
  BY <1>2, <1>3, <1>4 DEF IInv

LEMMA StepAccept == ASSUME IInv, NEW r \in Requests, Accept(r) PROVE IInv'
<1>1. PICK s \in Secrets : want' = [want EXCEPT ![r] = s] /\ got' = [got EXCEPT ![r] = Empty(s)]
  BY DEF Accept
<1>2. /\ pc' = [pc EXCEPT ![r] = "lookup"] /\ began' = [began EXCEPT ![r] = now]
      /\ UNCHANGED <<store, now, cache>>
  BY DEF Accept, Goto
<1>3. Empty(s) \in Value
  BY ConstantFacts DEF Empty, Value
<1>4. TypeOK'
  BY <1>1, <1>2, <1>3 DEF IInv, TypeOK
<1>5. GotInv'
  BY <1>1, <1>2 DEF IInv, TypeOK, GotInv
<1>6. FlightInv'
  BY <1>2, ConstantFacts DEF IInv, TypeOK, FlightInv
<1> QED
  BY <1>2, <1>4, <1>5, <1>6, LocalStep DEF IInv

LEMMA StepRefuse == ASSUME IInv, NEW r \in Requests, Refuse(r) PROVE IInv'
<1>1. /\ pc' = [pc EXCEPT ![r] = "idle"] /\ began' = [began EXCEPT ![r] = 0]
      /\ got' = [got EXCEPT ![r] = Empty(want[r])]
      /\ UNCHANGED <<store, now, cache, want>>
  BY DEF Refuse, Goto
<1>2. Empty(want[r]) \in Value
  BY ConstantFacts DEF Empty, Value, IInv, TypeOK
<1>3. TypeOK'
  BY <1>1, <1>2, ConstantFacts DEF IInv, TypeOK
<1>4. GotInv' /\ FlightInv'
  BY <1>1 DEF IInv, TypeOK, GotInv, FlightInv
<1> QED
  BY <1>1, <1>3, <1>4, LocalStep DEF IInv

LEMMA StepHit == ASSUME IInv, NEW r \in Requests, Hit(r) PROVE IInv'
<1>1. /\ pc[r] = "lookup" /\ pc' = [pc EXCEPT ![r] = "template"]
      /\ UNCHANGED <<store, now, want, began>>
  BY DEF Hit, Goto
<1>2. cache' \in Seq(Entry) /\ UniqueKeys' /\ Entries' \subseteq Entries
  BY HitFacts DEF IInv
<1>3. PICK e \in Entries : got' = [got EXCEPT ![r] = e.value]
  BY HitFacts DEF IInv
<1>4. e.value \in Value /\ e.value.version \in 1..Len(store[e.value.of])
  <2>1. e.value \in [of : Secrets, version : 1..MaxVersion]
    BY EntriesTyped DEF IInv, Entry
  <2>2. e.value.version <= Len(store[e.value.of]) /\ Len(store[e.value.of]) \in 1..MaxVersion
    BY <2>1 DEF IInv, TypeOK, CacheInv
  <2> QED
    BY <2>1, <2>2, ConstantFacts DEF Value
<1>5. TypeOK'
  BY <1>1, <1>2, <1>3, <1>4 DEF IInv, TypeOK
<1>6. GotInv'
  BY <1>1, <1>3, <1>4 DEF IInv, TypeOK, GotInv
<1>7. FlightInv'
  BY <1>1 DEF IInv, TypeOK, FlightInv
<1>8. CacheInv'
  BY <1>1, <1>2 DEF IInv, CacheInv
<1> QED
  BY <1>2, <1>5, <1>6, <1>7, <1>8 DEF IInv

LEMMA StepMiss == ASSUME IInv, NEW r \in Requests, Miss(r) PROVE IInv'
<1>1. /\ pc[r] = "lookup" /\ pc' = [pc EXCEPT ![r] = "fetch"]
      /\ UNCHANGED <<store, now, cache, want, got, began>>
  BY DEF Miss, Goto
<1>2. TypeOK' /\ GotInv' /\ FlightInv'
  BY <1>1 DEF IInv, TypeOK, GotInv, FlightInv
<1> QED
  BY <1>1, <1>2, LocalStep DEF IInv

LEMMA StepFetchAnswers == ASSUME IInv, NEW r \in Requests, FetchAnswers(r) PROVE IInv'
<1>1. /\ pc[r] = "fetch" /\ pc' = [pc EXCEPT ![r] = "add"]
      /\ got' = [got EXCEPT ![r] = Current(want[r])]
      /\ UNCHANGED <<store, now, cache, want, began>>
  BY DEF FetchAnswers, Goto
<1>2. want[r] \in Secrets /\ Len(store[want[r]]) \in 1..MaxVersion
  BY DEF IInv, TypeOK
<1>3. /\ Current(want[r]) \in Value /\ Current(want[r]).of = want[r]
      /\ Current(want[r]).version \in 1..Len(store[want[r]])
  BY <1>2, ConstantFacts DEF Current, Value
<1>4. TypeOK'
  BY <1>1, <1>3 DEF IInv, TypeOK
<1>5. GotInv' /\ FlightInv'
  BY <1>1, <1>3 DEF IInv, TypeOK, GotInv, FlightInv
<1> QED
  BY <1>1, <1>4, <1>5, LocalStep DEF IInv

\* The entry that Add puts into the cache.
Fresh(r) == [key |-> cacheKey(want[r]), value |-> got[r], added |-> now]

LEMMA AddFacts ==
  ASSUME IInv, NEW r \in Requests, Add(r)
  PROVE  /\ pc[r] = "add" /\ pc' = [pc EXCEPT ![r] = "template"]
         /\ UNCHANGED <<store, now, want, got, began>>
         /\ Fresh(r) \in Entry
         /\ cache' \in Seq(Entry) /\ UniqueKeys' /\ Entries' \subseteq Entries \cup {Fresh(r)}
<1>1. /\ pc[r] = "add" /\ pc' = [pc EXCEPT ![r] = "template"] /\ Put(Fresh(r))
      /\ UNCHANGED <<store, now, want, got, began>>
  BY DEF Add, Goto, Fresh
<1>2. /\ want[r] \in Secrets /\ got[r] \in Value /\ now \in 0..MaxTime
      /\ got[r].version \in 1..Len(store[got[r].of]) /\ Len(store[got[r].of]) \in 1..MaxVersion
  BY <1>1 DEF IInv, TypeOK, GotInv, Value
<1>3. got[r] \in [of : Secrets, version : 1..MaxVersion]
  BY <1>2, ConstantFacts DEF Value
<1>4. Fresh(r) \in Entry
  BY <1>2, <1>3 DEF Fresh, Entry
<1>5. cache' \in Seq(Entry) /\ UniqueKeys' /\ Entries' \subseteq Entries \cup {Fresh(r)}
  BY <1>1, <1>4, PutFacts, ProxyAssumption DEF IInv, TypeOK
<1> QED
  BY <1>1, <1>4, <1>5

LEMMA StepAdd == ASSUME IInv, NEW r \in Requests, Add(r) PROVE IInv'
<1>1. /\ pc[r] = "add" /\ pc' = [pc EXCEPT ![r] = "template"]
      /\ UNCHANGED <<store, now, want, got, began>>
      /\ cache' \in Seq(Entry) /\ UniqueKeys' /\ Entries' \subseteq Entries \cup {Fresh(r)}
  BY AddFacts
<1>2. TypeOK' /\ GotInv' /\ FlightInv'
  BY <1>1 DEF IInv, TypeOK, GotInv, FlightInv
<1>3. /\ Fresh(r).key = cacheKey(Fresh(r).value.of) /\ Fresh(r).added <= now
      /\ Fresh(r).value.version <= Len(store[Fresh(r).value.of])
  BY <1>1, ConstantFacts DEF IInv, TypeOK, GotInv, Fresh, Value
<1>4. CacheInv'
  BY <1>1, <1>3 DEF IInv, CacheInv
<1> QED
  BY <1>1, <1>2, <1>4 DEF IInv

LEMMA StepForward == ASSUME IInv, NEW r \in Requests, Forward(r) PROVE IInv'
<1>1. /\ pc[r] = "template" /\ pc' = [pc EXCEPT ![r] = "forwarded"]
      /\ began' = [began EXCEPT ![r] = 0]
      /\ UNCHANGED <<store, now, cache, want, got>>
  BY DEF Forward, Goto
<1>2. TypeOK' /\ GotInv' /\ FlightInv'
  BY <1>1, ConstantFacts DEF IInv, TypeOK, GotInv, FlightInv
<1> QED
  BY <1>1, <1>2, LocalStep DEF IInv

LEMMA StepInv == IInv /\ [Next]_vars => IInv'
<1> SUFFICES ASSUME IInv, [Next]_vars PROVE IInv'
  OBVIOUS
<1>1. ASSUME NEW s \in Secrets, Rotate(s) PROVE IInv'
  BY <1>1, StepRotate
<1>2. ASSUME Tick \/ Purge PROVE IInv'
  BY <1>2, StepTick, StepPurge
<1>3. ASSUME NEW r \in Requests, Accept(r) PROVE IInv'
  BY <1>3, StepAccept
<1>4. ASSUME NEW r \in Requests, Reject(r) \/ FetchFails(r) \/ RejectTemplate(r) PROVE IInv'
  BY <1>4, StepRefuse DEF Reject, FetchFails, RejectTemplate
<1>5. ASSUME NEW r \in Requests, Hit(r) \/ Miss(r) PROVE IInv'
  BY <1>5, StepHit, StepMiss
<1>6. ASSUME NEW r \in Requests, FetchAnswers(r) \/ Add(r) PROVE IInv'
  BY <1>6, StepFetchAnswers, StepAdd
<1>7. ASSUME NEW r \in Requests, Forward(r) PROVE IInv'
  BY <1>7, StepForward
<1>8. CASE UNCHANGED vars
  <2>1. UNCHANGED <<store, now, cache, pc, want, got, began>>
    BY <1>8 DEF vars
  <2>2. TypeOK' /\ GotInv' /\ FlightInv'
    BY <2>1 DEF IInv, TypeOK, GotInv, FlightInv
  <2> QED
    BY <2>1, <2>2, LocalStep DEF IInv
<1> QED
  BY <1>1, <1>2, <1>3, <1>4, <1>5, <1>6, <1>7, <1>8 DEF Next, ServeHTTP

LEMMA Inductive == Spec => []IInv
<1>1. Init => IInv
  BY InitInv
<1>2. IInv /\ [Next]_vars => IInv'
  BY StepInv
<1> QED
  BY <1>1, <1>2, PTL DEF Spec

-----------------------------------------------------------------------------
\* The variables keep their types; in particular nothing but fetched versions
\* of secrets is ever cached.
THEOREM TypeCorrect == Spec => []TypeOK
<1>1. IInv => TypeOK
  BY DEF IInv
<1> QED
  BY <1>1, Inductive, PTL

-----------------------------------------------------------------------------
(* A request gets the secret it asked for, if no two secrets have one key. *)

UniqueCacheKeys == \A s, t \in Secrets : cacheKey(s) = cacheKey(t) => s = t

OwnInv == \A r \in Requests : pc[r] \in {"template", "forwarded"} => got[r].of = want[r]

LEMMA StepOwn == ASSUME UniqueCacheKeys PROVE IInv /\ OwnInv /\ [Next]_vars => OwnInv'
<1> SUFFICES ASSUME IInv, OwnInv, [Next]_vars PROVE OwnInv'
  OBVIOUS
<1>1. ASSUME NEW s \in Secrets, Rotate(s) PROVE OwnInv'
  BY <1>1 DEF Rotate, handler, OwnInv
<1>2. ASSUME Tick \/ Purge PROVE OwnInv'
  BY <1>2 DEF Tick, Purge, handler, OwnInv
<1>3. ASSUME NEW r \in Requests, Accept(r) PROVE OwnInv'
  BY <1>3 DEF Accept, Goto, IInv, TypeOK, OwnInv
<1>4. ASSUME NEW r \in Requests, Reject(r) \/ FetchFails(r) \/ RejectTemplate(r) PROVE OwnInv'
  BY <1>4 DEF Reject, FetchFails, RejectTemplate, Refuse, Goto, IInv, TypeOK, OwnInv
<1>5. ASSUME NEW r \in Requests, Hit(r) PROVE OwnInv'
  <2>1. /\ pc' = [pc EXCEPT ![r] = "template"] /\ UNCHANGED want
        /\ want[r] \in Secrets
    BY <1>5 DEF Hit, Goto, IInv, TypeOK
  <2>2. PICK e \in Entries : e.key = cacheKey(want[r]) /\ got' = [got EXCEPT ![r] = e.value]
    BY <1>5, HitFacts DEF IInv
  <2>3. e.value.of \in Secrets /\ e.key = cacheKey(e.value.of)
    BY EntriesTyped DEF IInv, CacheInv, Entry
  <2>4. e.value.of = want[r]
    BY <2>1, <2>2, <2>3, UniqueCacheKeys, Zenon DEF UniqueCacheKeys
  <2> QED
    BY <2>1, <2>2, <2>4 DEF IInv, TypeOK, OwnInv
<1>6. ASSUME NEW r \in Requests, Miss(r) \/ FetchAnswers(r) PROVE OwnInv'
  BY <1>6 DEF Miss, FetchAnswers, Goto, IInv, TypeOK, OwnInv
<1>7. ASSUME NEW r \in Requests, Add(r) PROVE OwnInv'
  BY <1>7 DEF Add, Goto, IInv, TypeOK, GotInv, OwnInv
<1>8. ASSUME NEW r \in Requests, Forward(r) PROVE OwnInv'
  BY <1>8 DEF Forward, Goto, IInv, TypeOK, OwnInv
<1>9. CASE UNCHANGED vars
  BY <1>9 DEF vars, OwnInv
<1> QED
  BY <1>1, <1>2, <1>3, <1>4, <1>5, <1>6, <1>7, <1>8, <1>9 DEF Next, ServeHTTP

\* A request is forwarded with the secret it asked for, never with another one
\* from the cache it shares with other requests, if cacheKey tells secrets apart.
THEOREM OwnSecret == UniqueCacheKeys => (Spec => []AnswersOwnSecret)
<1> SUFFICES ASSUME UniqueCacheKeys PROVE Spec => []AnswersOwnSecret
  OBVIOUS
<1>1. Init => OwnInv
  BY DEF Init, OwnInv
<1>2. IInv /\ OwnInv /\ [Next]_vars => OwnInv'
  BY StepOwn
<1>3. IInv /\ OwnInv => AnswersOwnSecret
  <2> SUFFICES ASSUME IInv, OwnInv, NEW r \in Requests, pc[r] \in {"template", "forwarded"}
               PROVE  got[r].of = want[r] /\ got[r].version \in 1..Len(store[want[r]])
    BY DEF AnswersOwnSecret
  <2> QED
    BY DEF IInv, GotInv, OwnInv
<1> QED
  BY <1>1, <1>2, <1>3, Inductive, PTL DEF Spec

-----------------------------------------------------------------------------
(* When keys are unique.  The strings of a key are joined without escaping,  *)
(* so it depends on what they may contain.                                   *)

Without(a, x) == \A n \in 1..Len(a) : a[n] # x

\* What stands before the first occurrence of x, and what after it, is
\* determined.
LEMMA FirstSeparator ==
  ASSUME NEW T, NEW x \in T, NEW a \in Seq(T), NEW b \in Seq(T),
         NEW u \in Seq(T), NEW v \in Seq(T),
         Without(a, x), Without(b, x),
         (a \o <<x>>) \o u = (b \o <<x>>) \o v
  PROVE  a = b /\ u = v
<1> DEFINE p == a \o <<x>>
           q == b \o <<x>>
<1>1. <<x>> \in Seq(T) /\ Len(<<x>>) = 1 /\ <<x>>[1] = x
  OBVIOUS
<1>2. Len(a) \in Nat /\ Len(b) \in Nat /\ Len(u) \in Nat /\ Len(v) \in Nat
  BY LenProperties
<1>3. /\ p \in Seq(T) /\ Len(p) = Len(a) + 1
      /\ \A n \in 1..Len(a) : p[n] = a[n]
      /\ p[Len(a) + 1] = x
  BY <1>1, <1>2, ConcatProperties
<1>4. /\ q \in Seq(T) /\ Len(q) = Len(b) + 1
      /\ \A n \in 1..Len(b) : q[n] = b[n]
      /\ q[Len(b) + 1] = x
  BY <1>1, <1>2, ConcatProperties
<1> HIDE DEF p, q
<1>5. /\ \A n \in 1..Len(p) : (p \o u)[n] = p[n]
      /\ \A n \in 1..Len(q) : (q \o v)[n] = q[n]
  BY <1>2, <1>3, <1>4, ConcatProperties
<1>6. p \o u = q \o v
  BY DEF p, q
<1>7. ~(Len(a) < Len(b))
  <2> SUFFICES ASSUME Len(a) < Len(b) PROVE FALSE
    OBVIOUS
  <2>1. Len(a) + 1 \in 1..Len(b) /\ Len(a) + 1 \in 1..Len(p) /\ Len(a) + 1 \in 1..Len(q)
    BY <1>2, <1>3, <1>4
  <2>2. p[Len(a) + 1] = q[Len(a) + 1]
    BY <1>5, <1>6, <2>1
  <2> QED
    BY <1>3, <1>4, <2>1, <2>2 DEF Without
<1>8. ~(Len(b) < Len(a))
  <2> SUFFICES ASSUME Len(b) < Len(a) PROVE FALSE
    OBVIOUS
  <2>1. Len(b) + 1 \in 1..Len(a) /\ Len(b) + 1 \in 1..Len(p) /\ Len(b) + 1 \in 1..Len(q)
    BY <1>2, <1>3, <1>4
  <2>2. p[Len(b) + 1] = q[Len(b) + 1]
    BY <1>5, <1>6, <2>1
  <2> QED
    BY <1>3, <1>4, <2>1, <2>2 DEF Without
<1>9. Len(a) = Len(b)
  BY <1>2, <1>7, <1>8
<1>10. \A n \in 1..Len(a) : a[n] = b[n]
  <2> TAKE n \in 1..Len(a)
  <2>1. n \in 1..Len(p) /\ n \in 1..Len(q) /\ n \in 1..Len(b)
    BY <1>2, <1>3, <1>4, <1>9
  <2> QED
    BY <1>3, <1>4, <1>5, <1>6, <2>1
<1>11. a = b
  BY <1>9, <1>10, SeqEqual
<1>12. p = q
  BY <1>11 DEF p, q
<1>13. u = v
  BY <1>3, <1>6, <1>12, ConcatSimplifications
<1> QED
  BY <1>11, <1>13

\* Concatenation under a name of its own, and all that the steps below use of it.
Cat(a, b) == a \o b
CatClosed(T) == \A p, q \in Seq(T) : Cat(p, q) \in Seq(T)
CatAssociative(T) == \A p, q, w \in Seq(T) : Cat(Cat(p, q), w) = Cat(p, Cat(q, w))
CatSplits(T) ==
  \A y \in T : \A p, q, w, z \in Seq(T) :
    Without(p, y) /\ Without(q, y) /\ Cat(Cat(p, <<y>>), w) = Cat(Cat(q, <<y>>), z) =>
      p = q /\ w = z

LEMMA CatFacts == ASSUME NEW T PROVE CatClosed(T) /\ CatAssociative(T) /\ CatSplits(T)
<1>1. \A a, b \in Seq(T) : Cat(a, b) \in Seq(T)
  BY ConcatProperties DEF Cat
<1>2. \A a, b, c \in Seq(T) : Cat(Cat(a, b), c) = Cat(a, Cat(b, c))
  BY ConcatAssociative DEF Cat
<1>3. ASSUME NEW x \in T, NEW a \in Seq(T), NEW b \in Seq(T),
             NEW u \in Seq(T), NEW v \in Seq(T),
             Without(a, x), Without(b, x),
             Cat(Cat(a, <<x>>), u) = Cat(Cat(b, <<x>>), v)
      PROVE  a = b /\ u = v
  <2>1. (a \o <<x>>) \o u = (b \o <<x>>) \o v
    BY <1>3, Zenon DEF Cat
  <2> QED
    BY <1>3, <2>1, FirstSeparator
<1> QED
  BY <1>1, <1>2, <1>3 DEF CatClosed, CatAssociative, CatSplits

\* The strings of a secret are over an alphabet T; each separator is one letter,
\* which does not occur in the string before it.  What comes after does not
\* matter: a path of Vault may hold "/", a field anything.
CleanNames(T) ==
  /\ \A s \in Secrets : s \in Seq(Seq(T)) /\ Len(s) = 4
  /\ \A i \in 1..3 : Separators[i][1] \in T /\ Separators[i] = <<Separators[i][1]>>
  /\ \A s \in Secrets : \A i \in 1..3 : Without(s[i], Separators[i][1])

\* The strings and the separators of clean names are over the alphabet.
LEMMA KeyTypes ==
  ASSUME NEW T, CleanNames(T)
  PROVE  /\ \A i \in 1..3 : Separators[i] \in Seq(T)
         /\ \A s \in Secrets : \A i \in 1..4 : s[i] \in Seq(T)
<1>1. ASSUME NEW i \in 1..3 PROVE Separators[i] \in Seq(T)
  <2>1. <<Separators[i][1]>> \in Seq(T)
    BY DEF CleanNames
  <2> QED
    BY <2>1 DEF CleanNames
<1>2. ASSUME NEW s \in Secrets, NEW i \in 1..4 PROVE s[i] \in Seq(T)
  BY ElementOfSeq DEF CleanNames
<1> QED
  BY <1>1, <1>2

\* The key of a secret, separator by separator.
Rest4(s) == s[4]
Rest3(s) == Cat(Cat(s[3], Separators[3]), Rest4(s))
Rest2(s) == Cat(Cat(s[2], Separators[2]), Rest3(s))
Rest1(s) == Cat(Cat(s[1], Separators[1]), Rest2(s))

LEMMA KeyParts ==
  ASSUME NEW T, CleanNames(T), NEW s \in Secrets
  PROVE  /\ Rest4(s) \in Seq(T) /\ Rest3(s) \in Seq(T) /\ Rest2(s) \in Seq(T)
         /\ cacheKey(s) = Rest1(s)
<1> DEFINE a == Cat(s[1], Separators[1])
           b == Cat(s[2], Separators[2])
           c == Cat(s[3], Separators[3])
<1>0. CatClosed(T) /\ CatAssociative(T) /\ CatSplits(T)
  BY CatFacts
<1>1. s[1] \in Seq(T) /\ s[2] \in Seq(T) /\ s[3] \in Seq(T) /\ s[4] \in Seq(T)
  BY KeyTypes
<1>2. Separators[1] \in Seq(T) /\ Separators[2] \in Seq(T) /\ Separators[3] \in Seq(T)
  BY KeyTypes
<1>3. a \in Seq(T) /\ b \in Seq(T) /\ c \in Seq(T)
  BY <1>0, <1>1, <1>2 DEF CatClosed
<1>4. Cat(c, s[4]) \in Seq(T) /\ Cat(b, Cat(c, s[4])) \in Seq(T) /\ Cat(a, b) \in Seq(T)
  BY <1>0, <1>1, <1>3 DEF CatClosed
<1>5. cacheKey(s) =
        Cat(Cat(Cat(Cat(Cat(a, s[2]), Separators[2]), s[3]), Separators[3]), s[4])
  BY Zenon DEF cacheKey, Cat
<1>6. Cat(Cat(a, s[2]), Separators[2]) = Cat(a, b)
  BY <1>0, <1>1, <1>2, <1>3 DEF CatAssociative
<1>7. Cat(Cat(Cat(a, b), s[3]), Separators[3]) = Cat(Cat(a, b), c)
  BY <1>0, <1>1, <1>2, <1>4 DEF CatAssociative
<1>8. Cat(Cat(Cat(a, b), c), s[4]) = Cat(a, Cat(b, Cat(c, s[4])))
  BY <1>0, <1>1, <1>3, <1>4 DEF CatAssociative
<1> QED
  BY <1>1, <1>4, <1>5, <1>6, <1>7, <1>8 DEF Rest1, Rest2, Rest3, Rest4

\* No two secrets with clean names have one key.
LEMMA CleanNamesUnique == ASSUME NEW T, CleanNames(T) PROVE UniqueCacheKeys
<1> SUFFICES ASSUME NEW s \in Secrets, NEW t \in Secrets, cacheKey(s) = cacheKey(t)
             PROVE  s = t
  BY DEF UniqueCacheKeys
<1>0. CatClosed(T) /\ CatAssociative(T) /\ CatSplits(T)
  BY CatFacts
<1>1. \A i \in 1..3 : \A u, v \in Seq(T) :
        Cat(Cat(s[i], Separators[i]), u) = Cat(Cat(t[i], Separators[i]), v) =>
          s[i] = t[i] /\ u = v
  <2> SUFFICES ASSUME NEW i \in 1..3, NEW u \in Seq(T), NEW v \in Seq(T),
                      Cat(Cat(s[i], Separators[i]), u) = Cat(Cat(t[i], Separators[i]), v)
               PROVE  s[i] = t[i] /\ u = v
    OBVIOUS
  <2> DEFINE x == Separators[i][1]
  <2>1. x \in T /\ Separators[i] = <<x>> /\ s[i] \in Seq(T) /\ t[i] \in Seq(T)
    BY KeyTypes DEF CleanNames
  <2>2. Without(s[i], x) /\ Without(t[i], x)
    BY DEF CleanNames
  <2>3. Cat(Cat(s[i], <<x>>), u) = Cat(Cat(t[i], <<x>>), v)
    BY <2>1
  <2> HIDE DEF x
  <2> QED
    BY <1>0, <2>1, <2>2, <2>3 DEF CatSplits
<1>2. /\ Rest4(s) \in Seq(T) /\ Rest3(s) \in Seq(T) /\ Rest2(s) \in Seq(T)
      /\ Rest4(t) \in Seq(T) /\ Rest3(t) \in Seq(T) /\ Rest2(t) \in Seq(T)
      /\ Rest1(s) = Rest1(t)
  BY KeyParts
<1>3. s[1] = t[1] /\ Rest2(s) = Rest2(t)
  BY <1>1, <1>2 DEF Rest1
<1>4. s[2] = t[2] /\ Rest3(s) = Rest3(t)
  BY <1>1, <1>2, <1>3 DEF Rest2
<1>5. s[3] = t[3] /\ Rest4(s) = Rest4(t)
  BY <1>1, <1>2, <1>4 DEF Rest3
<1>6. s \in Seq(Seq(T)) /\ Len(s) = 4 /\ t \in Seq(Seq(T)) /\ Len(t) = 4
  BY DEF CleanNames
<1>7. \A i \in 1..4 : s[i] = t[i]
  <2>1. s[4] = t[4]
    BY <1>5 DEF Rest4
  <2>2. \A i \in 1..4 : i \in {1, 2, 3, 4}
    OBVIOUS
  <2> QED
    BY <1>3, <1>4, <1>5, <2>1, <2>2
<1> QED
  BY <1>6, <1>7, SeqEqual

\* The key of an Azure secret is its name, and nothing is joined to it.
PlainNames(T) ==
  /\ \A i \in 1..3 : Separators[i] = <<>>
  /\ \A s \in Secrets : /\ s \in Seq(Seq(T)) /\ Len(s) = 4
                        /\ \A i \in 2..4 : s[i] = <<>>

LEMMA PlainNamesUnique == ASSUME NEW T, PlainNames(T) PROVE UniqueCacheKeys
<1>1. ASSUME NEW s \in Secrets PROVE cacheKey(s) = s[1] /\ s[1] \in Seq(T)
  <2>1. s[1] \in Seq(T)
    BY ElementOfSeq DEF PlainNames
  <2>2. s[1] \o <<>> = s[1]
    BY <2>1, ConcatEmptySeq
  <2>3. /\ Separators[1] = <<>> /\ Separators[2] = <<>> /\ Separators[3] = <<>>
        /\ s[2] = <<>> /\ s[3] = <<>> /\ s[4] = <<>>
    BY DEF PlainNames
  <2> QED
    BY <2>1, <2>2, <2>3, Zenon DEF cacheKey
<1>2. ASSUME NEW s \in Secrets, NEW t \in Secrets, s[1] = t[1] PROVE s = t
  <2>1. /\ s \in Seq(Seq(T)) /\ t \in Seq(Seq(T)) /\ Len(s) = 4 /\ Len(t) = 4
        /\ \A i \in 2..4 : s[i] = <<>> /\ t[i] = <<>>
    BY DEF PlainNames
  <2>2. \A i \in 1..4 : i = 1 \/ i \in 2..4
    OBVIOUS
  <2>3. \A i \in 1..4 : s[i] = t[i]
    BY <1>2, <2>1, <2>2
  <2> QED
    BY <2>1, <2>3, SeqEqual
<1> QED
  BY <1>1, <1>2 DEF UniqueCacheKeys

\* What that takes of the names: the certificate, backend and client of an OAuth
\* request without "_"; the mount of a Vault secret without "/", its path without
\* "@" and its version without "#"; of the name of an Azure secret, nothing.
THEOREM NamesOwnSecret ==
  \A T : CleanNames(T) \/ PlainNames(T) => (Spec => []AnswersOwnSecret)
BY CleanNamesUnique, PlainNamesUnique, OwnSecret

-----------------------------------------------------------------------------
(* How old a secret is: an entry is added within MaxFlight of the rotation   *)
(* that replaced it, at the latest.                                          *)

CacheAge ==
  \A e \in Entries : Superseded(e.value) => e.added <= ReplacedAt(e.value) + MaxFlight
AddAge ==
  \A r \in Requests : pc[r] = "add" /\ Superseded(got[r]) => began[r] <= ReplacedAt(got[r])
TemplateAge ==
  \A r \in Requests : pc[r] = "template" /\ CacheTtl > 0 /\ Superseded(got[r]) =>
    began[r] < ReplacedAt(got[r]) + CacheTtl + MaxFlight

AgeInv == CacheAge /\ AddAge /\ TemplateAge

\* What the rotation of a secret does to the age of a version of it.
LEMMA RotateAge ==
  ASSUME IInv, NEW s \in Secrets, Rotate(s), NEW v,
         v.of \in Secrets, v.version \in 1..Len(store[v.of]), Len(store'[v.of]) > v.version
  PROVE  IF Superseded(v) THEN store'[v.of][v.version + 1] = ReplacedAt(v)
         ELSE store'[v.of][v.version + 1] = now
<1>1. /\ Len(store[v.of]) \in Nat
      /\ Len(store'[v.of]) = IF v.of = s THEN Len(store[v.of]) + 1 ELSE Len(store[v.of])
      /\ \A n \in 1..Len(store[v.of]) : store'[v.of][n] = store[v.of][n]
      /\ v.of = s => store'[v.of][Len(store[v.of]) + 1] = now
  BY RotateFacts DEF IInv
<1>2. CASE Superseded(v)
  BY <1>1, <1>2 DEF Superseded, ReplacedAt
<1>3. CASE ~Superseded(v)
  <2>1. v.of = s /\ v.version = Len(store[v.of])
    BY <1>1, <1>3 DEF Superseded
  <2> QED
    BY <1>1, <1>3, <2>1
<1> QED
  BY <1>2, <1>3

\* The types that the arithmetic needs.
LEMMA AgeTypes ==
  ASSUME IInv
  PROVE  /\ now \in Nat
         /\ \A r \in Requests : /\ began[r] \in Nat /\ got[r].of \in Secrets
                                /\ got[r].version \in Nat
         /\ \A e \in Entries : /\ e.added \in Nat /\ e.value.of \in Secrets
                               /\ e.value.version \in 1..Len(store[e.value.of])
         /\ \A s \in Secrets, n \in Nat :
              n \in 0..Len(store[s]) /\ Len(store[s]) > n => store[s][n + 1] \in Nat
<1>1. now \in Nat /\ \A r \in Requests : /\ began[r] \in Nat /\ got[r].of \in Secrets
                                         /\ got[r].version \in Nat
  BY ConstantFacts DEF IInv, TypeOK, Value
<1>2. ASSUME NEW e \in Entries
      PROVE /\ e.added \in Nat /\ e.value.of \in Secrets
            /\ e.value.version \in 1..Len(store[e.value.of])
  <2>1. e.added \in 0..MaxTime /\ e.value \in [of : Secrets, version : 1..MaxVersion]
    BY EntriesTyped DEF IInv, Entry
  <2>2. e.value.version <= Len(store[e.value.of]) /\ Len(store[e.value.of]) \in 1..MaxVersion
    BY <2>1 DEF IInv, TypeOK, CacheInv
  <2> QED
    BY <2>1, <2>2, ConstantFacts
<1>3. ASSUME NEW s \in Secrets, NEW n \in Nat, Len(store[s]) > n
      PROVE  store[s][n + 1] \in Nat
  <2>1. store[s] \in Seq(0..MaxTime) /\ Len(store[s]) \in Nat
    BY DEF IInv, TypeOK
  <2> QED
    BY <1>3, <2>1, ConstantFacts
<1> QED
  BY <1>1, <1>2, <1>3

LEMMA AgeRotate == ASSUME IInv, AgeInv, NEW s \in Secrets, Rotate(s) PROVE AgeInv'
<1>1. UNCHANGED <<now, cache, pc, want, got, began>> /\ Entries' = Entries
  BY DEF Rotate, handler, Entries
<1>2. CacheAge'
  <2> SUFFICES ASSUME NEW e \in Entries, Len(store'[e.value.of]) > e.value.version
               PROVE  e.added <= store'[e.value.of][e.value.version + 1] + MaxFlight
    BY <1>1 DEF CacheAge, Superseded, ReplacedAt
  <2>1. /\ e.value.of \in Secrets /\ e.value.version \in 1..Len(store[e.value.of])
        /\ e.added \in Nat /\ now \in Nat /\ e.added <= now
    BY AgeTypes DEF IInv, CacheInv
  <2>2. IF Superseded(e.value)
        THEN store'[e.value.of][e.value.version + 1] = ReplacedAt(e.value)
        ELSE store'[e.value.of][e.value.version + 1] = now
    BY <2>1, RotateAge
  <2> QED
    BY <2>1, <2>2, ConstantFacts DEF AgeInv, CacheAge
<1>3. AddAge' /\ TemplateAge'
  <2> SUFFICES ASSUME NEW r \in Requests, pc[r] \in {"add", "template"},
                      Len(store'[got[r].of]) > got[r].version
               PROVE  /\ pc[r] = "add" => began[r] <= store'[got[r].of][got[r].version + 1]
                      /\ pc[r] = "template" /\ CacheTtl > 0 =>
                           began[r] < store'[got[r].of][got[r].version + 1] + CacheTtl + MaxFlight
    BY <1>1 DEF AddAge, TemplateAge, Superseded, ReplacedAt
  <2>1. /\ got[r].of \in Secrets /\ got[r].version \in 1..Len(store[got[r].of])
        /\ began[r] \in Nat /\ now \in Nat /\ began[r] <= now
    BY AgeTypes DEF IInv, GotInv, FlightInv
  <2>2. IF Superseded(got[r])
        THEN store'[got[r].of][got[r].version + 1] = ReplacedAt(got[r])
        ELSE store'[got[r].of][got[r].version + 1] = now
    BY <2>1, RotateAge
  <2>3. CASE Superseded(got[r])
    BY <2>2, <2>3 DEF AgeInv, AddAge, TemplateAge
  <2>4. CASE ~Superseded(got[r])
    <3>1. CacheTtl > 0 => began[r] < now + CacheTtl + MaxFlight
      BY <2>1, ConstantFacts
    <3> QED
      BY <2>1, <2>2, <2>4, <3>1
  <2> QED
    BY <2>3, <2>4
<1> QED
  BY <1>2, <1>3 DEF AgeInv

\* A step that neither rotates nor fills the cache keeps the age of its entries.
LEMMA AgeShrink ==
  ASSUME AgeInv, UNCHANGED store, Entries' \subseteq Entries
  PROVE  CacheAge'
BY DEF AgeInv, CacheAge, Superseded, ReplacedAt

\* A hit is on an entry added less than CacheTtl ago, so that its secret was
\* replaced at most CacheTtl + MaxFlight ago, and the request began before it.
LEMMA AgeHit ==
  ASSUME Expiring, IInv, AgeInv, NEW r \in Requests, Hit(r)
  PROVE  AgeInv'
<1>1. /\ pc[r] = "lookup" /\ pc' = [pc EXCEPT ![r] = "template"]
      /\ UNCHANGED <<store, now, want, began>>
  BY DEF Hit, Goto
<1>2. PICK e \in Entries : Live(e) /\ got' = [got EXCEPT ![r] = e.value]
  BY HitFacts DEF IInv
<1>3. CacheAge'
  BY <1>1, HitFacts, AgeShrink DEF IInv
<1>4. CacheTtl > 0 /\ Superseded(e.value) =>
        began[r] < ReplacedAt(e.value) + CacheTtl + MaxFlight
  <2> SUFFICES ASSUME CacheTtl > 0, Superseded(e.value)
               PROVE  began[r] < ReplacedAt(e.value) + CacheTtl + MaxFlight
    OBVIOUS
  <2>1. now < e.added + CacheTtl
    BY <1>2, ConstantFacts DEF Live
  <2>2. e.added <= ReplacedAt(e.value) + MaxFlight
    BY DEF AgeInv, CacheAge
  <2>3. began[r] <= now
    BY <1>1 DEF IInv, FlightInv
  <2>4. /\ now \in Nat /\ began[r] \in Nat /\ e.added \in Nat
        /\ e.value.of \in Secrets /\ e.value.version \in 1..Len(store[e.value.of])
    BY AgeTypes
  <2>5. ReplacedAt(e.value) \in Nat
    <3>1. Len(store[e.value.of]) \in Nat
      BY <2>4 DEF IInv, TypeOK
    <3>2. e.value.version \in Nat /\ e.value.version \in 0..Len(store[e.value.of])
          /\ Len(store[e.value.of]) > e.value.version
      BY <2>4, <3>1 DEF Superseded
    <3> QED
      BY <2>4, <3>2, AgeTypes DEF ReplacedAt
  <2> QED
    BY <2>1, <2>2, <2>3, <2>4, <2>5, ConstantFacts
<1>5. AddAge' /\ TemplateAge'
  BY <1>1, <1>2, <1>4
  DEF IInv, TypeOK, AgeInv, AddAge, TemplateAge, Superseded, ReplacedAt
<1> QED
  BY <1>3, <1>5 DEF AgeInv

\* What is fetched is current.
LEMMA AgeFetchAnswers ==
  ASSUME IInv, AgeInv, NEW r \in Requests, FetchAnswers(r)
  PROVE  AgeInv'
<1>1. /\ pc' = [pc EXCEPT ![r] = "add"]
      /\ got' = [got EXCEPT ![r] = Current(want[r])]
      /\ UNCHANGED <<store, now, cache, want, began>>
  BY DEF FetchAnswers, Goto
<1>2. CacheAge'
  BY <1>1, AgeShrink DEF Entries
<1>3. ~Superseded(Current(want[r]))
  BY DEF Superseded, Current, IInv, TypeOK
<1>4. AddAge' /\ TemplateAge'
  BY <1>1, <1>3 DEF IInv, TypeOK, AgeInv, AddAge, TemplateAge, Superseded, ReplacedAt
<1> QED
  BY <1>2, <1>4 DEF AgeInv

\* An entry is added within MaxFlight of the beginning of its request, and its
\* secret was current at some time in between.
LEMMA AgeAdd ==
  ASSUME IInv, AgeInv, NEW r \in Requests, Add(r)
  PROVE  AgeInv'
<1>1. /\ pc[r] = "add" /\ pc' = [pc EXCEPT ![r] = "template"]
      /\ UNCHANGED <<store, now, want, got, began>>
      /\ Entries' \subseteq Entries \cup {Fresh(r)}
  BY AddFacts
<1>2. Superseded(got[r]) =>
        /\ now <= ReplacedAt(got[r]) + MaxFlight
        /\ CacheTtl > 0 => began[r] < ReplacedAt(got[r]) + CacheTtl + MaxFlight
  <2> SUFFICES ASSUME Superseded(got[r])
               PROVE  /\ now <= ReplacedAt(got[r]) + MaxFlight
                      /\ CacheTtl > 0 => began[r] < ReplacedAt(got[r]) + CacheTtl + MaxFlight
    OBVIOUS
  <2>1. began[r] <= ReplacedAt(got[r])
    BY <1>1 DEF AgeInv, AddAge
  <2>2. now <= began[r] + MaxFlight
    BY <1>1 DEF IInv, FlightInv
  <2>3. /\ now \in Nat /\ began[r] \in Nat /\ got[r].of \in Secrets
        /\ got[r].version \in 1..Len(store[got[r].of])
    BY <1>1, AgeTypes DEF IInv, GotInv
  <2>4. ReplacedAt(got[r]) \in Nat
    <3>1. Len(store[got[r].of]) \in Nat
      BY <2>3 DEF IInv, TypeOK
    <3>2. got[r].version \in Nat /\ got[r].version \in 0..Len(store[got[r].of])
          /\ Len(store[got[r].of]) > got[r].version
      BY <2>3, <3>1 DEF Superseded
    <3> QED
      BY <2>3, <3>2, AgeTypes DEF ReplacedAt
  <2> QED
    BY <2>1, <2>2, <2>3, <2>4, ConstantFacts
<1>3. CacheAge'
  <2> SUFFICES ASSUME NEW e \in Entries \cup {Fresh(r)}, Superseded(e.value)
               PROVE  e.added <= ReplacedAt(e.value) + MaxFlight
    BY <1>1 DEF CacheAge, Superseded, ReplacedAt
  <2>1. CASE e \in Entries
    BY <2>1 DEF AgeInv, CacheAge
  <2>2. CASE e = Fresh(r)
    <3>1. e.value = got[r] /\ e.added = now
      BY <2>2 DEF Fresh
    <3> QED
      BY <3>1, <1>2
  <2> QED
    BY <2>1, <2>2
<1>4. AddAge' /\ TemplateAge'
  BY <1>1, <1>2 DEF IInv, TypeOK, AgeInv, AddAge, TemplateAge, Superseded, ReplacedAt
<1> QED
  BY <1>3, <1>4 DEF AgeInv

\* A step of r after which it holds no secret to add or to forward.
LEMMA AgeOther ==
  ASSUME IInv, AgeInv, NEW r \in Requests, UNCHANGED <<store, cache>>,
         pc'[r] \notin {"add", "template"},
         \A q \in Requests \ {r} : pc'[q] = pc[q] /\ got'[q] = got[q] /\ began'[q] = began[q]
  PROVE  AgeInv'
<1>1. CacheAge'
  BY AgeShrink DEF Entries
<1>2. AddAge' /\ TemplateAge'
  BY DEF AgeInv, AddAge, TemplateAge, Superseded, ReplacedAt
<1> QED
  BY <1>1, <1>2 DEF AgeInv

LEMMA StepAge == ASSUME Expiring PROVE IInv /\ AgeInv /\ [Next]_vars => AgeInv'
<1> SUFFICES ASSUME IInv, AgeInv, [Next]_vars PROVE AgeInv'
  OBVIOUS
<1>1. ASSUME NEW s \in Secrets, Rotate(s) PROVE AgeInv'
  BY <1>1, AgeRotate
<1>2. ASSUME Tick PROVE AgeInv'
  <2>1. UNCHANGED <<store, cache, pc, got, began>>
    BY <1>2 DEF Tick, handler
  <2> QED
    BY <2>1 DEF AgeInv, CacheAge, AddAge, TemplateAge, Entries, Superseded, ReplacedAt
<1>3. ASSUME Purge PROVE AgeInv'
  <2>1. UNCHANGED <<store, pc, got, began>>
    BY <1>3 DEF Purge, handler
  <2>2. CacheAge'
    BY <1>3, <2>1, PurgeFacts, AgeShrink DEF IInv
  <2> QED
    BY <2>1, <2>2 DEF AgeInv, AddAge, TemplateAge, Superseded, ReplacedAt
<1>4. ASSUME NEW r \in Requests, Accept(r) PROVE AgeInv'
  <2>1. /\ UNCHANGED <<store, cache>> /\ pc'[r] = "lookup"
        /\ \A q \in Requests \ {r} : pc'[q] = pc[q] /\ got'[q] = got[q] /\ began'[q] = began[q]
    BY <1>4 DEF Accept, Goto, IInv, TypeOK
  <2> QED
    BY <2>1, AgeOther
<1>5. ASSUME NEW r \in Requests, Reject(r) \/ FetchFails(r) \/ RejectTemplate(r) PROVE AgeInv'
  <2>1. /\ UNCHANGED <<store, cache>> /\ pc'[r] = "idle"
        /\ \A q \in Requests \ {r} : pc'[q] = pc[q] /\ got'[q] = got[q] /\ began'[q] = began[q]
    BY <1>5 DEF Reject, FetchFails, RejectTemplate, Refuse, Goto, IInv, TypeOK
  <2> QED
    BY <2>1, AgeOther
<1>6. ASSUME NEW r \in Requests, Hit(r) PROVE AgeInv'
  BY <1>6, AgeHit
<1>7. ASSUME NEW r \in Requests, Miss(r) \/ Forward(r) PROVE AgeInv'
  <2>1. /\ UNCHANGED <<store, cache>> /\ pc'[r] \in {"fetch", "forwarded"}
        /\ \A q \in Requests \ {r} : pc'[q] = pc[q] /\ got'[q] = got[q] /\ began'[q] = began[q]
    BY <1>7 DEF Miss, Forward, Goto, IInv, TypeOK
  <2> QED
    BY <2>1, AgeOther
<1>8. ASSUME NEW r \in Requests, FetchAnswers(r) \/ Add(r) PROVE AgeInv'
  BY <1>8, AgeFetchAnswers, AgeAdd
<1>9. CASE UNCHANGED vars
  BY <1>9 DEF vars, AgeInv, CacheAge, AddAge, TemplateAge, Entries, Superseded, ReplacedAt
<1> QED
  BY <1>1, <1>2, <1>3, <1>4, <1>5, <1>6, <1>7, <1>8, <1>9 DEF Next, ServeHTTP

\* Only Forward forwards.
LEMMA OnlyForward ==
  ASSUME IInv, [Next]_vars, NEW r \in Requests, pc[r] # "forwarded", pc'[r] = "forwarded"
  PROVE  pc[r] = "template"
<1>1. ASSUME NEW q \in Requests, Accept(q) \/ Reject(q) \/ ServeHTTP(q) PROVE pc[r] = "template"
  BY <1>1 DEF Accept, Reject, ServeHTTP, Hit, Miss, FetchAnswers, FetchFails, Add, Forward,
              RejectTemplate, Refuse, Goto, IInv, TypeOK
<1>2. ASSUME pc' = pc PROVE FALSE
  BY <1>2
<1> QED
  BY <1>1, <1>2 DEF Next, Rotate, Tick, Purge, handler, vars

\* With a cache that drops entries by age, no request is forwarded with a
\* version of a secret that was replaced longer ago than the TTL and the time
\* of two requests, whatever the interleaving of fetches and rotations.
THEOREM BoundedStaleness == Expiring => (Spec => StaleAtMostTtl)
<1> SUFFICES ASSUME Expiring PROVE Spec => StaleAtMostTtl
  OBVIOUS
<1> DEFINE InTime ==
      \A r \in Requests :
        /\ pc[r] # "forwarded" /\ pc'[r] = "forwarded"
        /\ CacheTtl > 0 /\ Superseded(got[r])
        => now < store[got[r].of][got[r].version + 1] + CacheTtl + 2 * MaxFlight
<1>1. Init => AgeInv
  <2> SUFFICES ASSUME Init PROVE AgeInv
    OBVIOUS
  <2>1. Entries = {}
    BY DEF Init, Entries
  <2> QED
    BY <2>1 DEF Init, AgeInv, CacheAge, AddAge, TemplateAge
<1>2. IInv /\ AgeInv /\ [Next]_vars => AgeInv'
  BY StepAge
<1>3. IInv /\ AgeInv /\ [Next]_vars => [InTime]_vars
  <2> SUFFICES ASSUME IInv, AgeInv, [Next]_vars, NEW r \in Requests,
                      pc[r] # "forwarded", pc'[r] = "forwarded",
                      CacheTtl > 0, Superseded(got[r])
               PROVE  now < ReplacedAt(got[r]) + CacheTtl + 2 * MaxFlight
    BY DEF ReplacedAt
  <2>1. pc[r] = "template"
    BY OnlyForward
  <2>2. began[r] < ReplacedAt(got[r]) + CacheTtl + MaxFlight
    BY <2>1 DEF AgeInv, TemplateAge
  <2>3. now <= began[r] + MaxFlight
    BY <2>1 DEF IInv, FlightInv
  <2>4. /\ now \in Nat /\ began[r] \in Nat /\ got[r].of \in Secrets
        /\ got[r].version \in 1..Len(store[got[r].of])
    BY <2>1, AgeTypes DEF IInv, GotInv
  <2>5. ReplacedAt(got[r]) \in Nat
    <3>1. Len(store[got[r].of]) \in Nat
      BY <2>4 DEF IInv, TypeOK
    <3>2. got[r].version \in Nat /\ got[r].version \in 0..Len(store[got[r].of])
          /\ Len(store[got[r].of]) > got[r].version
      BY <2>4, <3>1 DEF Superseded
    <3> QED
      BY <2>4, <3>2, AgeTypes DEF ReplacedAt
  <2> QED
    BY <2>2, <2>3, <2>4, <2>5, ConstantFacts
<1> QED
  BY <1>1, <1>2, <1>3, Inductive, PTL DEF Spec, StaleAtMostTtl

=============================================================================
