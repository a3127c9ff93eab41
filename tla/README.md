# A TLA+ verification of hasura-secret-refresh

This directory holds a formal model of the sidecar in this repository: TLA+
modules for its components, TLC configurations that check them on small
instances, and proofs, checked by TLAPS, of the safety properties that hold,
for every value of the constants.

    tlc -config MCFileProvider.cfg MCFileProvider         # a run
    tlapm FileProviderProofs.tla                          # a proof module

`PROJECT.json` maps every definition to the lines it models, and lists the
runs, the hazards of the code and the theorems.

## The system

The program reads secrets from AWS, Azure, HashiCorp Vault or a JSON file and
hands them to a sibling container, either in a file that it keeps up to date
or, as an HTTP proxy, in a header of each request it forwards.

| Component | Code | State | Operations | Interacts with |
|---|---|---|---|---|
| File providers (five kinds) | `provider/*/file_provider.go`, `provider/aws_iam_auth_rds/provider.go`, `provider/file_permissions.go` | the file, a mutex per provider | `Start` (a loop for ever), `Refresh`, `getSecret`, `writeFile` | store, sibling's reads, refresh endpoint |
| Refresh endpoint | `server/refresh.go` | `Configs`: path to provider | `ServeHTTP` | calls `Refresh` in the goroutine of the request |
| Transform, template | `transform/`, `template/` | none between calls | `Transform`, `Substitute` | called by `getSecret`; template also by the proxy |
| Startup | `main.go` | the parsed config, the deployment type | `parseConfig`, `main` | creates and starts everything |
| Proxy route | `server/proxy.go`, `server/rewrite_request.go`, `server/template.go` | none | `ServeHTTP` | asks a provider for a secret, forwards |
| Proxy providers | `provider/aws_sm_oauth`, `azure_key_vault`, `hashicorp_vault`, `aws_secrets_manager` | a cache each | `SecretFetcher`, `FetchSecret` | backends; shared by concurrent requests |
| Vault token | `provider/hashicorp_vault/client.go`, `auth.go` | the client's token | `manageTokenLifecycle`, `watchOnce`, `reLogin` | Vault; reads use the token |
| Provider configuration | nine `Create*`, `parseVaultConfig`, `parseInputConfig`, `ParseSecretTransformFromConfig` | none | validation, contacts with the outside | called by `parseConfig` |
| Logging, `/healthz` | `server/log.go`, `aws_sm_oauth/log.go` | none | | |

What is hard about them:

* **File providers.** The loop and any number of requests work on one file.
  Fetch (and ping) happen outside the mutex and their result is used inside
  it; `Start` blanks the file without the mutex; `os.WriteFile` truncates
  before it writes and can fail in between; the process can die anywhere and
  is restarted over what it left. Correct means: one writer, no mixture of
  versions, an honest answer to a refresh, the last good secret kept through
  failures, and the newest secret there in the end.
* **Startup.** The config is a Go map: the order of its entries is random and
  an unreadable entry ends the walk without an error. Correct means that what
  runs is what was configured, and that "loaded" is true.
* **Proxy.** Between a miss and the `Add` after it other requests run and the
  secret rotates; keys are joined strings; two of the three caches ignore their
  TTL. Correct means: one's own secret, never a failed fetch, bounded age.
* **OAuth fetch.** Two cached reads of a pair that rotates, and one JWT with a
  lifetime that is sent again and again while the endpoint comes and goes.
  Correct means: the pair matches, the JWT outlives its retries, an outage the
  waits can bridge is bridged.
* **Vault token.** Sleeps, renewals and a retry loop race the expiry of a lease
  while Vault comes and goes, and reads are under way when the token is swapped.
* **Configuration.** Nine hand-written parsers in nine orders, with nested and
  optional parts, some of which start a session or a goroutine on the way.
  Correct means: nothing that is wrong gets through, nothing that is right is
  refused, and a refusal leaves nothing running.
* **Transform, template.** Order of mappings, random order of keys, silent
  errors.

## Modules

| Module | What it is |
|---|---|
| `SecretFile` | Abstract promise of a file provider: the file shows nothing or one complete version the store has had, and a new one only after a blank. |
| `FileProvider` | The loops, the refresh handler, the mutexes, the files cell by cell, crash and restart. |
| `SecretContent` | `Transform` and `Substitute`, one iteration per step. |
| `Startup` | `parseConfig` and `main` for both deployment types, with container restarts. |
| `Proxy` | Concurrent requests through the cache of a proxy provider. |
| `OauthFetch` | `FetchSecret` of `proxy_aws_sm_oauth` in detail; extends `Proxy` and implements it. |
| `VaultToken` | The goroutine that keeps the Vault token alive, in discrete time. |
| `VaultReader` | That goroutine composed with the loop of `file_hashicorp_vault`; extends `VaultToken` and implements it. |
| `ProviderConfig` | The nine `Create` functions, setting by setting. |
| `MC*` | Instances for TLC. `VaultReader` and `ProviderConfig` need none. |
| `*Proofs` | The theorems about the module before the suffix. |

Operators whose comment begins with "Slip" are not the code's: each is an
operation as a plausible mistake would have it, kept beside the original to
show which property notices it. `PROJECT.json` pairs them with the properties.

### FileProvider and SecretFile

A secret is abstracted to its version in its store; a file is a sequence of
cells, each marked with the provider and version that wrote it, so that a torn
or overlaid file shows. `pc` is where a goroutine stands: a loop goes `boot`,
`bootChmod` (the blanking of `Start`), then `fetch`, `ping` (RDS only), `lock`,
`open`, `write`, `chmod`, `sleep` and round again; a request enters at `fetch`.
`Open`, `Write` and `Chmod` are the three effects of `WriteSecretFile`; `Write`
may fail after any number of cells. `mode` is a file's readability under an
unknown umask. `Listen` fills `Configs` in map order, so that one provider per
path is known to the endpoint. `FetchPanics` is the dereference of a missing
`SecretString`. `Crash` is the death of the process at any point; files stay,
everything else is lost. The five file providers have the same control flow;
they differ in `Pinged` and `Panics`.

`Chmod` ends with the deferred `Unlock`. The return of `Refresh` and the answer of
the handler are a step of their own (`Answer`): in between others may lock and
truncate the file, or write an older version that they fetched earlier. What a
refresh promises can therefore not be that the file is fresh when the answer goes
out. `owed` is a history variable: the version a refresh still owes a reader of
the file, settled by any step after which the file shows that version or a newer
one, complete and readable (`Settle`). `RefreshAcknowledged`: nothing is owed by a
refresh that was answered with 200.

Properties are stated for a provider with a path of its own (`Solo`). Two
providers configured with one path are not refused by the code, have a mutex
each, and nothing is promised about their file.

`PromiseSpec` is the refinement: under the mapping `Visible` (the complete
version in the file, or none) every behaviour of `FileProvider` is one of
`SecretFile` for the `SoloProviders`. Providers that share a path take nothing
from the promise to the others.

### SecretContent

A JSON object is a function from keys to values, any other secret a text. The
mapping loop is one step per mapping, with the direct match, the match ignoring
case (any matching key, as Go's map order is random) and no match. A template
is the sequence of its placeholders. Two closed definitions serve as reference.
`Renamed` is the outcome of the mapping without its loop, order and search: a
field that is mapped moves. It describes the code only for a `Tame` configuration
(no two fields of the secret equal but for case, targets new and distinct);
otherwise order decides. Nothing is asked of the sources: two mappings may name
one field. For `keep_all` the documentation says something else than `Renamed`,
namely `OriginalsKept`, which is checked and violated. `Replacement` is what the
template's documentation says of one placeholder by itself. `FilledAsDocumented`
compares each placeholder with it, except where the code departs from it (below).

### Startup

Every entry of the config has a shape (provider, setting, deployment type,
invalid, unreadable); `Take` picks any entry left, as ranging over a map does.
`main` then either loads the files one by one and exits, or serves. A
container that ended with an error is started again with the same config.

### Proxy

A request is accepted or refused, looks its secret up, fetches it on a miss,
adds it, fills its header and is forwarded. Each of these is a step of its own,
so that others interleave; a fetch may also fail after the backend has answered,
when the answer has no usable secret. `Get` and `Add` of the cache are atomic, as the
library locks them. The library (golang-lru, simple or expirable) is external:
its cache is a sequence, most recently used first. What the four strings of a
request are and how a key is joined (`Separators`) distinguishes the
providers; names are sequences of tokens, so that a separator in a name is the
separator. That a full cache stays within its capacity is the library's business
and not checked. The clock and `MaxFlight`, the time a request may be under way
between lookup and forwarding, exist for `StaleAtMostTtl` only.

### VaultToken

Time advances in ticks; a login takes up to `LoginTime` and may fail if it
met an outage. A LifetimeWatcher (external) renews while it can and is done at
the latest when `Grace` of the lease is left. `TimingAssumption` says that a
login fits into the grace period and into the fifth of the lease left after
the sleep.

### OauthFetch

On a miss a request reads the key (`ReadKey`) and the certificate (`ReadCert`)
through the shared cache of Secrets Manager, whose items have an age each,
signs the JWT and sends it. An attempt that meets an outage of the endpoint is
`doomed`; `Backoff` is go-retryablehttp's policy (wait, doubled up to
`http_retry_max_wait`) for no connection, 429 and 5xx. `Answered` is a 200, and
needs a JWT of a matching pair that has not expired. `Refused` is any other status
(or error) that is not retried, and may happen to any JWT, a good one too. After a
200 the body is read: `AddToken` if it holds an access token, `TokenMissing` if it
is no JSON, or has no `access_token` or one that is no string; then nothing is
added or forwarded. `fetch[r]` holds the locals of the call and a timer, so that time passes
only while every request waits. The HTTP client of the OAuth request has no
timeout; `AttemptTime` is an assumption on the endpoint. `ProxySpec` is the
refinement: variables of `Proxy` keep their names, and a fetch with all its
retries ends within `MaxFlight`, which `Proxy` takes for granted
(`OauthAssumption` relates the two).

### VaultReader

`carried` is what is left of the lease of the token a read was made with, and
`current` whether that is still the client's token: a renewal prolongs both, a
login swaps the client's and leaves the read's to run out. A refused or failed
read sleeps the same interval as one that succeeded. `quiet` is a history
variable: how long Vault has been reachable since a read last succeeded.

### ProviderConfig

A `Create` is a sequence of steps in the order of its code: a setting that is
needed or optional, of the section or of a map in it, with the kinds of value
it accepts; the exclusion of template and transform; a contact (session,
credential, client, login) that may fail. What a setting is gets chosen when it
is read. `Required` and `Proper` are what the README says of each setting, as a
reference the steps are compared with. The code asks for less: `Forgone` names
what it does without although the README gives no default (`auth.method`, the
`cache_ttl` of `proxy_azure_key_vault`, and all of `proxy_awssm_oauth` but
`jwt_claims_map`), and `Unchecked` what it takes in any kind (the numbers, region
and URL of `proxy_awssm_oauth`). `CreatedAsDocumented` is the documented
requirement less these two, which are listed below as not kept. `Exclusive` counts an empty template or
an empty list of mappings as none, as the code does.

## Runs

| Run | Checks | Instance |
|---|---|---|
| `files` | `TypeOK`, `OneWriter`, `NoMixture`, `RefreshAcknowledged`, `KeepsLastGood`, `PromiseSpec`, `CatchesUp`, `NoOldSecret`, `RefreshAnswered` | one provider that pings and may panic, with its loop, two requests, a second path no provider has; two versions, the older one longer; two faults (failures, panics, crashes) at any step |
| `files_blanked` | `RefreshedFileIsWritten` (violated) | one provider, one request, no fault |
| `content` | `TypeOK`, `NoInvention`, `UnmappedFields`, `RenamesWhenTame`, `FilledAsDocumented` | all secrets over four keys, three equal but for case, two values; all mapping lists and templates up to length two |
| `content_renamed` | `OriginalsKept` (violated) | the same, length one |
| `startup` | `TypeOK`, `ExitMeansLoaded`, `RunsAsConfigured`, `ComesUp` | all configurations of four entries, one failure |
| `startup_partial` | `ExitMeansAllLoaded` (violated) | the same |
| `proxy` | `TypeOK`, `AnswersOwnSecret`, `StaleAtMostTtl` | two requests, two OAuth secrets without a separator in their names, a cache of one entry, TTL 2, flight 1, time up to 5, two versions |
| `proxy_ttl` | `StaleAtMostTtl` (violated) | one Azure secret, a cache without expiry |
| `proxy_keys` | `AnswersOwnSecret` (violated) | two requests, two Vault secrets whose path or field holds separators |
| `oauth` | `OauthTypeOK`, `AnswersOwnSecret`, `NoExpiredJwt`, `MixedOnlyAfterRotation`, `ProxySpec`, `RidesOutOutage` | one request, certificate TTL 1, two retries with waits 1 and 2, attempts up to 1, JWT 8, time up to 9, one rotation of the pair, one outage of any length |
| `vault_reader` | `ReaderTypeOK`, `NeverExpires`, `RecoversInTime`, `CarriesGoodToken`, `ReadsInTime`, `Replaced` | lease 20, life 24, grace 4, login 2, backoff up to 4, read 1, interval 2, two outages |
| `config` | `TypeOK`, `CreatedAsDocumented`, `RefusedForAReason`, `NoTokenForRefused` | all nine types, every section with up to three settings that are absent, empty or of another kind, every contact failing |

The bounds are enough for the cases that matter. In `files` a loop and two
requests give three contenders for a mutex and two requests that overtake each
other; two versions of different length make an overlay visible; two faults
allow a failure followed by a crash, or a crash in the recovery from another.
Two mappings are the shortest that interact, three spellings of one key leave
Go's map order a choice between two fields other than the one a mapping names,
and two placeholders the shortest in which one can switch off the next. Four
config entries hold a deployment type, an unreadable entry and two providers. In
`proxy` the clock is long enough for a rotation, a late add and the TTL after
it; a capacity of one makes every second secret evict the first. In `oauth` one
request is enough, because requests share only the cache of the pair, and its
age does not depend on who filled it (the proofs have any number); the clock
holds a whole fetch with both retries after a fill of that cache, and
`JwtDuration` is the least that `NoExpiredJwt` speaks of (the exchange takes 7).
`ReadTime` is 0 there: the pair can still rotate between the two reads. In
`vault_reader` the backoff reaches its cap, the token its maximum life and a
read is under way at every step of the goroutine; both bounds of `ReadsInTime`
are reached and neither can be lowered by one. In `config` three odd settings
allow a missing map with something wrong behind it, and a template next to a
transform with a third. Every invariant and action property of a passing run is
also proved without bounds (below).

Symmetry is used for requests (`proxy`) and for config entries
(`startup_partial`) in runs without liveness properties; the members of these
sets are not told apart. Deadlock is not checked in the `content` runs, where every
behaviour ends, nor in the `startup` runs, which end when the init container has exited
or the service serves, nor in `config`, where a creation ends, nor in
`oauth`, where the clock has a bound.

### Fairness

* `FileProvider!HandlerSpec`, the specification of `files`: a request's own calls
  return, and a holder of a mutex goes on. The loops' fetches, pings and sleeps
  may hang for ever. The reads of Azure and Vault have a timeout of 30 seconds;
  `GetSecretValue` of AWS and the ping of RDS have no deadline of their own, so
  for these it is an assumption on the store and the database. `Lock` has strong
  fairness: Go's mutex hands itself to a waiter that has waited for more than a
  millisecond. `RefreshAnswered` needs no more.
* `FileProvider!LoopsRun` is what `CatchesUp` and `NoOldSecret` assume beyond that:
  the container is restarted, main goes on, loops are scheduled, their sleeps end
  and their calls return. Failures and crashes are bounded, so liveness means:
  once failures stop for long enough.
* `Startup!FairSpec`: main and the kubelet go on.
* `VaultReader!FairReaderSpec`: time passes, the goroutine and the loop are
  scheduled, a login and a read end (both have a timeout of 30 seconds). The
  watcher gives up only when `Grace` is reached. Neither renewals nor the end of
  an outage is promised.

## What the code does not keep

* **A refresh acknowledged with an empty file** (`files_blanked`). `Start`
  blanks the file without the mutex, in a goroutine that main does not wait for
  before it serves. The blanking can follow the write of a refresh. The run
  shows it with one provider and no failure. `RefreshAcknowledged` holds for
  requests that came in after the blanking.
* **"Loaded all secrets into file"** (`startup_partial`). An entry that
  `parseConfig` cannot read ends the parsing without an error; the init
  container exits with 0 although a configured file was not loaded. The same
  early return can lose the entry `type: initcontainer`, and the container then
  runs as a sidecar. `ExitMeansLoaded` and `RunsAsConfigured` hold for readable
  configurations.
* **`cache_ttl` has no effect** (`proxy_ttl`) for Azure and Vault: both caches
  are made with `lru.New`, which does not expire entries.
* **`keep_all` deletes the originals of mapped keys** (`content_renamed`) at
  `transform.go:173` and `183`, although `transform.go:21` and README.md:312 and 444
  say they are kept. The test of `file_json` (`file_provider_test.go:178-223`) has
  both: its name says "keep_all mode preserves original keys", its last assertion
  that the mapped one is gone.
* **Cache keys are not unique** (`proxy_keys`), as the comment at
  `hashicorp_vault/fetcher.go:20` has them: `@` and `#` may be part of a path or
  field. `OwnSecret` proves that unique keys are all that is missing, and
  `NamesOwnSecret` what that takes: a mount without `/`, a path without `@` and
  a version without `#` (for OAuth no `_` in the ids of certificate, backend and
  client); Azure's key is the name itself.

Seen while reading, without a run of its own:

* A template placeholder for a field of a secret that is no JSON object makes all
  later placeholders empty, `##secret##` included (`template.go:28`), although
  `template/README.md:1-2` says that any of these is replaced by the secret.
  `FilledAsDocumented` leaves these placeholders out.
* `proxy_aws_secrets_manager` refuses every request that has its header
  (`provider.go:71`) and `FetchSecret` always returns an error.
* With two providers of one path the endpoint logs "Refreshing all providers for
  file" (`refresh.go:38`) but knows one of them (`main.go:123`).
* `proxy_awssm_oauth` takes a setting that is missing or of the wrong kind as zero
  or as empty (`provider.go:106`), although README.md:278-287 gives no defaults and
  says "It must be a number": a token cache that never expires, a JWT that is born
  expired. The example at README.md:243-250 has no `jwt_duration` and no retries.
  `jwt_claims_map` alone is required. `auth.method` (README.md:495) and the
  `cache_ttl` of `proxy_azure_key_vault` (README.md:420) may be absent too, and have
  defaults the README does not give. `CreatedAsDocumented` excepts these settings
  by name (`Forgone`, `Unchecked`).
* Two tests of Azure demand that a section with `client_id` and no
  `client_secret` or `tenant_id` is refused (`file_provider_test.go:191-230`,
  `provider_test.go:57-92`). The code reads none of the three.
* Also of the JWT: `jwt_claims_map` may override `exp`, which the README says the
  proxy adds.
* `CreateAwsSecretsManagerFile` only prints that its session could not be made
  and panics with it (`file_provider.go:66`, `79`): `ContactFails`.
* The Azure example of README.md:451-469 has both `template` and `transform`,
  which `CreateAzureKeyVaultFile` refuses.

## Proofs

All theorems hold for every value of the constants that satisfies the named
assumptions in the modules (`ProvidersAssumption`, `BoundsAssumption`,
`KeysAssumption`, `StartupAssumption`, `ProxyAssumption`, `OauthAssumption`,
`TimingAssumption`, `ReaderAssumption`, `ConfigAssumption`).

| Module | Theorem | Property |
|---|---|---|
| `FileProviderProofs` | `TypeCorrect` | `TypeOK` |
| | `MutualExclusion` | `OneWriter` |
| | `NeverMixed` | `NoMixture` |
| | `AcknowledgedIsFresh` | `RefreshAcknowledged` |
| | `LastGoodKept` | `KeepsLastGood` |
| | `KeepsPromise` | `PromiseSpec` |
| `SecretContentProofs` | `TypeCorrect` | `TypeOK` |
| | `NothingInvented` | `NoInvention` |
| | `UnmappedFieldsKept` | `UnmappedFields` |
| | `RenamingCorrect` | `RenamesWhenTame` |
| | `SubstitutionCorrect` | `FilledAsDocumented` |
| `StartupProofs` | `TypeCorrect` | `TypeOK` |
| | `ExitsLoaded` | `ExitMeansLoaded` |
| | `ConfiguredRun` | `RunsAsConfigured` |
| `ProxyProofs` | `TypeCorrect` | `TypeOK` |
| | `OwnSecret` | `AnswersOwnSecret`, if keys are unique |
| | `NamesOwnSecret` | `AnswersOwnSecret`, if names hold no separator that follows them |
| | `BoundedStaleness` | `StaleAtMostTtl`, if the cache expires entries |
| `OauthFetchProofs` | `OauthTypeCorrect` | `OauthTypeOK` |
| | `OauthImplementsProxy` | `ProxySpec` |
| | `OauthOwnSecret` | `AnswersOwnSecret` (of `Proxy`), if keys are unique |
| | `OauthStaleness` | `StaleAtMostTtl` (of `Proxy`), if the cache expires entries |
| | `JwtOutlivesRetries` | `NoExpiredJwt` |
| | `PairsMatch` | `MixedOnlyAfterRotation` |
| | `RetriesOutlastOutage` | `RidesOutOutage` |
| `VaultTokenProofs` | `TypeCorrect` | `TypeOK` of `VaultToken` |
| | `TokenNeverExpires` | `NeverExpires` |
| | `TokenRecovers` | `RecoversInTime` |
| `VaultReaderProofs` | `ReaderImplementsToken` | `VaultToken`'s `Spec` |
| | `ReaderTokenNeverExpires` | `NeverExpires`, next to the loop |
| | `ReaderTokenRecovers` | `RecoversInTime`, next to the loop |
| | `ReaderTypeCorrect` | `ReaderTypeOK` |
| | `ReadsCarryGoodToken` | `CarriesGoodToken` |
| | `ReadsGoOn` | `ReadsInTime` |
| `ProviderConfigProofs` | `TypeCorrect` | `TypeOK` |
| | `NoTokenLeft` | `NoTokenForRefused` |
| | `CreatedOnlyAsDocumented` | `CreatedAsDocumented` |
| | `RefusalsJustified` | `RefusedForAReason` |

**FileProvider.** The inductive invariant is `IInv` (in the proofs, `Before`).
`OneWriter` is not inductive: it needs that a mutex is held exactly by the
thread between open and chmod of its provider (`MutexInv`), which in turn needs to
know who works for whom (`WorkerInv`). `NoMixture` needs that a thread about to
write finds the file empty (`WriterInv`): either it truncated the file itself
and nobody else has written since, by mutual exclusion, or `Start` truncated
it once more. It also needs that a fetched version is one the store has had
(`FetchedInv`). `RefreshAcknowledged` adds `OwedInv`: a refresh that has succeeded
owes nothing, because its `Chmod` finds the cells it wrote (`WriterInv`: a loop that
has blanked its file does not do so again in the life of the process) and makes
them readable, in a version no older than the one owed (`FetchedInv`). What others
do to the file afterwards does not undo that. `KeepsLastGood` and the refinement
follow from the same invariant: a write finds the file empty, so the only way
from one complete version to another is through a blank. In the refinement a
step of a provider that shares its path is a stutter, because a provider with a
path of its own does not see it.

**SecretContent.** `UnmappedFields` is strengthened to every prefix of the
mappings, and so is `RenamesWhenTame`: `result` is always the renaming by the
mappings done so far (`PrefixRenamed`). A new target takes the place of
no field, a distinct one not of another target, and unique fields leave a
mapping at most one field to move. `FilledAsDocumented` needs what `canContinue`
remembers: it is false exactly when a field has been asked of a text.

**Startup.** The invariant relates `proxies`, `files` and `todo`: what has been
taken and is a provider is where it belongs, and the walk of a readable
configuration ends only when nothing is left.

**Proxy.** `AnswersOwnSecret` needs that each cache entry holds a version of a
secret with the entry's key, and that no key has two entries (`UniqueKeys`, of the
library); unique keys of secrets make it the secret of the request.
Keys are unique (`CleanNamesUnique`) because a string ends where its separator
first occurs (`FirstSeparator`), so a key can be read from left to right.
For `StaleAtMostTtl` an entry was added at most `MaxFlight` after its value was
current, it is hit before `added + CacheTtl`, and the request is forwarded at
most `MaxFlight` later.

**VaultToken.** The invariants bound what is left of the lease from below by
what the goroutine still has to wait: the rest of its sleep plus a login, or
the rest of a login; after an outage, `upFor` bounds the rest of the recovery.

**OauthFetch.** The invariant bounds, for each step of a fetch, when its timer
ends: relative to the miss while it reads, relative to the signing of the JWT
while it sends, by the attempts and waits made so far (`Deadline`). With all
retries used that is `Flight`, and the time of `Proxy` may pass only because a
request that waits has not reached it. `NoExpiredJwt` is the same bound read
from the signing. For `MixedOnlyAfterRotation` a cached item that is no longer
the store's was cached before the last put (`HeldAge`), so it was used within a
TTL of it (`PairAge`).

`RidesOutOutage` speaks of the waits of all retries together, a recursive
function (`Waited`). What a recursive function is has to be proved before it can
be unfolded: `Recursion` builds one from approximations over 0..n, by induction
over a set of numbers (`SetInduction`, from the well-foundedness of `Nat`), and
`WaitBeforeIs` and `WaitedIs` conclude that the two functions satisfy their
equations. The invariant `WaitsInOutage` then says that in a single outage an
attempt that will fail was begun at least `Waited[tries]` after the outage was,
and a wait that is under way ends no earlier than that.

**VaultReader.** Every step is one of `VaultToken` or leaves it alone. The token
of a read has more left than the rest of the read: it has what the client's has
as long as they are the same, and at a swap it keeps what the invariant of
`VaultToken` grants the client's token during a login, by `ReadsFit` more than a
login and a read. `ReadsInTime` adds what happens after an outage: a read that
began more than the recovery after it has a token to its end (`GoodLateRead`),
because a login begins early enough even then (`RoomAfterOutage`); what began
earlier costs one read and one interval more (`QuietBounds`).

**ProviderConfig.** `NoTokenForRefused`: the login is the last step of the
sequences it occurs in (`CreateWellOrdered`). `RefusedForAReason`: each step
accepts at least what the README says of its setting, and needs nothing the
README calls optional (`CreateAsDocumented`). `CreatedAsDocumented`: what has been
passed was accepted, and what has not been passed is unread (`PassedInv`). With
all steps passed, each setting that README and code require was read, because its step is in the
section itself or in a map that is required as well (`CreateDemands`), and no
step but those of `Unchecked` settings accepts more than the README allows
(`CreateOnlyProper`).

### Model-checked only

`CatchesUp`, `NoOldSecret`, `RefreshAnswered`, `ComesUp` and `Replaced` are
liveness properties: their proofs need fairness, that is ENABLED, which the
prover does not handle.

## Not modelled

* `proxy_aws_secrets_manager` beyond its `Create`: no request of it can succeed
  (see above).
* In the OAuth fetch: the form of the request and the signature; the retries of
  Secrets Manager, which are part of `ReadTime`; a `Retry-After` header, which
  may make a wait longer than `http_retry_max_wait`; a `jwt_claims_map` that sets
  `exp`; and that the cache of Secrets Manager goes on with the item it has when it
  cannot renew it: `MixedOnlyAfterRotation` is about a Secrets Manager that answers.
* In the loop that reads from Vault: reads that fail for another reason than an
  outage or the token (no such secret, no permission). `ReadsInTime` is about a
  secret that can be read.
* In a section: strings are told apart only where the code does; the parsing of
  YAML by viper, which lower-cases keys; a nil section.
* Which header of a proxied request is wrong, URL parsing, the reverse proxy.
* The rate of the loops (an interval of 0 is a loop without pause), the torn
  input of `file_json`, logging, `/healthz`, vendored libraries (external, as
  the code uses them).

## Plan

All components with state are in place, with their runs and proofs. What is
left, in this order:

1. `ProviderConfig` composed with `Startup`: a section that is refused decides
   what the container does.
2. Two providers on one path: what can still be said of their file.
3. The torn input of `file_json` and its way through `Transform`.
