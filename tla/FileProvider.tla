---------------------------- MODULE FileProvider ----------------------------
(***************************************************************************)
(* The file providers of the sidecar: one goroutine per provider that      *)
(* keeps its file up to date (Start), the HTTP handler that refreshes a    *)
(* file on demand (server.RefreshConfig), the files they share and the     *)
(* process they run in, which can crash and be restarted.                  *)
(*                                                                         *)
(* A secret is abstracted to its version in the store.  What a file holds  *)
(* is a sequence of cells, each cell the provider and version whose write  *)
(* left it there, so that a torn or mixed file is visible as such.         *)
(***************************************************************************)
EXTENDS Naturals, Sequences

CONSTANTS
  Providers,   \* the configured file providers; each also names its goroutine
  Requests,    \* calls of the refresh endpoint
  Paths,       \* the file paths a request may name
  FileOf,      \* the "path" each provider is configured with
  Pinged,      \* the providers that ping a database first (aws_iam_auth_rds)
  Panics,      \* the providers whose getSecret may panic (aws_secrets_manager)
  None,        \* no thread, no provider
  MaxVersion,  \* bound on the rotations of a secret
  Size,        \* the number of cells a version takes
  MaxFaults    \* bound on failures and crashes

Threads == Providers \cup Requests

ASSUME ProvidersAssumption ==
  /\ FileOf \in [Providers -> Paths]
  /\ Pinged \subseteq Providers /\ Panics \subseteq Providers
  /\ Providers \cap Requests = {} /\ None \notin Threads
ASSUME BoundsAssumption ==
  /\ MaxVersion \in Nat \ {0} /\ MaxFaults \in Nat
  /\ Size \in [1..MaxVersion -> Nat \ {0}]

VARIABLES
  store,    \* external: current version of each provider's secret
  data,     \* the cells of each file
  mode,     \* "absent", "restricted" or "readable" by sibling containers
  proc,     \* the process: "down", "starting" or "serving"
  configs,  \* RefreshConfig.Configs: path -> provider, or None
  mu,       \* each provider's mutex: the thread holding it, or None
  pc,       \* where each thread stands
  prov,     \* the provider each thread works for
  got,      \* the version a thread has fetched (its local "secret")
  answer,   \* the status each request was answered with
  faults    \* failures so far
VARIABLES   \* history, read by properties only
  owed      \* the version a refresh still owes the reader of the file, or 0

vars == <<store, data, mode, proc, configs, mu, pc, prov, got, answer, faults, owed>>

\* The file a thread writes, and what it holds after a complete write.
File(t) == FileOf[prov[t]]
Full(p, v) == [i \in 1..Size[v] |-> <<p, v>>]
Prefix(p, v, n) == [i \in 1..n |-> <<p, v>>]

\* write(2) at offset 0 of a file that is not truncated again: the new cells
\* replace the first ones, a longer old content keeps its tail.
Overlay(old, new) ==
  [i \in 1..(IF Len(new) > Len(old) THEN Len(new) ELSE Len(old)) |->
     IF i \in 1..Len(new) THEN new[i] ELSE old[i]]

\* The only provider configured with its path.
Solo(p) == \A q \in Providers : FileOf[q] = FileOf[p] => q = p

InSection(t) == pc[t] \in {"open", "write", "chmod"}
Active(r) == pc[r] \notin {"idle", "done"}

\* After the step a reader finds version v of p or a newer one, complete.
WillShow(p, v) ==
  /\ mode'[FileOf[p]] = "readable"
  /\ \E w \in v..MaxVersion : data'[FileOf[p]] = Full(p, w)

\* What a refresh owes is settled by any step after which the file shows it.
Settle(debt) ==
  owed' = [r \in Requests |->
             IF debt[r] # 0 /\ prov'[r] # None /\ WillShow(prov'[r], debt[r])
               THEN 0 ELSE debt[r]]

Init ==
  /\ store = [p \in Providers |-> 1]
  /\ data \in [Paths -> {<<>>} \cup {Full(p, 1) : p \in Providers}]
  /\ mode \in [Paths -> {"absent", "restricted", "readable"}]
  /\ \A f \in Paths :
       /\ data[f] # <<>> => /\ mode[f] # "absent"
                            /\ \E p \in Providers : FileOf[p] = f /\ data[f] = Full(p, 1)
       /\ mode[f] # "absent" => \E p \in Providers : FileOf[p] = f
  /\ proc = "down"
  /\ configs = [f \in Paths |-> None]
  /\ mu = [p \in Providers |-> None]
  /\ pc = [t \in Threads |-> IF t \in Providers THEN "down" ELSE "idle"]
  /\ prov = [t \in Threads |-> IF t \in Providers THEN t ELSE None]
  /\ got = [t \in Threads |-> 1]
  /\ answer = [r \in Requests |-> "none"]
  /\ faults = 0
  /\ owed = [r \in Requests |-> 0]

-----------------------------------------------------------------------------
\* The world outside: secrets rotate in their store.
Rotate(p) ==
  /\ store[p] < MaxVersion
  /\ store' = [store EXCEPT ![p] = @ + 1]
  /\ UNCHANGED <<data, mode, proc, configs, mu, pc, prov, got, answer, faults, owed>>

Fault == faults < MaxFaults /\ faults' = faults + 1

-----------------------------------------------------------------------------
\* The process: main starts every loop, only then fills Configs (a later
\* provider of a path replaces an earlier one, in map order) and listens.
StartProcess ==
  /\ proc = "down"
  /\ proc' = "starting"
  /\ pc' = [t \in Threads |-> IF t \in Providers THEN "boot" ELSE pc[t]]
  /\ UNCHANGED <<store, data, mode, configs, mu, prov, got, answer, faults, owed>>

Listen ==
  /\ proc = "starting"
  /\ proc' = "serving"
  /\ configs' \in [Paths -> Providers \cup {None}]
  /\ \A f \in Paths :
       IF \E p \in Providers : FileOf[p] = f
         THEN configs'[f] # None /\ FileOf[configs'[f]] = f
         ELSE configs'[f] = None
  /\ UNCHANGED <<store, data, mode, mu, pc, prov, got, answer, faults, owed>>

\* Everything in memory is lost; a request in flight gets no answer.
Down ==
  /\ proc' = "down"
  /\ configs' = [f \in Paths |-> None]
  /\ mu' = [p \in Providers |-> None]
  /\ pc' = [t \in Threads |-> IF t \in Providers THEN "down"
                              ELSE IF Active(t) THEN "done" ELSE pc[t]]
  /\ answer' = [r \in Requests |-> IF Active(r) THEN "lost" ELSE answer[r]]
  /\ prov' = [t \in Threads |-> IF t \in Providers THEN t ELSE None]
  /\ got' = [t \in Threads |-> 1]
  /\ owed' = [r \in Requests |-> IF Active(r) THEN 0 ELSE owed[r]]
  /\ UNCHANGED <<store, data, mode>>

\* The process is killed, or ListenAndServe fails and main returns.
Crash == proc # "down" /\ Fault /\ Down

-----------------------------------------------------------------------------
(***************************************************************************)
(* Operators marked "slip" are not the code's: each is an operation as a   *)
(* plausible mistake would have it, kept to show which property it breaks. *)
(***************************************************************************)
\* Slip: a loop returns on an error instead of going on.
FinishLoopOnError(t, outcome) ==
  /\ pc' = [pc EXCEPT ![t] = IF t \in Requests THEN outcome
                             ELSE IF outcome = "succeeded" THEN "sleep" ELSE "down"]
  /\ UNCHANGED answer

-----------------------------------------------------------------------------
Goto(t, label) == pc' = [pc EXCEPT ![t] = label] /\ UNCHANGED answer

\* Leaving Refresh or one round of the Start loop: a loop sleeps whatever the
\* outcome, a request goes back to its handler with it.
Finish(t, outcome) == Goto(t, IF t \in Providers THEN "sleep" ELSE outcome)

Release(t) == mu' = [mu EXCEPT ![prov[t]] = None]

\* The handler returns, its locals are gone, and net/http sends the status.
Reply(r, status) ==
  /\ pc' = [pc EXCEPT ![r] = "done"]
  /\ answer' = [answer EXCEPT ![r] = status]
  /\ prov' = [prov EXCEPT ![r] = None]
  /\ got' = [got EXCEPT ![r] = 1]
  /\ owed' = [owed EXCEPT ![r] = IF status = "200" THEN @ ELSE 0]

-----------------------------------------------------------------------------
\* Start: WriteSecretFile(path, "") without the mutex.  Opening truncates; a
\* failure to open is logged and the loop goes on.
BlankFile(p) ==
  /\ pc[p] = "boot"
  /\ \/ /\ data' = [data EXCEPT ![FileOf[p]] = <<>>]
        /\ \E m \in {"restricted", "readable"} :
             mode' = [mode EXCEPT ![FileOf[p]] = IF @ = "absent" THEN m ELSE @]
        /\ Goto(p, "bootChmod")
        /\ UNCHANGED faults
     \/ Fault /\ Goto(p, "fetch") /\ UNCHANGED <<data, mode>>
  /\ UNCHANGED <<store, proc, configs, mu, prov, got, owed>>

BlankChmod(p) ==
  /\ pc[p] = "bootChmod"
  /\ Goto(p, "fetch")
  /\ \/ mode' = [mode EXCEPT ![FileOf[p]] = "readable"] /\ UNCHANGED faults
     \/ Fault /\ UNCHANGED mode
  /\ UNCHANGED <<store, data, proc, configs, mu, prov, got>>
  /\ Settle(owed)

Wake(p) ==
  /\ pc[p] = "sleep"
  /\ Goto(p, "fetch")
  /\ got' = [got EXCEPT ![p] = 1]
  /\ UNCHANGED <<store, data, mode, proc, configs, mu, prov, faults, owed>>

-----------------------------------------------------------------------------
\* The refresh endpoint: not a POST, a body that is no JSON, no "filename".
RejectRequest(r) ==
  /\ proc = "serving" /\ pc[r] = "idle"
  /\ Reply(r, "400")
  /\ UNCHANGED <<store, data, mode, proc, configs, mu, faults>>

\* A path no provider has: the loop over Configs finds nothing, and the
\* handler returns without an error (200).
RefreshNothing(r) ==
  /\ proc = "serving" /\ pc[r] = "idle"
  /\ \E f \in Paths : configs[f] = None
  /\ Reply(r, "200")
  /\ UNCHANGED <<store, data, mode, proc, configs, mu, faults>>

\* A configured path: Refresh of the one provider Configs has for it.  Unless
\* others share the path or Start may still blank the file, the request owes the
\* reader the version the store has now.
AcceptRequest(r) ==
  /\ proc = "serving" /\ pc[r] = "idle"
  /\ UNCHANGED <<store, data, mode, proc, configs, mu, got, faults>>
  /\ Goto(r, "fetch")
  /\ \E p \in Providers :
       /\ configs[FileOf[p]] = p
       /\ prov' = [prov EXCEPT ![r] = p]
       /\ Settle([owed EXCEPT ![r] = IF Solo(p) /\ pc[p] # "boot" THEN store[p] ELSE 0])

\* Refresh has returned; the mutex is free and others may be at the file again.
Answer(r) ==
  /\ pc[r] \in {"succeeded", "failed"}
  /\ Reply(r, IF pc[r] = "succeeded" THEN "200" ELSE "500")
  /\ UNCHANGED <<store, data, mode, proc, configs, mu, faults>>

-----------------------------------------------------------------------------
\* Slip: an error of the store is not returned, the empty secret is used.
FetchIgnoringError(t) ==
  /\ pc[t] = "fetch"
  /\ \/ got' = [got EXCEPT ![t] = store[prov[t]]] /\ UNCHANGED faults
     \/ got' = [got EXCEPT ![t] = 0] /\ Fault
  /\ Goto(t, "lock")
  /\ UNCHANGED <<store, data, mode, proc, configs, mu, prov, owed>>

\* Slip: a fetch that fails empties the file.
FetchErasing(t) ==
  /\ pc[t] = "fetch"
  /\ \/ /\ got' = [got EXCEPT ![t] = store[prov[t]]]
        /\ Goto(t, "lock")
        /\ UNCHANGED <<data, faults>>
     \/ /\ Fault /\ Finish(t, "failed")
        /\ data' = [data EXCEPT ![File(t)] = <<>>] /\ UNCHANGED got
  /\ UNCHANGED <<store, mode, proc, configs, mu, prov, owed>>

\* Slip: the secret of the first fetch is kept and never fetched again.
FetchOnce(t) ==
  /\ pc[t] = "fetch"
  /\ Goto(t, "lock")
  /\ UNCHANGED <<store, data, mode, proc, configs, mu, prov, got, faults, owed>>

\* getSecret, outside the mutex: the version the store has when it answers.
Fetch(t) ==
  /\ pc[t] = "fetch"
  /\ \/ /\ got' = [got EXCEPT ![t] = store[prov[t]]]
        /\ Goto(t, IF prov[t] \in Pinged THEN "ping" ELSE "lock")
        /\ UNCHANGED faults
     \/ Fault /\ Finish(t, "failed") /\ UNCHANGED got
  /\ UNCHANGED <<store, data, mode, proc, configs, mu, prov, owed>>

\* A secret without SecretString is dereferenced: net/http recovers the panic
\* of a handler, the panic of a loop ends the process.
FetchPanics(t) ==
  /\ pc[t] = "fetch" /\ prov[t] \in Panics /\ Fault
  /\ \/ t \in Providers /\ Down
     \/ /\ t \in Requests
        /\ Reply(t, "lost")
        /\ UNCHANGED <<store, data, mode, proc, configs, mu>>

\* checkDSNConnectivity with the new token, still outside the mutex.
Ping(t) ==
  /\ pc[t] = "ping"
  /\ \/ Goto(t, "lock") /\ UNCHANGED faults
     \/ Fault /\ Finish(t, "failed")
  /\ UNCHANGED <<store, data, mode, proc, configs, mu, prov, got, owed>>

\* Slip: no mutex.
LockNothing(t) ==
  /\ pc[t] = "lock"
  /\ mu' = [mu EXCEPT ![prov[t]] = t]
  /\ Goto(t, "open")
  /\ UNCHANGED <<store, data, mode, proc, configs, prov, got, faults, owed>>

\* writeFile: the mutex covers WriteSecretFile and nothing else.
Lock(t) ==
  /\ pc[t] = "lock" /\ mu[prov[t]] = None
  /\ mu' = [mu EXCEPT ![prov[t]] = t]
  /\ Goto(t, "open")
  /\ UNCHANGED <<store, data, mode, proc, configs, prov, got, faults, owed>>

\* Slips: an error path that forgets to unlock; one that reports success.
GiveUpLocked(t) == Fault /\ UNCHANGED mu /\ Finish(t, "failed")
GiveUpSilently(t) == Fault /\ Release(t) /\ Finish(t, "succeeded")

\* A step of writeFile fails: the deferred Unlock runs and the error is returned.
GiveUp(t) == Fault /\ Release(t) /\ Finish(t, "failed")

\* Slips: the file is opened without O_TRUNC; the mutex covers the open only.
OpenKeepingContent(t) ==
  /\ pc[t] = "open"
  /\ \E m \in {"restricted", "readable"} :
       mode' = [mode EXCEPT ![File(t)] = IF @ = "absent" THEN m ELSE @]
  /\ Goto(t, "write")
  /\ UNCHANGED <<store, data, proc, configs, mu, prov, got, faults, owed>>
OpenAndUnlock(t) ==
  /\ pc[t] = "open"
  /\ data' = [data EXCEPT ![File(t)] = <<>>]
  /\ Goto(t, "write") /\ Release(t)
  /\ UNCHANGED <<store, mode, proc, configs, prov, got, faults, owed>>

\* os.WriteFile opens with O_CREATE|O_TRUNC (mode subject to the umask), ...
Open(t) ==
  /\ pc[t] = "open"
  /\ \/ /\ data' = [data EXCEPT ![File(t)] = <<>>]
        /\ \E m \in {"restricted", "readable"} :
             mode' = [mode EXCEPT ![File(t)] = IF @ = "absent" THEN m ELSE @]
        /\ Goto(t, "write")
        /\ UNCHANGED <<mu, faults>>
     \/ GiveUp(t) /\ UNCHANGED <<data, mode>>
  /\ UNCHANGED <<store, proc, configs, prov, got, owed>>

\* ... then writes; a failed write (a full disk) leaves what it had written.
Write(t) ==
  /\ pc[t] = "write"
  /\ \/ /\ data' = [data EXCEPT ![File(t)] = Overlay(@, Full(prov[t], got[t]))]
        /\ Goto(t, "chmod")
        /\ UNCHANGED <<mu, faults>>
     \/ \E n \in 0..(Size[got[t]] - 1) :
          /\ data' = [data EXCEPT ![File(t)] = Overlay(@, Prefix(prov[t], got[t], n))]
          /\ GiveUp(t)
  /\ UNCHANGED <<store, mode, proc, configs, prov, got>>
  /\ Settle(owed)

\* WriteSecretFile ends with os.Chmod; then the deferred Unlock (one step: a
\* thread that waits for the mutex sees no difference), and the caller returns.
Chmod(t) ==
  /\ pc[t] = "chmod"
  /\ \/ /\ mode' = [mode EXCEPT ![File(t)] = "readable"]
        /\ Release(t)
        /\ Finish(t, "succeeded")
        /\ UNCHANGED faults
     \/ GiveUp(t) /\ UNCHANGED mode
  /\ UNCHANGED <<store, data, proc, configs, prov, got>>
  /\ Settle(owed)

-----------------------------------------------------------------------------
Loop(p) == BlankFile(p) \/ BlankChmod(p) \/ Wake(p)
Handler(r) == RejectRequest(r) \/ RefreshNothing(r) \/ AcceptRequest(r) \/ Answer(r)
Section(t) == Open(t) \/ Write(t) \/ Chmod(t)
Round(t) == Fetch(t) \/ FetchPanics(t) \/ Ping(t) \/ Lock(t) \/ Section(t)

Next ==
  \/ StartProcess \/ Listen \/ Crash
  \/ \E p \in Providers : Rotate(p) \/ Loop(p)
  \/ \E r \in Requests : Handler(r)
  \/ \E t \in Threads : Round(t)

Spec == Init /\ [][Next]_vars

(***************************************************************************)
(* Fairness.  A Go mutex hands itself to a waiter that has waited too long *)
(* (its starvation mode), hence SF on Lock.                                *)
(*                                                                         *)
(* What a request needs to be answered: its own calls return, with an      *)
(* error if not with a secret, and whoever holds a mutex goes on.  The     *)
(* loops' fetches, pings and sleeps may hang for ever.                     *)
(***************************************************************************)
HandlerSpec ==
  /\ Spec
  /\ \A r \in Requests :
       WF_vars(Fetch(r)) /\ WF_vars(Ping(r)) /\ SF_vars(Lock(r)) /\ WF_vars(Answer(r))
  /\ \A t \in Threads : WF_vars(Section(t))

\* What the loops need beyond that: the container is restarted, main goes on,
\* sleeps end and the loops' calls return.
LoopsRun ==
  /\ WF_vars(StartProcess) /\ WF_vars(Listen)
  /\ \A p \in Providers :
       WF_vars(Loop(p)) /\ WF_vars(Fetch(p)) /\ WF_vars(Ping(p)) /\ SF_vars(Lock(p))

-----------------------------------------------------------------------------
TypeOK ==
  /\ store \in [Providers -> 1..MaxVersion]
  /\ data \in [Paths -> Seq(Providers \X (1..MaxVersion))]
  /\ mode \in [Paths -> {"absent", "restricted", "readable"}]
  /\ proc \in {"down", "starting", "serving"}
  /\ configs \in [Paths -> Providers \cup {None}]
  /\ mu \in [Providers -> Threads \cup {None}]
  /\ pc \in [Threads -> {"down", "boot", "bootChmod", "idle", "fetch", "ping",
                         "lock", "open", "write", "chmod", "sleep", "succeeded",
                         "failed", "done"}]
  /\ prov \in [Threads -> Providers \cup {None}]
  /\ got \in [Threads -> 1..MaxVersion]
  /\ answer \in [Requests -> {"none", "200", "400", "500", "lost"}]
  /\ faults \in 0..MaxFaults
  /\ owed \in [Requests -> 0..MaxVersion]

\* No two threads of a provider are between opening its file and the end of
\* WriteSecretFile at once (writeFile's mutex, whatever fails or crashes).
OneWriter ==
  \A s, t \in Threads :
    InSection(s) /\ InSection(t) /\ prov[s] = prov[t] => s = t

\* A file with a single provider never holds cells of two versions, nor of a
\* version the store has not had: a reader sees a prefix of one real secret,
\* even while Start blanks the file without the mutex.
NoMixture ==
  \A p \in Providers : Solo(p) =>
    \E v \in 1..store[p] : \E n \in 0..Size[v] : data[FileOf[p]] = Prefix(p, v, n)

\* A refresh is acknowledged (200) only if the file has been readable and
\* complete, in a version at least as new as the store's when the request came
\* in, at some moment since then; unless the request came in before Start had
\* blanked the file, or several providers share it (nothing is owed then).  It
\* may no longer be so: between Unlock and the answer the loop or another
\* refresh can truncate the file again, or write an older version into it.
RefreshAcknowledged == \A r \in Requests : answer[r] = "200" => owed[r] = 0

\* Once a provider's own rounds have loaded its file, failing fetches, pings
\* and opens leave it as it is: only a writer's truncation, a failed write or
\* a restart takes the last good secret from the reader.
Loaded(p) == \E v \in 1..MaxVersion : data[FileOf[p]] = Full(p, v)
KeepsLastGood ==
  [][\A p \in Providers :
       Solo(p) /\ Loaded(p) /\ data'[FileOf[p]] # data[FileOf[p]] =>
         \/ pc[p] = "boot"
         \/ mu[p] # None /\ mu'[p] = mu[p] /\ pc[mu[p]] = "open"]_vars

\* The loops catch up: for every provider with a file of its own, again and
\* again the file holds the newest version complete and readable.
Current(p) ==
  data[FileOf[p]] = Full(p, store[p]) /\ mode[FileOf[p]] = "readable"
CatchesUp == LoopsRun => \A p \in Providers : Solo(p) => []<>Current(p)

\* ... and from some time on never an older version, although a slow loop may
\* still write one after a refresh has written the newer.
NoOldSecret ==
  LoopsRun => \A p \in Providers : Solo(p) =>
    <>[](\A v \in 1..(store[p] - 1) : data[FileOf[p]] # Full(p, v))

\* Every accepted refresh request is answered or lost with the process, even
\* when the background loop hangs in its fetch: the loop never holds the mutex
\* across a call to the store or the database.
RefreshAnswered == \A r \in Requests : Active(r) ~> ~Active(r)

-----------------------------------------------------------------------------
\* The inductive strengthening of the safety properties above.

\* Who works for whom, and where a thread of each kind can stand.
WorkerInv ==
  /\ \A p \in Providers :
       prov[p] = p /\ pc[p] \in {"down", "boot", "bootChmod", "fetch", "ping", "lock",
                                 "open", "write", "chmod", "sleep"}
  /\ \A r \in Requests :
       /\ pc[r] \in {"idle", "fetch", "ping", "lock", "open", "write", "chmod",
                     "succeeded", "failed", "done"}
       /\ IF Active(r) THEN prov[r] \in Providers /\ proc = "serving" ELSE prov[r] = None
       /\ answer[r] # "none" => pc[r] = "done"
  /\ proc = "down" => \A p \in Providers : pc[p] = "down"

\* A mutex is held exactly by the thread in the section of its provider.
MutexInv ==
  \A p \in Providers, t \in Threads : mu[p] = t <=> InSection(t) /\ prov[t] = p

\* A fetched version is one the store has had, since the request came in.
HasSecret(t) == pc[t] \in {"ping", "lock", "open", "write", "chmod"}
FetchedInv ==
  /\ \A t \in Threads : HasSecret(t) => got[t] <= store[prov[t]]
  /\ \A r \in Requests : Active(r) => owed[r] <= store[prov[r]]
  /\ \A r \in Requests : HasSecret(r) => owed[r] <= got[r]

\* Something is owed only by a request that is under way, for a file of its own
\* provider alone which Start does not blank any more in this process.
OwedInv ==
  \A r \in Requests : owed[r] # 0 =>
    /\ Active(r) /\ pc[r] # "succeeded"
    /\ Solo(prov[r]) /\ pc[prov[r]] # "boot"

\* The file while its only writer is at work on it.
Undisturbed(t) == Solo(prov[t]) /\ (t \in Requests => owed[t] # 0)
WriterInv ==
  \A t \in Threads :
    /\ pc[t] = "write" /\ Solo(prov[t]) => data[File(t)] = <<>>
    /\ pc[t] = "chmod" /\ Undisturbed(t) => data[File(t)] = Full(prov[t], got[t])

FileInv == FetchedInv /\ OwedInv /\ WriterInv /\ NoMixture
IInv == TypeOK /\ WorkerInv /\ MutexInv /\ FileInv

-----------------------------------------------------------------------------
\* A claim of the repository that the code does not keep.

\* After a refresh without an error the file has the secret in it, as the test
\* of Refresh expects ("Verify file was written").  Start may blank the file
\* after the write and before the answer (and so may a later round of the loop).
RefreshedFileIsWritten ==
  [][\A r \in Requests :
       prov[r] # None /\ answer[r] # "200" /\ answer'[r] = "200" /\ Solo(prov[r])
       => data'[File(r)] # <<>>]_vars

-----------------------------------------------------------------------------
\* The refinement of SecretFile, for the providers with a path of their own,
\* whatever others are configured next to them: what a reader finds complete in
\* the file.  A mixture is mapped to a value that SecretFile never has.
SoloProviders == {p \in Providers : Solo(p)}
SoloStore == [p \in SoloProviders |-> store[p]]
Shown(p, cells) ==
  IF \E v \in 1..MaxVersion : cells = Full(p, v)
    THEN CHOOSE v \in 1..MaxVersion : cells = Full(p, v)
    ELSE IF \E v \in 1..MaxVersion : \E n \in 0..Size[v] : cells = Prefix(p, v, n)
    THEN 0 ELSE MaxVersion + 1
Visible == [p \in SoloProviders |-> Shown(p, data[FileOf[p]])]

Promise == INSTANCE SecretFile
             WITH Providers <- SoloProviders, store <- SoloStore, file <- Visible

\* What such a file shows is what SecretFile promises: complete versions of the
\* store's, one at a time, nothing else.
PromiseSpec == Promise!Spec
=============================================================================
