------------------------------- MODULE Startup -------------------------------
(***************************************************************************)
(* From the config file to a running service: parseConfig, which walks the *)
(* entries of a Go map in any order, and main, which either loads every    *)
(* file once and exits (init container) or starts the loops and serves     *)
(* (sidecar).  A container that has exited with an error is started again  *)
(* with the same configuration.                                            *)
(***************************************************************************)
EXTENDS Naturals, Sequences

CONSTANTS
  Names,       \* the top-level keys of the config file
  MaxFailures  \* bound on the failures of Refresh and of Create

\* What an entry can be: a well-formed provider; a provider whose Create always
\* fails or whose type is unknown; one that parseConfig cannot read (no object,
\* no "type", a "type" that is no string); the deployment type, "initcontainer",
\* another string or no string; log_config; and refresh_config, with an endpoint
\* that http.Handle takes or refuses.
Providers == {"file", "proxy"}
Settings == {"log", "refresh", "refreshBadEndpoint"}
Types == {"initcontainer", "otherType", "typeNotString"}
Shapes == Providers \cup Settings \cup Types \cup {"invalid", "unreadable"}

VARIABLES
  entries,    \* the shape of each entry
  todo,       \* the entries the range loop has not reached
  proxies,    \* config.Providers
  files,      \* fileProviders, in the order they were appended
  deployment, \* deploymentType: "initcontainer", "sidecar" or, if not read, "none"
  phase,      \* what main is doing, or how it ended
  next,       \* init container: the file provider to refresh
  loaded,     \* the file providers whose file has been loaded, ever
  failures

vars == <<entries, todo, proxies, files, deployment, phase, next, loaded, failures>>

ASSUME StartupAssumption == MaxFailures \in Nat

InFiles(k) == \E i \in 1..Len(files) : files[i] = k
Are(shapes) == {k \in Names : entries[k] \in shapes}

\* Keys of a map are unique: at most one "type", "log_config", "refresh_config".
Init ==
  /\ entries \in [Names -> Shapes]
  /\ \A j, k \in Names :
       j # k => \A kind \in {Types, {"log"}, Settings \ {"log"}} :
                  ~({entries[j], entries[k]} \subseteq kind)
  /\ todo = Names
  /\ proxies = {} /\ files = <<>> /\ deployment = "none"
  /\ phase = "parsing" /\ next = 1
  /\ loaded = {} /\ failures = 0

Fail == failures < MaxFailures /\ failures' = failures + 1

-----------------------------------------------------------------------------
\* One iteration of parseConfig's range loop.
Take(k) == phase = "parsing" /\ k \in todo /\ todo' = todo \ {k}

\* Slip: the deployment type is the string itself.
ReadTypeVerbatim(k) ==
  /\ Take(k) /\ entries[k] \in {"initcontainer", "otherType"}
  /\ deployment' = entries[k]
  /\ UNCHANGED <<entries, proxies, files, phase, next, loaded, failures>>

\* Slip: no continue, the string is then taken for a provider and found unreadable.
ReadTypeWithoutContinue(k) ==
  /\ Take(k) /\ entries[k] \in {"initcontainer", "otherType"}
  /\ deployment' = IF entries[k] = "initcontainer" THEN "initcontainer" ELSE "sidecar"
  /\ phase' = "parsed"
  /\ UNCHANGED <<entries, proxies, files, next, loaded, failures>>

ReadType(k) ==
  /\ Take(k) /\ entries[k] \in {"initcontainer", "otherType"}
  /\ deployment' = IF entries[k] = "initcontainer" THEN "initcontainer" ELSE "sidecar"
  /\ UNCHANGED <<entries, proxies, files, phase, next, loaded, failures>>

\* v.(string) panics on a "type" that is no string.
PanicOnType(k) ==
  /\ Take(k) /\ entries[k] = "typeNotString"
  /\ phase' = "crashed"
  /\ UNCHANGED <<entries, proxies, files, deployment, next, loaded, failures>>

SkipSetting(k) ==
  /\ Take(k) /\ entries[k] \in Settings
  /\ UNCHANGED <<entries, proxies, files, deployment, phase, next, loaded, failures>>

CreateProxy(k) ==
  /\ Take(k) /\ entries[k] = "proxy"
  /\ proxies' = proxies \cup {k}
  /\ UNCHANGED <<entries, files, deployment, phase, next, loaded, failures>>

CreateFile(k) ==
  /\ Take(k) /\ entries[k] = "file"
  /\ files' = Append(files, k)
  /\ UNCHANGED <<entries, proxies, deployment, phase, next, loaded, failures>>

\* Create fails on the configuration, or on a login it makes (hashicorp_vault):
\* parseConfig returns the error, main ends with Fatal.
CreateFails(k) ==
  /\ Take(k)
  /\ \/ entries[k] = "invalid" /\ UNCHANGED failures
     \/ entries[k] \in Providers /\ Fail
  /\ phase' = "crashed"
  /\ UNCHANGED <<entries, proxies, files, deployment, next, loaded>>

\* An unreadable entry is logged and parseConfig returns what it has, and no
\* error: the entries not yet reached are dropped.
ReturnPartial(k) ==
  /\ Take(k) /\ entries[k] = "unreadable"
  /\ phase' = "parsed"
  /\ UNCHANGED <<entries, proxies, files, deployment, next, loaded, failures>>

ReturnAll ==
  /\ phase = "parsing" /\ todo = {}
  /\ phase' = "parsed"
  /\ UNCHANGED <<entries, todo, proxies, files, deployment, next, loaded, failures>>

-----------------------------------------------------------------------------
\* main, init container: Refresh one file provider after the other.
StartLoading ==
  /\ phase = "parsed" /\ deployment = "initcontainer"
  /\ phase' = "loading" /\ next' = 1
  /\ UNCHANGED <<entries, todo, proxies, files, deployment, loaded, failures>>

LoadFile ==
  /\ phase = "loading" /\ next <= Len(files)
  /\ loaded' = loaded \cup {files[next]}
  /\ next' = next + 1
  /\ UNCHANGED <<entries, todo, proxies, files, deployment, phase, failures>>

\* Slip: a file that cannot be loaded is skipped.
LoadFailsAndGoesOn ==
  /\ phase = "loading" /\ next <= Len(files) /\ Fail
  /\ next' = next + 1
  /\ UNCHANGED <<entries, todo, proxies, files, deployment, phase, loaded>>

\* os.Exit(1); files loaded so far stay loaded.
LoadFails ==
  /\ phase = "loading" /\ next <= Len(files) /\ Fail
  /\ phase' = "crashed"
  /\ UNCHANGED <<entries, todo, proxies, files, deployment, next, loaded>>

\* "Loaded all secrets into file", os.Exit(0).
ExitLoaded ==
  /\ phase = "loading" /\ next > Len(files)
  /\ phase' = "exited"
  /\ UNCHANGED <<entries, todo, proxies, files, deployment, next, loaded, failures>>

\* Slip: the refresh route is registered whether or not there is a refresh_config.
ServeWithoutCheck ==
  /\ phase = "parsed" /\ deployment # "initcontainer"
  /\ phase' = IF Are({"refresh"}) = {} THEN "crashed" ELSE "serving"
  /\ UNCHANGED <<entries, todo, proxies, files, deployment, next, loaded, failures>>

\* main, sidecar (also when no "type" was read): the loops are started, then
\* the routes are registered; http.Handle panics on an endpoint it refuses.
Serve ==
  /\ phase = "parsed" /\ deployment # "initcontainer"
  /\ phase' = IF Are({"refreshBadEndpoint"}) = {} THEN "serving" ELSE "crashed"
  /\ UNCHANGED <<entries, todo, proxies, files, deployment, next, loaded, failures>>

\* ListenAndServe returns an error: it is logged and main returns, which ends
\* the loops as well.
ListenFails ==
  /\ phase = "serving" /\ Fail
  /\ phase' = "crashed"
  /\ UNCHANGED <<entries, todo, proxies, files, deployment, next, loaded>>

\* The kubelet starts the container again.
Restart ==
  /\ phase = "crashed"
  /\ phase' = "parsing" /\ todo' = Names
  /\ proxies' = {} /\ files' = <<>> /\ deployment' = "none" /\ next' = 1
  /\ UNCHANGED <<entries, loaded, failures>>

Parse ==
  \/ \E k \in Names : \/ ReadType(k) \/ PanicOnType(k) \/ SkipSetting(k) \/ CreateProxy(k)
                      \/ CreateFile(k) \/ CreateFails(k) \/ ReturnPartial(k)
  \/ ReturnAll
Load == StartLoading \/ LoadFile \/ LoadFails \/ ExitLoaded

Next == Parse \/ Load \/ Serve \/ ListenFails \/ Restart

Spec == Init /\ [][Next]_vars
\* Nothing in main blocks for ever, and the container is restarted.
FairSpec == Spec /\ WF_vars(Next)

-----------------------------------------------------------------------------
TypeOK ==
  /\ entries \in [Names -> Shapes]
  /\ todo \subseteq Names /\ proxies \subseteq Names /\ loaded \subseteq Names
  /\ files \in Seq(Names)
  /\ deployment \in {"none", "initcontainer", "sidecar"}
  /\ phase \in {"parsing", "parsed", "loading", "exited", "serving", "crashed"}
  /\ next \in Nat \ {0} /\ failures \in 0..MaxFailures

Readable == Are({"unreadable"}) = {}

\* An init container that ends well has loaded every file of a readable
\* configuration, whatever the map order and the failures of earlier attempts.
ExitMeansLoaded ==
  phase = "exited" =>
    /\ \A i \in 1..Len(files) : files[i] \in loaded
    /\ Readable => Are({"file"}) \subseteq loaded

\* A service that serves, or has loaded its files, has every provider of a
\* readable configuration exactly as configured, none of them invalid, and runs
\* in the mode the configuration asks for.
RunsAsConfigured ==
  phase \in {"loading", "exited", "serving"} /\ Readable =>
    /\ proxies = Are({"proxy"})
    /\ Are({"file"}) = {k \in Names : InFiles(k)}
    /\ Are({"invalid", "typeNotString"}) = {}
    /\ (phase = "serving") <=> (Are({"initcontainer"}) = {})

\* A configuration without errors is up in the end, however often Refresh or a
\* login failed before.
Flawless == Are({"invalid", "unreadable", "typeNotString", "refreshBadEndpoint"}) = {}
ComesUp == Flawless => <>[](phase \in {"exited", "serving"})

-----------------------------------------------------------------------------
\* A claim of the repository that the code does not keep: main logs "Loaded all
\* secrets into file" before it exits with 0, whether or not parseConfig gave
\* up on the way.
ExitMeansAllLoaded == phase = "exited" => Are({"file"}) \subseteq loaded
=============================================================================
