---------------------------- MODULE StartupProofs ----------------------------
(***************************************************************************)
(* Proofs about Startup, for any configuration: an init container that     *)
(* exits has loaded its files, and a service runs as it is configured,     *)
(* whatever the order of the map and the failures of earlier attempts.     *)
(***************************************************************************)
EXTENDS Startup, TLAPS

\* What parseConfig has made of the entries it has seen.
Seen == Names \ todo
Faithful ==
  /\ proxies = {k \in Seen : entries[k] = "proxy"}
  /\ \A k \in Names : InFiles(k) <=> k \in Seen /\ entries[k] = "file"
  /\ deployment = "initcontainer" <=> \E k \in Seen : entries[k] = "initcontainer"
  /\ \A k \in Seen : entries[k] \notin {"invalid", "typeNotString", "unreadable"}

OneType == \A j, k \in Names : entries[j] \in Types /\ entries[k] \in Types => j = k

ParseInv ==
  /\ phase = "parsing" => Faithful
  /\ phase \in {"parsed", "loading", "exited", "serving"} /\ Readable => Faithful /\ todo = {}

LoadInv ==
  /\ phase = "loading" => deployment = "initcontainer" /\ next <= Len(files) + 1
                          /\ \A i \in 1..(next - 1) : files[i] \in loaded
  /\ phase = "exited" => deployment = "initcontainer"
                         /\ \A i \in 1..Len(files) : files[i] \in loaded
  /\ phase = "serving" => deployment # "initcontainer"

IInv == TypeOK /\ OneType /\ ParseInv /\ LoadInv

-----------------------------------------------------------------------------
LEMMA InitInv == Init => IInv
<1> SUFFICES ASSUME Init PROVE IInv
  OBVIOUS
<1>1. TypeOK
  BY StartupAssumption DEF Init, TypeOK
<1>2. OneType
  <2> SUFFICES ASSUME NEW j \in Names, NEW k \in Names,
                      entries[j] \in Types, entries[k] \in Types, j # k
               PROVE  FALSE
    BY DEF OneType
  <2>1. ~({entries[j], entries[k]} \subseteq Types)
    BY DEF Init
  <2> QED
    BY <2>1
<1>3. ParseInv
  BY DEF Init, ParseInv, Faithful, Seen, InFiles
<1>4. LoadInv
  BY DEF Init, LoadInv
<1> QED
  BY <1>1, <1>2, <1>3, <1>4 DEF IInv

\* Taking k makes it seen, and nothing else.
LEMMA TakeFacts ==
  ASSUME IInv, NEW k \in Names, Take(k)
  PROVE  /\ Faithful /\ k \notin Seen /\ Seen' = Seen \cup {k}
         /\ todo' \subseteq Names /\ phase = "parsing"
BY DEF Take, IInv, TypeOK, ParseInv, Seen

\* Iterations that leave an entry out of proxies, files and deployment.
LEMMA StepSkipSetting == ASSUME IInv, NEW k \in Names, SkipSetting(k) PROVE IInv'
<1>1. /\ Faithful /\ Seen' = Seen \cup {k} /\ todo' \subseteq Names /\ phase = "parsing"
      /\ entries[k] \in {"log", "refresh", "refreshBadEndpoint"}
      /\ UNCHANGED <<entries, proxies, files, deployment, phase, next, loaded, failures>>
  BY TakeFacts DEF SkipSetting, Settings
<1>2. Faithful'
  BY <1>1 DEF Faithful, InFiles
<1> QED
  BY <1>1, <1>2 DEF IInv, TypeOK, OneType, ParseInv, LoadInv

LEMMA StepReadType == ASSUME IInv, NEW k \in Names, ReadType(k) PROVE IInv'
<1>1. /\ Faithful /\ k \notin Seen /\ Seen' = Seen \cup {k} /\ todo' \subseteq Names
      /\ phase = "parsing" /\ entries[k] \in {"initcontainer", "otherType"}
      /\ deployment' = IF entries[k] = "initcontainer" THEN "initcontainer" ELSE "sidecar"
      /\ UNCHANGED <<entries, proxies, files, phase, next, loaded, failures>>
  BY TakeFacts DEF ReadType
<1>2. \A j \in Seen : entries[j] # "initcontainer"
  BY <1>1 DEF IInv, OneType, Types, Seen
<1>3. Faithful'
  BY <1>1, <1>2 DEF Faithful, InFiles
<1> QED
  BY <1>1, <1>3 DEF IInv, TypeOK, OneType, ParseInv, LoadInv

LEMMA StepCreateProxy == ASSUME IInv, NEW k \in Names, CreateProxy(k) PROVE IInv'
<1>1. /\ Faithful /\ Seen' = Seen \cup {k} /\ todo' \subseteq Names
      /\ phase = "parsing" /\ entries[k] = "proxy" /\ proxies' = proxies \cup {k}
      /\ UNCHANGED <<entries, files, deployment, phase, next, loaded, failures>>
  BY TakeFacts DEF CreateProxy
<1>2. Faithful'
  BY <1>1 DEF Faithful, InFiles
<1> QED
  BY <1>1, <1>2 DEF IInv, TypeOK, OneType, ParseInv, LoadInv

LEMMA StepCreateFile == ASSUME IInv, NEW k \in Names, CreateFile(k) PROVE IInv'
<1>1. /\ Faithful /\ Seen' = Seen \cup {k} /\ todo' \subseteq Names
      /\ phase = "parsing" /\ entries[k] = "file" /\ files' = Append(files, k)
      /\ UNCHANGED <<entries, proxies, deployment, phase, next, loaded, failures>>
  BY TakeFacts DEF CreateFile
<1>2. /\ files' \in Seq(Names) /\ Len(files') = Len(files) + 1 /\ Len(files) \in Nat
      /\ files'[Len(files) + 1] = k
      /\ \A i \in 1..Len(files) : files'[i] = files[i]
  BY <1>1 DEF IInv, TypeOK
<1>3. \A j \in Names : InFiles(j)' <=> InFiles(j) \/ j = k
  BY <1>2 DEF InFiles
<1>4. Faithful'
  BY <1>1, <1>3 DEF Faithful
<1> QED
  BY <1>1, <1>2, <1>4 DEF IInv, TypeOK, OneType, ParseInv, LoadInv

\* What ends an attempt leaves nothing to show but the types.
LEMMA StepCrash ==
  ASSUME IInv, phase' = "crashed", failures' \in 0..MaxFailures, todo' \subseteq Names,
         UNCHANGED <<entries, proxies, files, deployment, next, loaded>>
  PROVE  IInv'
BY DEF IInv, TypeOK, OneType, ParseInv, LoadInv

LEMMA FailFacts == ASSUME IInv, Fail PROVE failures' \in 0..MaxFailures
BY StartupAssumption DEF IInv, TypeOK, Fail

LEMMA StepParse == ASSUME IInv, Parse PROVE IInv'
<1>1. ASSUME NEW k \in Names, PanicOnType(k) PROVE IInv'
  BY <1>1, StepCrash, TakeFacts DEF PanicOnType, IInv, TypeOK
<1>2. ASSUME NEW k \in Names, CreateFails(k) PROVE IInv'
  <2>1. failures' \in 0..MaxFailures
    BY <1>2, FailFacts DEF CreateFails, IInv, TypeOK
  <2> QED
    BY <1>2, <2>1, StepCrash, TakeFacts DEF CreateFails
<1>3. ASSUME NEW k \in Names, ReturnPartial(k) PROVE IInv'
  <2>1. /\ todo' \subseteq Names /\ phase' = "parsed" /\ ~Readable
        /\ UNCHANGED <<entries, proxies, files, deployment, next, loaded, failures>>
    BY <1>3, TakeFacts DEF ReturnPartial, Readable, Are
  <2>2. ~Readable'
    BY <2>1 DEF Readable, Are
  <2> QED
    BY <2>1, <2>2 DEF IInv, TypeOK, OneType, ParseInv, LoadInv
<1>4. CASE ReturnAll
  <2>1. /\ Faithful /\ todo = {} /\ phase' = "parsed"
        /\ UNCHANGED <<entries, todo, proxies, files, deployment, next, loaded, failures>>
    BY <1>4 DEF ReturnAll, IInv, ParseInv
  <2>2. Faithful'
    BY <2>1 DEF Faithful, Seen, InFiles
  <2> QED
    BY <2>1, <2>2 DEF IInv, TypeOK, OneType, ParseInv, LoadInv
<1> QED
  BY <1>1, <1>2, <1>3, <1>4, StepReadType, StepSkipSetting, StepCreateProxy, StepCreateFile
  DEF Parse

\* After parsing, what parseConfig has returned is not changed.
LEMMA StepMain ==
  ASSUME IInv, UNCHANGED <<entries, todo, proxies, files, deployment>>,
         phase \in {"parsed", "loading", "exited", "serving"},
         phase' \in {"parsed", "loading", "exited", "serving"}
  PROVE  OneType' /\ ParseInv'
<1>1. (Faithful <=> Faithful') /\ (Readable <=> Readable')
  BY DEF Faithful, Seen, InFiles, Readable, Are
<1> QED
  BY <1>1 DEF IInv, OneType, ParseInv

LEMMA StepLoad == ASSUME IInv, Load PROVE IInv'
<1>1. CASE StartLoading
  <2>1. OneType' /\ ParseInv'
    BY <1>1, StepMain DEF StartLoading
  <2> QED
    BY <1>1, <2>1 DEF StartLoading, IInv, TypeOK, LoadInv
<1>2. CASE LoadFile
  <2>1. OneType' /\ ParseInv'
    BY <1>2, StepMain DEF LoadFile
  <2>2. /\ phase = "loading" /\ next <= Len(files) /\ next \in 1..Len(files)
        /\ next' = next + 1 /\ loaded' = loaded \cup {files[next]}
        /\ files[next] \in Names
        /\ UNCHANGED <<entries, todo, proxies, files, deployment, phase, failures>>
    BY <1>2 DEF LoadFile, IInv, TypeOK
  <2>3. TypeOK'
    BY <2>2 DEF IInv, TypeOK
  <2>4. LoadInv'
    BY <2>2 DEF IInv, LoadInv
  <2> QED
    BY <2>1, <2>3, <2>4 DEF IInv
<1>3. CASE LoadFails
  BY <1>3, StepCrash, FailFacts DEF LoadFails, IInv, TypeOK
<1>4. CASE ExitLoaded
  <2>1. OneType' /\ ParseInv'
    BY <1>4, StepMain DEF ExitLoaded
  <2>2. next \in Nat /\ next > Len(files) /\ Len(files) \in Nat
    BY <1>4 DEF ExitLoaded, IInv, TypeOK
  <2> QED
    BY <1>4, <2>1, <2>2 DEF ExitLoaded, IInv, TypeOK, LoadInv
<1> QED
  BY <1>1, <1>2, <1>3, <1>4 DEF Load

LEMMA StepServe == ASSUME IInv, Serve PROVE IInv'
<1>1. CASE phase' = "serving"
  <2>1. OneType' /\ ParseInv'
    BY <1>1, StepMain DEF Serve
  <2> QED
    BY <1>1, <2>1 DEF Serve, IInv, TypeOK, LoadInv
<1>2. CASE phase' = "crashed"
  BY <1>2, StepCrash DEF Serve, IInv, TypeOK
<1> QED
  BY <1>1, <1>2 DEF Serve

LEMMA StepRestart == ASSUME IInv, Restart PROVE IInv'
<1>1. Faithful'
  BY DEF Restart, Faithful, Seen, InFiles
<1> QED
  BY <1>1 DEF Restart, IInv, TypeOK, OneType, ParseInv, LoadInv

LEMMA StepInv == IInv /\ [Next]_vars => IInv'
<1> SUFFICES ASSUME IInv, [Next]_vars PROVE IInv'
  OBVIOUS
<1>1. CASE ListenFails
  BY <1>1, StepCrash, FailFacts DEF ListenFails, IInv, TypeOK
<1>2. CASE UNCHANGED vars
  BY <1>2 DEF vars, IInv, TypeOK, OneType, ParseInv, LoadInv, Faithful, Seen, InFiles, Readable, Are
<1> QED
  BY <1>1, <1>2, StepParse, StepLoad, StepServe, StepRestart DEF Next

LEMMA Inductive == Spec => []IInv
<1>1. Init => IInv
  BY InitInv
<1>2. IInv /\ [Next]_vars => IInv'
  BY StepInv
<1> QED
  BY <1>1, <1>2, PTL DEF Spec

-----------------------------------------------------------------------------
\* The variables keep their types; in particular the deployment is one that
\* main knows, whatever string the configuration has.
THEOREM TypeCorrect == Spec => []TypeOK
<1>1. IInv => TypeOK
  BY DEF IInv
<1> QED
  BY <1>1, Inductive, PTL

\* An init container exits with 0 only after every file provider it has parsed,
\* and for a readable configuration every one configured, has been loaded.
THEOREM ExitsLoaded == Spec => []ExitMeansLoaded
<1>1. IInv => ExitMeansLoaded
  <2> SUFFICES ASSUME IInv, phase = "exited" PROVE ExitMeansLoaded
    BY DEF ExitMeansLoaded
  <2>1. \A i \in 1..Len(files) : files[i] \in loaded
    BY DEF IInv, LoadInv
  <2>2. ASSUME Readable, NEW k \in Are({"file"}) PROVE k \in loaded
    <3>1. k \in Names /\ InFiles(k)
      BY <2>2 DEF IInv, ParseInv, Faithful, Seen, Are
    <3> QED
      BY <2>1, <3>1 DEF InFiles
  <2> QED
    BY <2>1, <2>2 DEF ExitMeansLoaded
<1> QED
  BY <1>1, Inductive, PTL

\* Whatever the order in which the entries are reached, a readable configuration
\* that is not refused is run in full and in the mode it asks for.
THEOREM ConfiguredRun == Spec => []RunsAsConfigured
<1>1. IInv => RunsAsConfigured
  <2> SUFFICES ASSUME IInv, phase \in {"loading", "exited", "serving"}, Readable
               PROVE  /\ proxies = Are({"proxy"})
                      /\ Are({"file"}) = {k \in Names : InFiles(k)}
                      /\ Are({"invalid", "typeNotString"}) = {}
                      /\ (phase = "serving") <=> (Are({"initcontainer"}) = {})
    BY DEF RunsAsConfigured
  <2>1. Faithful /\ Seen = Names
    BY DEF IInv, ParseInv, Seen
  <2>2. (phase = "serving") <=> (deployment # "initcontainer")
    BY DEF IInv, LoadInv
  <2> QED
    BY <2>1, <2>2 DEF Faithful, Are
<1> QED
  BY <1>1, Inductive, PTL
=============================================================================
