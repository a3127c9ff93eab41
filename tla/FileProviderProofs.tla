------------------------- MODULE FileProviderProofs -------------------------
(***************************************************************************)
(* Proofs about FileProvider, for every set of providers, requests and     *)
(* paths and every value of the bounds.                                    *)
(***************************************************************************)
EXTENDS FileProvider, SequenceTheorems, TLAPS

Cell == Providers \X (1..MaxVersion)

-----------------------------------------------------------------------------
\* What the operators on file contents compute.

\* A prefix of a version is a sequence of cells of that length.
LEMMA PrefixType ==
  ASSUME NEW p \in Providers, NEW v \in 1..MaxVersion, NEW n \in Nat
  PROVE  Prefix(p, v, n) \in Seq(Cell) /\ Len(Prefix(p, v, n)) = n
<1> DEFINE s == Prefix(p, v, n)
<1>1. s \in [1..n -> Cell]
  BY DEF Prefix, Cell
<1>2. s \in Seq(Cell)
  BY <1>1, SeqDef
<1>3. DOMAIN s = 1..n
  BY <1>1
<1>4. Len(s) \in Nat /\ DOMAIN s = 1..Len(s)
  BY <1>2, LenProperties
<1> QED
  BY <1>2, <1>3, <1>4

\* The complete version is the prefix of its whole size, and is not empty.
LEMMA FullIsPrefix ==
  ASSUME NEW p \in Providers, NEW v \in 1..MaxVersion
  PROVE  /\ Full(p, v) = Prefix(p, v, Size[v])
         /\ Size[v] \in Nat \ {0}
         /\ Full(p, v) \in Seq(Cell)
         /\ Full(p, v) # <<>>
<1>1. Size[v] \in Nat \ {0}
  BY BoundsAssumption
<1>2. Full(p, v) = Prefix(p, v, Size[v])
  BY DEF Full, Prefix
<1>3. Full(p, v) \in Seq(Cell) /\ Len(Full(p, v)) = Size[v]
  BY <1>1, <1>2, PrefixType
<1>4. Len(<<>>) = 0
  BY EmptySeq
<1> QED
  BY <1>1, <1>2, <1>3, <1>4

\* The empty file is a prefix of any version.
LEMMA EmptyIsPrefix ==
  ASSUME NEW p \in Providers, NEW v \in 1..MaxVersion
  PROVE  <<>> = Prefix(p, v, 0)
<1>1. Prefix(p, v, 0) \in Seq(Cell) /\ Len(Prefix(p, v, 0)) = 0
  BY PrefixType
<1> QED
  BY <1>1, EmptySeq

\* Writing over any content yields a sequence of cells.
LEMMA OverlayType ==
  ASSUME NEW old \in Seq(Cell), NEW new \in Seq(Cell)
  PROVE  Overlay(old, new) \in Seq(Cell)
<1> DEFINE n == IF Len(new) > Len(old) THEN Len(new) ELSE Len(old)
<1>1. /\ Len(old) \in Nat /\ old \in [1..Len(old) -> Cell]
      /\ Len(new) \in Nat /\ new \in [1..Len(new) -> Cell]
  BY LenProperties
<1>2. \A i \in 1..n : i \in 1..Len(new) \/ i \in 1..Len(old)
  BY <1>1
<1>3. [i \in 1..n |-> IF i \in 1..Len(new) THEN new[i] ELSE old[i]] \in [1..n -> Cell]
  BY <1>1, <1>2
<1>4. Overlay(old, new) \in [1..n -> Cell] /\ n \in Nat
  BY <1>1, <1>3 DEF Overlay
<1> QED
  BY <1>4, SeqDef

\* Writing to a truncated file leaves exactly what was written.
LEMMA OverlayEmpty ==
  ASSUME NEW new \in Seq(Cell)
  PROVE  Overlay(<<>>, new) = new
<1>1. Len(new) \in Nat /\ new \in [1..Len(new) -> Cell] /\ Len(<<>>) = 0
  BY LenProperties, EmptySeq
<1>2. Overlay(<<>>, new) = [i \in 1..Len(new) |-> new[i]]
  BY <1>1 DEF Overlay
<1> QED
  BY <1>1, <1>2

-----------------------------------------------------------------------------
\* The assumptions on the constants, in the form the provers use them.
LEMMA ConstantFacts ==
  /\ FileOf \in [Providers -> Paths]
  /\ Providers \cap Requests = {} /\ None \notin Threads
  /\ \A t \in Threads : t # None
  /\ \A p \in Providers : p \in Threads /\ p \notin Requests
  /\ \A r \in Requests : r \in Threads /\ r \notin Providers
  /\ MaxVersion \in Nat \ {0} /\ MaxFaults \in Nat
  /\ 0 \in 0..MaxVersion /\ 1 \in 1..MaxVersion /\ 1..MaxVersion \subseteq 0..MaxVersion
BY ProvidersAssumption, BoundsAssumption DEF Threads

-----------------------------------------------------------------------------
\* Type correctness, together with who works for whom: a thread's file is
\* defined only because a thread past "idle" has a provider.
TypeInv == TypeOK /\ WorkerInv

LEMMA TypeInit == Init => TypeInv
<1> SUFFICES ASSUME Init PROVE TypeInv
  OBVIOUS
<1>1. \A p \in Providers : Full(p, 1) \in Seq(Cell)
  <2>1. 1 \in 1..MaxVersion
    BY ConstantFacts
  <2> QED
    BY <2>1, FullIsPrefix
<1>2. data \in [Paths -> Seq(Cell)]
  <2>1. {<<>>} \cup {Full(p, 1) : p \in Providers} \subseteq Seq(Cell)
    BY <1>1, EmptySeq
  <2>2. data \in [Paths -> {<<>>} \cup {Full(p, 1) : p \in Providers}]
    BY DEF Init
  <2> QED
    BY <2>1, <2>2
<1>3. pc \in [Threads -> {"down", "idle"}] /\ prov \in [Threads -> Providers \cup {None}]
  BY DEF Init, Threads
<1>4. TypeOK
  BY <1>2, <1>3, ConstantFacts DEF TypeOK, Cell, Init
<1>5. WorkerInv
  BY <1>3, ConstantFacts DEF WorkerInv, Active, Threads, Init
<1> QED
  BY <1>4, <1>5 DEF TypeInv

\* A step of a working thread to another label keeps both, whatever it does
\* to the other variables; so does its end, and so does the handler's reply.
LoopLabels == {"bootChmod", "fetch", "ping", "lock", "open", "write", "chmod", "sleep"}
WorkLabels == {"fetch", "ping", "lock", "open", "write", "chmod"}
Outcomes == {"succeeded", "failed"}
Labels == LoopLabels \cup Outcomes \cup {"down", "boot", "idle", "done"}
Statuses == {"none", "200", "400", "500", "lost"}
PcTyped == pc \in [Threads -> Labels] /\ answer \in [Requests -> Statuses]

\* What TypeOK says of the variables other than pc and answer.
RestTyped ==
  /\ store \in [Providers -> 1..MaxVersion]
  /\ data \in [Paths -> Seq(Cell)]
  /\ mode \in [Paths -> {"absent", "restricted", "readable"}]
  /\ proc \in {"down", "starting", "serving"}
  /\ configs \in [Paths -> Providers \cup {None}]
  /\ mu \in [Providers -> Threads \cup {None}]
  /\ prov \in [Threads -> Providers \cup {None}]
  /\ got \in [Threads -> 1..MaxVersion]
  /\ faults \in 0..MaxFaults
  /\ owed \in [Requests -> 0..MaxVersion]

\* What is owed is settled or stays.
LEMMA SettleFacts ==
  ASSUME NEW debt \in [Requests -> 0..MaxVersion], Settle(debt)
  PROVE  /\ owed' \in [Requests -> 0..MaxVersion]
         /\ \A r \in Requests :
              /\ owed'[r] \in {0, debt[r]}
              /\ prov'[r] # None /\ debt[r] # 0 /\ WillShow(prov'[r], debt[r]) => owed'[r] = 0
<1> DEFINE Shows(r) == debt[r] # 0 /\ prov'[r] # None /\ WillShow(prov'[r], debt[r])
<1>1. owed' = [r \in Requests |-> IF Shows(r) THEN 0 ELSE debt[r]]
  BY DEF Settle
<1>2. \A r \in Requests : debt[r] \in 0..MaxVersion /\ 0 \in 0..MaxVersion
  BY ConstantFacts
<1> HIDE DEF Shows
<1>3. /\ owed' \in [Requests -> 0..MaxVersion]
      /\ \A r \in Requests : owed'[r] = IF Shows(r) THEN 0 ELSE debt[r]
  BY <1>1, <1>2
<1> QED
  BY <1>3 DEF Shows

LEMMA GotoType ==
  ASSUME TypeOK, WorkerInv, NEW t \in Threads,
         NEW l \in WorkLabels \cup Outcomes \cup {"bootChmod"},
         t \in Providers => pc[t] # "down" /\ l \notin Outcomes,
         t \in Requests => Active(t) /\ l # "bootChmod",
         Goto(t, l), UNCHANGED <<proc, prov>>
  PROVE  PcTyped' /\ WorkerInv'
<1>1. PcTyped'
  BY DEF Goto, TypeOK, PcTyped, Labels, LoopLabels, WorkLabels, Outcomes, Statuses
<1>2. UNCHANGED answer /\ \A s \in Threads : pc'[s] = IF s = t THEN l ELSE pc[s]
  BY DEF Goto, TypeOK
<1>3. WorkerInv'
  BY <1>2, ConstantFacts DEF WorkerInv, Active, WorkLabels, Outcomes, Threads
<1> QED
  BY <1>1, <1>3

LEMMA FinishType ==
  ASSUME TypeOK, WorkerInv, NEW t \in Threads, NEW outcome \in Outcomes,
         t \in Providers => pc[t] # "down", t \in Requests => Active(t),
         Finish(t, outcome), UNCHANGED <<proc, prov>>
  PROVE  PcTyped' /\ WorkerInv'
<1>1. CASE t \in Requests
  <2>1. Goto(t, outcome)
    BY <1>1, ConstantFacts DEF Finish
  <2> QED
    BY <1>1, <2>1, GotoType, ConstantFacts DEF Outcomes
<1>2. CASE t \in Providers
  <2>1. UNCHANGED answer /\ pc' = [pc EXCEPT ![t] = "sleep"]
    BY <1>2 DEF Finish, Goto
  <2>2. PcTyped'
    BY <2>1 DEF TypeOK, PcTyped, Labels, LoopLabels, Outcomes, Statuses
  <2>3. \A s \in Threads : pc'[s] = IF s = t THEN "sleep" ELSE pc[s]
    BY <2>1 DEF TypeOK
  <2> QED
    BY <1>2, <2>1, <2>2, <2>3, ConstantFacts DEF WorkerInv, Active, Threads
<1> QED
  BY <1>1, <1>2 DEF Threads

LEMMA ReplyType ==
  ASSUME TypeOK, WorkerInv, NEW r \in Requests, NEW status \in Statuses,
         Reply(r, status), UNCHANGED proc
  PROVE  /\ PcTyped' /\ WorkerInv'
         /\ prov' \in [Threads -> Providers \cup {None}]
         /\ got' \in [Threads -> 1..MaxVersion]
         /\ owed' \in [Requests -> 0..MaxVersion]
<1>1. /\ PcTyped'
      /\ prov' \in [Threads -> Providers \cup {None}]
      /\ got' \in [Threads -> 1..MaxVersion]
      /\ owed' \in [Requests -> 0..MaxVersion]
  BY ConstantFacts
     DEF Reply, TypeOK, PcTyped, Labels, LoopLabels, Outcomes, Statuses
<1>2. /\ \A s \in Threads : pc'[s] = IF s = r THEN "done" ELSE pc[s]
      /\ \A s \in Threads : prov'[s] = IF s = r THEN None ELSE prov[s]
      /\ \A s \in Requests : answer'[s] = IF s = r THEN status ELSE answer[s]
  BY ConstantFacts DEF Reply, TypeOK
<1>3. WorkerInv'
  BY <1>2, ConstantFacts DEF WorkerInv, Active, Threads
<1> QED
  BY <1>1, <1>3

LEMMA TypeNext == TypeInv /\ [Next]_vars => TypeInv'
<1> SUFFICES ASSUME TypeOK, WorkerInv, [Next]_vars PROVE TypeOK' /\ WorkerInv'
  BY DEF TypeInv
<1> USE ConstantFacts
<1>0. PcTyped' /\ RestTyped' => TypeOK'
  BY DEF PcTyped, RestTyped, TypeOK, Labels, LoopLabels, Outcomes, Statuses, Cell
<1>00. RestTyped
  BY DEF RestTyped, TypeOK, Cell
<1>1. CASE StartProcess
  BY <1>1 DEF StartProcess, TypeOK, WorkerInv, Active
<1>2. CASE Listen
  BY <1>2 DEF Listen, TypeOK, WorkerInv, Active
<1>3. ASSUME Down, faults' \in 0..MaxFaults PROVE TypeOK' /\ WorkerInv'
  <2>1. PcTyped'
    BY <1>3 DEF Down, TypeOK, PcTyped, Labels, LoopLabels, Outcomes, Statuses
  <2>2. prov' \in [Threads -> Providers \cup {None}] /\ got' \in [Threads -> 1..MaxVersion]
    BY <1>3 DEF Down
  <2>3. owed' \in [Requests -> 0..MaxVersion]
    BY <1>00, <1>3 DEF Down, RestTyped
  <2>4. RestTyped'
    BY <1>00, <1>3, <2>2, <2>3 DEF Down, RestTyped
  <2>5. WorkerInv'
    BY <1>3 DEF Down, WorkerInv, Active, Threads
  <2> QED
    BY <1>0, <2>1, <2>4, <2>5
<1>4. CASE Crash
  BY <1>3, <1>4 DEF Crash, Fault, TypeOK
<1>5. ASSUME NEW p \in Providers, Rotate(p) PROVE TypeOK' /\ WorkerInv'
  <2>1. TypeOK'
    <3>1. store' \in [Providers -> 1..MaxVersion]
      BY <1>00, <1>5 DEF Rotate, RestTyped
    <3>2. UNCHANGED <<pc, answer>> /\ PcTyped
      BY <1>5 DEF Rotate, TypeOK, PcTyped, Labels, LoopLabels, Outcomes, Statuses
    <3> QED
      BY <1>0, <1>00, <1>5, <3>1, <3>2 DEF Rotate, RestTyped, PcTyped
  <2>2. WorkerInv'
    BY <1>5 DEF Rotate, WorkerInv, Active
  <2> QED
    BY <2>1, <2>2
<1>6. ASSUME NEW p \in Providers, Loop(p) PROVE TypeOK' /\ WorkerInv'
  <2>1. CASE BlankFile(p)
    <3>1. PcTyped' /\ WorkerInv'
      BY <2>1, GotoType DEF BlankFile, WorkLabels, Outcomes
    <3>2. FileOf[p] \in Paths /\ <<>> \in Seq(Cell)
      BY EmptySeq
    <3>3. data' \in [Paths -> Seq(Cell)]
      <4>1. UNCHANGED data \/ data' = [data EXCEPT ![FileOf[p]] = <<>>]
        BY <2>1 DEF BlankFile
      <4>2. data \in [Paths -> Seq(Cell)]
        BY <1>00 DEF RestTyped
      <4> QED
        BY <3>2, <4>1, <4>2
    <3>4. mode' \in [Paths -> {"absent", "restricted", "readable"}]
      <4>1. CASE UNCHANGED mode
        BY <1>00, <4>1 DEF RestTyped
      <4>2. ASSUME NEW m \in {"restricted", "readable"}, NEW f \in Paths,
                   mode' = [mode EXCEPT ![f] = IF @ = "absent" THEN m ELSE @]
            PROVE  mode' \in [Paths -> {"absent", "restricted", "readable"}]
        BY <1>00, <4>2 DEF RestTyped
      <4> QED
        BY <2>1, <3>2, <4>1, <4>2 DEF BlankFile
    <3>5. RestTyped'
      BY <1>00, <2>1, <3>3, <3>4 DEF BlankFile, Fault, RestTyped
    <3> QED
      BY <1>0, <3>1, <3>5
  <2>2. CASE BlankChmod(p)
    <3>1. PcTyped' /\ WorkerInv'
      BY <2>2, GotoType DEF BlankChmod, WorkLabels, Outcomes
    <3>2. mode' \in [Paths -> {"absent", "restricted", "readable"}]
      BY <1>00, <2>2 DEF BlankChmod, RestTyped
    <3>3. owed' \in [Requests -> 0..MaxVersion]
      BY <1>00, <2>2, SettleFacts DEF BlankChmod, RestTyped
    <3>4. RestTyped'
      BY <1>00, <2>2, <3>2, <3>3 DEF BlankChmod, Fault, RestTyped
    <3> QED
      BY <1>0, <3>1, <3>4
  <2>3. CASE Wake(p)
    <3>1. PcTyped' /\ WorkerInv'
      BY <2>3, GotoType DEF Wake, WorkLabels, Outcomes
    <3>2. RestTyped'
      BY <1>00, <2>3 DEF Wake, RestTyped
    <3> QED
      BY <1>0, <3>1, <3>2
  <2> QED
    BY <1>6, <2>1, <2>2, <2>3 DEF Loop
<1>7. ASSUME NEW r \in Requests, Handler(r) PROVE TypeOK' /\ WorkerInv'
  <2>1. ASSUME NEW status \in Statuses, Reply(r, status),
               UNCHANGED <<store, data, mode, proc, configs, mu, faults>>
        PROVE  TypeOK' /\ WorkerInv'
    <3>1. RestTyped'
      BY <1>00, <2>1, ReplyType DEF RestTyped
    <3> QED
      BY <1>0, <2>1, <3>1, ReplyType
  <2>2. CASE RejectRequest(r) \/ RefreshNothing(r) \/ Answer(r)
    BY <2>1, <2>2 DEF RejectRequest, RefreshNothing, Answer, Statuses
  <2>3. CASE AcceptRequest(r)
    <3>1. PcTyped'
      BY <2>3 DEF AcceptRequest, Goto, TypeOK, PcTyped, Labels, LoopLabels, Outcomes, Statuses
    <3>2. PICK p \in Providers :
            /\ prov' = [prov EXCEPT ![r] = p]
            /\ Settle([owed EXCEPT ![r] = IF Solo(p) /\ pc[p] # "boot" THEN store[p] ELSE 0])
      BY <2>3 DEF AcceptRequest
    <3>3. /\ \A s \in Threads : pc'[s] = IF s = r THEN "fetch" ELSE pc[s]
          /\ \A s \in Threads : prov'[s] = IF s = r THEN p ELSE prov[s]
          /\ pc[r] = "idle" /\ UNCHANGED answer
      BY <2>3, <3>2 DEF AcceptRequest, Goto, TypeOK
    <3>4. WorkerInv'
      BY <2>3, <3>3 DEF AcceptRequest, WorkerInv, Active
    <3>5. [owed EXCEPT ![r] = IF Solo(p) /\ pc[p] # "boot" THEN store[p] ELSE 0]
            \in [Requests -> 0..MaxVersion]
      BY <1>00 DEF RestTyped
    <3>6. owed' \in [Requests -> 0..MaxVersion]
      BY <3>2, <3>5, SettleFacts
    <3>7. prov' \in [Threads -> Providers \cup {None}]
      BY <1>00, <3>2 DEF RestTyped
    <3>8. RestTyped'
      BY <1>00, <2>3, <3>6, <3>7 DEF AcceptRequest, RestTyped
    <3> QED
      BY <1>0, <3>1, <3>4, <3>8
  <2> QED
    BY <1>7, <2>2, <2>3 DEF Handler
<1>8. ASSUME NEW t \in Threads, Round(t) PROVE TypeOK' /\ WorkerInv'
  <2>0. pc[t] \in WorkLabels =>
          prov[t] \in Providers /\ (t \in Providers => pc[t] # "down")
          /\ (t \in Requests => Active(t))
    BY DEF WorkerInv, Active, WorkLabels, Threads
  <2>1. CASE Fetch(t)
    <3>1. PcTyped' /\ WorkerInv'
      BY <2>0, <2>1, GotoType, FinishType DEF Fetch, WorkLabels, Outcomes
    <3>2. RestTyped'
      BY <1>00, <2>0, <2>1 DEF Fetch, Fault, RestTyped, WorkLabels
    <3> QED
      BY <1>0, <3>1, <3>2
  <2>2. CASE FetchPanics(t)
    <3>1. CASE Down
      BY <1>00, <1>3, <2>2, <3>1 DEF FetchPanics, Fault, RestTyped
    <3>2. CASE ~Down
      <4>1. /\ t \in Requests /\ Reply(t, "lost") /\ faults' \in 0..MaxFaults
            /\ UNCHANGED <<store, data, mode, proc, configs, mu>>
        BY <1>00, <2>2, <3>2 DEF FetchPanics, Fault, RestTyped
      <4>2. RestTyped'
        BY <1>00, <4>1, ReplyType DEF RestTyped, Statuses
      <4> QED
        BY <1>0, <4>1, <4>2, ReplyType DEF Statuses
    <3> QED
      BY <3>1, <3>2
  <2>3. CASE Ping(t)
    <3>1. PcTyped' /\ WorkerInv'
      BY <2>0, <2>3, GotoType, FinishType DEF Ping, WorkLabels, Outcomes
    <3>2. RestTyped'
      BY <1>00, <2>3 DEF Ping, Fault, RestTyped
    <3> QED
      BY <1>0, <3>1, <3>2
  <2>4. CASE Lock(t)
    <3>1. PcTyped' /\ WorkerInv'
      BY <2>0, <2>4, GotoType DEF Lock, WorkLabels, Outcomes
    <3>2. RestTyped'
      BY <1>00, <2>4 DEF Lock, RestTyped
    <3> QED
      BY <1>0, <3>1, <3>2
  <2>5. CASE Open(t)
    <3>1. PcTyped' /\ WorkerInv'
      BY <2>0, <2>5, GotoType, FinishType DEF Open, GiveUp, WorkLabels, Outcomes
    <3>2. prov[t] \in Providers /\ File(t) \in Paths /\ <<>> \in Seq(Cell)
      BY <2>0, <2>5, EmptySeq DEF Open, File, WorkLabels
    <3>3. data' \in [Paths -> Seq(Cell)]
      <4>1. UNCHANGED data \/ data' = [data EXCEPT ![File(t)] = <<>>]
        BY <2>5 DEF Open
      <4> QED
        BY <1>00, <3>2, <4>1 DEF RestTyped
    <3>4. mode' \in [Paths -> {"absent", "restricted", "readable"}]
      <4>1. CASE UNCHANGED mode
        BY <1>00, <4>1 DEF RestTyped
      <4>2. ASSUME NEW m \in {"restricted", "readable"}, NEW f \in Paths,
                   mode' = [mode EXCEPT ![f] = IF @ = "absent" THEN m ELSE @]
            PROVE  mode' \in [Paths -> {"absent", "restricted", "readable"}]
        BY <1>00, <4>2 DEF RestTyped
      <4> QED
        BY <2>5, <3>2, <4>1, <4>2 DEF Open
    <3>5. mu' \in [Providers -> Threads \cup {None}]
      BY <1>00, <2>5 DEF Open, GiveUp, Release, RestTyped
    <3>6. faults' \in 0..MaxFaults
      BY <1>00, <2>5 DEF Open, GiveUp, Fault, RestTyped
    <3>7. RestTyped'
      BY <1>00, <2>5, <3>3, <3>4, <3>5, <3>6 DEF Open, RestTyped
    <3> QED
      BY <1>0, <3>1, <3>7
  <2>6. CASE Write(t)
    <3>1. PcTyped' /\ WorkerInv'
      BY <2>0, <2>6, GotoType, FinishType DEF Write, GiveUp, WorkLabels, Outcomes
    <3>2. prov[t] \in Providers /\ File(t) \in Paths /\ got[t] \in 1..MaxVersion
      BY <2>0, <2>6 DEF Write, File, WorkLabels, TypeOK
    <3>3. Size[got[t]] \in Nat \ {0}
      BY <3>2, BoundsAssumption
    <3>4. data' \in [Paths -> Seq(Cell)]
      <4>1. data[File(t)] \in Seq(Cell)
        BY <1>00, <3>2 DEF RestTyped
      <4>2. Overlay(data[File(t)], Full(prov[t], got[t])) \in Seq(Cell)
        BY <3>2, <4>1, FullIsPrefix, OverlayType
      <4>3. \A n \in 0..(Size[got[t]] - 1) :
              Overlay(data[File(t)], Prefix(prov[t], got[t], n)) \in Seq(Cell)
        <5> TAKE n \in 0..(Size[got[t]] - 1)
        <5>1. n \in Nat
          BY <3>3
        <5> QED
          BY <3>2, <4>1, <5>1, PrefixType, OverlayType
      <4>4. PICK c \in Seq(Cell) : data' = [data EXCEPT ![File(t)] = c]
        BY <2>6, <4>2, <4>3 DEF Write
      <4> QED
        BY <1>00, <3>2, <4>4 DEF RestTyped
    <3>5. mu' \in [Providers -> Threads \cup {None}]
      BY <1>00, <2>6 DEF Write, GiveUp, Release, RestTyped
    <3>6. faults' \in 0..MaxFaults
      BY <1>00, <2>6 DEF Write, GiveUp, Fault, RestTyped
    <3>7. owed' \in [Requests -> 0..MaxVersion]
      BY <1>00, <2>6, SettleFacts DEF Write, RestTyped
    <3>8. RestTyped'
      BY <1>00, <2>6, <3>4, <3>5, <3>6, <3>7 DEF Write, RestTyped
    <3> QED
      BY <1>0, <3>1, <3>8
  <2>7. CASE Chmod(t)
    <3>1. PcTyped' /\ WorkerInv'
      BY <2>0, <2>7, FinishType DEF Chmod, GiveUp, WorkLabels, Outcomes
    <3>2. File(t) \in Paths
      BY <2>0, <2>7 DEF Chmod, File, WorkLabels
    <3>3. mode' \in [Paths -> {"absent", "restricted", "readable"}]
      BY <1>00, <2>7, <3>2 DEF Chmod, RestTyped
    <3>4. mu' \in [Providers -> Threads \cup {None}]
      BY <1>00, <2>7 DEF Chmod, GiveUp, Release, RestTyped
    <3>5. faults' \in 0..MaxFaults
      BY <1>00, <2>7 DEF Chmod, GiveUp, Fault, RestTyped
    <3>6. owed' \in [Requests -> 0..MaxVersion]
      BY <1>00, <2>7, SettleFacts DEF Chmod, RestTyped
    <3>7. RestTyped'
      BY <1>00, <2>7, <3>3, <3>4, <3>5, <3>6 DEF Chmod, RestTyped
    <3> QED
      BY <1>0, <3>1, <3>7
  <2> QED
    BY <1>8, <2>1, <2>2, <2>3, <2>4, <2>5, <2>6, <2>7 DEF Round, Section
<1>9. CASE UNCHANGED vars
  BY <1>9 DEF vars, TypeOK, WorkerInv, Active
<1> QED
  BY <1>1, <1>2, <1>4, <1>5, <1>6, <1>7, <1>8, <1>9 DEF Next

\* Every variable stays in its type.
THEOREM TypeCorrect == Spec => []TypeOK
<1>1. TypeInv => TypeOK
  BY DEF TypeInv
<1> QED
  BY <1>1, TypeInit, TypeNext, PTL DEF Spec

-----------------------------------------------------------------------------
\* Where the threads stand after a step, for the proofs below.
LEMMA GotoPc ==
  ASSUME TypeOK, NEW t \in Threads, NEW l, Goto(t, l)
  PROVE  \A s \in Threads : pc'[s] = IF s = t THEN l ELSE pc[s]
BY DEF Goto, TypeOK

LEMMA FinishPc ==
  ASSUME TypeOK, NEW t \in Threads, NEW outcome, Finish(t, outcome)
  PROVE  /\ \A s \in Threads : s # t => pc'[s] = pc[s]
         /\ t \in Providers => pc'[t] = "sleep"
         /\ t \notin Providers => pc'[t] = outcome
BY DEF Finish, Goto, TypeOK

LEMMA ReplyPc ==
  ASSUME TypeOK, NEW r \in Requests, NEW status, Reply(r, status)
  PROVE  /\ \A s \in Threads : pc'[s] = IF s = r THEN "done" ELSE pc[s]
         /\ \A s \in Threads : s # r => prov'[s] = prov[s] /\ got'[s] = got[s]
         /\ \A s \in Requests : s # r => owed'[s] = owed[s]
         /\ owed'[r] = IF status = "200" THEN owed[r] ELSE 0
BY ConstantFacts DEF Reply, TypeOK

LEMMA DownPc ==
  ASSUME TypeOK, WorkerInv, Down
  PROVE  /\ \A p \in Providers : pc'[p] = "down"
         /\ \A r \in Requests : pc'[r] \in {"idle", "done"}
BY ConstantFacts DEF Down, TypeOK, WorkerInv, Active

\* The mutex is untouched, and so is everyone's standing with respect to it.
LEMMA MutexFrame ==
  ASSUME MutexInv, UNCHANGED mu,
         \A s \in Threads : \/ (~InSection(s) /\ ~InSection(s)')
                           \/ (prov'[s] = prov[s] /\ (InSection(s) <=> InSection(s)'))
  PROVE  MutexInv'
BY DEF MutexInv, InSection

\* The holder leaves its section and gives the mutex back.
LEMMA MutexRelease ==
  ASSUME TypeOK, MutexInv, NEW t \in Threads, InSection(t), prov[t] \in Providers,
         Release(t), UNCHANGED prov, ~InSection(t)',
         \A s \in Threads : s # t => pc'[s] = pc[s]
  PROVE  MutexInv'
<1> SUFFICES ASSUME NEW p \in Providers, NEW s \in Threads
             PROVE  (mu[p] = s <=> InSection(s) /\ prov[s] = p)'
  BY DEF MutexInv
<1>1. mu'[p] = IF p = prov[t] THEN None ELSE mu[p]
  BY DEF Release, TypeOK
<1>2. mu[prov[t]] = t
  BY DEF MutexInv
<1>3. CASE s = t
  BY <1>1, <1>2, <1>3, ConstantFacts DEF MutexInv
<1>4. CASE s # t
  BY <1>1, <1>2, <1>4, ConstantFacts DEF MutexInv, InSection
<1> QED
  BY <1>3, <1>4

\* Failing anywhere in the section releases the mutex.
LEMMA MutexGiveUp ==
  ASSUME TypeOK, WorkerInv, MutexInv, NEW t \in Threads, InSection(t), GiveUp(t),
         UNCHANGED prov
  PROVE  MutexInv'
<1>1. prov[t] \in Providers
  BY DEF WorkerInv, InSection, Active, Threads
<1>2. ~InSection(t)' /\ \A s \in Threads : s # t => pc'[s] = pc[s]
  BY FinishPc DEF GiveUp, InSection, Threads
<1>3. Release(t)
  BY DEF GiveUp
<1> QED
  BY <1>1, <1>2, <1>3, MutexRelease

LEMMA MutexNext == TypeInv /\ MutexInv /\ [Next]_vars => MutexInv'
<1> SUFFICES ASSUME TypeOK, WorkerInv, MutexInv, [Next]_vars PROVE MutexInv'
  BY DEF TypeInv
<1>1. CASE StartProcess
  <2>1. \A s \in Threads : (~InSection(s) /\ ~InSection(s)') \/ pc'[s] = pc[s]
    BY <1>1, ConstantFacts DEF StartProcess, WorkerInv, InSection, TypeOK, Threads
  <2> QED
    BY <1>1, <2>1, MutexFrame DEF StartProcess, InSection
<1>2. CASE Listen
  BY <1>2, MutexFrame DEF Listen, InSection
<1>3. ASSUME Down PROVE MutexInv'
  <2>1. \A s \in Threads : ~InSection(s)'
    BY <1>3, DownPc DEF InSection, Threads
  <2>2. \A p \in Providers : mu'[p] = None
    BY <1>3 DEF Down
  <2> QED
    BY <2>1, <2>2, ConstantFacts DEF MutexInv
<1>4. CASE Crash
  BY <1>3, <1>4 DEF Crash
<1>5. ASSUME NEW p \in Providers, Rotate(p) PROVE MutexInv'
  BY <1>5, MutexFrame DEF Rotate, InSection
<1>6. ASSUME NEW p \in Providers, Loop(p) PROVE MutexInv'
  <2>1. UNCHANGED <<mu, prov>> /\ pc[p] \in {"boot", "bootChmod", "sleep"}
    BY <1>6 DEF Loop, BlankFile, BlankChmod, Wake
  <2>2. Goto(p, "bootChmod") \/ Goto(p, "fetch")
    BY <1>6 DEF Loop, BlankFile, BlankChmod, Wake
  <2>3. \A s \in Threads : (~InSection(s) /\ ~InSection(s)') \/ pc'[s] = pc[s]
    BY <2>1, <2>2, GotoPc, ConstantFacts DEF InSection
  <2> QED
    BY <2>1, <2>3, MutexFrame DEF InSection
<1>7. ASSUME NEW r \in Requests, Handler(r) PROVE MutexInv'
  <2>1. CASE RejectRequest(r) \/ RefreshNothing(r) \/ Answer(r)
    <3>1. /\ pc[r] \in {"idle", "succeeded", "failed"} /\ UNCHANGED mu
          /\ \E status : Reply(r, status)
      BY <2>1 DEF RejectRequest, RefreshNothing, Answer
    <3>2. /\ ~InSection(r) /\ ~InSection(r)'
          /\ \A s \in Threads : s # r => pc'[s] = pc[s] /\ prov'[s] = prov[s]
      BY <3>1, ReplyPc, ConstantFacts DEF InSection
    <3> QED
      BY <3>1, <3>2, MutexFrame DEF InSection
  <2>2. CASE AcceptRequest(r)
    <3>1. /\ pc[r] = "idle" /\ UNCHANGED mu
          /\ \A s \in Threads : s # r => pc'[s] = pc[s] /\ prov'[s] = prov[s]
          /\ pc'[r] = "fetch"
      BY <2>2, GotoPc, ConstantFacts DEF AcceptRequest, TypeOK
    <3> QED
      BY <3>1 DEF MutexInv, InSection
  <2> QED
    BY <1>7, <2>1, <2>2 DEF Handler
<1>8. ASSUME NEW t \in Threads, Round(t) PROVE MutexInv'
  <2>1. CASE Fetch(t) \/ Ping(t)
    <3>1. UNCHANGED <<mu, prov>> /\ pc[t] \in {"fetch", "ping"}
      BY <2>1 DEF Fetch, Ping
    <3>2. Goto(t, "lock") \/ Goto(t, "ping") \/ Finish(t, "failed")
      BY <2>1 DEF Fetch, Ping
    <3>3. \A s \in Threads : (~InSection(s) /\ ~InSection(s)') \/ pc'[s] = pc[s]
      BY <3>1, <3>2, GotoPc, FinishPc DEF InSection, Threads
    <3> QED
      BY <3>1, <3>3, MutexFrame DEF InSection
  <2>2. CASE FetchPanics(t)
    <3>1. CASE Down
      BY <1>3, <3>1
    <3>2. CASE t \in Requests /\ Reply(t, "lost") /\ UNCHANGED mu
      <4>1. /\ ~InSection(t) /\ ~InSection(t)'
            /\ \A s \in Threads : s # t => pc'[s] = pc[s] /\ prov'[s] = prov[s]
        BY <2>2, <3>2, ReplyPc, ConstantFacts DEF FetchPanics, InSection
      <4> QED
        BY <3>2, <4>1, MutexFrame DEF InSection
    <3> QED
      BY <2>2, <3>1, <3>2 DEF FetchPanics
  <2>3. CASE Lock(t)
    <3>1. /\ \A s \in Threads : pc'[s] = IF s = t THEN "open" ELSE pc[s]
          /\ pc[t] = "lock" /\ mu[prov[t]] = None /\ UNCHANGED prov
          /\ prov[t] \in Providers
      BY <2>3, GotoPc DEF Lock, WorkerInv, Active, Threads
    <3>2. \A p \in Providers : mu'[p] = IF p = prov[t] THEN t ELSE mu[p]
      BY <2>3, <3>1 DEF Lock, TypeOK
    <3> QED
      BY <3>1, <3>2, ConstantFacts DEF MutexInv, InSection
  <2>4. CASE Section(t)
    <3>1. InSection(t) /\ UNCHANGED prov
      BY <2>4 DEF Section, Open, Write, Chmod, InSection
    <3>2. CASE GiveUp(t)
      BY <3>1, <3>2, MutexGiveUp
    <3>3. CASE UNCHANGED mu /\ (Goto(t, "write") \/ Goto(t, "chmod"))
      <4>1. \A s \in Threads : (InSection(s) /\ InSection(s)') \/ pc'[s] = pc[s]
        BY <3>1, <3>3, GotoPc DEF InSection
      <4>2. \A s \in Threads : prov'[s] = prov[s] /\ (InSection(s) <=> InSection(s)')
        BY <3>1, <4>1 DEF InSection
      <4> QED
        BY <3>3, <4>2, MutexFrame
    <3>4. CASE Release(t) /\ Finish(t, "succeeded")
      <4>1. ~InSection(t)' /\ \A s \in Threads : s # t => pc'[s] = pc[s]
        BY <3>4, FinishPc DEF InSection, Threads
      <4>2. prov[t] \in Providers
        BY <3>1 DEF WorkerInv, InSection, Active, Threads
      <4> QED
        BY <3>1, <3>4, <4>1, <4>2, MutexRelease
    <3> QED
      BY <2>4, <3>2, <3>3, <3>4 DEF Section, Open, Write, Chmod
  <2> QED
    BY <1>8, <2>1, <2>2, <2>3, <2>4 DEF Round
<1>9. CASE UNCHANGED vars
  BY <1>9, MutexFrame DEF vars, InSection
<1> QED
  BY <1>1, <1>2, <1>4, <1>5, <1>6, <1>7, <1>8, <1>9 DEF Next

LEMMA MutexInit == Init => MutexInv
BY ConstantFacts DEF Init, MutexInv, InSection

\* At most one thread of a provider writes its file at a time, whatever fails,
\* panics or crashes.
THEOREM MutualExclusion == Spec => []OneWriter
<1>1. TypeInv /\ MutexInv => OneWriter
  <2> SUFFICES ASSUME WorkerInv, MutexInv, NEW s \in Threads, NEW t \in Threads,
                      InSection(s), InSection(t), prov[s] = prov[t]
               PROVE  s = t
    BY DEF OneWriter, TypeInv
  <2>1. prov[s] \in Providers
    BY DEF WorkerInv, InSection, Active, Threads
  <2>2. mu[prov[s]] = s /\ mu[prov[s]] = t
    BY <2>1 DEF MutexInv
  <2> QED
    BY <2>2
<1> QED
  BY <1>1, TypeInit, TypeNext, MutexInit, MutexNext, PTL DEF Spec

-----------------------------------------------------------------------------
\* What a refresh owes: after its acceptance only ever less.
LEMMA OwedShrinks ==
  ASSUME TypeOK, [Next]_vars, NEW r \in Requests, ~AcceptRequest(r)
  PROVE  owed'[r] \in {0, owed[r]}
<1>0. owed \in [Requests -> 0..MaxVersion]
  BY DEF TypeOK
<1>1. CASE UNCHANGED owed
  BY <1>1
<1>2. CASE Settle(owed)
  BY <1>0, <1>2, SettleFacts
<1>3. CASE Down
  BY <1>3 DEF Down
<1>4. ASSUME NEW s \in Requests, NEW status, Reply(s, status)
      PROVE  owed'[r] \in {0, owed[r]}
  BY <1>4, ReplyPc
<1>5. ASSUME NEW s \in Requests, s # r, AcceptRequest(s)
      PROVE  owed'[r] \in {0, owed[r]}
  <2>1. PICK p \in Providers :
          Settle([owed EXCEPT ![s] = IF Solo(p) /\ pc[p] # "boot" THEN store[p] ELSE 0])
    BY <1>5 DEF AcceptRequest
  <2> DEFINE debt == [owed EXCEPT ![s] = IF Solo(p) /\ pc[p] # "boot" THEN store[p] ELSE 0]
  <2>2. debt \in [Requests -> 0..MaxVersion] /\ debt[r] = owed[r]
    BY <1>0, <1>5, ConstantFacts DEF TypeOK
  <2> HIDE DEF debt
  <2>3. Settle(debt)
    BY <2>1 DEF debt
  <2> QED
    BY <2>2, <2>3, SettleFacts
<1> QED
  BY <1>1, <1>2, <1>3, <1>4, <1>5
     DEF Next, vars, StartProcess, Listen, Crash, Rotate, Loop, BlankFile, BlankChmod, Wake,
         Handler, RejectRequest, RefreshNothing, Answer, Round, Fetch, FetchPanics, Ping,
         Lock, Section, Open, Write, Chmod

\* What the acceptance of a request makes it owe.
LEMMA AcceptFacts ==
  ASSUME TypeOK, NEW r \in Requests, AcceptRequest(r)
  PROVE  \E p \in Providers :
           /\ pc[r] = "idle" /\ UNCHANGED <<store, data, mu, got>>
           /\ \A s \in Threads : pc'[s] = IF s = r THEN "fetch" ELSE pc[s]
           /\ \A s \in Threads : prov'[s] = IF s = r THEN p ELSE prov[s]
           /\ owed'[r] \in {0, store[p]}
           /\ owed'[r] # 0 => Solo(p) /\ pc[p] # "boot"
<1>1. PICK p \in Providers :
        /\ prov' = [prov EXCEPT ![r] = p]
        /\ Settle([owed EXCEPT ![r] = IF Solo(p) /\ pc[p] # "boot" THEN store[p] ELSE 0])
  BY DEF AcceptRequest
<1> DEFINE debt == [owed EXCEPT ![r] = IF Solo(p) /\ pc[p] # "boot" THEN store[p] ELSE 0]
<1>2. /\ debt \in [Requests -> 0..MaxVersion]
      /\ debt[r] = IF Solo(p) /\ pc[p] # "boot" THEN store[p] ELSE 0
  BY ConstantFacts DEF TypeOK
<1> HIDE DEF debt
<1>3. Settle(debt)
  BY <1>1 DEF debt
<1>4. owed'[r] \in {0, debt[r]}
  BY <1>2, <1>3, SettleFacts
<1>5. pc[r] = "idle" /\ UNCHANGED <<store, data, mu, got>> /\ Goto(r, "fetch")
  BY DEF AcceptRequest
<1>6. r \in Threads /\ \A s \in Threads : pc'[s] = IF s = r THEN "fetch" ELSE pc[s]
  BY <1>5, GotoPc, ConstantFacts
<1>7. \A s \in Threads : prov'[s] = IF s = r THEN p ELSE prov[s]
  BY <1>1 DEF TypeOK
<1> QED
  BY <1>2, <1>4, <1>5, <1>6, <1>7

-----------------------------------------------------------------------------
\* What is fetched is what the store has had since the request came in.

\* A step that fetches nothing and accepts nothing, store aside.
LEMMA FetchedFrame ==
  ASSUME TypeOK, WorkerInv, FetchedInv, TypeOK',
         \A p \in Providers : store[p] <= store'[p],
         \A s \in Threads : HasSecret(s)' => /\ HasSecret(s) /\ prov'[s] = prov[s]
                                             /\ got'[s] = got[s],
         \A r \in Requests : /\ Active(r)' => Active(r) /\ prov'[r] = prov[r]
                             /\ owed'[r] \in {0, owed[r]}
  PROVE  FetchedInv'
<1>1. \A s \in Threads : HasSecret(s) => prov[s] \in Providers
  BY DEF WorkerInv, HasSecret, Active, Threads
<1>2. \A r \in Requests : Active(r) => prov[r] \in Providers
  BY DEF WorkerInv
<1>3. \A s \in Threads : HasSecret(s)' => got'[s] <= store'[prov'[s]]
  BY <1>1 DEF FetchedInv, TypeOK
<1>3a. /\ \A r \in Requests : owed[r] \in Nat /\ r \in Threads
       /\ \A q \in Providers : store[q] \in Nat /\ store'[q] \in Nat
       /\ \A s \in Threads : got[s] \in Nat
  BY ConstantFacts DEF TypeOK
<1>4. \A r \in Requests : Active(r)' => owed'[r] <= store'[prov'[r]]
  <2> SUFFICES ASSUME NEW r \in Requests, Active(r)' PROVE owed'[r] <= store'[prov'[r]]
    OBVIOUS
  <2>1. prov'[r] = prov[r] /\ prov[r] \in Providers /\ owed[r] <= store[prov[r]]
    BY <1>2 DEF FetchedInv
  <2> QED
    BY <1>3a, <2>1
<1>5. \A r \in Requests : HasSecret(r)' => owed'[r] <= got'[r]
  <2> SUFFICES ASSUME NEW r \in Requests, HasSecret(r)' PROVE owed'[r] <= got'[r]
    OBVIOUS
  <2>1. r \in Threads /\ got'[r] = got[r] /\ owed[r] <= got[r]
    BY <1>3a DEF FetchedInv
  <2> QED
    BY <1>3a, <2>1
<1> QED
  BY <1>3, <1>4, <1>5 DEF FetchedInv

LEMMA FetchedNext == TypeInv /\ TypeInv' /\ FetchedInv /\ [Next]_vars => FetchedInv'
<1> SUFFICES ASSUME TypeOK, WorkerInv, TypeOK', FetchedInv, [Next]_vars PROVE FetchedInv'
  BY DEF TypeInv
<1> DEFINE Still == \A s \in Threads : /\ HasSecret(s)' => HasSecret(s)
                                       /\ s \in Requests /\ Active(s)' => Active(s)
           NoneAccepted == \A r \in Requests : ~AcceptRequest(r)
<1>0. \A p \in Providers : store[p] <= store[p]
  BY DEF TypeOK
<1>00. ASSUME Still, UNCHANGED <<store, prov, got>>, NoneAccepted PROVE FetchedInv'
  BY <1>0, <1>00, FetchedFrame, OwedShrinks, ConstantFacts
<1>02. /\ \A r \in Requests : owed[r] \in Nat /\ r \in Threads
       /\ \A q \in Providers : store[q] \in Nat
       /\ \A s \in Threads : got[s] \in Nat
  BY ConstantFacts DEF TypeOK
\* A reply leaves its request behind.
<1>01. ASSUME NEW r \in Requests, NEW status, Reply(r, status), UNCHANGED store
       PROVE  FetchedInv'
  <2>1. NoneAccepted
    BY <1>01, ReplyPc, AcceptFacts, ConstantFacts
  <2>2. \A s \in Threads : HasSecret(s)' => /\ HasSecret(s) /\ prov'[s] = prov[s]
                                            /\ got'[s] = got[s]
    BY <1>01, ReplyPc, ConstantFacts DEF HasSecret
  <2>3. \A s \in Requests : Active(s)' => Active(s) /\ prov'[s] = prov[s]
    BY <1>01, ReplyPc, ConstantFacts DEF Active
  <2> QED
    BY <1>0, <1>01, <2>1, <2>2, <2>3, FetchedFrame, OwedShrinks
<1> HIDE DEF Still
<1>1. CASE StartProcess
  <2>1. Still
    BY <1>1, ConstantFacts DEF StartProcess, Still, HasSecret, Active, TypeOK, WorkerInv, Threads
  <2>2. NoneAccepted
    BY <1>1 DEF StartProcess, AcceptRequest
  <2> QED
    BY <1>00, <1>1, <2>1, <2>2 DEF StartProcess
<1>2. CASE Listen
  <2>1. NoneAccepted
    BY <1>2 DEF Listen, AcceptRequest
  <2> QED
    BY <1>00, <1>2, <2>1 DEF Listen, Still, HasSecret, Active
<1>3. ASSUME Down PROVE FetchedInv'
  <2>1. \A s \in Threads : ~HasSecret(s)'
    BY <1>3, DownPc DEF HasSecret, Threads
  <2>2. \A r \in Requests : ~Active(r)'
    BY <1>3, DownPc DEF Active
  <2> QED
    BY <2>1, <2>2, ConstantFacts DEF FetchedInv
<1>4. CASE Crash
  BY <1>3, <1>4 DEF Crash
<1>5. ASSUME NEW p \in Providers, Rotate(p) PROVE FetchedInv'
  <2>1. \A q \in Providers : store[q] <= store'[q]
    BY <1>5 DEF Rotate, TypeOK
  <2> QED
    BY <1>5, <2>1, FetchedFrame DEF Rotate, HasSecret, Active
<1>6. ASSUME NEW p \in Providers, Loop(p) PROVE FetchedInv'
  <2>1. /\ UNCHANGED <<store, prov>> /\ (Goto(p, "bootChmod") \/ Goto(p, "fetch"))
        /\ \A s \in Threads : s # p => got'[s] = got[s]
    BY <1>6 DEF Loop, BlankFile, BlankChmod, Wake, TypeOK
  <2>2. /\ ~HasSecret(p)'
        /\ \A s \in Threads : s # p => pc'[s] = pc[s]
    BY <2>1, GotoPc, ConstantFacts DEF HasSecret
  <2>3. NoneAccepted
    BY <2>2, AcceptFacts, ConstantFacts
  <2>4. \A r \in Requests : owed'[r] \in {0, owed[r]}
    BY <2>3, OwedShrinks
  <2> QED
    BY <1>0, <2>1, <2>2, <2>4, FetchedFrame, ConstantFacts DEF HasSecret, Active
<1>7. ASSUME NEW r \in Requests, Handler(r) PROVE FetchedInv'
  <2>1. CASE RejectRequest(r) \/ RefreshNothing(r) \/ Answer(r)
    BY <1>01, <2>1 DEF RejectRequest, RefreshNothing, Answer
  <2>2. CASE AcceptRequest(r)
    <3>1. PICK p \in Providers :
            /\ pc[r] = "idle" /\ UNCHANGED <<store, data, mu, got>>
            /\ \A s \in Threads : pc'[s] = IF s = r THEN "fetch" ELSE pc[s]
            /\ \A s \in Threads : prov'[s] = IF s = r THEN p ELSE prov[s]
            /\ owed'[r] \in {0, store[p]}
      BY <2>2, AcceptFacts
    <3>2. \A s \in Requests : s # r => owed'[s] \in {0, owed[s]}
      <4>1. \A s \in Requests : s # r => ~AcceptRequest(s)
        BY <3>1, AcceptFacts, ConstantFacts
      <4> QED
        BY <4>1, OwedShrinks
    <3>3. \A s \in Threads : HasSecret(s)' => s # r /\ HasSecret(s)
      BY <3>1, ConstantFacts DEF HasSecret
    <3>4. \A s \in Requests : s # r /\ Active(s)' => Active(s)
      BY <3>1, ConstantFacts DEF Active
    <3>5. \A s \in Threads : HasSecret(s)' => got'[s] <= store'[prov'[s]]
      BY <3>1, <3>3 DEF FetchedInv
    <3>6. \A s \in Requests : s # r /\ Active(s)' => owed'[s] <= store'[prov'[s]]
      <4>1. \A s \in Requests : Active(s) => prov[s] \in Providers
        BY DEF WorkerInv
      <4> QED
        BY <1>02, <3>1, <3>2, <3>4, <4>1 DEF FetchedInv
    <3>7. owed'[r] <= store'[prov'[r]]
      BY <3>1, ConstantFacts DEF TypeOK
    <3>8. \A s \in Requests : HasSecret(s)' => owed'[s] <= got'[s]
      BY <1>02, <3>1, <3>2, <3>3 DEF FetchedInv
    <3> QED
      BY <3>5, <3>6, <3>7, <3>8 DEF FetchedInv
  <2> QED
    BY <1>7, <2>1, <2>2 DEF Handler
<1>8. ASSUME NEW t \in Threads, Round(t) PROVE FetchedInv'
  <2>0. ASSUME (\E l : Goto(t, l)) \/ (\E outcome : Finish(t, outcome)), pc[t] # "idle"
        PROVE  NoneAccepted
    <3>1. \A s \in Threads : pc[s] = "idle" => pc'[s] = "idle"
      BY <2>0, GotoPc, FinishPc
    <3> QED
      BY <3>1, AcceptFacts, ConstantFacts
  <2>1. CASE Fetch(t)
    <3>1. CASE Finish(t, "failed") /\ UNCHANGED got
      <4>1. Still
        BY <2>1, <3>1, FinishPc, ConstantFacts DEF Fetch, Still, HasSecret, Active
      <4> QED
        BY <1>00, <2>0, <2>1, <3>1, <4>1 DEF Fetch
    <3>2. ASSUME NEW l, Goto(t, l), got' = [got EXCEPT ![t] = store[prov[t]]]
          PROVE  FetchedInv'
      <4>1. /\ pc[t] = "fetch" /\ UNCHANGED <<store, prov, owed>>
            /\ \A s \in Threads : s # t => pc'[s] = pc[s]
            /\ \A s \in Threads : got'[s] = IF s = t THEN store[prov[t]] ELSE got[s]
        BY <2>1, <3>2, GotoPc DEF Fetch, TypeOK
      <4>2. prov[t] \in Providers /\ store[prov[t]] <= store[prov[t]]
        BY <1>0, <4>1 DEF WorkerInv, Active, Threads
      <4>3. t \in Requests => Active(t)
        BY <4>1 DEF Active
      <4> QED
        BY <4>1, <4>2, <4>3, ConstantFacts DEF FetchedInv, HasSecret, Active
    <3> QED
      BY <2>1, <3>1, <3>2 DEF Fetch
  <2>2. CASE FetchPanics(t)
    <3>1. CASE Down
      BY <1>3, <3>1
    <3>2. CASE t \in Requests /\ Reply(t, "lost") /\ UNCHANGED store
      BY <1>01, <3>2
    <3> QED
      BY <2>2, <3>1, <3>2 DEF FetchPanics
  <2>3. CASE Ping(t) \/ Lock(t) \/ Section(t)
    <3>1. UNCHANGED <<store, prov, got>>
      BY <2>3 DEF Ping, Lock, Section, Open, Write, Chmod
    <3>2. HasSecret(t) /\ (t \in Requests => Active(t)) /\ pc[t] # "idle"
      BY <2>3 DEF Ping, Lock, Section, Open, Write, Chmod, HasSecret, Active
    <3>3. (\E l : Goto(t, l)) \/ (\E outcome : Finish(t, outcome))
      BY <2>3 DEF Ping, Lock, Section, Open, Write, Chmod, GiveUp
    <3>4. Still
      BY <3>2, <3>3, GotoPc, FinishPc DEF Still, HasSecret, Active
    <3> QED
      BY <1>00, <2>0, <3>1, <3>2, <3>3, <3>4
  <2> QED
    BY <1>8, <2>1, <2>2, <2>3 DEF Round
<1>9. CASE UNCHANGED vars
  <2>1. NoneAccepted
    BY <1>9, AcceptFacts, ConstantFacts DEF vars
  <2> QED
    BY <1>00, <1>9, <2>1 DEF vars, Still, HasSecret, Active
<1> QED
  BY <1>1, <1>2, <1>4, <1>5, <1>6, <1>7, <1>8, <1>9 DEF Next

-----------------------------------------------------------------------------
\* What a request owes it no longer owes when its Refresh has succeeded.

\* Start blanks a file only once per process.
LEMMA BlanksOnce ==
  ASSUME TypeOK, WorkerInv, [Next]_vars, ~StartProcess,
         NEW p \in Providers, pc[p] # "boot"
  PROVE  pc'[p] # "boot"
<1>1. CASE Down
  BY <1>1, DownPc
<1>2. CASE \E t \in Threads, l \in {"bootChmod", "fetch", "ping", "lock", "open",
                                    "write", "chmod"} : Goto(t, l)
  BY <1>2, GotoPc, ConstantFacts
<1>3. CASE \E t \in Threads, outcome \in {"succeeded", "failed"} : Finish(t, outcome)
  BY <1>3, FinishPc, ConstantFacts
<1>4. CASE \E r \in Requests : \E status : Reply(r, status)
  BY <1>4, ReplyPc, ConstantFacts
<1>5. CASE UNCHANGED pc
  BY <1>5
<1> QED
  BY <1>1, <1>2, <1>3, <1>4, <1>5, ConstantFacts
     DEF Next, vars, Listen, Crash, Rotate, Loop, BlankFile, BlankChmod, Wake, Handler,
         RejectRequest, RefreshNothing, AcceptRequest, Answer, Round, Fetch, FetchPanics,
         Ping, Lock, Section, Open, Write, Chmod, GiveUp

\* The end of a write that nobody disturbed settles the debt.
LEMMA ChmodSettles ==
  ASSUME TypeOK, WorkerInv, FetchedInv, OwedInv, WriterInv,
         NEW r \in Requests, Chmod(r), Finish(r, "succeeded")
  PROVE  owed'[r] = 0
<1> SUFFICES ASSUME owed'[r] # 0 PROVE FALSE
  OBVIOUS
<1>1. /\ pc[r] = "chmod" /\ Settle(owed) /\ UNCHANGED <<data, prov>>
      /\ mode' = [mode EXCEPT ![File(r)] = "readable"]
  <2>1. r \in Threads /\ r \notin Providers
    BY ConstantFacts
  <2>2. pc'[r] = "succeeded"
    BY <2>1, FinishPc
  <2>3. ~GiveUp(r)
    BY <2>1, <2>2, FinishPc DEF GiveUp
  <2> QED
    BY <2>3 DEF Chmod
<1>2. owed[r] # 0 /\ owed[r] \in 1..MaxVersion
  <2>1. owed'[r] \in {0, owed[r]} /\ owed[r] \in 0..MaxVersion
    BY <1>1, SettleFacts DEF TypeOK
  <2> QED
    BY <2>1, ConstantFacts
<1>3. prov[r] \in Providers /\ r \in Threads /\ Solo(prov[r])
  BY <1>1, <1>2, ConstantFacts DEF WorkerInv, Active, OwedInv
<1>4. data[File(r)] = Full(prov[r], got[r]) /\ File(r) = FileOf[prov[r]]
  BY <1>1, <1>2, <1>3 DEF WriterInv, Undisturbed, File
<1>5. got[r] \in owed[r]..MaxVersion
  BY <1>1, <1>2, <1>3 DEF FetchedInv, HasSecret, TypeOK
<1>6. mode'[FileOf[prov[r]]] = "readable"
  BY <1>1, <1>3, <1>4, ConstantFacts DEF TypeOK
<1>7. WillShow(prov'[r], owed[r])
  BY <1>1, <1>4, <1>5, <1>6 DEF WillShow
<1>8. prov'[r] # None
  BY <1>1, <1>3, ConstantFacts
<1> QED
  BY <1>1, <1>2, <1>7, <1>8, SettleFacts DEF TypeOK

LEMMA OwedNext ==
  TypeInv /\ FetchedInv /\ OwedInv /\ WriterInv /\ [Next]_vars => OwedInv'
<1> SUFFICES ASSUME TypeOK, WorkerInv, FetchedInv, OwedInv, WriterInv, [Next]_vars,
                    NEW r \in Requests, owed'[r] # 0
             PROVE  /\ Active(r)' /\ pc'[r] # "succeeded"
                    /\ Solo(prov'[r]) /\ pc'[prov'[r]] # "boot"
  BY DEF OwedInv, TypeInv, Solo
<1>1. CASE AcceptRequest(r)
  <2>1. PICK p \in Providers :
          /\ \A s \in Threads : pc'[s] = IF s = r THEN "fetch" ELSE pc[s]
          /\ \A s \in Threads : prov'[s] = IF s = r THEN p ELSE prov[s]
          /\ owed'[r] # 0 => Solo(p) /\ pc[p] # "boot"
    BY <1>1, AcceptFacts
  <2> QED
    BY <2>1, ConstantFacts DEF Active
<1>2. CASE ~AcceptRequest(r)
  <2>1. owed[r] # 0 /\ Active(r) /\ pc[r] # "succeeded" /\ Solo(prov[r]) /\ pc[prov[r]] # "boot"
    BY <1>2, OwedShrinks DEF OwedInv
  <2>2. prov[r] \in Providers /\ proc = "serving" /\ ~Down /\ ~StartProcess
    BY <2>1 DEF WorkerInv, Down, StartProcess
  <2>3. /\ prov'[r] = prov[r] /\ Active(r)' /\ pc'[r] # "succeeded"
    <3>1. CASE UNCHANGED <<pc, prov>>
      BY <2>1, <3>1 DEF Active
    <3>2. ASSUME NEW t \in Threads, t # r, UNCHANGED prov,
                 (\E l : Goto(t, l)) \/ (\E outcome : Finish(t, outcome))
          PROVE  prov'[r] = prov[r] /\ Active(r)' /\ pc'[r] # "succeeded"
      BY <2>1, <3>2, GotoPc, FinishPc, ConstantFacts DEF Active
    <3>3. CASE \E p \in Providers : Rotate(p) \/ Loop(p)
      BY <3>1, <3>2, <3>3, ConstantFacts DEF Rotate, Loop, BlankFile, BlankChmod, Wake
    <3>4. ASSUME NEW s \in Requests, Handler(s)
          PROVE  prov'[r] = prov[r] /\ Active(r)' /\ pc'[r] # "succeeded"
      <4>1. CASE s = r
        <5>1. Answer(r)
          BY <1>2, <2>1, <3>4, <4>1
             DEF Handler, RejectRequest, RefreshNothing, Active
        <5>2. Reply(r, "500")
          BY <2>1, <5>1 DEF Answer
        <5> QED
          BY <5>2, ReplyPc
      <4>2. CASE s # r /\ \E status : Reply(s, status)
        BY <2>1, <4>2, ReplyPc, ConstantFacts DEF Active
      <4>3. CASE s # r /\ AcceptRequest(s)
        BY <2>1, <4>3, AcceptFacts, ConstantFacts DEF Active
      <4> QED
        BY <3>4, <4>1, <4>2, <4>3 DEF Handler, RejectRequest, RefreshNothing, Answer
    <3>5. ASSUME NEW t \in Threads, Round(t)
          PROVE  prov'[r] = prov[r] /\ Active(r)' /\ pc'[r] # "succeeded"
      <4>1. CASE FetchPanics(t)
        <5>1. t \in Requests /\ Reply(t, "lost")
          BY <2>2, <4>1 DEF FetchPanics
        <5> QED
          BY <2>1, <5>1, ReplyPc, ConstantFacts DEF Active
      <4>2. CASE ~FetchPanics(t) /\ t # r
        BY <3>2, <3>5, <4>2
           DEF Round, Fetch, Ping, Lock, Section, Open, Write, Chmod, GiveUp
      <4>3. CASE ~FetchPanics(t) /\ t = r
        <5>1. UNCHANGED prov /\ \/ \E l \in {"ping", "lock", "open", "write", "chmod"} : Goto(r, l)
                                \/ Finish(r, "failed")
                                \/ Chmod(r) /\ Finish(r, "succeeded")
          BY <3>5, <4>3 DEF Round, Fetch, Ping, Lock, Section, Open, Write, Chmod, GiveUp
        <5>2. ~(Chmod(r) /\ Finish(r, "succeeded"))
          BY ChmodSettles
        <5> QED
          BY <5>1, <5>2, GotoPc, FinishPc, ConstantFacts DEF Active
      <4> QED
        BY <4>1, <4>2, <4>3
    <3> QED
      BY <2>2, <3>1, <3>3, <3>4, <3>5 DEF Next, vars, Listen, Crash
  <2> QED
    BY <2>1, <2>2, <2>3, BlanksOnce
<1> QED
  BY <1>1, <1>2

-----------------------------------------------------------------------------
\* What the files hold.
Before == TypeInv /\ MutexInv /\ FetchedInv /\ OwedInv /\ WriterInv /\ NoMixture

\* The store never goes back, and nothing but a write or a truncation changes
\* what a file holds.
LEMMA StoreGrows ==
  TypeOK /\ [Next]_vars => \A p \in Providers : store[p] <= store'[p]
<1> SUFFICES ASSUME TypeOK, [Next]_vars PROVE \A p \in Providers : store[p] <= store'[p]
  OBVIOUS
<1>1. CASE UNCHANGED store
  BY <1>1 DEF TypeOK
<1>2. CASE \E p \in Providers : Rotate(p)
  BY <1>2 DEF Rotate, TypeOK
<1> QED
  BY <1>1, <1>2
     DEF Next, vars, StartProcess, Listen, Crash, Down, Loop, BlankFile, BlankChmod, Wake,
         Handler, RejectRequest, RefreshNothing, AcceptRequest, Answer, Round, Fetch, FetchPanics,
         Ping, Lock, Section, Open, Write, Chmod

\* A file that is not touched stays a prefix of one version of the store's.
LEMMA MixtureFrame ==
  ASSUME TypeOK, TypeOK', NoMixture, NEW p \in Providers, Solo(p),
         store[p] <= store'[p], data'[FileOf[p]] = data[FileOf[p]]
  PROVE  \E v \in 1..store'[p] : \E n \in 0..Size[v] : data'[FileOf[p]] = Prefix(p, v, n)
<1>1. PICK v \in 1..store[p] : \E n \in 0..Size[v] : data[FileOf[p]] = Prefix(p, v, n)
  BY DEF NoMixture
<1>2. v \in 1..store'[p]
  BY DEF TypeOK
<1> QED
  BY <1>1, <1>2

\* An emptied file does too.
LEMMA MixtureBlank ==
  ASSUME TypeOK, TypeOK', NEW p \in Providers, data'[FileOf[p]] = <<>>
  PROVE  \E v \in 1..store'[p] : \E n \in 0..Size[v] : data'[FileOf[p]] = Prefix(p, v, n)
<1>1. 1 \in 1..store'[p] /\ 1 \in 1..MaxVersion
  <2>1. store'[p] \in 1..MaxVersion
    BY DEF TypeOK
  <2> QED
    BY <2>1, ConstantFacts
<1>2. 0 \in 0..Size[1]
  BY <1>1, BoundsAssumption
<1> QED
  BY <1>1, <1>2, EmptyIsPrefix

\* A step that leaves the files alone, and sends no thread into "write" or
\* "chmod" that was not there.
LEMMA ContentFrame ==
  ASSUME Before, TypeOK', [Next]_vars, UNCHANGED data,
         \A s \in Threads : pc'[s] \in {"write", "chmod"} =>
           /\ pc'[s] = pc[s] /\ prov'[s] = prov[s] /\ got'[s] = got[s]
           /\ s \in Requests => owed'[s] \in {0, owed[s]}
  PROVE  WriterInv' /\ NoMixture'
<1>1. NoMixture'
  BY MixtureFrame, StoreGrows, ConstantFacts DEF NoMixture, Before, TypeInv, Solo
<1>2. WriterInv'
  BY DEF WriterInv, Before, File, Undisturbed, Solo
<1> QED
  BY <1>1, <1>2

\* Truncation of p's file by a thread that is not past its own open, when any
\* other writer of that file is disturbed by it.
LEMMA ContentBlank ==
  ASSUME Before, TypeOK', [Next]_vars, NEW p \in Providers,
         data' = [data EXCEPT ![FileOf[p]] = <<>>], UNCHANGED <<prov, got>>,
         \A s \in Requests : owed'[s] \in {0, owed[s]},
         \A s \in Threads : pc'[s] = "chmod" =>
           pc[s] = "chmod" /\ (Undisturbed(s) => File(s) # FileOf[p]),
         \A s \in Threads : pc'[s] = "write" => pc[s] = "write" \/ File(s) = FileOf[p]
  PROVE  WriterInv' /\ NoMixture'
<1>1. /\ FileOf[p] \in Paths
      /\ data'[FileOf[p]] = <<>>
      /\ \A f \in Paths : f # FileOf[p] => data'[f] = data[f]
  BY ConstantFacts DEF Before, TypeInv, TypeOK
<1>2. NoMixture'
  <2> SUFFICES ASSUME NEW q \in Providers, Solo(q)
               PROVE  \E v \in 1..store'[q] : \E n \in 0..Size[v] :
                        data'[FileOf[q]] = Prefix(q, v, n)
    BY DEF NoMixture, Solo
  <2>1. CASE FileOf[q] = FileOf[p]
    BY <1>1, <2>1, MixtureBlank DEF Before, TypeInv
  <2>2. CASE FileOf[q] # FileOf[p]
    <3>1. data'[FileOf[q]] = data[FileOf[q]] /\ store[q] <= store'[q]
      BY <1>1, <2>2, StoreGrows, ConstantFacts DEF Before, TypeInv
    <3> QED
      BY <3>1, MixtureFrame DEF Before, TypeInv
  <2> QED
    BY <2>1, <2>2
<1>3. \A s \in Threads : pc[s] \in {"write", "chmod"} => File(s) \in Paths
  BY ConstantFacts DEF Before, TypeInv, WorkerInv, Active, Threads, File
<1>4. WriterInv'
  BY <1>1, <1>3 DEF WriterInv, Before, File, Undisturbed, Solo
<1> QED
  BY <1>2, <1>4

\* Two writers of a file with one provider are one and the same.
LEMMA OnlyWriter ==
  ASSUME Before, NEW s \in Threads, NEW t \in Threads, InSection(s), InSection(t),
         Solo(prov[s]), File(s) = File(t)
  PROVE  s = t
<1>1. prov[s] \in Providers /\ prov[t] \in Providers
  BY DEF Before, TypeInv, WorkerInv, InSection, Active, Threads
<1>2. prov[s] = prov[t]
  BY <1>1 DEF Solo, File
<1> QED
  BY <1>1, <1>2 DEF Before, MutexInv

\* A complete or failed write of the only writer, onto its truncated file.
LEMMA ContentWrite ==
  ASSUME Before, TypeOK', NEW t \in Threads, Write(t), [Next]_vars
  PROVE  WriterInv' /\ NoMixture'
<1> DEFINE p == prov[t]
           v == got[t]
<1>1. p \in Providers /\ v \in 1..MaxVersion /\ pc[t] = "write" /\ File(t) = FileOf[p]
  <2>1. pc[t] = "write"
    BY DEF Write
  <2>2. prov[t] \in Providers
    BY <2>1 DEF Before, TypeInv, WorkerInv, Active, Threads
  <2> QED
    BY <2>1, <2>2 DEF Before, TypeInv, TypeOK, File
<1>2. FileOf[p] \in Paths /\ Size[v] \in Nat \ {0} /\ v \in 1..store[p]
  <2>1. v <= store[p]
    BY <1>1 DEF Before, FetchedInv, HasSecret
  <2> QED
    BY <1>1, <2>1, ConstantFacts, BoundsAssumption DEF Before, TypeInv, TypeOK
<1>3. /\ UNCHANGED <<store, prov, got>>
      /\ \A s \in Requests : owed'[s] \in {0, owed[s]}
  BY SettleFacts DEF Write, Before, TypeInv, TypeOK
<1>4. \A s \in Threads : s # t /\ pc'[s] \in {"write", "chmod"} => pc'[s] = pc[s]
  BY GotoPc, FinishPc DEF Write, GiveUp, Before, TypeInv
<1>4a. \A s \in Threads : Undisturbed(s)' => Undisturbed(s)
  BY <1>3 DEF Undisturbed, Solo
<1>5. \A f \in Paths : f # FileOf[p] => data'[f] = data[f]
  BY <1>1, <1>2 DEF Write, Before, TypeInv, TypeOK
<1>6. ASSUME NEW n \in 0..Size[v], Solo(p),
             data' = [data EXCEPT ![File(t)] = Overlay(@, Prefix(p, v, n))]
      PROVE  data'[FileOf[p]] = Prefix(p, v, n)
  <2>1. data[File(t)] = <<>>
    BY <1>1, <1>6 DEF Before, WriterInv
  <2>2. n \in Nat
    BY <1>2
  <2>3. Overlay(<<>>, Prefix(p, v, n)) = Prefix(p, v, n)
    BY <1>1, <2>2, PrefixType, OverlayEmpty
  <2> QED
    BY <1>1, <1>2, <1>6, <2>1, <2>3 DEF Before, TypeInv, TypeOK
<1>7. ASSUME Solo(p)
      PROVE  /\ \E n \in 0..Size[v] : data'[FileOf[p]] = Prefix(p, v, n)
             /\ pc'[t] \in {"write", "chmod"} =>
                  pc'[t] = "chmod" /\ data'[FileOf[p]] = Full(p, v)
  <2>1. CASE Goto(t, "chmod") /\ data' = [data EXCEPT ![File(t)] = Overlay(@, Full(p, v))]
    <3>1. Full(p, v) = Prefix(p, v, Size[v]) /\ Size[v] \in 0..Size[v]
      BY <1>1, <1>2, FullIsPrefix
    <3>2. data'[FileOf[p]] = Full(p, v)
      BY <1>6, <1>7, <2>1, <3>1
    <3>3. pc'[t] = "chmod"
      BY <2>1, GotoPc DEF Before, TypeInv
    <3> QED
      BY <3>1, <3>2, <3>3
  <2>2. CASE /\ GiveUp(t)
             /\ \E n \in 0..(Size[v] - 1) :
                  data' = [data EXCEPT ![File(t)] = Overlay(@, Prefix(p, v, n))]
    <3>1. PICK n \in 0..(Size[v] - 1) :
                 data' = [data EXCEPT ![File(t)] = Overlay(@, Prefix(p, v, n))]
      BY <2>2
    <3>2. n \in 0..Size[v]
      BY <1>2
    <3>3. pc'[t] \in {"sleep", "failed"}
      BY <2>2, FinishPc DEF GiveUp, Before, TypeInv
    <3> QED
      BY <1>6, <1>7, <3>1, <3>2, <3>3
  <2> QED
    BY <1>3, <2>1, <2>2 DEF Write
<1>8. NoMixture'
  <2> SUFFICES ASSUME NEW q \in Providers, Solo(q)
               PROVE  \E w \in 1..store'[q] : \E n \in 0..Size[w] :
                        data'[FileOf[q]] = Prefix(q, w, n)
    BY DEF NoMixture, Solo
  <2>1. CASE q = p
    BY <1>2, <1>3, <1>7, <2>1
  <2>2. CASE q # p
    <3>1. FileOf[q] # FileOf[p] /\ FileOf[q] \in Paths
      BY <1>1, <2>2, ConstantFacts DEF Solo
    <3>2. data'[FileOf[q]] = data[FileOf[q]] /\ store[q] <= store'[q]
      BY <1>3, <1>5, <3>1, StoreGrows DEF Before, TypeInv
    <3> QED
      BY <3>2, MixtureFrame DEF Before, TypeInv
  <2> QED
    BY <2>1, <2>2
<1>9. WriterInv'
  <2> SUFFICES ASSUME NEW s \in Threads, pc'[s] \in {"write", "chmod"}, Solo(prov[s])
               PROVE  /\ pc'[s] = "write" => data'[File(s)] = <<>>
                      /\ pc'[s] = "chmod" /\ Undisturbed(s) =>
                           data'[File(s)] = Full(prov[s], got[s])
    BY <1>3, <1>4a DEF WriterInv, File, Solo, Undisturbed
  <2>1. CASE s = t
    BY <1>1, <1>7, <2>1
  <2>2. CASE s # t
    <3>1. pc'[s] = pc[s] /\ InSection(s) /\ InSection(t)
      BY <1>1, <1>4, <2>2 DEF InSection
    <3>2. File(s) # File(t)
      BY <2>2, <3>1, OnlyWriter
    <3>3. File(s) \in Paths
      BY <3>1, ConstantFacts
         DEF Before, TypeInv, WorkerInv, InSection, Active, Threads, File
    <3>4. data'[File(s)] = data[File(s)]
      BY <1>1, <1>5, <3>2, <3>3
    <3> QED
      BY <3>1, <3>4 DEF Before, WriterInv
  <2> QED
    BY <2>1, <2>2
<1> QED
  BY <1>8, <1>9

LEMMA ContentNext == Before /\ TypeInv' /\ [Next]_vars => WriterInv' /\ NoMixture'
<1> SUFFICES ASSUME Before, TypeOK', [Next]_vars PROVE WriterInv' /\ NoMixture'
  BY DEF TypeInv
<1> USE DEF Before, TypeInv
<1>1. CASE StartProcess
  <2>1. \A s \in Threads : pc'[s] \in {"write", "chmod"} => pc'[s] = pc[s]
    BY <1>1 DEF StartProcess, TypeOK
  <2> QED
    BY <1>1, <2>1, ContentFrame DEF StartProcess
<1>2. CASE Listen
  BY <1>2, ContentFrame DEF Listen
<1>3. ASSUME Down PROVE WriterInv' /\ NoMixture'
  <2>1. \A s \in Threads : pc'[s] \notin {"write", "chmod"}
    BY <1>3, DownPc DEF Threads
  <2> QED
    BY <1>3, <2>1, ContentFrame DEF Down
<1>4. CASE Crash
  BY <1>3, <1>4 DEF Crash
<1>5. ASSUME NEW p \in Providers, Rotate(p) PROVE WriterInv' /\ NoMixture'
  BY <1>5, ContentFrame DEF Rotate
<1>5a. ASSUME NEW r \in Requests, NEW status, Reply(r, status), UNCHANGED data
       PROVE  WriterInv' /\ NoMixture'
  <2>1. \A s \in Threads : pc'[s] \in {"write", "chmod"} => s # r /\ pc'[s] = pc[s]
    BY <1>5a, ReplyPc
  <2>2. /\ \A s \in Threads : s # r => prov'[s] = prov[s] /\ got'[s] = got[s]
        /\ \A s \in Requests : s # r => owed'[s] = owed[s]
    BY <1>5a, ReplyPc
  <2> QED
    BY <1>5a, <2>1, <2>2, ContentFrame
<1>5b. ASSUME NEW t \in Threads, pc[t] # "idle",
              (\E l : Goto(t, l)) \/ (\E outcome : Finish(t, outcome))
       PROVE  \A s \in Requests : owed'[s] \in {0, owed[s]}
  <2>1. \A s \in Threads : pc[s] = "idle" => pc'[s] = "idle"
    BY <1>5b, GotoPc, FinishPc
  <2>2. \A s \in Requests : ~AcceptRequest(s)
    BY <2>1, AcceptFacts, ConstantFacts
  <2> QED
    BY <2>2, OwedShrinks
<1>6. ASSUME NEW p \in Providers, Loop(p) PROVE WriterInv' /\ NoMixture'
  <2>1. /\ UNCHANGED prov /\ (Goto(p, "bootChmod") \/ Goto(p, "fetch"))
        /\ pc[p] # "idle"
        /\ \A s \in Threads : s # p => got'[s] = got[s]
    BY <1>6 DEF Loop, BlankFile, BlankChmod, Wake, TypeOK
  <2>2. \A s \in Threads : pc'[s] \in {"write", "chmod"} => s # p /\ pc'[s] = pc[s]
    BY <2>1, GotoPc, ConstantFacts
  <2>2a. \A s \in Requests : owed'[s] \in {0, owed[s]}
    BY <1>5b, <2>1, ConstantFacts
  <2>3. CASE UNCHANGED data
    BY <2>1, <2>2, <2>2a, <2>3, ContentFrame, ConstantFacts
  <2>4. CASE BlankFile(p) /\ data' = [data EXCEPT ![FileOf[p]] = <<>>]
    <3>1. \A s \in Threads : pc[s] = "chmod" /\ Undisturbed(s) => File(s) # FileOf[p]
      <4> SUFFICES ASSUME NEW s \in Threads, pc[s] = "chmod", Undisturbed(s),
                          File(s) = FileOf[p]
                   PROVE  FALSE
        OBVIOUS
      <4>1. prov[s] = p
        BY DEF Undisturbed, Solo, File
      <4>2. pc[p] = "boot"
        BY <2>4 DEF BlankFile
      <4>3. CASE s \in Requests
        BY <4>1, <4>2, <4>3 DEF OwedInv, Undisturbed
      <4>4. CASE s \in Providers
        BY <4>1, <4>2, <4>4 DEF WorkerInv
      <4> QED
        BY <4>3, <4>4 DEF Threads
    <3>2. UNCHANGED <<prov, got>>
      BY <2>4 DEF BlankFile
    <3> QED
      BY <2>2, <2>2a, <2>4, <3>1, <3>2, ContentBlank
  <2> QED
    BY <1>6, <2>3, <2>4 DEF Loop, BlankFile, BlankChmod, Wake
<1>7. ASSUME NEW r \in Requests, Handler(r) PROVE WriterInv' /\ NoMixture'
  <2>1. CASE RejectRequest(r) \/ RefreshNothing(r) \/ Answer(r)
    BY <1>5a, <2>1 DEF RejectRequest, RefreshNothing, Answer
  <2>2. CASE AcceptRequest(r)
    <3>1. PICK p \in Providers :
            /\ pc[r] = "idle" /\ UNCHANGED <<data, got>>
            /\ \A s \in Threads : pc'[s] = IF s = r THEN "fetch" ELSE pc[s]
            /\ \A s \in Threads : prov'[s] = IF s = r THEN p ELSE prov[s]
      BY <2>2, AcceptFacts
    <3>2. \A s \in Requests : s # r => owed'[s] \in {0, owed[s]}
      <4>1. \A s \in Requests : s # r => ~AcceptRequest(s)
        BY <3>1, AcceptFacts, ConstantFacts
      <4> QED
        BY <4>1, OwedShrinks
    <3>3. \A s \in Threads : pc'[s] \in {"write", "chmod"} => s # r /\ pc'[s] = pc[s]
      BY <3>1, ConstantFacts
    <3> QED
      BY <3>1, <3>2, <3>3, ContentFrame
  <2> QED
    BY <1>7, <2>1, <2>2 DEF Handler
<1>8. ASSUME NEW t \in Threads, Round(t) PROVE WriterInv' /\ NoMixture'
  <2>1. CASE Fetch(t)
    <3>1. Goto(t, "ping") \/ Goto(t, "lock") \/ Finish(t, "failed")
      BY <2>1 DEF Fetch
    <3>2. \A s \in Threads : pc'[s] \in {"write", "chmod"} => s # t /\ pc'[s] = pc[s]
      BY <3>1, GotoPc, FinishPc DEF Threads
    <3>3. /\ UNCHANGED <<data, prov, owed>>
          /\ \A s \in Threads : s # t => got'[s] = got[s]
      BY <2>1 DEF Fetch, TypeOK
    <3> QED
      BY <3>2, <3>3, ContentFrame
  <2>2. CASE FetchPanics(t)
    <3>1. CASE Down
      BY <1>3, <3>1
    <3>2. CASE t \in Requests /\ Reply(t, "lost") /\ UNCHANGED data
      BY <1>5a, <3>2
    <3> QED
      BY <2>2, <3>1, <3>2 DEF FetchPanics
  <2>3. CASE Ping(t) \/ Lock(t) \/ Chmod(t)
    <3>1. /\ \/ Goto(t, "lock") \/ Goto(t, "open")
             \/ Finish(t, "succeeded") \/ Finish(t, "failed")
          /\ pc[t] # "idle"
      BY <2>3 DEF Ping, Lock, Chmod, GiveUp
    <3>2. \A s \in Threads : pc'[s] \in {"write", "chmod"} => pc'[s] = pc[s]
      BY <3>1, GotoPc, FinishPc DEF Threads
    <3>3. UNCHANGED <<data, prov, got>>
      BY <2>3 DEF Ping, Lock, Chmod
    <3>4. \A s \in Requests : owed'[s] \in {0, owed[s]}
      BY <1>5b, <3>1
    <3> QED
      BY <3>2, <3>3, <3>4, ContentFrame
  <2>4. CASE Open(t)
    <3>1. pc[t] = "open" /\ prov[t] \in Providers /\ UNCHANGED <<prov, got, owed>>
      BY <2>4 DEF Open, WorkerInv, Active, Threads
    <3>2. CASE GiveUp(t) /\ UNCHANGED data
      <4>1. \A s \in Threads : pc'[s] \in {"write", "chmod"} => pc'[s] = pc[s]
        BY <3>2, FinishPc DEF GiveUp, Threads
      <4> QED
        BY <3>1, <3>2, <4>1, ContentFrame
    <3>3. CASE Goto(t, "write") /\ data' = [data EXCEPT ![File(t)] = <<>>]
      <4>1. \A s \in Threads : pc'[s] = IF s = t THEN "write" ELSE pc[s]
        BY <3>3, GotoPc
      <4>2. \A s \in Threads : pc[s] = "chmod" /\ Undisturbed(s) => File(s) # File(t)
        BY <3>1, OnlyWriter DEF InSection, Undisturbed
      <4>3. File(t) = FileOf[prov[t]]
        BY DEF File
      <4>4. data' = [data EXCEPT ![FileOf[prov[t]]] = <<>>]
        BY <3>3, <4>3
      <4>5. \A s \in Threads : pc'[s] = "chmod" =>
              pc[s] = "chmod" /\ (Undisturbed(s) => File(s) # FileOf[prov[t]])
        BY <4>1, <4>2, <4>3
      <4>6. \A s \in Threads : pc'[s] = "write" =>
              pc[s] = "write" \/ File(s) = FileOf[prov[t]]
        BY <4>1, <4>3
      <4> HIDE DEF Before, TypeInv
      <4> QED
        BY <3>1, <4>4, <4>5, <4>6, ContentBlank DEF TypeInv
    <3> QED
      BY <2>4, <3>2, <3>3 DEF Open
  <2>5. CASE Write(t)
    BY <2>5, ContentWrite
  <2> QED
    BY <1>8, <2>1, <2>2, <2>3, <2>4, <2>5 DEF Round, Section
<1>9. CASE UNCHANGED vars
  BY <1>9, ContentFrame DEF vars
<1> QED
  BY <1>1, <1>2, <1>4, <1>5, <1>6, <1>7, <1>8, <1>9 DEF Next

LEMMA BeforeInit == Init => Before
<1> SUFFICES ASSUME Init PROVE Before
  OBVIOUS
<1>1. TypeInv /\ MutexInv
  BY TypeInit, MutexInit
<1>2. FetchedInv /\ OwedInv /\ WriterInv
  BY ConstantFacts
     DEF Init, FetchedInv, OwedInv, WriterInv, HasSecret, Active, Threads
<1>3. NoMixture
  <2> SUFFICES ASSUME NEW p \in Providers, Solo(p)
               PROVE  \E v \in 1..store[p] : \E n \in 0..Size[v] :
                        data[FileOf[p]] = Prefix(p, v, n)
    BY DEF NoMixture
  <2>1. store[p] = 1 /\ 1 \in 1..MaxVersion /\ FileOf[p] \in Paths
    BY ConstantFacts DEF Init
  <2>2. Size[1] \in Nat \ {0} /\ 0 \in 0..Size[1] /\ Size[1] \in 0..Size[1]
    BY <2>1, BoundsAssumption
  <2>3. CASE data[FileOf[p]] = <<>>
    BY <2>1, <2>2, <2>3, EmptyIsPrefix
  <2>4. CASE data[FileOf[p]] # <<>>
    <3>1. PICK q \in Providers : FileOf[q] = FileOf[p] /\ data[FileOf[p]] = Full(q, 1)
      BY <2>1, <2>4 DEF Init
    <3>2. q = p
      BY <3>1 DEF Solo
    <3> QED
      BY <2>1, <2>2, <3>1, <3>2, FullIsPrefix
  <2> QED
    BY <2>3, <2>4
<1> QED
  BY <1>1, <1>2, <1>3 DEF Before

LEMMA BeforeNext == Before /\ [Next]_vars => Before'
<1>1. Before /\ [Next]_vars => TypeInv'
  BY TypeNext DEF Before
<1>2. Before /\ [Next]_vars => MutexInv' /\ OwedInv'
  BY MutexNext, OwedNext DEF Before
<1>3. Before /\ [Next]_vars => FetchedInv'
  BY <1>1, FetchedNext DEF Before
<1>4. Before /\ [Next]_vars => WriterInv' /\ NoMixture'
  BY <1>1, ContentNext
<1> QED
  BY <1>1, <1>2, <1>3, <1>4 DEF Before

\* A file with one provider never shows a mixture of versions, nor anything
\* its store has not had.
THEOREM NeverMixed == Spec => []NoMixture
<1>1. Before => NoMixture
  BY DEF Before
<1> QED
  BY <1>1, BeforeInit, BeforeNext, PTL DEF Spec

\* A refresh is acknowledged only after a moment, since it came in, in which the
\* file showed a secret complete and readable that is at least as new as the
\* store's was then.
THEOREM AcknowledgedIsFresh == Spec => []RefreshAcknowledged
<1>1. Before => RefreshAcknowledged
  <2> SUFFICES ASSUME WorkerInv, OwedInv, NEW r \in Requests, answer[r] = "200"
               PROVE  owed[r] = 0
    BY DEF Before, TypeInv, RefreshAcknowledged
  <2>1. ~Active(r)
    BY DEF WorkerInv, Active
  <2> QED
    BY <2>1 DEF OwedInv
<1> QED
  BY <1>1, BeforeInit, BeforeNext, PTL DEF Spec

\* A loaded file loses its secret only when Start blanks it after a restart or
\* when the thread that holds the mutex truncates it.
THEOREM LastGoodKept == Spec => KeepsLastGood
<1> DEFINE Lost(p) == Solo(p) /\ Loaded(p) /\ data'[FileOf[p]] # data[FileOf[p]]
           Excused(p) == \/ pc[p] = "boot"
                         \/ mu[p] # None /\ mu'[p] = mu[p] /\ pc[mu[p]] = "open"
<1>1. ASSUME Before, [Next]_vars, NEW p \in Providers, Lost(p)
      PROVE  Excused(p)
  <2> USE DEF Before, TypeInv
  <2>1. p \in Threads /\ FileOf[p] \in Paths
    BY ConstantFacts
  <2>2. CASE UNCHANGED data
    BY <1>1, <2>2
  <2>3. ASSUME NEW q \in Providers, BlankFile(q), ~UNCHANGED data
        PROVE  Excused(p)
    <3>1. pc[q] = "boot" /\ data' = [data EXCEPT ![FileOf[q]] = <<>>]
      BY <2>3 DEF BlankFile
    <3>2. FileOf[q] = FileOf[p]
      BY <1>1, <2>1, <3>1 DEF TypeOK
    <3> QED
      BY <1>1, <3>1, <3>2 DEF Solo
  <2>4. ASSUME NEW t \in Threads, pc[t] \in {"open", "write"},
               \A f \in Paths : f # File(t) => data'[f] = data[f]
        PROVE  prov[t] = p /\ mu[p] = t
    <3>1. prov[t] \in Providers
      BY <1>1, <2>4, ConstantFacts DEF WorkerInv, Active, Threads
    <3>2. FileOf[prov[t]] = FileOf[p]
      BY <1>1, <2>1, <2>4 DEF File
    <3>3. prov[t] = p
      BY <1>1, <3>1, <3>2 DEF Solo
    <3> QED
      BY <1>1, <2>4, <3>3 DEF MutexInv, InSection
  <2>5. ASSUME NEW t \in Threads, Open(t), ~UNCHANGED data
        PROVE  Excused(p)
    <3>1. pc[t] = "open" /\ UNCHANGED mu /\ data' = [data EXCEPT ![File(t)] = <<>>]
      BY <2>5 DEF Open
    <3>2. mu[p] = t
      BY <2>4, <3>1 DEF TypeOK
    <3> QED
      BY <3>1, <3>2, ConstantFacts
  <2>6. ASSUME NEW t \in Threads, Write(t)
        PROVE  FALSE
    <3>1. pc[t] = "write" /\ \E cells : data' = [data EXCEPT ![File(t)] = cells]
      BY <2>6 DEF Write
    <3>2. prov[t] = p
      BY <2>4, <3>1 DEF TypeOK
    <3>3. data[FileOf[p]] = <<>>
      BY <1>1, <3>1, <3>2 DEF WriterInv, File
    <3> QED
      BY <1>1, <3>3, FullIsPrefix DEF Loaded
  <2> QED
    BY <1>1, <2>2, <2>3, <2>5, <2>6
       DEF Next, vars, StartProcess, Listen, Crash, Down, Rotate, Loop, BlankChmod, Wake,
           Handler, RejectRequest, RefreshNothing, AcceptRequest, Answer, Reply, Round,
           Fetch, FetchPanics, Ping, Lock, Section, Chmod
<1>2. Before /\ [Next]_vars => [\A p \in Providers : Lost(p) => Excused(p)]_vars
  BY <1>1
<1> QED
  BY <1>2, BeforeInit, BeforeNext, PTL DEF Spec, KeepsLastGood

-----------------------------------------------------------------------------
\* The refinement of SecretFile, for the providers with a path of their own.

\* A version is recognised by its cells.
LEMMA PrefixCells ==
  ASSUME NEW p \in Providers, NEW v \in 1..MaxVersion, NEW w \in 1..MaxVersion,
         NEW n \in Nat, Prefix(p, v, n) = Full(p, w)
  PROVE  v = w /\ n = Size[w]
<1>1. Full(p, w) = Prefix(p, w, Size[w]) /\ Size[w] \in Nat \ {0}
  BY FullIsPrefix
<1>2. Len(Prefix(p, v, n)) = n /\ Len(Prefix(p, w, Size[w])) = Size[w]
  BY <1>1, PrefixType
<1>3. n = Size[w] /\ 1 \in 1..n
  BY <1>1, <1>2
<1>4. Prefix(p, v, n)[1] = <<p, v>> /\ Prefix(p, w, Size[w])[1] = <<p, w>>
  BY <1>3 DEF Prefix
<1> QED
  BY <1>1, <1>3, <1>4

LEMMA ShownFull ==
  ASSUME NEW p \in Providers, NEW v \in 1..MaxVersion
  PROVE  Shown(p, Full(p, v)) = v
<1>1. \A w \in 1..MaxVersion : Full(p, v) = Full(p, w) => w = v
  BY FullIsPrefix, PrefixCells
<1>2. Shown(p, Full(p, v)) = CHOOSE w \in 1..MaxVersion : Full(p, v) = Full(p, w)
  BY DEF Shown
<1> QED
  BY <1>1, <1>2

LEMMA ShownPartial ==
  ASSUME NEW p \in Providers, NEW v \in 1..MaxVersion, NEW n \in 0..Size[v],
         n # Size[v]
  PROVE  Shown(p, Prefix(p, v, n)) = 0
<1>1. n \in Nat
  BY BoundsAssumption
<1>2. ~\E w \in 1..MaxVersion : Prefix(p, v, n) = Full(p, w)
  BY <1>1, PrefixCells
<1> QED
  BY <1>2 DEF Shown

LEMMA ShownBlank ==
  ASSUME NEW p \in Providers
  PROVE  Shown(p, <<>>) = 0
<1>1. 1 \in 1..MaxVersion
  BY ConstantFacts
<1>2. Size[1] \in Nat \ {0} /\ 0 \in 0..Size[1] /\ 0 # Size[1]
  BY <1>1, BoundsAssumption
<1>3. <<>> = Prefix(p, 1, 0)
  BY <1>1, EmptyIsPrefix
<1> QED
  BY <1>1, <1>2, <1>3, ShownPartial

LEMMA PromiseInit == Init => Promise!Init
<1> SUFFICES ASSUME Init PROVE Promise!Init
  OBVIOUS
<1>1. ASSUME NEW p \in SoloProviders PROVE Visible[p] \in {0, 1}
  <2>1. p \in Providers /\ FileOf[p] \in Paths /\ 1 \in 1..MaxVersion
    BY ConstantFacts DEF SoloProviders
  <2>2. CASE data[FileOf[p]] = <<>>
    BY <2>1, <2>2, ShownBlank DEF Visible
  <2>3. CASE data[FileOf[p]] # <<>>
    <3>1. PICK q \in Providers : FileOf[q] = FileOf[p] /\ data[FileOf[p]] = Full(q, 1)
      BY <2>1, <2>3 DEF Init
    <3>2. q = p
      BY <3>1 DEF SoloProviders, Solo
    <3> QED
      BY <2>1, <3>1, <3>2, ShownFull DEF Visible
  <2> QED
    BY <2>2, <2>3
<1>2. Visible \in [SoloProviders -> {0, 1}]
  <2>1. Visible = [p \in SoloProviders |-> Visible[p]]
    BY DEF Visible
  <2> QED
    BY <1>1, <2>1
<1>3. SoloStore = [p \in SoloProviders |-> 1]
  BY DEF SoloStore, SoloProviders, Init
<1> QED
  BY <1>2, <1>3 DEF Promise!Init, Promise!Blank

\* Every step of the program is a step of SecretFile or leaves it as it is.
LEMMA PromiseNext ==
  ASSUME Before, TypeOK', [Next]_vars
  PROVE  [Promise!Next]_(Promise!vars)
<1> DEFINE Same(p) == \A q \in SoloProviders : q # p => Visible'[q] = Visible[q]
           Allowed == [Promise!Next]_(Promise!vars)
<1>0. /\ DOMAIN Visible = SoloProviders
      /\ Visible = [p \in SoloProviders |-> Visible[p]]
      /\ DOMAIN Visible' = SoloProviders
      /\ Visible' = [p \in SoloProviders |-> Visible'[p]]
  BY DEF Visible
<1>1. CASE UNCHANGED <<store, data>>
  <2>1. UNCHANGED <<SoloStore, Visible>>
    BY <1>1 DEF SoloStore, Visible
  <2> QED
    BY <2>1 DEF Promise!vars
<1>2. ASSUME NEW p \in Providers, Rotate(p) PROVE Allowed
  <2>1. UNCHANGED Visible
    BY <1>2 DEF Visible, Rotate
  <2>2. CASE p \in SoloProviders
    <3>1. SoloStore[p] < MaxVersion
      BY <1>2, <2>2 DEF Rotate, SoloStore
    <3>2. SoloStore' = [SoloStore EXCEPT ![p] = @ + 1]
      BY <1>2, <2>2 DEF Rotate, SoloStore, SoloProviders, Before, TypeInv, TypeOK
    <3> QED
      BY <2>1, <2>2, <3>1, <3>2 DEF Promise!Next, Promise!Rotate
  <2>3. CASE p \notin SoloProviders
    <3>1. UNCHANGED SoloStore
      BY <1>2, <2>3 DEF Rotate, SoloStore, SoloProviders, Before, TypeInv, TypeOK
    <3> QED
      BY <2>1, <3>1 DEF Promise!vars
  <2> QED
    BY <2>2, <2>3
<1>3. ASSUME NEW p \in Providers, NEW c, UNCHANGED store,
             data' = [data EXCEPT ![FileOf[p]] = c]
      PROVE  Same(p) /\ data'[FileOf[p]] = c
  <2>1. \A q \in SoloProviders : q # p => FileOf[q] # FileOf[p]
    BY DEF SoloProviders, Solo
  <2>2. \A q \in SoloProviders : q # p => data'[FileOf[q]] = data[FileOf[q]]
    BY <1>3, <2>1, ConstantFacts DEF SoloProviders, Before, TypeInv, TypeOK
  <2>3. data'[FileOf[p]] = c
    BY <1>3, ConstantFacts DEF Before, TypeInv, TypeOK
  <2> QED
    BY <2>2, <2>3 DEF Visible
\* What is done to a file with several providers is not seen.
<1>4. ASSUME NEW p \in Providers, p \notin SoloProviders, Same(p), UNCHANGED store
      PROVE  Allowed
  <2>1. UNCHANGED <<SoloStore, Visible>>
    BY <1>0, <1>4 DEF SoloStore
  <2> QED
    BY <2>1 DEF Promise!vars
<1>5. ASSUME NEW p \in SoloProviders, Same(p), UNCHANGED store, Visible'[p] = 0
      PROVE  Allowed
  <2>1. Visible' = [Visible EXCEPT ![p] = 0] /\ UNCHANGED SoloStore
    BY <1>0, <1>5 DEF SoloStore
  <2> QED
    BY <2>1 DEF Promise!Next, Promise!Withdraw, Promise!Blank
\* Truncation, by whomever.
<1>6. ASSUME NEW p \in Providers, UNCHANGED store, data' = [data EXCEPT ![FileOf[p]] = <<>>]
       PROVE  Allowed
  <2>1. Same(p) /\ data'[FileOf[p]] = <<>>
    BY <1>3, <1>6
  <2>2. p \in SoloProviders => Visible'[p] = 0
    BY <2>1, ShownBlank DEF Visible
  <2> QED
    BY <1>4, <1>5, <1>6, <2>1, <2>2
<1>7. ASSUME NEW p \in Providers, BlankFile(p), data' # data PROVE Allowed
  <2>1. data' = [data EXCEPT ![FileOf[p]] = <<>>] /\ UNCHANGED store
    BY <1>7 DEF BlankFile
  <2> QED
    BY <1>6, <2>1
<1>8. ASSUME NEW t \in Threads, Open(t), data' # data PROVE Allowed
  <2>1. prov[t] \in Providers
    BY <1>8 DEF Open, Before, TypeInv, WorkerInv, Active, Threads
  <2>2. data' = [data EXCEPT ![FileOf[prov[t]]] = <<>>] /\ UNCHANGED store
    BY <1>8 DEF Open, File
  <2> QED
    BY <1>6, <2>1, <2>2
<1>9. ASSUME NEW t \in Threads, Write(t) PROVE Allowed
  <2>1. pc[t] = "write" /\ UNCHANGED store
    BY <1>9 DEF Write
  <2>2. prov[t] \in Providers /\ got[t] \in 1..MaxVersion /\ got[t] <= store[prov[t]]
    <3>1. prov[t] \in Providers
      BY <2>1 DEF Before, TypeInv, WorkerInv, Active, Threads
    <3> QED
      BY <2>1, <3>1 DEF Before, TypeInv, TypeOK, FetchedInv, HasSecret
  <2> DEFINE p == prov[t]
             v == got[t]
  <2>3. CASE p \notin SoloProviders
    <3>1. PICK c : data' = [data EXCEPT ![FileOf[p]] = c]
      BY <1>9 DEF Write, File
    <3> QED
      BY <1>3, <1>4, <2>1, <2>2, <2>3, <3>1
  <2>4. CASE p \in SoloProviders
    <3>1. Solo(p) /\ File(t) = FileOf[p] /\ data[FileOf[p]] = <<>>
      BY <2>1, <2>2, <2>4 DEF SoloProviders, File, Before, WriterInv
    <3>2. v \in 1..store[p] /\ Size[v] \in Nat \ {0}
      BY <2>2, BoundsAssumption DEF Before, TypeInv, TypeOK
    <3>3. Visible[p] = 0
      BY <2>4, <2>2, <3>1, ShownBlank DEF Visible
    <3>4. \A n \in Nat : Overlay(<<>>, Prefix(p, v, n)) = Prefix(p, v, n)
      BY <2>2, PrefixType, OverlayEmpty
    <3>5. CASE data' = [data EXCEPT ![FileOf[p]] = Full(p, v)]
      <4>0. Same(p) /\ data'[FileOf[p]] = Full(p, v)
        BY <1>3, <2>1, <2>2, <3>5
      <4>1. Same(p) /\ Visible'[p] = v
        <5>1. Visible'[p] = Shown(p, data'[FileOf[p]])
          BY <2>4 DEF Visible
        <5> QED
          BY <2>2, <4>0, <5>1, ShownFull
      <4>2. Visible' = [Visible EXCEPT ![p] = v]
        BY <1>0, <4>1
      <4>3. UNCHANGED SoloStore /\ SoloStore[p] = store[p]
        BY <2>1, <2>4 DEF SoloStore
      <4> QED
        BY <2>4, <3>2, <3>3, <4>2, <4>3 DEF Promise!Next, Promise!Publish, Promise!Blank
    <3>6. ASSUME NEW n \in 0..(Size[v] - 1),
                 data' = [data EXCEPT ![FileOf[p]] = Prefix(p, v, n)]
          PROVE  Allowed
      <4>1. n \in 0..Size[v] /\ n # Size[v]
        BY <3>2
      <4>2. Same(p) /\ data'[FileOf[p]] = Prefix(p, v, n)
        BY <1>3, <2>1, <2>2, <3>6
      <4>3. Visible'[p] = 0
        BY <2>4, <2>2, <4>1, <4>2, ShownPartial DEF Visible
      <4> QED
        BY <1>5, <2>1, <2>4, <4>2, <4>3
    <3>7. Full(p, v) = Prefix(p, v, Size[v])
      BY <2>2, FullIsPrefix
    <3>8. \/ data' = [data EXCEPT ![FileOf[p]] = Overlay(<<>>, Full(p, v))]
          \/ \E n \in 0..(Size[v] - 1) :
               data' = [data EXCEPT ![FileOf[p]] = Overlay(<<>>, Prefix(p, v, n))]
      BY <1>9, <3>1 DEF Write
    <3> QED
      BY <3>2, <3>4, <3>5, <3>6, <3>7, <3>8
  <2> QED
    BY <2>3, <2>4
<1>10. \/ UNCHANGED <<store, data>>
       \/ \E p \in Providers : Rotate(p) \/ BlankFile(p)
       \/ \E t \in Threads : Open(t) \/ Write(t)
  <2>1. CASE UNCHANGED vars \/ StartProcess \/ Listen \/ Crash
    BY <2>1 DEF vars, StartProcess, Listen, Crash, Down
  <2>2. ASSUME NEW p \in Providers, Rotate(p) \/ Loop(p)
        PROVE  UNCHANGED <<store, data>> \/ Rotate(p) \/ BlankFile(p)
    BY <2>2 DEF Loop, BlankChmod, Wake
  <2>3. ASSUME NEW r \in Requests, Handler(r)
        PROVE  UNCHANGED <<store, data>>
    BY <2>3 DEF Handler, RejectRequest, RefreshNothing, AcceptRequest, Answer
  <2>4. ASSUME NEW t \in Threads, Round(t)
        PROVE  UNCHANGED <<store, data>> \/ Open(t) \/ Write(t)
    BY <2>4 DEF Round, Fetch, FetchPanics, Down, Ping, Lock, Section, Chmod
  <2> QED
    BY <2>1, <2>2, <2>3, <2>4 DEF Next
<1> QED
  BY <1>1, <1>2, <1>7, <1>8, <1>9, <1>10 DEF BlankFile, Open

\* The program keeps what SecretFile promises of every file that one provider is
\* configured with, whatever the others do.
THEOREM KeepsPromise == Spec => PromiseSpec
<1>1. Before /\ Before' /\ [Next]_vars => [Promise!Next]_(Promise!vars)
  BY PromiseNext DEF Before, TypeInv
<1>2. Init => Promise!Init
  BY PromiseInit
<1> QED
  BY <1>1, <1>2, BeforeInit, BeforeNext, PTL DEF Spec, PromiseSpec, Promise!Spec

=============================================================================
