--------------------------- MODULE VaultReaderProofs ---------------------------
(***************************************************************************)
(* Proofs about VaultReader: the loop leaves the goroutine of VaultToken   *)
(* undisturbed, no read of it is refused for its token without an outage,  *)
(* and reads succeed in time after one, for all durations that satisfy     *)
(* TimingAssumption and ReadsFit.                                          *)
(***************************************************************************)
EXTENDS VaultReader, VaultTokenProofs

\* Every step of the reader is a step of the goroutine, of Vault or of time, or
\* leaves them alone.
LEMMA ReaderStepIsStep == [ReaderNext]_readerVars => [Next]_vars
<1> SUFFICES ASSUME [ReaderNext]_readerVars PROVE [Next]_vars
  OBVIOUS
<1>1. CASE getSecret
  BY <1>1 DEF getSecret, StartRead, ReadSucceeds, ReadRefused, ReadFails
<1>2. CASE RenewedUnder \/ SwappedUnder \/ TokenStep
  BY <1>2 DEF RenewedUnder, SwappedUnder, TokenStep, Next, manageTokenLifecycle
<1>3. CASE OutageBegins \/ OutageEnds \/ ReaderTick
  BY <1>3 DEF OutageBegins, OutageEnds, ReaderTick, Next
<1>4. CASE UNCHANGED readerVars
  BY <1>4 DEF readerVars
<1> QED
  BY <1>1, <1>2, <1>3, <1>4 DEF ReaderNext

\* The reader implements VaultToken.
THEOREM ReaderImplementsToken == ReaderSpec => Spec
<1>1. ReaderInit => Init
  BY DEF ReaderInit
<1> QED
  BY <1>1, ReaderStepIsStep, PTL DEF ReaderSpec, Spec

\* What is proved of the goroutine alone holds next to the loop: without an
\* outage the token the loop reads with is never expired ...
THEOREM ReaderTokenNeverExpires == ReaderSpec => []NeverExpires
BY ReaderImplementsToken, TokenNeverExpires, PTL

\* ... and after one it is there again within a backoff and two logins.
THEOREM ReaderTokenRecovers == ReaderSpec => []RecoversInTime
BY ReaderImplementsToken, TokenRecovers, PTL

\* So what is proved of the token holds next to a loop that uses it.
LEMMA ReaderIInv == ReaderSpec => []IInv
BY ReaderImplementsToken, InitInv, StepInv, PTL DEF Spec

-----------------------------------------------------------------------------
\* The ranges of the loop's variables.
LoopTypeOK ==
  /\ loop \in {"start", "reading", "asleep"}
  /\ due \in 0..(ReadTime + Interval)
  /\ carried \in 0..Lease
  /\ current \in BOOLEAN /\ broken \in BOOLEAN
  /\ quiet \in Nat

LEMMA LoopTypeInit == ReaderInit => LoopTypeOK
<1> SUFFICES ASSUME ReaderInit PROVE LoopTypeOK
  OBVIOUS
<1>1. broken \in BOOLEAN /\ current \in BOOLEAN
  BY Zenon DEF ReaderInit
<1> QED
  BY <1>1, ReaderAssumption, TimingAssumption DEF ReaderInit, LoopTypeOK

LEMMA LoopTypeStep == IInv /\ IInv' /\ LoopTypeOK /\ [ReaderNext]_readerVars => LoopTypeOK'
<1> SUFFICES ASSUME IInv, IInv', LoopTypeOK, [ReaderNext]_readerVars PROVE LoopTypeOK'
  OBVIOUS
<1> USE ReaderAssumption, TimingAssumption DEF LoopTypeOK
<1>t. left \in 0..Lease /\ left' \in 0..Lease /\ up \in BOOLEAN
  BY DEF IInv, TypeOK
<1>1. CASE StartRead
  <2>1. broken' \in BOOLEAN /\ current' \in BOOLEAN
    BY <1>1, Zenon DEF StartRead
  <2> QED
    BY <1>1, <1>t, <2>1 DEF StartRead
<1>2. CASE ReadSucceeds
  <2>1. broken' \in BOOLEAN /\ current' \in BOOLEAN
    BY <1>2, Zenon DEF ReadSucceeds, SleepInterval
  <2> QED
    BY <1>2, <2>1 DEF ReadSucceeds, SleepInterval
<1>3. CASE ReadRefused
  <2>1. broken' \in BOOLEAN /\ current' \in BOOLEAN
    BY <1>3, Zenon DEF ReadRefused, SleepInterval
  <2> QED
    BY <1>3, <2>1 DEF ReadRefused, SleepInterval
<1>4. CASE ReadFails
  <2>1. broken' \in BOOLEAN /\ current' \in BOOLEAN
    BY <1>4, Zenon DEF ReadFails, SleepInterval
  <2> QED
    BY <1>4, <2>1 DEF ReadFails, SleepInterval
<1>5. CASE RenewedUnder
  BY <1>5, <1>t DEF RenewedUnder
<1>6. CASE SwappedUnder
  BY <1>6 DEF SwappedUnder
<1>7. CASE TokenStep
  BY <1>7 DEF TokenStep, reader
<1>8. CASE OutageBegins
  <2>1. broken' \in BOOLEAN
    BY <1>8, Zenon DEF OutageBegins
  <2> QED
    BY <1>8, <2>1 DEF OutageBegins
<1>9. CASE OutageEnds
  BY <1>9 DEF OutageEnds
<1>10. CASE ReaderTick
  BY <1>10 DEF ReaderTick
<1>11. CASE UNCHANGED readerVars
  BY <1>11 DEF readerVars, reader
<1> QED
  BY <1>1, <1>2, <1>3, <1>4, <1>5, <1>6, <1>7, <1>8, <1>9, <1>10, <1>11 DEF ReaderNext, getSecret

\* Type correctness of the goroutine and the loop together.
THEOREM ReaderTypeCorrect == ReaderSpec => []ReaderTypeOK
<1>1. ReaderInit => LoopTypeOK
  BY LoopTypeInit
<1>2. IInv /\ LoopTypeOK => ReaderTypeOK
  BY DEF IInv, LoopTypeOK, ReaderTypeOK
<1> QED
  BY <1>1, <1>2, ReaderIInv, LoopTypeStep, PTL DEF ReaderSpec

-----------------------------------------------------------------------------
\* A login begins early enough for a read to end after it with the old token.
RoomForRead ==
  outages = 0 =>
    /\ pc = "asleep" => left > timer + LoginTime + ReadTime
    /\ pc = "login" => left > timer + ReadTime

\* The read has the token of the client, or an older one that outlasts it.
GoodRead ==
  outages = 0 /\ loop = "reading" =>
    /\ due <= ReadTime
    /\ IF current THEN carried = left ELSE carried > due

LEMMA RoomStep ==
  ReadsFit /\ IInv /\ RoomForRead /\ [ReaderNext]_readerVars => RoomForRead'
<1> SUFFICES ASSUME ReadsFit, IInv, RoomForRead, [Next]_vars PROVE RoomForRead'
  BY ReaderStepIsStep
<1> USE TimingAssumption, ReaderAssumption DEF IInv, TypeOK, Margins, NoOutage, RoomForRead, ReadsFit
<1>1. CASE Sleep
  BY <1>1, SleepIsShort DEF Sleep, vault, token
<1>2. CASE Watch
  BY <1>2 DEF Watch, vault, token
<1>3. CASE Wake
  BY <1>3 DEF Wake, reLogin, StartLogin, vault, token
<1>4. CASE Renewed
  BY <1>4 DEF Renewed, vault
<1>5. CASE WatcherDone
  BY <1>5 DEF WatcherDone, reLogin, StartLogin, vault, token
<1>6. CASE LoginSucceeds
  BY <1>6 DEF LoginSucceeds, vault
<1>7. CASE LoginFails
  BY <1>7 DEF LoginFails, vault, token
<1>8. CASE LoginAgain
  BY <1>8 DEF LoginAgain, StartLogin, vault, token
<1>9. CASE VaultDown
  BY <1>9 DEF VaultDown, token
<1>10. CASE VaultUp
  BY <1>10 DEF VaultUp, token
<1>11. CASE Tick
  BY <1>11 DEF Tick
<1>12. CASE UNCHANGED vars
  BY <1>12 DEF vars
<1> QED
  BY <1>1, <1>2, <1>3, <1>4, <1>5, <1>6, <1>7, <1>8, <1>9, <1>10, <1>11, <1>12
  DEF Next, manageTokenLifecycle

LEMMA GoodReadStep ==
  ReadsFit /\ IInv /\ LoopTypeOK /\ RoomForRead /\ GoodRead /\ [ReaderNext]_readerVars => GoodRead'
<1> SUFFICES ASSUME ReadsFit, IInv, LoopTypeOK, RoomForRead, GoodRead, [ReaderNext]_readerVars
             PROVE  GoodRead'
  OBVIOUS
<1> USE TimingAssumption, ReaderAssumption DEF IInv, TypeOK, Margins, NoOutage, LoopTypeOK, GoodRead
<1>1. CASE StartRead
  BY <1>1 DEF StartRead, vars
<1>2. CASE ReadSucceeds \/ ReadRefused \/ ReadFails
  BY <1>2 DEF ReadSucceeds, ReadRefused, ReadFails, SleepInterval
<1>3. CASE RenewedUnder
  BY <1>3 DEF RenewedUnder, Renewed, vault
<1>4. CASE SwappedUnder
  BY <1>4 DEF SwappedUnder, LoginSucceeds, vault, RoomForRead
<1>5. CASE TokenStep
  BY <1>5 DEF TokenStep, reader, vault, token, Sleep, Watch, Wake, WatcherDone, LoginFails, LoginAgain, reLogin
<1>6. CASE OutageBegins
  BY <1>6 DEF OutageBegins, VaultDown
<1>7. CASE OutageEnds
  BY <1>7 DEF OutageEnds, VaultUp, token
<1>8. CASE ReaderTick
  BY <1>8 DEF ReaderTick, Tick
<1>9. CASE UNCHANGED readerVars
  BY <1>9 DEF readerVars, reader, vars
<1> QED
  BY <1>1, <1>2, <1>3, <1>4, <1>5, <1>6, <1>7, <1>8, <1>9 DEF ReaderNext, getSecret

\* As long as Vault has had no outage no read finds its token expired, although
\* the token may be swapped under it.
THEOREM ReadsCarryGoodToken == ReaderSpec => []CarriesGoodToken
<1>1. ReaderInit => LoopTypeOK /\ RoomForRead /\ GoodRead
  BY LoopTypeInit DEF ReaderInit, Init, RoomForRead, GoodRead
<1>2. IInv /\ LoopTypeOK /\ (ReadsFit => GoodRead) => CarriesGoodToken
  BY TimingAssumption, ReaderAssumption DEF IInv, TypeOK, Margins, NoOutage, LoopTypeOK, GoodRead, CarriesGoodToken, Alive
<1>3. CASE ReadsFit
  BY <1>1, <1>2, <1>3, ReaderIInv, LoopTypeStep, RoomStep, GoodReadStep, PTL DEF ReaderSpec
<1>4. CASE ~ReadsFit
  BY <1>1, <1>2, <1>4, ReaderIInv, LoopTypeStep, PTL DEF ReaderSpec
<1> QED
  BY <1>3, <1>4
-----------------------------------------------------------------------------
\* After an outage as well, a login that is not part of the recovery begins
\* early enough for a read to end after it with the old token.
RoomAfterOutage ==
  /\ pc = "asleep" => left > timer + LoginTime + ReadTime
  /\ up /\ pc \in {"login", "backoff"} =>
       left > Rest + ReadTime \/ upFor + Rest <= Recovery

\* A read that began more than Recovery after the end of the last outage, and
\* has met none since, has a token that lasts until it ends.
GoodLateRead ==
  up /\ loop = "reading" /\ ~broken /\ quiet + due > Recovery + ReadTime =>
    IF current THEN carried = left ELSE carried > due

\* How long the loop can have gone without a success where it is now.
QuietBounds ==
  /\ quiet <= upFor \/ upFor = Recovery + 1
  /\ loop = "start" => quiet = 0 /\ due = 0
  /\ loop = "asleep" =>
       /\ due <= Interval
       /\ up => quiet + due <= Recovery + ReadTime + Interval
       /\ outages = 0 => quiet + due <= Interval
  /\ loop = "reading" =>
       /\ due <= ReadTime
       /\ ~up => broken
       /\ up /\ broken => quiet + due <= ReadTime
       /\ up => quiet + due <= Recovery + ReadTime + Interval + ReadTime
       /\ outages = 0 => ~broken /\ quiet + due <= Interval + ReadTime

LEMMA RoomAfterOutageStep ==
  ReadsFit /\ IInv /\ RoomAfterOutage /\ [ReaderNext]_readerVars => RoomAfterOutage'
<1> SUFFICES ASSUME ReadsFit, IInv, RoomAfterOutage, [Next]_vars PROVE RoomAfterOutage'
  BY ReaderStepIsStep
<1> USE TimingAssumption, ReaderAssumption
    DEF IInv, TypeOK, Margins, NoOutage, RoomAfterOutage, Rest, Recovery, ReadsFit, Least
<1>1. CASE Sleep
  BY <1>1, SleepIsShort DEF Sleep, SleepTime, vault, token
<1>2. CASE Watch
  BY <1>2 DEF Watch, vault, token
<1>3. CASE Wake
  BY <1>3 DEF Wake, reLogin, StartLogin, vault, token
<1>4. CASE Renewed
  BY <1>4 DEF Renewed, vault
<1>5. CASE WatcherDone
  BY <1>5 DEF WatcherDone, reLogin, StartLogin, vault, token
<1>6. CASE LoginSucceeds
  BY <1>6 DEF LoginSucceeds, vault
<1>7. CASE LoginFails
  BY <1>7 DEF LoginFails, vault, token
<1>8. CASE LoginAgain
  BY <1>8 DEF LoginAgain, StartLogin, vault, token
<1>9. CASE VaultDown
  <2>1. ~up'
    BY <1>9, Zenon DEF VaultDown
  <2> QED
    BY <1>9, <2>1 DEF VaultDown, token
<1>10. CASE VaultUp
  BY <1>10 DEF VaultUp, token
<1>11. CASE Tick
  BY <1>11 DEF Tick
<1>12. CASE UNCHANGED vars
  BY <1>12 DEF vars
<1> QED
  BY <1>1, <1>2, <1>3, <1>4, <1>5, <1>6, <1>7, <1>8, <1>9, <1>10, <1>11, <1>12
  DEF Next, manageTokenLifecycle

\* More than Recovery after the last outage there is a token.
LEMMA LateIsAlive ==
  ASSUME IInv, QuietBounds, up, quiet > Recovery, quiet \in Nat
  PROVE  upFor > Recovery /\ left > 0
BY TimingAssumption
   DEF IInv, TypeOK, Margins, Recovering, Rest, Recovery, QuietBounds

\* What happens to the token under a read that began late leaves it one that
\* lasts.
LEMMA GoodLateReadStep ==
  ReadsFit /\ IInv /\ LoopTypeOK /\ RoomAfterOutage /\ QuietBounds /\ GoodLateRead
    /\ [ReaderNext]_readerVars => GoodLateRead'
<1> SUFFICES ASSUME ReadsFit, IInv, LoopTypeOK, RoomAfterOutage, QuietBounds, GoodLateRead,
                    [ReaderNext]_readerVars
             PROVE  GoodLateRead'
  OBVIOUS
<1>r. Recovery \in Nat
  BY TimingAssumption DEF Recovery
<1> USE <1>r, TimingAssumption, ReaderAssumption DEF IInv, TypeOK, Margins, LoopTypeOK, GoodLateRead
<1>1. CASE StartRead
  BY <1>1 DEF StartRead, vars
<1>2. CASE ReadSucceeds \/ ReadRefused \/ ReadFails
  BY <1>2 DEF ReadSucceeds, ReadRefused, ReadFails, SleepInterval
<1>3. CASE RenewedUnder
  BY <1>3 DEF RenewedUnder, Renewed, vault
<1>4. CASE SwappedUnder
  <2>1. ASSUME up, loop = "reading", ~broken, quiet + due > Recovery + ReadTime
        PROVE  left > ReadTime
    <3>1. quiet > Recovery
      BY <2>1 DEF QuietBounds
    <3>2. upFor > Recovery
      BY <2>1, <3>1, LateIsAlive
    <3> QED
      BY <1>4, <2>1, <3>2 DEF SwappedUnder, LoginSucceeds, RoomAfterOutage, Rest
  <2> QED
    BY <1>4, <2>1 DEF SwappedUnder, LoginSucceeds, vault, QuietBounds
<1>5. CASE TokenStep
  BY <1>5 DEF TokenStep, reader, vault, token, Sleep, Watch, Wake, WatcherDone, LoginFails, LoginAgain, reLogin
<1>6. CASE OutageBegins
  <2>1. ~up'
    BY <1>6, Zenon DEF OutageBegins, VaultDown
  <2> QED
    BY <2>1
<1>7. CASE OutageEnds
  <2>1. loop' = "reading" => broken'
    BY <1>7 DEF OutageEnds, VaultUp, QuietBounds
  <2> QED
    BY <2>1
<1>8. CASE ReaderTick
  BY <1>8 DEF ReaderTick, Tick
<1>9. CASE UNCHANGED readerVars
  BY <1>9 DEF readerVars, reader, vars
<1> QED
  BY <1>1, <1>2, <1>3, <1>4, <1>5, <1>6, <1>7, <1>8, <1>9 DEF ReaderNext, getSecret

\* Only a read that began early fails; one that began late succeeds.
LEMMA QuietStep ==
  ReadsFit /\ IInv /\ LoopTypeOK /\ GoodRead /\ GoodLateRead /\ QuietBounds
    /\ [ReaderNext]_readerVars => QuietBounds'
<1> SUFFICES ASSUME ReadsFit, IInv, LoopTypeOK, GoodRead, GoodLateRead, QuietBounds,
                    [ReaderNext]_readerVars
             PROVE  QuietBounds'
  OBVIOUS
<1>r. Recovery \in Nat
  BY TimingAssumption DEF Recovery
<1> USE <1>r, TimingAssumption, ReaderAssumption
    DEF IInv, TypeOK, Margins, NoOutage, LoopTypeOK, QuietBounds
<1>1. CASE StartRead
  <2>1. broken' <=> ~up
    BY <1>1, Zenon DEF StartRead
  <2> QED
    BY <1>1, <2>1 DEF StartRead, vars
<1>2. CASE ReadSucceeds
  BY <1>2 DEF ReadSucceeds, SleepInterval, vars
<1>3. CASE ReadRefused
  <2>1. outages # 0
    BY <1>3 DEF ReadRefused, GoodRead
  <2>2. up /\ quiet <= Recovery + ReadTime
    <3>1. CASE broken
      BY <1>3, <3>1 DEF ReadRefused
    <3>2. CASE ~broken /\ quiet + due > Recovery + ReadTime
      <4>1. left > 0
        BY <1>3, <3>2, LateIsAlive DEF ReadRefused
      <4> QED
        BY <1>3, <3>2, <4>1 DEF ReadRefused, GoodLateRead
    <3> QED
      BY <1>3, <3>1, <3>2 DEF ReadRefused
  <2> QED
    BY <1>3, <2>1, <2>2 DEF ReadRefused, SleepInterval, vars
<1>4. CASE ReadFails
  BY <1>4 DEF ReadFails, SleepInterval, vars
<1>5. CASE RenewedUnder
  BY <1>5 DEF RenewedUnder, Renewed, vault
<1>6. CASE SwappedUnder
  BY <1>6 DEF SwappedUnder, LoginSucceeds, vault
<1>7. CASE TokenStep
  BY <1>7 DEF TokenStep, reader, vault, token, Sleep, Watch, Wake, WatcherDone, LoginFails, LoginAgain, reLogin
<1>8. CASE OutageBegins
  <2>1. ~up' /\ (loop' = "reading" => broken')
    BY <1>8, Zenon DEF OutageBegins, VaultDown
  <2> QED
    BY <1>8, <2>1 DEF OutageBegins, VaultDown
<1>9. CASE OutageEnds
  BY <1>9 DEF OutageEnds, VaultUp
<1>10. CASE ReaderTick
  BY <1>10 DEF ReaderTick, Tick, Least
<1>11. CASE UNCHANGED readerVars
  BY <1>11 DEF readerVars, reader, vars
<1> QED
  BY <1>1, <1>2, <1>3, <1>4, <1>5, <1>6, <1>7, <1>8, <1>9, <1>10, <1>11 DEF ReaderNext, getSecret

\* The file gets a fresh secret within an interval and a read, and after an
\* outage within the recovery of the token, a read that came too early, an
\* interval and a read, whatever happens to the token under the reads.
THEOREM ReadsGoOn == ReaderSpec => []ReadsInTime
<1>1. ReaderInit => LoopTypeOK /\ RoomForRead /\ GoodRead
  BY LoopTypeInit DEF ReaderInit, Init, RoomForRead, GoodRead
<1>2. ReaderInit => RoomAfterOutage /\ GoodLateRead /\ QuietBounds
  BY TimingAssumption, ReaderAssumption
  DEF ReaderInit, Init, RoomAfterOutage, GoodLateRead, QuietBounds, Recovery
<1>3. IInv /\ LoopTypeOK /\ (ReadsFit => QuietBounds) => ReadsInTime
  BY TimingAssumption, ReaderAssumption
  DEF IInv, TypeOK, NoOutage, LoopTypeOK, QuietBounds, ReadsInTime, Recovery
<1>4. CASE ReadsFit
  BY <1>1, <1>2, <1>3, <1>4, ReaderIInv, LoopTypeStep, RoomStep, GoodReadStep,
     RoomAfterOutageStep, GoodLateReadStep, QuietStep, PTL DEF ReaderSpec
<1>5. CASE ~ReadsFit
  BY <1>1, <1>3, <1>5, ReaderIInv, LoopTypeStep, PTL DEF ReaderSpec
<1> QED
  BY <1>4, <1>5
=============================================================================
