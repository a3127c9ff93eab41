--------------------------- MODULE VaultTokenProofs ---------------------------
(***************************************************************************)
(* Proofs about VaultToken, for all durations that satisfy                 *)
(* TimingAssumption: the token never expires without an outage, and is     *)
(* there again within Recovery after one.                                  *)
(***************************************************************************)
EXTENDS VaultToken, TLAPS

\* The lease left covers what the goroutine still has to wait for.
Margins ==
  /\ left <= life
  /\ pc = "manage" => left = Lease /\ timer = 0
  /\ pc = "asleep" => left > timer + LoginTime
  /\ pc = "watching" => left >= Grace
  /\ pc = "login" => timer <= LoginTime
  /\ pc = "backoff" => timer <= MaxBackoff
  /\ doomed => pc = "login"

\* Without an outage a login ends before the token does.
NoOutage ==
  outages = 0 => up /\ ~doomed /\ pc # "backoff" /\ (pc = "login" => left > timer)

\* How long a login or backoff may still take, if Vault stays up.
Rest ==
  IF pc = "backoff" THEN timer + LoginTime
  ELSE IF doomed THEN timer + MaxBackoff + LoginTime ELSE timer

Recovering ==
  up /\ pc \in {"login", "backoff"} => left > Rest \/ upFor + Rest <= Recovery

IInv == TypeOK /\ Margins /\ NoOutage /\ Recovering

-----------------------------------------------------------------------------
\* The sleep is shorter than the lease by more than a login.
LEMMA SleepIsShort == SleepTime \in Nat /\ SleepTime + LoginTime < Lease
BY TimingAssumption DEF SleepTime

LEMMA InitInv == Init => IInv
<1> SUFFICES ASSUME Init PROVE IInv
  OBVIOUS
<1>1. up /\ ~doomed /\ up \in BOOLEAN /\ doomed \in BOOLEAN
  BY Zenon DEF Init
<1> QED
  BY <1>1, TimingAssumption
  DEF Init, IInv, TypeOK, Margins, NoOutage, Recovering, Rest, Recovery

LEMMA StepInv == IInv /\ [Next]_vars => IInv'
<1> SUFFICES ASSUME IInv, [Next]_vars PROVE IInv'
  OBVIOUS
<1> USE TimingAssumption DEF IInv, TypeOK, Margins, NoOutage, Recovering, Rest, Recovery, Least
<1>1. CASE Sleep
  BY <1>1, SleepIsShort DEF Sleep, vault, token
<1>2. CASE Watch
  BY <1>2 DEF Watch, vault, token
<1>3. CASE Wake
  BY <1>3 DEF Wake, reLogin, StartLogin, vault, token
<1>4. CASE Renewed
  BY <1>4 DEF Renewed, vault
<1>5. CASE WatcherDone
  BY <1>5 DEF WatcherDone, reLogin, StartLogin, vault, token
<1>6. CASE LoginSucceeds
  <2>1. ~doomed' /\ doomed' \in BOOLEAN
    BY <1>6, Zenon DEF LoginSucceeds
  <2> QED
    BY <1>6, <2>1 DEF LoginSucceeds, vault
<1>7. CASE LoginFails
  <2>1. ~doomed' /\ doomed' \in BOOLEAN
    BY <1>7, Zenon DEF LoginFails
  <2> QED
    BY <1>7, <2>1 DEF LoginFails, vault, token
<1>8. CASE LoginAgain
  BY <1>8 DEF LoginAgain, StartLogin, vault, token
<1>9. CASE VaultDown
  <2>1. ~up' /\ up' \in BOOLEAN
    BY <1>9, Zenon DEF VaultDown
  <2>2. (doomed' <=> pc = "login") /\ doomed' \in BOOLEAN
    BY <1>9, Zenon DEF VaultDown
  <2> QED
    BY <1>9, <2>1, <2>2 DEF VaultDown, token
<1>10. CASE VaultUp
  BY <1>10 DEF VaultUp, token
<1>11. CASE Tick
  BY <1>11 DEF Tick
<1>12. CASE UNCHANGED vars
  BY <1>12 DEF vars
<1> QED
  BY <1>1, <1>2, <1>3, <1>4, <1>5, <1>6, <1>7, <1>8, <1>9, <1>10, <1>11, <1>12
  DEF Next, manageTokenLifecycle

LEMMA Inductive == Spec => []IInv
<1>1. Init => IInv
  BY InitInv
<1>2. IInv /\ [Next]_vars => IInv'
  BY StepInv
<1> QED
  BY <1>1, <1>2, PTL DEF Spec

-----------------------------------------------------------------------------
\* The variables keep their types; in particular the backoff stays within
\* maxBackoff.
THEOREM TypeCorrect == Spec => []TypeOK
<1>1. IInv => TypeOK
  BY DEF IInv
<1> QED
  BY <1>1, Inductive, PTL

\* Without an outage of Vault the token is never expired, whether it is renewed
\* or replaced after four fifths of its lease.
THEOREM TokenNeverExpires == Spec => []NeverExpires
<1>1. IInv => NeverExpires
  BY TimingAssumption DEF IInv, TypeOK, Margins, NoOutage, NeverExpires, Alive
<1> QED
  BY <1>1, Inductive, PTL

\* After an outage the token is there again within a backoff and two logins.
THEOREM TokenRecovers == Spec => []RecoversInTime
<1>1. IInv => RecoversInTime
  BY TimingAssumption
  DEF IInv, TypeOK, Margins, Recovering, Rest, Recovery, RecoversInTime, Alive
<1> QED
  BY <1>1, Inductive, PTL
=============================================================================
