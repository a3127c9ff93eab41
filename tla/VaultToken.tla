------------------------------ MODULE VaultToken ------------------------------
(***************************************************************************)
(* The goroutine manageTokenLifecycle that keeps the Vault token of a      *)
(* hashicorp_vault provider alive.  Reads of secrets fail while the token  *)
(* is expired, so what counts is how long that can last.  Time is discrete *)
(* and the goroutine is scheduled at once when a timer of it fires.        *)
(***************************************************************************)
EXTENDS Integers

CONSTANTS
  Lease,       \* lease of a token, at its login and at each renewal
  MaxLife,     \* a renewable token is renewed up to this age
  Grace,       \* LifetimeWatcher gives up when the lease left is this short
  LoginTime,   \* longest time a login takes
  MaxBackoff,  \* maxBackoff of reLogin
  MaxOutages   \* bound on the outages of Vault

VARIABLES
  up,         \* Vault is reachable and accepts the login
  outages,    \* the outages so far
  renewable,  \* authInfo.Auth.Renewable, given by the role
  left,       \* what is left of the token's lease, 0 if it has expired
  life,       \* how much longer the token can be renewed
  pc,         \* the goroutine's next step
  timer,      \* time left of its sleep or, at most, of its login
  doomed,     \* the login under way has met an outage and may fail
  backoff,    \* backoff of reLogin
  upFor       \* time since the end of the last outage

vars == <<up, outages, renewable, left, life, pc, timer, doomed, backoff, upFor>>
vault == <<up, outages, renewable, upFor>>
token == <<left, life>>

\* Slip: the token is used up before the next login.
SleepWholeLease == Lease

\* time.Sleep(lease * 4 / 5)
SleepTime == (Lease * 4) \div 5

\* Time until a token must be there again once Vault is: the rest of a login
\* that fails, a backoff and a login.
Recovery == LoginTime + MaxBackoff + LoginTime

Least(a, b) == IF a <= b THEN a ELSE b

\* Leases are long compared to logins.
ASSUME TimingAssumption ==
  /\ {Lease, MaxLife, Grace, LoginTime, MaxBackoff, MaxOutages} \subseteq Nat
  /\ MaxBackoff > 0
  /\ LoginTime < Grace /\ Grace < Lease /\ Lease <= MaxLife
  /\ LoginTime < Lease - (Lease * 4) \div 5

Alive == left > 0

-----------------------------------------------------------------------------
\* newAuthenticatedClient has logged in.
Init ==
  /\ up = TRUE /\ outages = 0
  /\ renewable \in BOOLEAN
  /\ left = Lease /\ life = MaxLife
  /\ pc = "manage"
  /\ timer = 0 /\ doomed = FALSE /\ backoff = 1
  /\ upFor = Recovery + 1

\* The top of the loop: sleep, or start a LifetimeWatcher.  (NewLifetimeWatcher
\* fails only on a nil secret, and Login returns no nil Auth without an error.)
Sleep ==
  /\ pc = "manage" /\ ~renewable
  /\ pc' = "asleep" /\ timer' = SleepTime
  /\ UNCHANGED <<vault, token, doomed, backoff>>

Watch ==
  /\ pc = "manage" /\ renewable
  /\ pc' = "watching"
  /\ UNCHANGED <<vault, token, timer, doomed, backoff>>

\* One attempt of reLogin's loop.
StartLogin ==
  /\ pc' = "login" /\ timer' = LoginTime /\ doomed' = ~up

reLogin == StartLogin /\ backoff' = 1

Wake ==
  /\ pc = "asleep" /\ timer = 0
  /\ reLogin
  /\ UNCHANGED <<vault, token>>

\* watchOnce: a message on RenewCh, the loop goes on.
Renewed ==
  /\ pc = "watching" /\ up /\ left > Grace
  /\ left' = Least(Lease, life)
  /\ UNCHANGED <<vault, life, pc, timer, doomed, backoff>>

\* Slip: the loop goes on with the old token.
WatcherDoneNoLogin ==
  /\ pc = "watching"
  /\ pc' = "manage"
  /\ UNCHANGED <<vault, token, timer, doomed, backoff>>

\* A message on DoneCh: the lease is short and was not renewed (a failed renewal
\* is tried again by the watcher, and cannot go beyond the token's life), or a
\* renewal came back without a lease.
WatcherDone ==
  /\ pc = "watching"
  /\ reLogin
  /\ UNCHANGED <<vault, token>>

LoginSucceeds ==
  /\ pc = "login" /\ up
  /\ left' = Lease /\ life' = MaxLife
  /\ pc' = "manage" /\ timer' = 0 /\ doomed' = FALSE
  /\ UNCHANGED <<vault, backoff>>

\* Slip: the backoff is doubled without limit.
LoginFailsUncapped ==
  /\ pc = "login" /\ doomed
  /\ pc' = "backoff" /\ timer' = backoff /\ doomed' = FALSE
  /\ backoff' = 2 * backoff
  /\ UNCHANGED <<vault, token>>

LoginFails ==
  /\ pc = "login" /\ doomed
  /\ pc' = "backoff" /\ timer' = backoff /\ doomed' = FALSE
  /\ backoff' = Least(2 * backoff, MaxBackoff)
  /\ UNCHANGED <<vault, token>>

LoginAgain ==
  /\ pc = "backoff" /\ timer = 0
  /\ StartLogin
  /\ UNCHANGED <<vault, token, backoff>>

-----------------------------------------------------------------------------
VaultDown ==
  /\ up /\ outages < MaxOutages
  /\ up' = FALSE /\ outages' = outages + 1
  /\ doomed' = (pc = "login")
  /\ UNCHANGED <<renewable, token, pc, timer, backoff, upFor>>

VaultUp ==
  /\ ~up
  /\ up' = TRUE /\ upFor' = 0
  /\ UNCHANGED <<outages, renewable, token, pc, timer, doomed, backoff>>

\* Time passes if the goroutine has nothing to do: it is not at the top of its
\* loop, no timer of its own is due and the watcher need not give up.
Tick ==
  /\ pc # "manage"
  /\ pc \in {"asleep", "backoff", "login"} => timer > 0
  /\ pc = "watching" => left > Grace
  /\ left' = IF left > 0 THEN left - 1 ELSE 0
  /\ life' = IF life > 0 THEN life - 1 ELSE 0
  /\ timer' = IF timer > 0 THEN timer - 1 ELSE 0
  /\ upFor' = Least(upFor + 1, Recovery + 1)
  /\ UNCHANGED <<up, outages, renewable, pc, doomed, backoff>>

manageTokenLifecycle ==
  \/ Sleep \/ Watch \/ Wake \/ Renewed \/ WatcherDone
  \/ LoginSucceeds \/ LoginFails \/ LoginAgain

Next == manageTokenLifecycle \/ VaultDown \/ VaultUp \/ Tick

Spec == Init /\ [][Next]_vars

\* Time passes, the goroutine is scheduled, and a call to Vault ends.  Neither
\* a renewal nor the end of an outage is promised, and the watcher is done only
\* when the lease is short.
FairSpec ==
  /\ Spec
  /\ WF_vars(Tick)
  /\ WF_vars(Sleep \/ Watch \/ Wake \/ (WatcherDone /\ left <= Grace) \/ LoginSucceeds \/ LoginFails \/ LoginAgain)

-----------------------------------------------------------------------------
TypeOK ==
  /\ up \in BOOLEAN /\ renewable \in BOOLEAN /\ doomed \in BOOLEAN
  /\ outages \in 0..MaxOutages
  /\ left \in 0..Lease /\ life \in 0..MaxLife
  /\ pc \in {"manage", "asleep", "watching", "login", "backoff"}
  /\ timer \in Nat
  /\ backoff \in 1..MaxBackoff
  /\ upFor \in 0..(Recovery + 1)

\* As long as Vault has had no outage the token never expires: it is replaced
\* while there is still time for the login, renewable or not.
NeverExpires == outages = 0 => Alive

\* After an outage there is a token again within a backoff and two logins,
\* however long the outage was.
RecoversInTime == up /\ upFor > Recovery => Alive

\* Tokens are replaced for ever, if Vault stays up in the end.
Replaced == (<>[]up) => []<>(life = MaxLife)
=============================================================================
