------------------------------ MODULE VaultReader ------------------------------
(***************************************************************************)
(* The loop of file_hashicorp_vault next to the goroutine that looks after *)
(* its token: a read takes the token the client has when the request is    *)
(* made, and the goroutine may renew or replace that token while the read  *)
(* is under way.  A read that is refused is not tried again before the     *)
(* next refresh, so what counts is how long the file can go without one    *)
(* that succeeds.                                                          *)
(***************************************************************************)
EXTENDS VaultToken

CONSTANTS
  ReadTime,  \* timeout of readKVv2WithTimeout, in which a reachable Vault answers
  Interval   \* the refresh interval of the file

VARIABLES
  loop,     \* the loop's next step
  due,      \* time left of its sleep or, at most, of its read
  carried,  \* what is left of the lease of the read's token
  current,  \* is that token still the client's?
  broken,   \* the read under way has met an outage and may fail
  quiet     \* how long Vault has been reachable since a read last succeeded

reader == <<loop, due, carried, current, broken, quiet>>
readerVars == <<vars, reader>>

ASSUME ReaderAssumption == ReadTime \in Nat /\ Interval \in Nat /\ Interval > 0

\* A read that is under way when the token is replaced ends before the old
\* token does.
ReadsFit == LoginTime + ReadTime < Grace /\ LoginTime + ReadTime < Lease - SleepTime

ReaderInit ==
  /\ Init
  /\ loop = "start" /\ due = 0
  /\ carried = 0 /\ current = FALSE /\ broken = FALSE
  /\ quiet = 0

-----------------------------------------------------------------------------
\* getSecret: the request is made with the client's token.
StartRead ==
  /\ \/ loop = "start"
     \/ loop = "asleep" /\ due = 0
  /\ loop' = "reading" /\ due' = ReadTime
  /\ carried' = left /\ current' = TRUE
  /\ broken' = ~up
  /\ UNCHANGED <<vars, quiet>>

\* time.Sleep(p.refreshInterval), after a success as after a failure.
SleepInterval ==
  /\ loop' = "asleep" /\ due' = Interval
  /\ carried' = 0 /\ current' = FALSE /\ broken' = FALSE

ReadSucceeds ==
  /\ loop = "reading" /\ up /\ carried > 0
  /\ SleepInterval
  /\ quiet' = 0
  /\ UNCHANGED vars

\* Slip: the loop waits longer after a refusal.
ReadRefusedBackoff ==
  /\ loop = "reading" /\ up /\ carried = 0
  /\ loop' = "asleep" /\ due' = 2 * Interval
  /\ carried' = 0 /\ current' = FALSE /\ broken' = FALSE
  /\ UNCHANGED <<vars, quiet>>

\* Vault refuses a token that has expired.
ReadRefused ==
  /\ loop = "reading" /\ up /\ carried = 0
  /\ SleepInterval
  /\ UNCHANGED <<vars, quiet>>

\* Vault is not reached, or not within the timeout.
ReadFails ==
  /\ loop = "reading" /\ broken
  /\ SleepInterval
  /\ UNCHANGED <<vars, quiet>>

-----------------------------------------------------------------------------
(* The goroutine's steps, and what they do to the read. *)

\* A renewal renews the read's token too, if that is the token renewed.
RenewedUnder ==
  /\ Renewed
  /\ carried' = IF current THEN left' ELSE carried
  /\ UNCHANGED <<loop, due, current, broken, quiet>>

\* Slip: the old token is revoked at once.
SwappedAndRevoked ==
  /\ LoginSucceeds
  /\ current' = FALSE /\ carried' = 0
  /\ UNCHANGED <<loop, due, broken, quiet>>

\* The client's token is swapped in place; the request has the old one.
SwappedUnder ==
  /\ LoginSucceeds
  /\ current' = FALSE
  /\ UNCHANGED <<loop, due, carried, broken, quiet>>

TokenStep ==
  /\ \/ Sleep \/ Watch \/ Wake \/ WatcherDone \/ LoginFails \/ LoginAgain
  /\ UNCHANGED reader

OutageBegins ==
  /\ VaultDown
  /\ broken' = (loop = "reading")
  /\ UNCHANGED <<loop, due, carried, current, quiet>>

OutageEnds ==
  /\ VaultUp
  /\ quiet' = 0
  /\ UNCHANGED <<loop, due, carried, current, broken>>

\* Time passes if neither the goroutine nor the loop has something to do.
ReaderTick ==
  /\ Tick
  /\ due > 0
  /\ due' = due - 1
  /\ carried' = IF carried > 0 THEN carried - 1 ELSE 0
  /\ quiet' = IF up THEN quiet + 1 ELSE quiet
  /\ UNCHANGED <<loop, current, broken>>

getSecret == StartRead \/ ReadSucceeds \/ ReadRefused \/ ReadFails

ReaderNext ==
  \/ getSecret
  \/ RenewedUnder \/ SwappedUnder \/ TokenStep
  \/ OutageBegins \/ OutageEnds \/ ReaderTick

ReaderSpec == ReaderInit /\ [][ReaderNext]_readerVars

\* As in VaultToken; a read ends as well.
FairReaderSpec ==
  /\ ReaderSpec
  /\ WF_readerVars(ReaderTick)
  /\ WF_readerVars(SwappedUnder \/ (TokenStep /\ (pc = "watching" => left <= Grace)))
  /\ WF_readerVars(getSecret)

-----------------------------------------------------------------------------
ReaderTypeOK ==
  /\ TypeOK
  /\ loop \in {"start", "reading", "asleep"}
  /\ due \in 0..(ReadTime + Interval)
  /\ carried \in 0..Lease
  /\ current \in BOOLEAN /\ broken \in BOOLEAN
  /\ quiet \in Nat

\* A read is never refused for its token without an outage, although the token
\* may be replaced while the read is under way, if logins and reads are short
\* compared to what is left of a lease when it is given up.
CarriesGoodToken ==
  ReadsFit /\ outages = 0 /\ loop = "reading" => carried > 0

\* A secret that is there and that the token may read is read every interval; after
\* an outage, as soon as the token is there again and one more interval has passed.
ReadsInTime ==
  ReadsFit =>
    /\ outages = 0 => quiet <= Interval + ReadTime
    /\ up => quiet <= Recovery + ReadTime + Interval + ReadTime
=============================================================================
