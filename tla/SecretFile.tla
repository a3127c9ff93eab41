----------------------------- MODULE SecretFile -----------------------------
(***************************************************************************)
(* What a file provider promises to the sibling container that reads its   *)
(* file (README "File based providers"): the file either holds no usable   *)
(* secret, or it holds, complete, one version that the secret store really *)
(* had.  It never holds a mixture, and it goes from one complete version   *)
(* to another only through Blank, because the writer truncates first.      *)
(***************************************************************************)
EXTENDS Naturals

CONSTANTS Providers, MaxVersion

Blank == 0

VARIABLES
  store,  \* the version each provider's secret has in its store
  file    \* the version a reader finds complete in the file, or Blank

vars == <<store, file>>

Init ==
  /\ store = [p \in Providers |-> 1]
  /\ file \in [Providers -> {Blank, 1}]

Rotate(p) ==
  /\ store[p] < MaxVersion
  /\ store' = [store EXCEPT ![p] = @ + 1]
  /\ UNCHANGED file

Withdraw(p) ==
  /\ file' = [file EXCEPT ![p] = Blank]
  /\ UNCHANGED store

Publish(p) ==
  /\ file[p] = Blank
  /\ \E v \in 1..store[p] : file' = [file EXCEPT ![p] = v]
  /\ UNCHANGED store

Next == \E p \in Providers : Rotate(p) \/ Withdraw(p) \/ Publish(p)

Spec == Init /\ [][Next]_vars
=============================================================================
