------------------------------- MODULE Crypto -------------------------------
(***************************************************************************)
(* The sequence numbers that struct Crypto (tools/crypto.hpp, .cpp) puts   *)
(* into the credentials of an account.  The clock has a resolution of one  *)
(* millisecond and may be set back, so get_sequence makes sure the numbers *)
(* grow; a restarted process begins anew.                                  *)
(*                                                                         *)
(* Digests and nonces are left out: a credential is its sequence number.   *)
(***************************************************************************)
EXTENDS Integers, Sequences

CONSTANTS
  Times,        \* bound: values of the clock, in milliseconds
  MaxIssued,    \* bound: credentials created by one process
  MaxRestarts   \* bound: restarts of the process

ASSUME TimesAssumption == Times \subseteq Nat
ASSUME BoundsAssumption == MaxIssued \in Nat /\ MaxRestarts \in Nat

VARIABLES
  timestamp,    \* timestamp_
  \* history
  issued,       \* numbers issued by this process, in order
  asked,        \* the timestamps they were asked with
  earlier,      \* numbers issued by the processes before
  restarts,     \* number of restarts
  cleanRestarts \* after every restart the first timestamp was ahead of all
                \* numbers issued before

vars == <<timestamp, issued, asked, earlier, restarts, cleanRestarts>>

Init ==
  /\ timestamp = 0
  /\ issued = <<>>
  /\ asked = <<>>
  /\ earlier = {}
  /\ restarts = 0
  /\ cleanRestarts = TRUE

(* Slips: equal timestamps pass; one too many; the clock is ignored; the   *)
(* number goes back with the clock.                                        *)
GetSequenceIfEqual(t) == IF timestamp <= t THEN t ELSE timestamp + 1
GetSequenceAfter(t) == (IF timestamp < t THEN t ELSE timestamp) + 1
GetSequenceCounter(t) == timestamp + 1
GetSequenceBack(t) == IF timestamp < t THEN t ELSE timestamp - 1

(* get_sequence: the clock, or one more than last time if it is behind.    *)
GetSequence(t) == IF timestamp < t THEN t ELSE timestamp + 1

(* create_signature and create_raw_data number a credential alike.         *)
CreateCredential(t) ==
  /\ Len(issued) < MaxIssued
  /\ timestamp' = GetSequence(t)
  /\ issued' = Append(issued, GetSequence(t))
  /\ asked' = Append(asked, t)
  /\ cleanRestarts' = (cleanRestarts /\ (issued = <<>> => \A n \in earlier : n < t))
  /\ UNCHANGED <<earlier, restarts>>

(* The process ends and a new one constructs its Crypto.                   *)
Restart ==
  /\ restarts < MaxRestarts
  /\ restarts' = restarts + 1
  /\ timestamp' = 0
  /\ issued' = <<>>
  /\ asked' = <<>>
  /\ earlier' = earlier \cup {issued[i] : i \in 1 .. Len(issued)}
  /\ UNCHANGED cleanRestarts

Next == (\E t \in Times : CreateCredential(t)) \/ Restart

Spec == Init /\ [][Next]_vars

-----------------------------------------------------------------------------
(* The type invariant: every variable stays within the states of the code. *)
TypeOK ==
  /\ timestamp \in Nat
  /\ issued \in Seq(Nat)
  /\ asked \in Seq(Times)
  /\ earlier \subseteq Nat
  /\ restarts \in Nat
  /\ cleanRestarts \in BOOLEAN

(* One process never issues a number twice or goes back, even when several *)
(* credentials are created within a millisecond or the clock is set back   *)
(* (Crypto::get_sequence).                                                 *)
StrictlyIncreasing ==
  \A i, j \in 1 .. Len(issued) : i < j => issued[i] < issued[j]

(* A number is never behind the clock, and ahead of the latest clock value *)
(* seen only by the credentials created since: a burst is paid back, it is *)
(* not accumulated.                                                        *)
LeadIsBounded ==
  \A i \in 1 .. Len(issued) :
    /\ asked[i] <= issued[i]
    /\ \E j \in 0 .. i :
         issued[i] = (IF j = 0 THEN 0 ELSE asked[j]) + (i - j)

(* A number is not used again after a restart, as long as the clock of the *)
(* new process starts ahead of the numbers of the old one; the number kept *)
(* in timestamp_ is lost.                                                  *)
UniqueAcrossRestarts ==
  cleanRestarts => \A i \in 1 .. Len(issued) : issued[i] \notin earlier

=============================================================================
