---------------------------- MODULE CryptoProofs ----------------------------
(***************************************************************************)
(* That the numbers of credentials grow, follow the clock and are not used *)
(* again, for every clock and any number of calls and restarts.            *)
(***************************************************************************)
EXTENDS Crypto, TLAPS

-----------------------------------------------------------------------------
(* get_sequence returns more than the number before and at least the       *)
(* timestamp it was given.                                                 *)
LEMMA GetSequenceBounds ==
  ASSUME timestamp \in Nat, NEW t \in Times
  PROVE  /\ GetSequence(t) \in Nat
         /\ timestamp < GetSequence(t)
         /\ t <= GetSequence(t)
         /\ GetSequence(t) = t \/ GetSequence(t) = timestamp + 1
BY TimesAssumption DEF GetSequence

(* The initial state is well typed. *)
LEMMA InitType == Init => TypeOK
BY DEF Init, TypeOK

(* Every step keeps the types. *)
LEMMA NextType == TypeOK /\ [Next]_vars => TypeOK'
<1> SUFFICES ASSUME TypeOK, [Next]_vars PROVE TypeOK'
  OBVIOUS
<1>1. ASSUME NEW t \in Times, CreateCredential(t) PROVE TypeOK'
  <2>1. GetSequence(t) \in Nat
    BY GetSequenceBounds DEF TypeOK
  <2>2. Append(issued, GetSequence(t)) \in Seq(Nat) /\ Append(asked, t) \in Seq(Times)
    BY <2>1 DEF TypeOK
  <2> QED
    BY <1>1, <2>1, <2>2 DEF CreateCredential, TypeOK
<1>2. CASE Restart
  <2>1. issued \in Seq(Nat) /\ earlier \subseteq Nat
    BY DEF TypeOK
  <2>2. {issued[i] : i \in 1 .. Len(issued)} \subseteq Nat
    BY <2>1
  <2>3. earlier' \subseteq Nat
    BY <1>2, <2>1, <2>2 DEF Restart
  <2> QED
    BY <1>2, <2>3 DEF Restart, TypeOK
<1>3. CASE UNCHANGED vars
  BY <1>3 DEF vars, TypeOK
<1> QED
  BY <1>1, <1>2, <1>3 DEF Next

(* The members of Crypto and the histories keep their types.               *)
THEOREM TypeCorrect == Spec => []TypeOK
BY InitType, NextType, PTL DEF Spec

-----------------------------------------------------------------------------
(***************************************************************************)
(* The inductive invariant: timestamp_ is the number issued last, and with *)
(* clean restarts all numbers of earlier processes are below those of this *)
(* one.                                                                    *)
(***************************************************************************)
SequenceInv ==
  /\ Len(asked) = Len(issued)
  /\ timestamp = IF issued = <<>> THEN 0 ELSE issued[Len(issued)]
  /\ StrictlyIncreasing
  /\ LeadIsBounded
  /\ cleanRestarts =>
       \A i \in 1 .. Len(issued) : \A n \in earlier : n < issued[i]

(* The invariant holds initially. *)
LEMMA InitSequence == Init => SequenceInv
BY DEF Init, SequenceInv, StrictlyIncreasing, LeadIsBounded

(* Creating a credential keeps the invariant. *)
LEMMA CreateSequence ==
  ASSUME TypeOK, SequenceInv, NEW t \in Times, CreateCredential(t)
  PROVE  SequenceInv'
<1> DEFINE n == Len(issued)
           new == GetSequence(t)
<1>1. /\ issued \in Seq(Nat) /\ asked \in Seq(Times)
      /\ n \in Nat /\ Len(asked) = n /\ earlier \subseteq Nat
      /\ t \in Nat /\ timestamp \in Nat
  BY TimesAssumption DEF TypeOK, SequenceInv
<1>2. /\ new \in Nat
      /\ timestamp < new
      /\ t <= new
      /\ new = t \/ new = timestamp + 1
  BY <1>1, GetSequenceBounds
<1> HIDE DEF new
<1>3. issued' = Append(issued, new) /\ asked' = Append(asked, t) /\ timestamp' = new
  BY DEF CreateCredential, new
<1>4. /\ Len(issued') = n + 1 /\ Len(asked') = n + 1
      /\ issued'[n + 1] = new /\ asked'[n + 1] = t
      /\ \A i \in 1 .. n : issued'[i] = issued[i] /\ asked'[i] = asked[i]
  BY <1>1, <1>2, <1>3
<1>5. n # 0 => timestamp = issued[n]
  BY <1>1 DEF SequenceInv
<1>6. n = 0 => timestamp = 0
  BY <1>1 DEF SequenceInv
<1>7. \A i \in 1 .. n : issued[i] \in Nat /\ issued[i] < new
  <2> SUFFICES ASSUME NEW i \in 1 .. n PROVE issued[i] \in Nat /\ issued[i] < new
    OBVIOUS
  <2>1. issued[i] \in Nat /\ issued[n] \in Nat /\ n # 0
    BY <1>1
  <2>2. i = n \/ issued[i] < issued[n]
    BY <1>1 DEF SequenceInv, StrictlyIncreasing
  <2> QED
    BY <1>1, <1>2, <1>5, <2>1, <2>2
<1>8. StrictlyIncreasing'
  <2> SUFFICES ASSUME NEW i \in 1 .. n + 1, NEW j \in 1 .. n + 1, i < j
               PROVE  issued'[i] < issued'[j]
    BY <1>4 DEF StrictlyIncreasing
  <2>1. i \in 1 .. n
    BY <1>1
  <2>2. CASE j = n + 1
    BY <1>4, <1>7, <2>1, <2>2
  <2>3. CASE j \in 1 .. n
    BY <1>1, <1>4, <2>1, <2>3 DEF SequenceInv, StrictlyIncreasing
  <2> QED
    BY <1>1, <2>2, <2>3
<1>9. LeadIsBounded'
  <2> SUFFICES ASSUME NEW i \in 1 .. n + 1
               PROVE  /\ asked'[i] <= issued'[i]
                      /\ \E j \in 0 .. i :
                           issued'[i] = (IF j = 0 THEN 0 ELSE asked'[j]) + (i - j)
    BY <1>4 DEF LeadIsBounded
  <2>1. CASE i \in 1 .. n
    <3>1. asked'[i] <= issued'[i]
      BY <1>4, <2>1 DEF SequenceInv, LeadIsBounded
    <3>2. PICK j \in 0 .. i : issued[i] = (IF j = 0 THEN 0 ELSE asked[j]) + (i - j)
      BY <2>1 DEF SequenceInv, LeadIsBounded
    <3>3. j # 0 => asked'[j] = asked[j]
      BY <1>4, <2>1
    <3> QED
      BY <1>4, <2>1, <3>1, <3>2, <3>3
  <2>2. CASE i = n + 1
    <3>1. asked'[i] <= issued'[i]
      BY <1>2, <1>4, <2>2
    <3>2. CASE new = t
      <4>1. issued'[i] = asked'[i] + (i - i) /\ i \in 0 .. i /\ i # 0
        BY <1>1, <1>4, <2>2, <3>2
      <4> QED
        BY <3>1, <4>1
    <3>3. CASE new = timestamp + 1 /\ n = 0
      <4>1. issued'[i] = 0 + (i - 0) /\ 0 \in 0 .. i
        BY <1>1, <1>4, <1>6, <2>2, <3>3
      <4> QED
        BY <3>1, <4>1
    <3>4. CASE new = timestamp + 1 /\ n # 0
      <4>1. PICK j \in 0 .. n : issued[n] = (IF j = 0 THEN 0 ELSE asked[j]) + (n - j)
        <5>1. n \in 1 .. Len(issued) /\ LeadIsBounded
          BY <1>1, <3>4 DEF SequenceInv
        <5> QED
          BY <5>1 DEF LeadIsBounded
      <4>2. j \in 0 .. i /\ (j # 0 => asked'[j] = asked[j] /\ asked[j] \in Nat)
        <5>1. j \in 0 .. i /\ (j # 0 => j \in 1 .. n)
          BY <1>1, <2>2, <4>1
        <5>2. j # 0 => asked[j] \in Times
          BY <1>1, <5>1
        <5> QED
          BY <1>4, <5>1, <5>2, TimesAssumption
      <4>3. issued'[i] = issued[n] + 1
        BY <1>4, <1>5, <2>2, <3>4
      <4>4. issued'[i] = (IF j = 0 THEN 0 ELSE asked'[j]) + (i - j)
        BY <1>1, <2>2, <4>1, <4>2, <4>3
      <4> QED
        BY <3>1, <4>2, <4>4
    <3> QED
      BY <1>2, <3>2, <3>3, <3>4
  <2> QED
    BY <1>1, <2>1, <2>2
<1>10. ASSUME cleanRestarts', NEW i \in 1 .. n + 1, NEW m \in earlier
       PROVE  m < issued'[i]
  <2>1. cleanRestarts /\ (n = 0 => m < t) /\ m \in Nat
    <3>1. cleanRestarts /\ (issued = <<>> => m < t)
      BY <1>10 DEF CreateCredential
    <3>2. n = 0 => issued = <<>>
      BY <1>1
    <3> QED
      BY <1>1, <3>1, <3>2
  <2>2. CASE i \in 1 .. n
    BY <1>4, <2>1, <2>2 DEF SequenceInv
  <2>3. CASE i = n + 1 /\ n = 0
    BY <1>1, <1>2, <1>4, <2>1, <2>3
  <2>4. CASE i = n + 1 /\ n # 0
    <3>1. m < issued[n] /\ issued[n] < new /\ issued[n] \in Nat
      BY <1>1, <1>7, <2>1, <2>4 DEF SequenceInv
    <3> QED
      BY <1>2, <1>4, <2>1, <2>4, <3>1
  <2> QED
    BY <1>1, <2>2, <2>3, <2>4
<1>11. earlier' = earlier /\ issued' # <<>>
  BY <1>1, <1>3 DEF CreateCredential
<1> QED
  BY <1>3, <1>4, <1>8, <1>9, <1>10, <1>11 DEF SequenceInv

(* Every step keeps the invariant. *)
LEMMA NextSequence == TypeOK /\ SequenceInv /\ [Next]_vars => SequenceInv'
<1> SUFFICES ASSUME TypeOK, SequenceInv, [Next]_vars PROVE SequenceInv'
  OBVIOUS
<1>1. CASE Restart
  <2>1. timestamp' = 0 /\ issued' = <<>> /\ asked' = <<>>
    BY <1>1 DEF Restart
  <2> QED
    BY <2>1 DEF SequenceInv, StrictlyIncreasing, LeadIsBounded
<1>2. CASE UNCHANGED vars
  BY <1>2 DEF vars, SequenceInv, StrictlyIncreasing, LeadIsBounded
<1> QED
  BY <1>1, <1>2, CreateSequence DEF Next

(* What the three theorems below rest on. *)
LEMMA SequenceInvariant == Spec => [](TypeOK /\ SequenceInv)
<1>1. Init => TypeOK /\ SequenceInv
  BY InitType, InitSequence
<1>2. TypeOK /\ SequenceInv /\ [Next]_vars => (TypeOK /\ SequenceInv)'
  BY NextType, NextSequence
<1> QED
  BY <1>1, <1>2, PTL DEF Spec

(* The numbers one process issues grow strictly, whatever the clock does   *)
(* (Crypto::get_sequence).                                                 *)
THEOREM NumbersGrow == Spec => []StrictlyIncreasing
<1>1. SequenceInv => StrictlyIncreasing
  BY DEF SequenceInv
<1> QED
  BY <1>1, SequenceInvariant, PTL

(* A number is at least the clock, and ahead of a clock value seen only by *)
(* the number of credentials created since (Crypto::get_sequence).         *)
THEOREM LeadBounded == Spec => []LeadIsBounded
<1>1. SequenceInv => LeadIsBounded
  BY DEF SequenceInv
<1> QED
  BY <1>1, SequenceInvariant, PTL

(* After a restart that begins ahead of the numbers issued before, none of *)
(* them is issued again (Crypto::get_sequence, timestamp_ not persisted).  *)
THEOREM NoReuseAfterCleanRestart == Spec => []UniqueAcrossRestarts
<1>1. TypeOK /\ SequenceInv => UniqueAcrossRestarts
  <2> SUFFICES ASSUME TypeOK, SequenceInv, cleanRestarts,
                      NEW i \in 1 .. Len(issued), issued[i] \in earlier
               PROVE  FALSE
    BY DEF UniqueAcrossRestarts
  <2>1. issued[i] < issued[i] /\ issued[i] \in Nat
    BY DEF SequenceInv, TypeOK
  <2> QED
    BY <2>1
<1> QED
  BY <1>1, SequenceInvariant, PTL

=============================================================================
