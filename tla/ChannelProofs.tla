--------------------------- MODULE ChannelProofs ---------------------------
(***************************************************************************)
(* Lemmas about struct Channel and about runs of sequence numbers.         *)
(***************************************************************************)
EXTENDS Channel, Runs, TLAPS

-----------------------------------------------------------------------------
(* Arithmetic of the counters. *)

(* A reduced number is one of the values of its type. *)
LEMMA ModRange ==
  ASSUME NEW n \in Nat, NEW m \in Nat \ {0}
  PROVE  n % m \in 0 .. m - 1
OBVIOUS

(* A number that fits its type is not changed by the reduction. *)
LEMMA ModSmall ==
  ASSUME NEW m \in Nat \ {0}, NEW n \in 0 .. m - 1
  PROVE  n % m = n
OBVIOUS

(* The operations of a channel keep its type. *)

(* The constructor makes a channel. *)
LEMMA NewChannelType == NewChannel \in ChannelState
BY WrapAssumption DEF NewChannel, ChannelState

(* operator() leaves a channel. *)
LEMMA ReceivedType ==
  ASSUME NEW ch \in ChannelState, NEW s \in Nat
  PROVE  Received(ch, s) \in ChannelState
<1>1. s % Wrap \in 0 .. Wrap - 1
  BY ModRange, WrapAssumption
<1>2. Jumps(ch, s) \in BOOLEAN
  BY DEF Jumps, Follows, Repeats
<1> QED
  BY <1>1, <1>2 DEF Received, ChannelState

(* reset leaves a channel. *)
LEMMA ResetType ==
  ASSUME NEW ch \in ChannelState
  PROVE  Reset(ch) \in ChannelState
BY DEF Reset, ChannelState

-----------------------------------------------------------------------------
(* Sequence numbers. *)

(* The number that follows is the successor of the stored one, and fits.   *)
LEMMA FollowsIsSuccessor ==
  ASSUME NEW ch \in ChannelState, NEW s \in Nat \ {0}
  PROVE  Follows(ch, s) <=> s = ch.previous_sequence_number + 1 /\ s < Wrap
<1> DEFINE p == ch.previous_sequence_number
<1>1. p \in 0 .. Wrap - 1 /\ Wrap \in Nat \ {0}
  BY WrapAssumption DEF ChannelState
<1>2. CASE p + 1 < Wrap
  <2>1. (p + 1) % Wrap = p + 1
    BY <1>1, <1>2, ModSmall
  <2> QED
    BY <1>1, <1>2, <2>1 DEF Follows
<1>3. CASE p + 1 = Wrap
  <2>1. (p + 1) % Wrap = 0
    BY <1>1, <1>3
  <2> QED
    BY <1>1, <1>3, <2>1 DEF Follows
<1> QED
  BY <1>1, <1>2, <1>3

(* A number that does not fit is never the next one, nor the last one.     *)
LEMMA TruncatedJumps ==
  ASSUME NEW ch \in ChannelState, NEW s \in Nat, s >= Wrap
  PROVE  Jumps(ch, s)
<1>1. ch.previous_sequence_number \in 0 .. Wrap - 1 /\ Wrap \in Nat \ {0}
  BY WrapAssumption DEF ChannelState
<1>2. s \in Nat \ {0} /\ s # ch.previous_sequence_number
  BY <1>1
<1> QED
  BY <1>1, <1>2, FollowsIsSuccessor DEF Jumps, Repeats

(* A contiguous run stays contiguous when the successor of its last number *)
(* is appended.                                                            *)
LEMMA ContiguousAppend ==
  ASSUME NEW S, NEW s \in Seq(S), Contiguous(s), NEW x \in S,
         s # <<>> => x = s[Len(s)] + 1
  PROVE  Contiguous(Append(s, x))
<1> SUFFICES ASSUME NEW i \in 1 .. Len(Append(s, x)) - 1
             PROVE  Append(s, x)[i + 1] = Append(s, x)[i] + 1
  BY DEF Contiguous
<1>1. Len(Append(s, x)) = Len(s) + 1 /\ Len(s) \in Nat
  OBVIOUS
<1>2. i \in 1 .. Len(s) /\ Append(s, x)[i] = s[i]
  BY <1>1
<1>3. CASE i < Len(s)
  <2>1. Append(s, x)[i + 1] = s[i + 1] /\ i \in 1 .. Len(s) - 1
    BY <1>1, <1>2, <1>3
  <2> QED
    BY <1>2, <2>1 DEF Contiguous
<1>4. CASE i = Len(s)
  <2>1. s # <<>> /\ Append(s, x)[i + 1] = x
    BY <1>1, <1>2, <1>4
  <2> QED
    BY <1>2, <1>4, <2>1
<1> QED
  BY <1>1, <1>2, <1>3, <1>4

=============================================================================
