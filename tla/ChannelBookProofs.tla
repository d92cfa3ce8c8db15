-------------------------- MODULE ChannelBookProofs --------------------------
(***************************************************************************)
(* That a Channel used as its owner uses it never keeps or declares ready  *)
(* anything that spans a missing datagram, for every value of the          *)
(* constants.                                                              *)
(***************************************************************************)
EXTENDS ChannelBook, ChannelProofs

(* Numbers of datagrams are positive. *)
LEMMA SeqNumsType == SeqNums \subseteq Nat \ {0}
BY LastSeqAssumption DEF SeqNums

-----------------------------------------------------------------------------
(* Types of the members of Channel and of the histories. *)

(* The initial state is well typed. *)
LEMMA InitType == Init => TypeOK
BY NewChannelType DEF Init, TypeOK

(* One datagram keeps the types. *)
LEMMA DatagramType ==
  ASSUME TypeOK, NEW s \in SeqNums, Datagram(s)
  PROVE  TypeOK'
<1>1. s \in Nat /\ ch \in ChannelState
  BY SeqNumsType DEF TypeOK
<1>2. Received(ch, s) \in ChannelState /\ Reset(Received(ch, s)) \in ChannelState
  BY <1>1, ReceivedType, ResetType
<1>3. ch' \in ChannelState
  BY <1>2 DEF Datagram
<1>4. Append(run, s) \in Seq(SeqNums) /\ Append(snapshot, s) \in Seq(SeqNums)
  BY DEF TypeOK
<1>5. run' \in Seq(SeqNums) /\ snapshot' \in Seq(SeqNums)
  <2>1. /\ run' = Append(run, s) \/ run' = <<>>
        /\ snapshot' = Append(snapshot, s) \/ snapshot' = snapshot
    BY DEF Datagram
  <2>2. <<>> \in Seq(SeqNums) /\ snapshot \in Seq(SeqNums)
    BY DEF TypeOK
  <2> QED
    BY <1>4, <2>1, <2>2
<1> QED
  BY <1>3, <1>5 DEF Datagram, TypeOK

(* A call of a message handler keeps the types. *)
LEMMA CallType ==
  ASSUME TypeOK, CallSnapshotStart \/ CallSnapshotEnd \/ AddUpdates
  PROVE  TypeOK'
<1>1. ch \in ChannelState /\ ch.updates \in Seq(Nat)
  BY DEF TypeOK, ChannelState
<1>2. CASE CallSnapshotStart
  <2>1. ch' \in ChannelState
    BY <1>1, <1>2 DEF CallSnapshotStart, SnapshotStart, ChannelState
  <2>2. snapshot' \in Seq(SeqNums)
    BY <1>2 DEF CallSnapshotStart, TypeOK
  <2> QED
    BY <1>2, <2>1, <2>2 DEF CallSnapshotStart, TypeOK
<1>3. CASE CallSnapshotEnd
  <2>1. ch' \in ChannelState
    BY <1>1, <1>3 DEF CallSnapshotEnd, SnapshotEnd, ChannelState
  <2> QED
    BY <1>3, <2>1 DEF CallSnapshotEnd, TypeOK
<1>4. CASE AddUpdates
  <2>1. Append(ch.updates, handling) \in Seq(Nat)
    BY <1>1, SeqNumsType DEF TypeOK
  <2>2. ch' \in ChannelState
    BY <1>1, <1>4, <2>1 DEF AddUpdates, ChannelState
  <2> QED
    BY <1>4, <2>2 DEF AddUpdates, TypeOK
<1> QED
  BY <1>2, <1>3, <1>4

(* Every step keeps the types. *)
LEMMA NextType == TypeOK /\ [Next]_vars => TypeOK'
<1> SUFFICES ASSUME TypeOK, [Next]_vars PROVE TypeOK'
  OBVIOUS
<1>1. CASE UNCHANGED vars
  BY <1>1 DEF vars, TypeOK
<1> QED
  BY <1>1, DatagramType, CallType DEF Next

(* A Channel used as its owner uses it keeps its types. *)
THEOREM TypeCorrect == Spec => []TypeOK
BY InitType, NextType, PTL DEF Spec

-----------------------------------------------------------------------------
(***************************************************************************)
(* The inductive invariant: the channel remembers what a uint32_t keeps of *)
(* the number that came last, the run ends with that number, only a        *)
(* channel joined at 1 stays uninitialized after a datagram, and the run   *)
(* of one joined mid-stream never reaches a number that does not fit.      *)
(***************************************************************************)
Within(s, r) == \A i \in 1 .. Len(s) : \E j \in 1 .. Len(r) : r[j] = s[i]

RunInv ==
  /\ first = 0 => ch = NewChannel /\ run = <<>>
  /\ first \notin {0, 1} => ch.initialized
  /\ handling # 0 => run # <<>> /\ handling = run[Len(run)]
  /\ run # <<>> => ch.previous_sequence_number = run[Len(run)] % Wrap
  /\ JoinedMidStream => Contiguous(run) /\ (run # <<>> => run[Len(run)] < Wrap)
  /\ Within(ch.updates, run)

BookInv == RunInv /\ ReadyIsUnbroken

(* The invariant holds initially. *)
LEMMA InitBook == Init => BookInv
BY DEF Init, BookInv, RunInv, ReadyIsUnbroken, NewChannel, Contiguous, Within

(* What is appended to the run keeps the updates within it. *)
LEMMA WithinAppend ==
  ASSUME NEW S, NEW r \in Seq(S), NEW x \in S, NEW u \in Seq(Nat), Within(u, r)
  PROVE  Within(u, Append(r, x))
<1> SUFFICES ASSUME NEW i \in 1 .. Len(u)
             PROVE  \E j \in 1 .. Len(Append(r, x)) : Append(r, x)[j] = u[i]
  BY DEF Within
<1>1. PICK j \in 1 .. Len(r) : r[j] = u[i]
  BY DEF Within
<1>2. j \in 1 .. Len(Append(r, x)) /\ Append(r, x)[j] = r[j]
  OBVIOUS
<1> QED
  BY <1>1, <1>2

(* What is appended comes last. *)
LEMMA LastOfAppend ==
  ASSUME NEW S, NEW r \in Seq(S), NEW x \in S
  PROVE  Append(r, x) # <<>> /\ Append(r, x)[Len(Append(r, x))] = x
<1>1. Len(Append(r, x)) = Len(r) + 1 /\ Len(r) \in Nat
  OBVIOUS
<1>2. Append(r, x)[Len(r) + 1] = x
  OBVIOUS
<1>3. Len(Append(r, x)) # 0
  BY <1>1
<1> QED
  BY <1>1, <1>2, <1>3

(* One datagram keeps the invariant. *)
LEMMA DatagramBook ==
  ASSUME TypeOK, BookInv, NEW s \in SeqNums, Datagram(s)
  PROVE  BookInv'
<1> DEFINE p == ch.previous_sequence_number
<1>1. /\ ch \in ChannelState
      /\ s \in Nat \ {0}
      /\ run \in Seq(SeqNums)
      /\ snapshot \in Seq(SeqNums)
      /\ ch.updates \in Seq(Nat)
      /\ first \in Nat
      /\ Wrap \in Nat \ {0}
  BY SeqNumsType, WrapAssumption DEF TypeOK, ChannelState
<1>2. Follows(ch, s) <=> s = p + 1 /\ s < Wrap
  BY <1>1, FollowsIsSuccessor
<1>3. first' # 0 /\ first' = IF first = 0 THEN s ELSE first
  BY <1>1 DEF Datagram
<1>4. CASE ~Accepts(ch, s)
  <2>1. /\ ch'.initialized = (ch.initialized \/ Jumps(ch, s))
        /\ ch'.ready = FALSE
        /\ ch'.updates = <<>>
        /\ run' = <<>>
        /\ handling' = 0
    BY <1>4 DEF Datagram, Received, Reset
  <2>2. first # 0
    BY <1>1, <1>2, <1>4
       DEF BookInv, RunInv, NewChannel, Accepts, Jumps, Repeats
  <2>3. first' \notin {0, 1} => ch'.initialized
    BY <1>3, <2>1, <2>2 DEF BookInv, RunInv
  <2>4. Contiguous(run') /\ Within(ch'.updates, run')
    BY <2>1 DEF Contiguous, Within
  <2> QED
    BY <1>3, <2>1, <2>3, <2>4 DEF BookInv, RunInv, ReadyIsUnbroken
<1>5. CASE Accepts(ch, s)
  <2>1. /\ ch'.previous_sequence_number = s % Wrap
        /\ ch'.initialized = (ch.initialized \/ Jumps(ch, s))
        /\ ch'.ready = (ch.ready /\ ~(ch.initialized /\ Jumps(ch, s)))
        /\ ch'.updates = ch.updates
        /\ run' = Append(run, s)
        /\ snapshot' = Append(snapshot, s)
        /\ handling' = s
    BY <1>5 DEF Datagram, Received
  <2>2. /\ run' # <<>> /\ run'[Len(run')] = s
        /\ snapshot' # <<>> /\ snapshot'[Len(snapshot')] = s
    BY <1>1, <2>1, LastOfAppend
  <2>3. first' \notin {0, 1} => ch'.initialized
    <3>1. CASE first = 0
      <4> SUFFICES ASSUME s # 1 PROVE Jumps(ch, s)
        BY <1>3, <2>1, <3>1
      <4>1. p = 0
        BY <3>1 DEF BookInv, RunInv, NewChannel
      <4> QED
        BY <1>1, <1>2, <4>1 DEF Jumps, Repeats
    <3>2. CASE first # 0
      BY <1>3, <2>1, <3>2 DEF BookInv, RunInv
    <3> QED
      BY <3>1, <3>2
  <2>4. ASSUME JoinedMidStream'
        PROVE  /\ JoinedMidStream
               /\ s < Wrap
               /\ first # 0 => s = p + 1
    <3>1. CASE first = 0
      BY <1>1, <1>3, <2>4, <3>1 DEF JoinedMidStream
    <3>2. CASE first # 0
      <4>1. JoinedMidStream /\ first # 1
        BY <1>3, <2>4, <3>2 DEF JoinedMidStream
      <4>2. ch.initialized
        BY <3>2, <4>1 DEF BookInv, RunInv
      <4> QED
        BY <1>2, <1>5, <4>1, <4>2 DEF Accepts
    <3> QED
      BY <3>1, <3>2
  <2>5. JoinedMidStream' => Contiguous(run')
    <3> SUFFICES ASSUME JoinedMidStream' PROVE Contiguous(run')
      OBVIOUS
    <3>1. Contiguous(run)
      BY <2>4 DEF BookInv, RunInv
    <3>2. ASSUME run # <<>> PROVE s = run[Len(run)] + 1
      <4> DEFINE last == run[Len(run)]
      <4>1. last \in 0 .. Wrap - 1 /\ p = last % Wrap
        <5>1. last \in Nat
          <6>1. Len(run) \in 1 .. Len(run)
            BY <1>1, <3>2
          <6>2. last \in SeqNums
            BY <1>1, <6>1
          <6> QED
            BY <6>2, SeqNumsType
        <5>2. JoinedMidStream
          BY <2>4
        <5>3. last < Wrap /\ p = last % Wrap
          BY <3>2, <5>2 DEF BookInv, RunInv
        <5> QED
          BY <1>1, <5>1, <5>3
      <4>2. p = last
        BY <1>1, <4>1, ModSmall
      <4>3. first # 0
        BY <3>2 DEF BookInv, RunInv
      <4> QED
        BY <2>4, <4>2, <4>3
    <3> QED
      BY <1>1, <2>1, <3>1, <3>2, ContiguousAppend
  <2>6. Within(ch'.updates, run')
    BY <1>1, <2>1, WithinAppend DEF BookInv, RunInv
  <2>7. JoinedMidStream' => s < Wrap
    BY <2>4
  <2>8. ReadyIsUnbroken'
    <3> SUFFICES ASSUME JoinedMidStream', ch'.ready
                 PROVE  /\ snapshot' # <<>>
                        /\ Contiguous(snapshot')
                        /\ snapshot'[Len(snapshot')] = ch'.previous_sequence_number
      BY DEF ReadyIsUnbroken
    <3>1. s % Wrap = s
      <4>1. s \in 0 .. Wrap - 1
        BY <1>1, <2>7
      <4> QED
        BY <1>1, <4>1, ModSmall
    <3>2. ch.ready /\ first # 0
      <4>1. ch.ready
        BY <2>1, Zenon
      <4> QED
        BY <4>1 DEF BookInv, RunInv, NewChannel
    <3>3. Contiguous(snapshot) /\ s = snapshot[Len(snapshot)] + 1
      BY <2>4, <3>2 DEF BookInv, ReadyIsUnbroken
    <3>4. Contiguous(Append(snapshot, s))
      BY <1>1, <3>3, ContiguousAppend
    <3> QED
      BY <2>1, <2>2, <3>1, <3>4
  <2> QED
    BY <1>3, <2>1, <2>2, <2>3, <2>5, <2>6, <2>7, <2>8 DEF BookInv, RunInv
<1> QED
  BY <1>4, <1>5

(* A call of a message handler keeps the invariant. *)
LEMMA CallBook ==
  ASSUME TypeOK, BookInv, CallSnapshotStart \/ CallSnapshotEnd \/ AddUpdates
  PROVE  BookInv'
<1>1. /\ ch \in ChannelState
      /\ ch.updates \in Seq(Nat)
      /\ run \in Seq(SeqNums)
      /\ handling # 0
      /\ handling \in Nat
      /\ first # 0
  BY SeqNumsType DEF TypeOK, ChannelState, BookInv, RunInv, CallSnapshotStart,
                 CallSnapshotEnd, AddUpdates
<1>2. CASE CallSnapshotStart
  <2>1. ch' = [ch EXCEPT !.ready = TRUE] /\ snapshot' = <<handling>>
    BY <1>2 DEF CallSnapshotStart, SnapshotStart
  <2>2. Contiguous(<<handling>>)
    BY DEF Contiguous
  <2>3. JoinedMidStream => handling = ch.previous_sequence_number
    <3> SUFFICES ASSUME JoinedMidStream PROVE handling = ch.previous_sequence_number
      OBVIOUS
    <3>1. /\ handling = run[Len(run)] /\ handling < Wrap
          /\ ch.previous_sequence_number = handling % Wrap
      BY <1>1 DEF BookInv, RunInv
    <3> QED
      BY <1>1, <3>1, ModSmall, WrapAssumption
  <2>4. JoinedMidStream' <=> JoinedMidStream
    BY <1>2 DEF CallSnapshotStart, JoinedMidStream
  <2>5. RunInv'
    BY <1>1, <1>2, <2>1, <2>4 DEF CallSnapshotStart, BookInv, RunInv, ChannelState
  <2>6. ReadyIsUnbroken'
    BY <1>1, <2>1, <2>2, <2>3, <2>4 DEF ReadyIsUnbroken, ChannelState
  <2> QED
    BY <2>5, <2>6 DEF BookInv
<1>3. CASE CallSnapshotEnd
  BY <1>1, <1>3
     DEF CallSnapshotEnd, SnapshotEnd, BookInv, RunInv, ReadyIsUnbroken,
         JoinedMidStream, ChannelState
<1>4. CASE AddUpdates
  <2>1. /\ ch'.updates = Append(ch.updates, handling)
        /\ ch'.previous_sequence_number = ch.previous_sequence_number
        /\ ch'.initialized = ch.initialized
        /\ ch'.ready = ch.ready
    BY <1>1, <1>4 DEF AddUpdates, ChannelState
  <2>2. Len(run) \in 1 .. Len(run) /\ run[Len(run)] = handling
    BY <1>1 DEF BookInv, RunInv
  <2>3. Within(ch'.updates, run)
    <3> SUFFICES ASSUME NEW i \in 1 .. Len(ch'.updates)
                 PROVE  \E j \in 1 .. Len(run) : run[j] = ch'.updates[i]
      BY DEF Within
    <3>1. CASE i \in 1 .. Len(ch.updates)
      BY <1>1, <2>1, <3>1 DEF BookInv, RunInv, Within
    <3>2. CASE i = Len(ch.updates) + 1
      BY <1>1, <2>1, <2>2, <3>2
    <3> QED
      BY <1>1, <2>1, <3>1, <3>2
  <2> QED
    BY <1>1, <1>4, <2>1, <2>3 DEF AddUpdates, BookInv, RunInv, ReadyIsUnbroken,
                                    JoinedMidStream
<1> QED
  BY <1>2, <1>3, <1>4

(* Every step keeps the invariant. *)
LEMMA NextBook == TypeOK /\ BookInv /\ [Next]_vars => BookInv'
<1> SUFFICES ASSUME TypeOK, BookInv, [Next]_vars PROVE BookInv'
  OBVIOUS
<1>1. CASE UNCHANGED vars
  BY <1>1 DEF vars, BookInv, RunInv, ReadyIsUnbroken, JoinedMidStream
<1> QED
  BY <1>1, DatagramBook, CallBook DEF Next

(* On a channel joined mid-stream, what is kept of a book update and what  *)
(* is declared ready never spans a missing datagram (Channel::operator(),  *)
(* Channel::reset, Channel::snapshot_start).                               *)
THEOREM ChannelKeepsUnbrokenBook == Spec => [](BookIsUnbroken /\ ReadyIsUnbroken)
<1>1. BookInv => BookIsUnbroken /\ ReadyIsUnbroken
  BY DEF BookInv, RunInv, BookIsUnbroken, Within
<1>2. Init => TypeOK /\ BookInv
  BY InitType, InitBook
<1>3. TypeOK /\ BookInv /\ [Next]_vars => (TypeOK /\ BookInv)'
  BY NextType, NextBook
<1> QED
  BY <1>1, <1>2, <1>3, PTL DEF Spec

(* No channel says it is ready across a gap, a repeat or a late datagram   *)
(* (Channel::operator(), Channel::reset, Channel::snapshot_start).         *)
THEOREM ReadinessIsUnbroken == Spec => []ReadyIsUnbroken
BY ChannelKeepsUnbrokenBook, PTL

=============================================================================
