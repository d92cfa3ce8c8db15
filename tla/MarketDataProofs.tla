-------------------------- MODULE MarketDataProofs --------------------------
(***************************************************************************)
(* Type correctness of MarketData, that no gap is silent, that no alarm is *)
(* false, that a stream is a gap detector and that a silence is reported   *)
(* once, for every value of the constants.                                 *)
(***************************************************************************)
EXTENDS MarketData, ChannelProofs

-----------------------------------------------------------------------------
(* Every channel identifier has a key. *)
LEMMA KeyType ==
  ASSUME NEW c \in ChannelIds
  PROVE  KeyOf(c) \in Keys
BY ModRange, ChannelIdsAssumption, KeyWrapAssumption DEF KeyOf, Keys

-----------------------------------------------------------------------------
(* The variables keep their types (types of the members of MarketData and  *)
(* Channel).                                                               *)
LEMMA InitType == Init => TypeOK
<1> SUFFICES ASSUME Init PROVE TypeOK
  OBVIOUS
<1>1. FirstSeq - 1 \in FirstSeq - 1 .. LastSeq
  BY SeqAssumption
<1>2. published \in [ChannelIds -> FirstSeq - 1 .. LastSeq]
  BY <1>1 DEF Init
<1>3. channel \in [Keys -> ChannelState]
  BY NewChannelType DEF Init
<1>4. /\ run \in [ChannelIds -> Seq(SeqNums)]
      /\ refused \in [ChannelIds -> Nat]
      /\ first \in [ChannelIds -> SeqNums \cup {0}]
      /\ latest \in [ChannelIds -> SeqNums \cup {0}]
  BY DEF Init
<1> QED
  BY <1>2, <1>3, <1>4 DEF Init, TypeOK

(* The handler of a packet header keeps the types. *)
LEMMA PacketHeaderType ==
  ASSUME TypeOK, NEW c \in ChannelIds, NEW s \in SeqNums, PacketHeader(c, s)
  PROVE  /\ channel' \in [Keys -> ChannelState]
         /\ first' \in [ChannelIds -> SeqNums \cup {0}]
         /\ latest' \in [ChannelIds -> SeqNums \cup {0}]
         /\ run' \in [ChannelIds -> Seq(SeqNums)]
         /\ refused' \in [ChannelIds -> Nat]
<1> DEFINE key == KeyOf(c)
           received == Received(channel[key], s)
<1>1. s \in Nat /\ key \in Keys /\ channel[key] \in ChannelState
  BY KeyType, SeqAssumption DEF SeqNums, TypeOK
<1>2. received \in ChannelState /\ Reset(received) \in ChannelState
  BY <1>1, ReceivedType, ResetType
<1>3. channel' \in [Keys -> ChannelState]
  <2> DEFINE new == IF Accepts(channel[key], s) THEN received ELSE Reset(received)
  <2>1. new \in ChannelState
    BY <1>2
  <2>2. channel' = [channel EXCEPT ![key] = new]
    BY DEF PacketHeader
  <2> QED
    BY <1>1, <2>1, <2>2 DEF TypeOK
<1>4. run' \in [ChannelIds -> Seq(SeqNums)]
  <2>1. Append(run[c], s) \in Seq(SeqNums) /\ <<>> \in Seq(SeqNums)
    BY DEF TypeOK
  <2>2. \/ run' = [run EXCEPT ![c] = Append(run[c], s)]
        \/ run' = [run EXCEPT ![c] = <<>>]
    BY DEF PacketHeader, TypeOK
  <2> QED
    BY <2>1, <2>2 DEF TypeOK
<1>5. /\ first' \in [ChannelIds -> SeqNums \cup {0}]
      /\ latest' \in [ChannelIds -> SeqNums \cup {0}]
      /\ refused' \in [ChannelIds -> Nat]
  BY DEF PacketHeader, TypeOK
<1> QED
  BY <1>3, <1>4, <1>5

(* Every step keeps the types. *)
LEMMA NextType == TypeOK /\ [Next]_vars => TypeOK'
<1> SUFFICES ASSUME TypeOK, [Next]_vars PROVE TypeOK'
  OBVIOUS
<1>1. ASSUME NEW c \in ChannelIds, NEW n \in 0 .. MaxCopies, Publish(c, n)
      PROVE  TypeOK'
  <2>1. published[c] + 1 \in SeqNums
    BY <1>1, SeqAssumption DEF Publish, TypeOK, SeqNums
  <2>2. published' \in [ChannelIds -> FirstSeq - 1 .. LastSeq]
    BY <1>1, <2>1, SeqAssumption DEF Publish, TypeOK, SeqNums
  <2>3. network' \subseteq Packet
    BY <1>1, <2>1, CopiesAssumption DEF Publish, TypeOK, Packet
  <2> QED
    BY <1>1, <2>2, <2>3 DEF Publish, TypeOK, book, silence
<1>2. CASE Tick
  BY <1>2 DEF Tick, TypeOK, book, silence
<1>3. CASE Start
  BY <1>3 DEF Start, TypeOK, env, book
<1>4. CASE Timer
  BY <1>4 DEF Timer, TypeOK, env, book
<1>5. CASE Read
  BY <1>5 DEF Read, TypeOK, env, book
<1>6. CASE Recv
  <2>1. PICK p \in network : /\ network' = network \ {p}
                             /\ PacketHeader(p.channel_id, p.seq_num)
    BY <1>6 DEF Recv
  <2>2. p.channel_id \in ChannelIds /\ p.seq_num \in SeqNums
    BY DEF TypeOK, Packet
  <2>3. network' \subseteq Packet
    BY <2>1 DEF TypeOK
  <2> QED
    BY <1>6, <2>1, <2>2, <2>3, PacketHeaderType DEF Recv, TypeOK, silence
<1>7. CASE RecvNothing
  BY <1>7 DEF RecvNothing, TypeOK, env, book, silence
<1>8. CASE ReceiverError
  BY <1>8 DEF ReceiverError, TypeOK, env, book, silence
<1>9. CASE UNCHANGED vars
  BY <1>9 DEF vars, TypeOK, env, book, silence
<1> QED
  BY <1>1, <1>2, <1>3, <1>4, <1>5, <1>6, <1>7, <1>8, <1>9 DEF Next

(* Every state of the stream is well typed. *)
THEOREM TypeCorrect == Spec => []TypeOK
BY InitType, NextType, PTL DEF Spec

-----------------------------------------------------------------------------
(***************************************************************************)
(* Gaps.  GapNeverSilent is not inductive: that the run stays contiguous   *)
(* rests on the channel remembering what a uint32_t keeps of the number    *)
(* that came last, on the run ending with that number, on a channel joined *)
(* mid-stream being initialized from its first datagram on, and on a run   *)
(* never reaching a number that does not fit.                              *)
(***************************************************************************)
ChannelInv(c) ==
  LET ch == channel[KeyOf(c)] IN
  /\ ch.previous_sequence_number = latest[c] % Wrap
  /\ first[c] = 0 <=> latest[c] = 0
  /\ first[c] = 0 => run[c] = <<>> /\ ~ch.initialized
  /\ first[c] \notin {0, 1} => ch.initialized
  /\ run[c] # <<>> => run[c][Len(run[c])] = latest[c]
  /\ first[c] # 1 /\ first[c] < Wrap =>
       /\ Contiguous(run[c])
       /\ run[c] # <<>> => latest[c] < Wrap

GapInv == \A c \in ChannelIds : HasOwnKey(c) => ChannelInv(c)

(* The invariant holds initially. *)
LEMMA InitGap == Init => GapInv
<1> SUFFICES ASSUME Init, NEW c \in ChannelIds PROVE ChannelInv(c)
  BY DEF GapInv
<1>1. channel[KeyOf(c)] = NewChannel
  BY KeyType DEF Init
<1>2. first[c] = 0 /\ latest[c] = 0 /\ run[c] = <<>>
  BY DEF Init
<1>3. 0 % Wrap = 0
  BY ModSmall, WrapAssumption
<1>4. Contiguous(<<>>)
  BY DEF Contiguous
<1> QED
  BY <1>1, <1>2, <1>3, <1>4 DEF ChannelInv, NewChannel

(* What one datagram does to its own channel. *)
LEMMA PacketHeaderEffect ==
  ASSUME TypeOK, NEW c \in ChannelIds, NEW s \in SeqNums, PacketHeader(c, s)
  PROVE  LET ch == channel[KeyOf(c)]
             next == channel'[KeyOf(c)]
         IN
         /\ ch \in ChannelState
         /\ s \in Nat \ {0}
         /\ next.previous_sequence_number = s % Wrap
         /\ next.initialized = (ch.initialized \/ Jumps(ch, s))
         /\ latest'[c] = s
         /\ first'[c] = IF first[c] = 0 THEN s ELSE first[c]
         /\ run'[c] = IF Accepts(ch, s) THEN Append(run[c], s) ELSE <<>>
         /\ refused'[c] = IF Accepts(ch, s) THEN refused[c] ELSE refused[c] + 1
<1> DEFINE ch == channel[KeyOf(c)]
           received == Received(ch, s)
<1>1. ch \in ChannelState /\ KeyOf(c) \in Keys
  BY KeyType DEF TypeOK
<1>2. channel'[KeyOf(c)] = IF Accepts(ch, s) THEN received ELSE Reset(received)
  BY <1>1 DEF PacketHeader, TypeOK
<1>3. s \in Nat \ {0}
  BY SeqAssumption DEF SeqNums
<1> QED
  BY <1>1, <1>2, <1>3 DEF PacketHeader, TypeOK, Received, Reset

(* A datagram that is accepted on a channel joined mid-stream is its first *)
(* one or the successor of what a uint32_t keeps of the one before.        *)
LEMMA AcceptsSuccessor ==
  ASSUME NEW ch \in ChannelState, NEW s \in Nat \ {0}, ch.initialized
  PROVE  Accepts(ch, s) <=> s = ch.previous_sequence_number + 1 /\ s < Wrap
BY FollowsIsSuccessor DEF Accepts

(* One datagram keeps the invariant of its own channel ...                 *)
LEMMA PacketHeaderOwn ==
  ASSUME TypeOK, NEW c \in ChannelIds, ChannelInv(c),
         NEW s \in SeqNums, PacketHeader(c, s)
  PROVE  ChannelInv(c)'
<1> DEFINE ch == channel[KeyOf(c)]
           next == channel'[KeyOf(c)]
           p == ch.previous_sequence_number
<1>1. /\ ch \in ChannelState
      /\ s \in Nat \ {0}
      /\ next.previous_sequence_number = s % Wrap
      /\ next.initialized = (ch.initialized \/ Jumps(ch, s))
      /\ latest'[c] = s
      /\ first'[c] = IF first[c] = 0 THEN s ELSE first[c]
      /\ run'[c] = IF Accepts(ch, s) THEN Append(run[c], s) ELSE <<>>
  BY PacketHeaderEffect
<1>2. run[c] \in Seq(SeqNums) /\ latest[c] \in Nat /\ first[c] \in Nat
  BY SeqAssumption DEF TypeOK, SeqNums
<1>3. p = latest[c] % Wrap
  BY DEF ChannelInv
<1>4. Wrap \in Nat \ {0} /\ 0 % Wrap = 0
  BY ModSmall, WrapAssumption
<1>5. ASSUME first'[c] \notin {0, 1} PROVE next.initialized
  <2>1. CASE first[c] = 0
    <3>1. p = 0 /\ s # 1
      BY <1>1, <1>3, <1>4, <1>5, <2>1 DEF ChannelInv
    <3>2. Jumps(ch, s)
      BY <1>1, <3>1, FollowsIsSuccessor DEF Jumps, Repeats
    <3> QED
      BY <1>1, <3>2
  <2>2. CASE first[c] # 0
    BY <1>1, <1>5, <2>2 DEF ChannelInv
  <2> QED
    BY <2>1, <2>2
<1>6. run'[c] # <<>> => run'[c][Len(run'[c])] = latest'[c]
  <2>1. Append(run[c], s)[Len(Append(run[c], s))] = s
    BY <1>2
  <2> QED
    BY <1>1, <2>1
<1>7. ASSUME first'[c] # 1, first'[c] < Wrap
      PROVE  Contiguous(run'[c]) /\ (run'[c] # <<>> => latest'[c] < Wrap)
  <2>1. CASE ~Accepts(ch, s)
    BY <1>1, <2>1 DEF Contiguous
  <2>2. CASE Accepts(ch, s) /\ first[c] = 0
    <3>1. run[c] = <<>> /\ Contiguous(run[c]) /\ s < Wrap
      BY <1>1, <1>7, <2>2 DEF ChannelInv, Contiguous
    <3> QED
      BY <1>1, <1>2, <2>2, <3>1, ContiguousAppend
  <2>3. CASE Accepts(ch, s) /\ first[c] # 0
    <3>1. first[c] # 1 /\ first[c] < Wrap /\ ch.initialized
      BY <1>1, <1>7, <2>3 DEF ChannelInv
    <3>2. s = p + 1 /\ s < Wrap
      BY <1>1, <2>3, <3>1, AcceptsSuccessor
    <3>3. Contiguous(run[c]) /\ (run[c] # <<>> => s = run[c][Len(run[c])] + 1)
      <4>1. ASSUME run[c] # <<>> PROVE p = run[c][Len(run[c])]
        <5>1. latest[c] \in 0 .. Wrap - 1 /\ run[c][Len(run[c])] = latest[c]
          BY <1>2, <1>4, <3>1, <4>1 DEF ChannelInv
        <5> QED
          BY <1>3, <1>4, <5>1, ModSmall
      <4> QED
        BY <3>1, <3>2, <4>1 DEF ChannelInv
    <3> QED
      BY <1>1, <1>2, <2>3, <3>2, <3>3, ContiguousAppend
  <2> QED
    BY <2>1, <2>2, <2>3
<1> QED
  BY <1>1, <1>5, <1>6, <1>7 DEF ChannelInv

(* ... and leaves every channel with a key of its own as it was.           *)
LEMMA PacketHeaderOther ==
  ASSUME TypeOK, NEW c \in ChannelIds, NEW s \in SeqNums, PacketHeader(c, s),
         NEW d \in ChannelIds, HasOwnKey(d), d # c
  PROVE  /\ channel'[KeyOf(d)] = channel[KeyOf(d)]
         /\ first'[d] = first[d]
         /\ latest'[d] = latest[d]
         /\ run'[d] = run[d]
         /\ refused'[d] = refused[d]
<1>1. KeyOf(d) # KeyOf(c) /\ KeyOf(d) \in Keys
  BY KeyType DEF HasOwnKey, KeyOf
<1> QED
  BY <1>1 DEF PacketHeader, TypeOK

(* A step is one datagram on one channel or leaves all channels alone.     *)
LEMMA StepShape ==
  ASSUME TypeOK, [Next]_vars
  PROVE  \/ \E c \in ChannelIds, s \in SeqNums : PacketHeader(c, s)
         \/ UNCHANGED book
<1>1. CASE Recv
  <2>1. PICK p \in network : PacketHeader(p.channel_id, p.seq_num)
    BY <1>1 DEF Recv
  <2>2. p.channel_id \in ChannelIds /\ p.seq_num \in SeqNums
    BY DEF TypeOK, Packet
  <2> QED
    BY <2>1, <2>2
<1>2. CASE ~Recv
  <2>1. ASSUME NEW c \in ChannelIds, NEW n \in 0 .. MaxCopies, Publish(c, n)
        PROVE  UNCHANGED book
    BY <2>1 DEF Publish
  <2> QED
    BY <1>2, <2>1 DEF Next, vars, Tick, Start, Timer, Read, RecvNothing,
                      ReceiverError
<1> QED
  BY <1>1, <1>2

(* Every step keeps the invariant. *)
LEMMA NextGap == TypeOK /\ GapInv /\ [Next]_vars => GapInv'
<1> SUFFICES ASSUME TypeOK, GapInv, [Next]_vars,
                    NEW d \in ChannelIds, HasOwnKey(d)
             PROVE  ChannelInv(d)'
  BY DEF GapInv
<1>1. ChannelInv(d)
  BY DEF GapInv
<1>2. ASSUME NEW c \in ChannelIds, NEW s \in SeqNums, PacketHeader(c, s)
      PROVE  ChannelInv(d)'
  <2>1. CASE d = c
    BY <1>1, <1>2, <2>1, PacketHeaderOwn
  <2>2. CASE d # c
    BY <1>1, <1>2, <2>2, PacketHeaderOther DEF ChannelInv
  <2> QED
    BY <2>1, <2>2
<1>3. CASE UNCHANGED book
  BY <1>1, <1>3 DEF book, ChannelInv
<1> QED
  BY <1>2, <1>3, StepShape

(* The invariant the theorems below rest on.                               *)
LEMMA GapInvariant == Spec => [](TypeOK /\ GapInv)
<1>1. Init => TypeOK /\ GapInv
  BY InitType, InitGap
<1>2. TypeOK /\ GapInv /\ [Next]_vars => (TypeOK /\ GapInv)'
  BY NextType, NextGap
<1> QED
  BY <1>1, <1>2, PTL DEF Spec

(* On a channel joined mid-stream the handled datagrams between two        *)
(* refusals carry consecutive numbers, for every network behaviour, any    *)
(* number of channels and numbers of any size (Channel::operator()).       *)
THEOREM GapsAreNeverSilent == Spec => []GapNeverSilent
<1>1. GapInv => GapNeverSilent
  BY DEF GapInv, ChannelInv, GapNeverSilent
<1> QED
  BY <1>1, GapInvariant, PTL

(* A datagram that continues the one before it on its channel is never     *)
(* refused while its number fits, whatever the other channels receive      *)
(* (Channel::operator()).                                                  *)
THEOREM AlarmsAreJustified == Spec => NoFalseAlarm
<1>1. ASSUME TypeOK, GapInv, [Next]_vars, NEW d \in ChannelIds, HasOwnKey(d),
             refused'[d] # refused[d], latest'[d] < Wrap
      PROVE  latest'[d] # latest[d] + 1
  <2>1. PICK c \in ChannelIds, s \in SeqNums : PacketHeader(c, s)
    BY <1>1, StepShape DEF book
  <2>2. d = c
    BY <1>1, <2>1, PacketHeaderOther
  <2> DEFINE ch == channel[KeyOf(c)]
  <2>3. /\ ~Accepts(ch, s) /\ latest'[c] = s
        /\ ch \in ChannelState /\ s \in Nat \ {0}
    BY <1>1, <2>1, <2>2, PacketHeaderEffect
  <2>4. ch.previous_sequence_number = latest[c] % Wrap
    BY <1>1, <2>2 DEF GapInv, ChannelInv
  <2>5. s # ch.previous_sequence_number + 1
    BY <1>1, <2>2, <2>3, FollowsIsSuccessor DEF Accepts
  <2> SUFFICES ASSUME s = latest[c] + 1 PROVE FALSE
    BY <2>2, <2>3
  <2>6. latest[c] \in 0 .. Wrap - 1 /\ Wrap \in Nat \ {0}
    BY <1>1, <2>2, <2>3, WrapAssumption DEF TypeOK, SeqNums
  <2> QED
    BY <2>4, <2>5, <2>6, ModSmall
<1>2. latest' \in [ChannelIds -> SeqNums \cup {0}] =>
        \A c \in ChannelIds : latest'[c] \in Nat
  BY SeqAssumption DEF SeqNums
<1>3. TypeOK /\ GapInv /\ [Next]_vars =>
        [\A c \in ChannelIds :
           HasOwnKey(c) /\ refused'[c] # refused[c]
             => latest'[c] # latest[c] + 1 \/ latest'[c] >= Wrap]_vars
  <2> SUFFICES ASSUME TypeOK, GapInv, [Next]_vars, NEW c \in ChannelIds,
                      HasOwnKey(c), refused'[c] # refused[c]
               PROVE  latest'[c] # latest[c] + 1 \/ latest'[c] >= Wrap
    OBVIOUS
  <2>1. latest'[c] \in Nat /\ Wrap \in Nat
    BY <1>2, NextType, WrapAssumption DEF TypeOK
  <2> QED
    BY <1>1, <2>1
<1> QED
  BY <1>3, GapInvariant, PTL DEF Spec, NoFalseAlarm

(* What does not fit is never used: a channel joined mid-stream refuses    *)
(* every datagram whose number needs more than a uint32_t, the ones that   *)
(* come in order included, so a stream that outgrows the type is a stream  *)
(* that signals on every datagram (previous_sequence_number_).             *)
TruncatedIsRefused ==
  [][\A c \in ChannelIds :
       /\ HasOwnKey(c)
       /\ first[c] \notin {0, 1}
       /\ latest'[c] # latest[c]
       /\ latest'[c] >= Wrap
       => refused'[c] = refused[c] + 1 /\ run'[c] = <<>>]_vars

(* That is so in every behaviour (Channel::operator()).                    *)
THEOREM OutgrownStreamIsMute == Spec => TruncatedIsRefused
<1>1. ASSUME TypeOK, GapInv, [Next]_vars, NEW d \in ChannelIds, HasOwnKey(d),
             first[d] \notin {0, 1}, latest'[d] # latest[d], latest'[d] >= Wrap
      PROVE  refused'[d] = refused[d] + 1 /\ run'[d] = <<>>
  <2>1. PICK c \in ChannelIds, s \in SeqNums : PacketHeader(c, s)
    BY <1>1, StepShape DEF book
  <2>2. d = c
    BY <1>1, <2>1, PacketHeaderOther
  <2> DEFINE ch == channel[KeyOf(c)]
  <2>3. /\ latest'[c] = s /\ ch \in ChannelState /\ s \in Nat \ {0}
        /\ run'[c] = IF Accepts(ch, s) THEN Append(run[c], s) ELSE <<>>
        /\ refused'[c] = IF Accepts(ch, s) THEN refused[c] ELSE refused[c] + 1
    BY <1>1, <2>1, <2>2, PacketHeaderEffect
  <2>4. Jumps(ch, s)
    BY <1>1, <2>2, <2>3, TruncatedJumps
  <2>5. ch.initialized
    BY <1>1, <2>2 DEF GapInv, ChannelInv
  <2>6. ~Accepts(ch, s)
    BY <2>4, <2>5 DEF Accepts, Jumps
  <2> QED
    BY <2>2, <2>3, <2>6
<1>2. TypeOK /\ GapInv /\ [Next]_vars =>
        [\A c \in ChannelIds :
           /\ HasOwnKey(c)
           /\ first[c] \notin {0, 1}
           /\ latest'[c] # latest[c]
           /\ latest'[c] >= Wrap
           => refused'[c] = refused[c] + 1 /\ run'[c] = <<>>]_vars
  BY <1>1
<1> QED
  BY <1>2, GapInvariant, PTL DEF Spec, TruncatedIsRefused

-----------------------------------------------------------------------------
(***************************************************************************)
(* The assertion of Channel::operator().  Where numbers begin beyond 1 it  *)
(* never fails, whether or not channels share a key or numbers fit: a key  *)
(* that no datagram has initialized has seen none.                         *)
(***************************************************************************)
UntouchedInv ==
  \A k \in Keys :
    ~channel[k].initialized => channel[k].previous_sequence_number = 0

(* Every step keeps that. *)
LEMMA NextUntouched ==
  ASSUME FirstSeq > 1
  PROVE  TypeOK /\ UntouchedInv /\ [Next]_vars => UntouchedInv'
<1> SUFFICES ASSUME TypeOK, UntouchedInv, [Next]_vars, NEW k \in Keys,
                    ~channel'[k].initialized
             PROVE  channel'[k].previous_sequence_number = 0
  BY DEF UntouchedInv
<1>1. CASE UNCHANGED book
  BY <1>1 DEF book, UntouchedInv
<1>2. ASSUME NEW c \in ChannelIds, NEW s \in SeqNums, PacketHeader(c, s)
      PROVE  channel'[k] = channel[k]
  <2>1. CASE k # KeyOf(c)
    BY <1>2, <2>1 DEF PacketHeader, TypeOK
  <2>2. CASE k = KeyOf(c)
    <3> DEFINE ch == channel[k]
    <3>1. /\ ch \in ChannelState /\ s \in Nat \ {0} /\ s # 1
          /\ channel'[k].initialized = (ch.initialized \/ Jumps(ch, s))
      BY <1>2, <2>2, PacketHeaderEffect, SeqAssumption DEF SeqNums
    <3>2. ~ch.initialized /\ ~Jumps(ch, s)
      BY <3>1
    <3>3. ch.previous_sequence_number = 0
      BY <3>2 DEF UntouchedInv
    <3> QED
      BY <3>1, <3>2, <3>3, FollowsIsSuccessor DEF Jumps, Repeats
  <2> QED
    BY <2>1, <2>2
<1>3. CASE ~UNCHANGED book
  <2>1. channel'[k] = channel[k]
    BY <1>2, <1>3, StepShape
  <2> QED
    BY <2>1 DEF UntouchedInv
<1> QED
  BY <1>1, <1>3

(* Whatever datagram comes next, the assertion holds if no channel is      *)
(* numbered from 1 (assert(previous_sequence_number_ == 0)).               *)
THEOREM JoinAssertionHoldsMidStream ==
  ASSUME FirstSeq > 1
  PROVE  Spec => []JoinAssertionHolds
<1>1. Init => TypeOK /\ UntouchedInv
  BY InitType DEF Init, UntouchedInv, NewChannel
<1>2. TypeOK /\ UntouchedInv /\ [Next]_vars => (TypeOK /\ UntouchedInv)'
  BY NextType, NextUntouched
<1>3. TypeOK /\ UntouchedInv => JoinAssertionHolds
  <2> SUFFICES ASSUME TypeOK, UntouchedInv, NEW p \in network
               PROVE  JoinAssertion(channel[KeyOf(p.channel_id)], p.seq_num)
    BY DEF JoinAssertionHolds
  <2>1. KeyOf(p.channel_id) \in Keys
    BY KeyType DEF TypeOK, Packet
  <2> QED
    BY <2>1 DEF UntouchedInv, JoinAssertion
<1> QED
  BY <1>1, <1>2, <1>3, PTL DEF Spec

(* The assertion depends on nothing but the number a channel was joined    *)
(* at: where it can fail for a channel with a key of its own, the first    *)
(* datagram of that channel was numbered 1.                                *)
FailsOnlyIfJoinedAtOne ==
  \A c \in ChannelIds, s \in SeqNums :
    HasOwnKey(c) /\ ~JoinAssertion(channel[KeyOf(c)], s) => first[c] = 1

(* That is so in every state (Channel::operator()).                        *)
THEOREM AssertionFailsOnlyIfJoinedAtOne == Spec => []FailsOnlyIfJoinedAtOne
<1>1. GapInv => FailsOnlyIfJoinedAtOne
  <2> SUFFICES ASSUME GapInv, NEW c \in ChannelIds, NEW s \in SeqNums, HasOwnKey(c),
                      ~JoinAssertion(channel[KeyOf(c)], s), first[c] # 1
               PROVE  FALSE
    BY DEF FailsOnlyIfJoinedAtOne
  <2>1. /\ ~channel[KeyOf(c)].initialized
        /\ channel[KeyOf(c)].previous_sequence_number # 0
    BY DEF JoinAssertion
  <2>2. first[c] = 0 /\ latest[c] = 0
    BY <2>1 DEF GapInv, ChannelInv
  <2>3. 0 % Wrap = 0
    BY ModSmall, WrapAssumption
  <2> QED
    BY <2>1, <2>2, <2>3 DEF GapInv, ChannelInv
<1> QED
  BY <1>1, GapInvariant, PTL

-----------------------------------------------------------------------------
(* Refinement. *)

(* The initial states are initial states of the gap detector. *)
LEMMA InitRefines == Init => Detector!Init
BY DEF Init, Detector!Init

(* One datagram is one step of the gap detector. *)
LEMMA PacketHeaderRefines ==
  ASSUME DistinctKeys, NoTruncation, FirstSeq > 1, TypeOK, GapInv,
         NEW c \in ChannelIds, NEW s \in SeqNums, PacketHeader(c, s)
  PROVE  Detector!Next
<1> DEFINE ch == channel[KeyOf(c)]
<1>1. ChannelInv(c) /\ ch \in ChannelState
  BY KeyType DEF GapInv, TypeOK, DistinctKeys
<1>2. s \in Nat \ {0} /\ s < Wrap /\ latest[c] \in 0 .. Wrap - 1
  BY SeqAssumption, WrapAssumption DEF NoTruncation, TypeOK, SeqNums
<1>3. latest' = [latest EXCEPT ![c] = s]
  BY DEF PacketHeader
<1>4. /\ ch.previous_sequence_number = latest[c]
      /\ Follows(ch, s) <=> s = latest[c] + 1
  <2>1. latest[c] % Wrap = latest[c]
    BY <1>2, ModSmall, WrapAssumption
  <2> QED
    BY <1>1, <1>2, <2>1, FollowsIsSuccessor DEF ChannelInv
<1>5. first[c] # 1
  <2>1. first[c] \in SeqNums \cup {0}
    BY DEF TypeOK
  <2> QED
    BY <2>1, SeqAssumption DEF SeqNums
<1>6. CASE Accepts(ch, s)
  <2>1. latest[c] = 0 \/ s = latest[c] + 1
    BY <1>1, <1>4, <1>5, <1>6 DEF Accepts, ChannelInv
  <2>2. run' = [run EXCEPT ![c] = Append(@, s)]
    BY <1>6 DEF PacketHeader, TypeOK
  <2> QED
    BY <1>3, <2>1, <2>2 DEF Detector!Next, Detector!HandOver
<1>7. CASE ~Accepts(ch, s)
  <2>1. s # latest[c] + 1
    BY <1>4, <1>7 DEF Accepts
  <2>2. latest[c] # 0
    <3>1. CASE Repeats(ch, s)
      BY <1>2, <1>4, <3>1 DEF Repeats
    <3>2. CASE ch.initialized
      BY <1>1, <3>2 DEF ChannelInv
    <3> QED
      BY <1>7, <3>1, <3>2 DEF Accepts, Jumps
  <2>3. run' = [run EXCEPT ![c] = <<>>]
    BY <1>7 DEF PacketHeader, TypeOK
  <2> QED
    BY <1>3, <2>1, <2>2, <2>3 DEF Detector!Next, Detector!Signal
<1> QED
  BY <1>6, <1>7

(* A stream that joins its channels mid-stream implements the abstract gap *)
(* detector: every step is one of its steps or a stutter                   *)
(* (MarketData::operator()(PacketHeader)).                                 *)
THEOREM StreamIsGapDetector ==
  ASSUME DistinctKeys, NoTruncation, FirstSeq > 1
  PROVE  Spec => IsGapDetector
<1>1. Init => Detector!Init
  BY InitRefines
<1>2. TypeOK /\ GapInv /\ [Next]_vars => [Detector!Next]_(Detector!vars)
  <2> SUFFICES ASSUME TypeOK, GapInv, [Next]_vars
               PROVE  [Detector!Next]_(Detector!vars)
    OBVIOUS
  <2>1. CASE UNCHANGED book
    BY <2>1 DEF book, Detector!vars
  <2> QED
    BY <2>1, StepShape, PacketHeaderRefines
<1> QED
  BY <1>1, <1>2, GapInvariant, PTL DEF Spec, IsGapDetector, Detector!Spec

(***************************************************************************)
(* What being a gap detector is worth.  A run ends with the datagram that  *)
(* came last, so whatever is handed over continues it.                     *)
(***************************************************************************)
DetectorInv ==
  /\ latest \in [ChannelIds -> SeqNums \cup {0}]
  /\ run \in [ChannelIds -> Seq(SeqNums)]
  /\ \A c \in ChannelIds :
       /\ latest[c] = 0 => run[c] = <<>>
       /\ run[c] # <<>> => run[c][Len(run[c])] = latest[c]
       /\ Contiguous(run[c])

(* Every step of the gap detector keeps that. *)
LEMMA NextDetector == DetectorInv /\ [Detector!Next]_(Detector!vars) => DetectorInv'
<1> SUFFICES ASSUME DetectorInv, [Detector!Next]_(Detector!vars) PROVE DetectorInv'
  OBVIOUS
<1>1. CASE UNCHANGED Detector!vars
  BY <1>1 DEF Detector!vars, DetectorInv
<1>2. ASSUME NEW c \in ChannelIds, NEW s \in SeqNums,
             Detector!HandOver(c, s) \/ Detector!Signal(c, s)
      PROVE  DetectorInv'
  <2>1. s # 0 /\ run[c] \in Seq(SeqNums) /\ <<>> \in Seq(SeqNums)
    BY SeqAssumption DEF DetectorInv, SeqNums
  <2>2. /\ latest' = [latest EXCEPT ![c] = s]
        /\ run' = [run EXCEPT ![c] = run'[c]]
    BY <1>2 DEF Detector!HandOver, Detector!Signal, DetectorInv
  <2>3. /\ run'[c] \in Seq(SeqNums)
        /\ run'[c] # <<>> => run'[c][Len(run'[c])] = s
        /\ Contiguous(run'[c])
    <3>1. CASE Detector!Signal(c, s)
      BY <2>1, <3>1 DEF Detector!Signal, DetectorInv, Contiguous
    <3>2. CASE Detector!HandOver(c, s)
      <4>1. run'[c] = Append(run[c], s)
        BY <3>2 DEF Detector!HandOver, DetectorInv
      <4>2. Contiguous(run[c]) /\ (run[c] # <<>> => s = run[c][Len(run[c])] + 1)
        BY <3>2 DEF Detector!HandOver, DetectorInv
      <4>3. Append(run[c], s)[Len(Append(run[c], s))] = s
        BY <2>1
      <4> QED
        BY <2>1, <4>1, <4>2, <4>3, ContiguousAppend
    <3> QED
      BY <1>2, <3>1, <3>2
  <2>4. latest' \in [ChannelIds -> SeqNums \cup {0}] /\ run' \in [ChannelIds -> Seq(SeqNums)]
    BY <2>2, <2>3 DEF DetectorInv
  <2>5. ASSUME NEW d \in ChannelIds
        PROVE  /\ latest'[d] = 0 => run'[d] = <<>>
               /\ run'[d] # <<>> => run'[d][Len(run'[d])] = latest'[d]
               /\ Contiguous(run'[d])
    <3>1. CASE d = c
      BY <2>1, <2>2, <2>3, <3>1 DEF DetectorInv
    <3>2. CASE d # c
      BY <2>2, <3>2 DEF DetectorInv
    <3> QED
      BY <3>1, <3>2
  <2> QED
    BY <2>4, <2>5 DEF DetectorInv
<1> QED
  BY <1>1, <1>2 DEF Detector!Next

(* A gap detector never hands over datagrams with a gap, a repeat or an    *)
(* inversion between them: what a stream inherits by implementing it       *)
(* (Channel::operator()).                                                  *)
THEOREM DetectorRunsAreContiguous ==
  Detector!Spec => [](\A c \in ChannelIds : Contiguous(run[c]))
<1>1. Detector!Init => DetectorInv
  BY DEF Detector!Init, DetectorInv, Contiguous
<1>2. DetectorInv => \A c \in ChannelIds : Contiguous(run[c])
  BY DEF DetectorInv
<1> QED
  BY <1>1, <1>2, NextDetector, PTL DEF Detector!Spec

-----------------------------------------------------------------------------
(* Silences. *)

(* What makes OneWarningPerSilence inductive: while the stream waits for a *)
(* silence, it knows when it was active last and has not warned since.     *)
SilenceInv ==
  /\ last_update_time # 0 => last_update_time = last_activity /\ warnings = 0
  /\ OneWarningPerSilence

(* Every step keeps the invariant. *)
LEMMA NextSilence == TypeOK /\ SilenceInv /\ [Next]_vars => SilenceInv'
<1> SUFFICES ASSUME TypeOK, SilenceInv, [Next]_vars PROVE SilenceInv'
  OBVIOUS
<1>1. /\ now \in Nat /\ last_update_time \in Nat
      /\ last_activity \in Nat /\ warnings \in Nat /\ Timeout \in Nat
  BY TimeAssumption DEF TypeOK
<1>2. CASE UNCHANGED <<silence, now>>
  BY <1>2 DEF silence, SilenceInv, OneWarningPerSilence
<1>3. CASE Tick
  BY <1>1, <1>3 DEF Tick, silence, SilenceInv, OneWarningPerSilence
<1>4. CASE Start \/ Read
  <2>1. last_activity' = last_update_time' /\ warnings' = 0
    BY <1>4 DEF Start, Read
  <2> QED
    BY <2>1 DEF SilenceInv, OneWarningPerSilence
<1>5. CASE Timer
  <2>1. /\ last_update_time # 0
        /\ last_update_time + Timeout < now
        /\ last_update_time' = 0
        /\ warnings' = warnings + 1
        /\ UNCHANGED <<now, last_activity>>
    BY <1>5 DEF Timer, TimedOut, env
  <2> QED
    BY <1>1, <2>1 DEF SilenceInv, OneWarningPerSilence
<1> QED
  BY <1>2, <1>3, <1>4, <1>5
     DEF Next, vars, env, Publish, Recv, RecvNothing, ReceiverError

(* A silence is reported once and not too early, however the timer, the    *)
(* clock and the reads interleave                                          *)
(* (MarketData::operator()(Trace<Timer>)).                                 *)
THEOREM SilencesAreReportedOnce == Spec => []OneWarningPerSilence
<1>1. Init => TypeOK /\ SilenceInv
  BY InitType DEF Init, SilenceInv, OneWarningPerSilence
<1>2. TypeOK /\ SilenceInv /\ [Next]_vars => (TypeOK /\ SilenceInv)'
  BY NextType, NextSilence
<1>3. SilenceInv => OneWarningPerSilence
  BY DEF SilenceInv
<1> QED
  BY <1>1, <1>2, <1>3, PTL DEF Spec

=============================================================================
