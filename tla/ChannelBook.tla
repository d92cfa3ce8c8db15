---------------------------- MODULE ChannelBook ----------------------------
(***************************************************************************)
(* The contract of struct Channel (gateway/channel.hpp, .cpp) as a class:  *)
(* every public operation, called the way its owner calls it.  The owner   *)
(* passes the header of each datagram to operator() and, when refused, at  *)
(* once calls reset (MarketData::operator()(PacketHeader)); only while it  *)
(* handles the messages of an accepted datagram may it call snapshot_start *)
(* or snapshot_end or add to instrument_id, bids and asks.  The message    *)
(* handlers of this commit are empty: these three calls are the ones the   *)
(* interface offers them, not ones the gateway makes yet.                  *)
(*                                                                         *)
(* Datagrams come in any order and any number of times, and their numbers  *)
(* may outgrow the uint32_t the channel keeps of them.                     *)
(***************************************************************************)
EXTENDS Channel, Runs

CONSTANTS
  LastSeq,         \* bound: numbers of datagrams are 1 .. LastSeq
  MaxDatagrams     \* bound: datagrams received

ASSUME LastSeqAssumption == LastSeq \in Nat
ASSUME MaxDatagramsAssumption == MaxDatagrams \in Nat

VARIABLES
  ch,              \* the channel
  handling,        \* number of the accepted datagram being handled, 0 if none
  received,        \* number of datagrams received
  \* history
  first,           \* number of the first datagram, 0 if none
  run,             \* datagrams accepted since the last refusal
  snapshot         \* datagrams accepted since snapshot_start, the one of
                   \* the call included

vars == <<ch, handling, received, first, run, snapshot>>

SeqNums == 1 .. LastSeq

Init ==
  /\ ch = NewChannel
  /\ handling = 0
  /\ received = 0
  /\ first = 0
  /\ run = <<>>
  /\ snapshot = <<>>

(* operator()(PacketHeader) of the owner: operator(), reset when refused.  *)
Datagram(s) ==
  /\ received < MaxDatagrams
  /\ received' = received + 1
  /\ first' = IF first = 0 THEN s ELSE first
  /\ IF Accepts(ch, s)
     THEN /\ ch' = Received(ch, s)
          /\ handling' = s
          /\ run' = Append(run, s)
          /\ snapshot' = Append(snapshot, s)
     ELSE /\ ch' = Reset(Received(ch, s))
          /\ handling' = 0
          /\ run' = <<>>
          /\ snapshot' = snapshot

CallSnapshotStart ==
  /\ handling # 0
  /\ ch' = SnapshotStart(ch)
  /\ snapshot' = <<handling>>
  /\ UNCHANGED <<handling, received, first, run>>

CallSnapshotEnd ==
  /\ handling # 0
  /\ ch' = SnapshotEnd(ch)
  /\ UNCHANGED <<handling, received, first, run, snapshot>>

(* A book update may span several datagrams.                               *)
AddUpdates ==
  /\ handling # 0
  /\ Len(ch.updates) < MaxDatagrams
  /\ ch' = [ch EXCEPT !.updates = Append(@, handling)]
  /\ UNCHANGED <<handling, received, first, run, snapshot>>

Next ==
  \/ \E s \in SeqNums : Datagram(s)
  \/ CallSnapshotStart
  \/ CallSnapshotEnd
  \/ AddUpdates

Spec == Init /\ [][Next]_vars

-----------------------------------------------------------------------------
(* The type invariant: every variable stays within the states of the code. *)
TypeOK ==
  /\ ch \in ChannelState
  /\ handling \in SeqNums \cup {0}
  /\ received \in Nat
  /\ first \in SeqNums \cup {0}
  /\ run \in Seq(SeqNums)
  /\ snapshot \in Seq(SeqNums)

(* A channel is joined mid-stream when its first number is not 1 and fits. *)
JoinedMidStream == first # 1 /\ first < Wrap

(* What is kept of a book update was sent in datagrams between which none  *)
(* is missing, up to the one that came last: after a gap or a repeat       *)
(* nothing of the half-received update is left (Channel::operator(),       *)
(* Channel::reset).                                                        *)
BookIsUnbroken ==
  JoinedMidStream =>
    /\ Contiguous(run)
    /\ \A i \in 1 .. Len(ch.updates) : \E j \in 1 .. Len(run) : run[j] = ch.updates[i]

(* While the channel is ready, every datagram from the one that started    *)
(* the snapshot to the one that came last was accepted, in order           *)
(* (Channel::snapshot_start, Channel::operator(), Channel::reset).         *)
ReadyIsUnbroken ==
  JoinedMidStream /\ ch.ready =>
    /\ snapshot # <<>>
    /\ Contiguous(snapshot)
    /\ snapshot[Len(snapshot)] = ch.previous_sequence_number

=============================================================================
