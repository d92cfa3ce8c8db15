------------------------------ MODULE Channel ------------------------------
(***************************************************************************)
(* One sequenced multicast channel: struct Channel of                      *)
(* gateway/channel.hpp and gateway/channel.cpp.  The class is a record and *)
(* each member function an operator on it; the streams that own channels   *)
(* are the state machines of other modules.                                *)
(*                                                                         *)
(* seq_num arrives as an int64_t but previous_sequence_number_ is a        *)
(* uint32_t, so the successor wraps and the stored value is truncated.     *)
(***************************************************************************)
EXTENDS Integers, Sequences

CONSTANT
  Wrap       \* number of values of a uint32_t, 2^32 in the program

ASSUME WrapAssumption == Wrap \in Nat \ {0, 1}

(***************************************************************************)
(* instrument_id, bids and asks always change together (they are filled by *)
(* one book update and cleared by reset), so one field, updates, stands    *)
(* for the three: the sequence numbers of the datagrams it was built from. *)
(***************************************************************************)
ChannelState ==
  [previous_sequence_number : 0 .. Wrap - 1,
   initialized              : BOOLEAN,
   ready                    : BOOLEAN,
   updates                  : Seq(Nat)]

(* A slip: -1 for "nothing received". *)
MinusOneChannel ==
  [previous_sequence_number |-> -1,
   initialized              |-> FALSE,
   ready                    |-> FALSE,
   updates                  |-> <<>>]

NewChannel ==
  [previous_sequence_number |-> 0,
   initialized              |-> FALSE,
   ready                    |-> FALSE,
   updates                  |-> <<>>]

(* A slip: anything newer will do. *)
FollowsOrSkips(ch, seq_num) == seq_num >= (ch.previous_sequence_number + 1) % Wrap

Follows(ch, seq_num) == seq_num = (ch.previous_sequence_number + 1) % Wrap

Repeats(ch, seq_num) == ~Follows(ch, seq_num) /\ seq_num = ch.previous_sequence_number

Jumps(ch, seq_num) == ~Follows(ch, seq_num) /\ ~Repeats(ch, seq_num)

(* A slip: a repeated datagram is let through. *)
AcceptsRepeats(ch, seq_num) ==
  Follows(ch, seq_num) \/ Repeats(ch, seq_num) \/ ~ch.initialized

(***************************************************************************)
(* The value operator() returns: whether the datagram may be used.         *)
(***************************************************************************)
Accepts(ch, seq_num) ==
  \/ Follows(ch, seq_num)
  \/ Jumps(ch, seq_num) /\ ~ch.initialized

(* A slip: a refused datagram is not remembered. *)
ReceivedIfAccepted(ch, seq_num) ==
  [previous_sequence_number |-> IF Accepts(ch, seq_num) THEN seq_num % Wrap
                                ELSE ch.previous_sequence_number,
   initialized              |-> ch.initialized \/ Jumps(ch, seq_num),
   ready                    |-> ch.ready /\ ~(ch.initialized /\ Jumps(ch, seq_num)),
   updates                  |-> ch.updates]

(***************************************************************************)
(* The channel operator() leaves behind.                                   *)
(***************************************************************************)
Received(ch, seq_num) ==
  [previous_sequence_number |-> seq_num % Wrap,
   initialized              |-> ch.initialized \/ Jumps(ch, seq_num),
   ready                    |-> ch.ready /\ ~(ch.initialized /\ Jumps(ch, seq_num)),
   updates                  |-> ch.updates]

(***************************************************************************)
(* assert(previous_sequence_number_ == 0): a channel that is not yet       *)
(* initialized has not seen a datagram.                                    *)
(***************************************************************************)
JoinAssertion(ch, seq_num) ==
  Jumps(ch, seq_num) /\ ~ch.initialized => ch.previous_sequence_number = 0

(* A slip: what was received of an update is kept. *)
ResetStatus(ch) ==
  [previous_sequence_number |-> ch.previous_sequence_number,
   initialized              |-> ch.initialized,
   ready                    |-> FALSE,
   updates                  |-> ch.updates]

(* Everything goes but what numbers the next datagram. *)
Reset(ch) ==
  [previous_sequence_number |-> ch.previous_sequence_number,
   initialized              |-> ch.initialized,
   ready                    |-> FALSE,
   updates                  |-> <<>>]

SnapshotStart(ch) == [ch EXCEPT !.ready = TRUE]

SnapshotEnd(ch) == [ch EXCEPT !.ready = FALSE]

=============================================================================
