---------------------------- MODULE GapDetector ----------------------------
(***************************************************************************)
(* What a sequenced stream promises the consumer of its channels, whatever *)
(* the network loses, repeats or reorders: a datagram is handed over only  *)
(* if it is the first of its channel or the successor of the one before;   *)
(* anything else is signalled and starts a new run.  Channels do not       *)
(* disturb one another.                                                    *)
(***************************************************************************)
EXTENDS Integers, Sequences

CONSTANTS
  ChannelIds,
  SeqNums     \* sequence numbers a datagram may carry, none of them 0

VARIABLES
  last,       \* number of the datagram that came last, 0 if none, by channel
  run         \* datagrams handed over since the last signal, by channel

vars == <<last, run>>

Init ==
  /\ last = [c \in ChannelIds |-> 0]
  /\ run = [c \in ChannelIds |-> <<>>]

HandOver(c, s) ==
  /\ last[c] = 0 \/ s = last[c] + 1
  /\ last' = [last EXCEPT ![c] = s]
  /\ run' = [run EXCEPT ![c] = Append(@, s)]

Signal(c, s) ==
  /\ last[c] # 0
  /\ s # last[c] + 1
  /\ last' = [last EXCEPT ![c] = s]
  /\ run' = [run EXCEPT ![c] = <<>>]

Next == \E c \in ChannelIds, s \in SeqNums : HandOver(c, s) \/ Signal(c, s)

Spec == Init /\ [][Next]_vars

=============================================================================
