----------------------------- MODULE MarketData -----------------------------
(***************************************************************************)
(* A multicast stream of the gateway: struct MarketData of                 *)
(* gateway/market_data.hpp and gateway/market_data.cpp (struct             *)
(* MarketDataSnapshot has the same handlers), with the exchange that       *)
(* publishes sequenced datagrams on several channels and a network that    *)
(* loses, repeats and reorders them.                                       *)
(*                                                                         *)
(* Everything runs on one thread.  The loop of the Read handler is spread  *)
(* over Read, Recv and RecvNothing: the network and the clock move on      *)
(* between two recv calls, no other handler of the stream does.            *)
(***************************************************************************)
EXTENDS Channel, Runs

CONSTANTS
  ChannelIds,   \* channel_id of the configured channels
  KeyWrap,      \* number of values of a uint16_t, the key type of channel_
  FirstSeq,     \* bound: first sequence number published on a channel
  LastSeq,      \* bound: last sequence number published on a channel
  MaxCopies,    \* bound: copies of a datagram the network may make
  Timeout,      \* settings.multicast.timeout
  MaxTime       \* bound: the clock stops here

ASSUME ChannelIdsAssumption == ChannelIds \subseteq Nat
ASSUME KeyWrapAssumption == KeyWrap \in Nat \ {0}
ASSUME SeqAssumption ==
  /\ FirstSeq \in Nat \ {0}
  /\ LastSeq \in Nat
  /\ FirstSeq <= LastSeq
ASSUME CopiesAssumption == MaxCopies \in Nat
ASSUME TimeAssumption == Timeout \in Nat \ {0} /\ MaxTime \in Nat

VARIABLES
  \* the exchange and the network
  published,          \* sequence number published last, by channel
  network,            \* copies of datagrams on their way
  now,                \* the clock
  \* the stream
  terminated,         \* log::fatal has ended the process
  connection_status,  \* connection_status_
  reading,            \* inside the loop of the Read handler
  last_update_time,   \* last_update_time_, 0 when unset
  channel,            \* channel_, by key
  \* history, read by the properties only
  first,              \* sequence number that came first, 0 if none, by channel
  latest,             \* sequence number that came last, 0 if none, by channel
  run,                \* datagrams passed to the message handlers since the
                      \* last one that was refused, by channel
  refused,            \* number of datagrams refused, by channel
  last_activity,      \* time of the last Start or Read
  warnings            \* timeouts logged since then

env == <<published, network, now>>
book == <<channel, first, latest, run, refused>>
silence == <<last_update_time, last_activity, warnings>>
vars == <<env, terminated, connection_status, reading, book, silence>>

SeqNums == FirstSeq .. LastSeq
Packet == [channel_id : ChannelIds, seq_num : SeqNums, copy : 1 .. MaxCopies]

(***************************************************************************)
(* channel_ is an unordered_map<uint16_t, Channel> that is looked up with  *)
(* an int32_t: the identifier is reduced to the key type.  get_channel     *)
(* emplaces a default Channel for a missing key, so channel is a total     *)
(* function whose absent keys hold NewChannel.                             *)
(***************************************************************************)
Keys == 0 .. KeyWrap - 1
OneKey(channel_id) == 0    \* a slip: one channel for all
KeyOf(channel_id) == channel_id % KeyWrap

(***************************************************************************)
(* What a channel is told apart by.  A channel whose identifier no other   *)
(* one equals modulo the key type has a Channel of its own.  The two       *)
(* conditions on the whole stream are those under which it is a gap        *)
(* detector.                                                               *)
(***************************************************************************)
HasOwnKey(c) == \A d \in ChannelIds : d % KeyWrap = c % KeyWrap => d = c

DistinctKeys == \A c \in ChannelIds : HasOwnKey(c)
NoTruncation == LastSeq < Wrap

Init ==
  /\ published = [c \in ChannelIds |-> FirstSeq - 1]
  /\ network = {}
  /\ now = 1
  /\ terminated = FALSE
  /\ connection_status = "UNDEFINED"
  /\ reading = FALSE
  /\ last_update_time = 0
  /\ channel = [k \in Keys |-> NewChannel]
  /\ first = [c \in ChannelIds |-> 0]
  /\ latest = [c \in ChannelIds |-> 0]
  /\ run = [c \in ChannelIds |-> <<>>]
  /\ refused = [c \in ChannelIds |-> 0]
  /\ last_activity = 0
  /\ warnings = 0

-----------------------------------------------------------------------------
(* The environment. *)

(* The exchange publishes the next datagram of a channel; n = 0 loses it. *)
Publish(c, n) ==
  LET seq_num == published[c] + 1 IN
  /\ published[c] < LastSeq
  /\ published' = [published EXCEPT ![c] = seq_num]
  /\ network' = network \cup
       {[channel_id |-> c, seq_num |-> seq_num, copy |-> i] : i \in 1 .. n}
  /\ UNCHANGED <<now, terminated, connection_status, reading, book, silence>>

Tick ==
  /\ now < MaxTime
  /\ now' = now + 1
  /\ UNCHANGED <<published, network, terminated, connection_status, reading,
                 book, silence>>

-----------------------------------------------------------------------------
(* The stream. *)

Start ==
  /\ ~terminated
  /\ connection_status = "UNDEFINED"
  /\ connection_status' = "CONNECTING"
  /\ last_update_time' = now
  /\ last_activity' = now
  /\ warnings' = 0
  /\ UNCHANGED <<env, terminated, reading, book>>

(* Slips: the missing test for unset, and a stream that is not yet READY.  *)
TimedOutIfUnset == last_update_time + Timeout < now
TimedOutIfReady ==
  connection_status = "READY" /\ last_update_time # 0 /\ last_update_time + Timeout < now

TimedOut == last_update_time # 0 /\ last_update_time + Timeout < now

(* operator()(Trace<Timer>): logs a silence and forgets when it began. *)
Timer ==
  /\ ~terminated
  /\ ~reading
  /\ TimedOut
  /\ last_update_time' = 0
  /\ warnings' = warnings + 1
  /\ UNCHANGED <<env, terminated, connection_status, reading, book,
                 last_activity>>

(* operator()(Trace<Read>), up to the loop: the socket is readable. *)
Read ==
  /\ ~terminated
  /\ ~reading
  /\ connection_status # "UNDEFINED"
  /\ network # {}
  /\ reading' = TRUE
  /\ connection_status' = "READY"
  /\ last_update_time' = now
  /\ last_activity' = now
  /\ warnings' = 0
  /\ UNCHANGED <<env, terminated, book>>

(* operator()(PacketHeader): a refused datagram also resets its channel.   *)
(* Parser2::dispatch passes the messages of an accepted one to handlers    *)
(* that do nothing and drops those of a refused one.                       *)
PacketHeader(c, seq_num) ==
  LET key == KeyOf(c)
      accepted == Accepts(channel[key], seq_num)
      received == Received(channel[key], seq_num)
  IN
  /\ channel' = [channel EXCEPT ![key] = IF accepted THEN received ELSE Reset(received)]
  /\ first' = [first EXCEPT ![c] = IF @ = 0 THEN seq_num ELSE @]
  /\ latest' = [latest EXCEPT ![c] = seq_num]
  /\ run' = [run EXCEPT ![c] = IF accepted THEN Append(@, seq_num) ELSE <<>>]
  /\ refused' = [refused EXCEPT ![c] = IF accepted THEN @ ELSE @ + 1]

(* One round of the loop: any datagram on its way may be the next one. *)
Recv ==
  /\ ~terminated
  /\ reading
  /\ \E p \in network :
       /\ network' = network \ {p}
       /\ PacketHeader(p.channel_id, p.seq_num)
  /\ UNCHANGED <<published, now, terminated, connection_status, reading, silence>>

(* recv returns 0: nothing has arrived, and the loop ends.  It also ends,  *)
(* with the same effect, after a datagram at which Parser2::dispatch       *)
(* throws, if the library catches that.                                    *)
RecvNothing ==
  /\ ~terminated
  /\ reading
  /\ reading' = FALSE
  /\ UNCHANGED <<env, terminated, connection_status, book, silence>>

(* operator()(Trace<Error>): log::fatal. *)
ReceiverError ==
  /\ ~terminated
  /\ ~reading
  /\ terminated' = TRUE
  /\ UNCHANGED <<env, connection_status, reading, book, silence>>

Next ==
  \/ \E c \in ChannelIds, n \in 0 .. MaxCopies : Publish(c, n)
  \/ Tick
  \/ Start
  \/ Timer
  \/ Read
  \/ Recv
  \/ RecvNothing
  \/ ReceiverError

Spec == Init /\ [][Next]_vars

(* The server keeps calling the timer, and the Read loop runs on. *)
FairSpec == Spec /\ WF_vars(Timer) /\ WF_vars(RecvNothing)

-----------------------------------------------------------------------------
(* The type invariant: every variable stays within the states of the code. *)
TypeOK ==
  /\ published \in [ChannelIds -> FirstSeq - 1 .. LastSeq]
  /\ network \subseteq Packet
  /\ now \in Nat
  /\ terminated \in BOOLEAN
  /\ connection_status \in {"UNDEFINED", "CONNECTING", "READY"}
  /\ reading \in BOOLEAN
  /\ last_update_time \in Nat
  /\ channel \in [Keys -> ChannelState]
  /\ first \in [ChannelIds -> SeqNums \cup {0}]
  /\ latest \in [ChannelIds -> SeqNums \cup {0}]
  /\ run \in [ChannelIds -> Seq(SeqNums)]
  /\ refused \in [ChannelIds -> Nat]
  /\ last_activity \in Nat
  /\ warnings \in Nat

(* A gap is never silent: on a channel that was joined mid-stream, at a    *)
(* number that fits a uint32_t, the datagrams whose messages were handled  *)
(* since the last refusal (warning and reset) carry consecutive numbers,   *)
(* whatever was lost, repeated, reordered or truncated afterwards          *)
(* (Channel::operator()).                                                  *)
GapNeverSilent ==
  \A c \in ChannelIds :
    HasOwnKey(c) /\ first[c] # 1 /\ first[c] < Wrap => Contiguous(run[c])

(* No false alarm: a datagram that continues the one before it on its      *)
(* channel is never refused, whatever arrives on the other channels,       *)
(* unless its number does not fit a uint32_t (Channel::operator(),         *)
(* MarketData::get_channel).                                               *)
NoFalseAlarm ==
  [][\A c \in ChannelIds :
       HasOwnKey(c) /\ refused'[c] # refused[c]
         => latest'[c] # latest[c] + 1 \/ latest'[c] >= Wrap]_vars

(* assert(previous_sequence_number_ == 0) of Channel::operator() holds for *)
(* whichever datagram the loop takes next.                                 *)
JoinAssertionHolds ==
  \A p \in network : JoinAssertion(channel[KeyOf(p.channel_id)], p.seq_num)

(* A silence is reported once, and only when nothing was read for longer   *)
(* than the timeout (MarketData::operator()(Trace<Timer>)).                *)
OneWarningPerSilence ==
  /\ warnings <= 1
  /\ warnings = 1 => last_activity + Timeout < now

(* A silence longer than the timeout is reported, unless the stream is     *)
(* read or ends first.                                                     *)
SilenceIsReported ==
  \A t \in 1 .. MaxTime :
    (last_activity = t /\ t + Timeout < now)
      ~> (warnings > 0 \/ last_activity # t \/ terminated)

(* A stream that joins its channels mid-stream is a gap detector on each   *)
(* of them: it judges a datagram by the one that came last on its channel, *)
(* although all it has is a number in a channel found by key; no gap is    *)
(* silent, and no step on one channel disturbs another                     *)
(* (Channel::operator(), MarketData::operator()(PacketHeader)).            *)
Detector == INSTANCE GapDetector WITH last <- latest

IsGapDetector == Detector!Spec

=============================================================================
