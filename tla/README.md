# A TLA+ model of roq-starbase

roq-starbase is a trading gateway. It listens to the multicast market data of
an exchange, keeps one order session for each configured account, and is driven
by a server library which calls its handlers from one thread. This directory
holds TLA+ modules that model the gateway's own logic, TLC configurations that
check the modules on small instances, and proofs checked by TLAPS. Paths below
are relative to `src/src/roq/starbase/`.

Contents: [inventory](#inventory), [modules](#modules),
[runs](#runs), [fairness](#fairness), [proofs](#proofs),
[findings](#findings), [what is left out](#what-is-left-out), [plan](#plan).

## Inventory

### Who calls whom

The server library calls `Controller` (`gateway/controller.cpp`) with its events:
`Start`, `Stop`, `Timer`, `Subscribe`, `Control` and the order requests of the
clients. `Controller::dispatch` passes `Start`, `Stop` and `Timer` on to every
stream: the `OrderEntry` of each account, `MarketDataSnapshot` and `MarketData`
when multicast is configured. The event loop calls the streams with what happens
on the network: `Read` and `Error` of a UDP receiver, `Connected`, `Disconnected`
and `Read` of a connection manager. The streams cut what they have read into
messages (`Parser2` for datagrams, `Parser` for the order sessions), which calls
them back with each packet header and message. All of this happens on one
thread; nothing is locked, and nothing runs while a handler does not return. The
clock, the exchange and the network do not wait for it.

### Components

| component | state | operations | what makes it correct |
|---|---|---|---|
| `Channel` (`gateway/channel.*`) | last sequence number, `initialized_`, `ready_`, a book update under construction | `operator()`, `reset`, `snapshot_start`, `snapshot_end` | no gap, repeat or reordering goes unnoticed, and nothing half-received survives one |
| `MarketData`, `MarketDataSnapshot` (`gateway/market_data*`) | `channel_` by id, `connection_status_`, `last_update_time_` | `Start`, `Timer`, `Read`, `Error`, `PacketHeader`, message handlers (empty) | channels do not disturb one another; a silence is reported once, not too early, and eventually |
| `Parser2`, `PacketHeader` (`protocol/sbe`) | position in a datagram | `dispatch`, `parse` | every message of an accepted datagram that its decoder can take, up to the first it cannot, reaches the handler once, in order, whole |
| dump tool (`dump/controller.cpp`) | `index_` | the handlers of `Parser2`, `print` | what is printed of a packet tells the position, the type and the value of each of its messages |
| `Crypto` (`tools/crypto.*`) | `timestamp_` | `create_signature`, `create_raw_data`, `get_sequence` | a number is never used twice and never far from the clock |
| `OrderEntry` (`gateway/order_entry.*`) | status, `ready_`, the timers of logon, heartbeat and test disconnect | `Start`, `Stop`, `Timer`, `Connected`, `Disconnected`, `Read`, four order requests, `download` | one logon for each connection, after the delay; the status belongs to the connection; a lost connection is made again |
| `Controller` (`gateway/controller.*`) | the streams, `stream_id_`, symbols, state | construction, dispatch of the events, order requests by account | a gateway that comes up serves exactly its configuration, under distinct stream ids |
| `Config`, `Account` (`gateway/config.*`, `gateway/account.*`) | accounts, the master account | reading of the configuration, keys and secrets | an account without credentials is never served, and nothing acceptable is refused |
| `Shared` (`gateway/shared.*`) | settings, `all_symbols`, multicast on or off | `get_multicast` | incomplete multicast settings are refused |
| `Parser` (`protocol/sbe/parser.cpp`) | none | `dispatch` | modelled as far as the `Read` loop depends on its result |
| names, lengths, conversions, formatting (`protocol/sbe/utils.hpp`, `map.*`) | none | `get_name`, `compute_length`, formatters, `map` | the lengths keep the framing; two types do not share a name; a null is not printed as a number |
| flags, settings, bridges, applications, requests, API | none that changes | construction | not modelled |

### What is hard

- Ordering and loss: datagrams are lost, repeated and reordered, and the channel
  that a datagram moves may be in the middle of a book update or a snapshot.
- Interleaving: the streams and accounts share one thread, while the clock and
  the network move on between two `recv` calls and between two timers.
- Timers: the logon timer is set by one connection and must not reach the next;
  a silence must be reported once although the timer is called again and again.
- Construction: seven checks, spread over four classes, can refuse a
  configuration while others of its accounts have been made already.
- Lengths: a message states one, its decoder takes another, and the datagram has
  a third left.
- Restarts: `timestamp_` of the credentials is kept in memory only.
- Liveness: one handler that does not return stops every session.
- Widths: 64-bit sequence numbers kept in 32 bits, 32-bit channel ids used as
  16-bit keys.

`PROJECT.json` lists these as hazards, each with its line and the properties that
would catch it going wrong.

## Modules

| module | models | built on |
|---|---|---|
| `Runs` | the vocabulary: consecutive sequence numbers | |
| `Channel` | `struct Channel`, as a record and an operator for each member function | |
| `ChannelBook` | the contract of `Channel` as a class, with the calls its interface offers the message handlers | `Channel`, `Runs` |
| `GapDetector` | the abstract promise of a sequenced stream | |
| `MarketData` | a multicast stream with its channels, the exchange and the network | `Channel`, `Runs`; implements `GapDetector` |
| `PacketDelivery` | the abstract promise of a reader of datagrams: what of a packet is handed over, in which order, and where it may stop | |
| `Parser2` | the cutting of datagrams, and the dump tool | implements `PacketDelivery` |
| `Crypto` | the numbers of credentials, across restarts | |
| `OrderEntry` | an order session, as a record and an operator for each callback | |
| `LogonProtocol` | the abstract promise of the order sessions: connections, logons and the status told of them | |
| `Gateway` | `Controller` with all sessions and streams on one thread | `OrderEntry`; implements `LogonProtocol` |
| `Startup` | reading the configuration and constructing the gateway | |
| `ChannelProofs`, `ChannelBookProofs`, `MarketDataProofs`, `CryptoProofs`, `GatewayProofs`, `StartupProofs`, `Parser2Proofs` | theorems | the module they are named for |
| `PromiseProofs` | theorems about every implementation of an abstract specification | `LogonProtocol`, `PacketDelivery` |
| `MC...` | the instances TLC checks | |

A class without a thread of its own is a record with an operator for each member
function (`Channel`, `OrderEntry`), and the module of its owner is the state
machine. A handler is one action with everything it calls, except for the loop
of `MarketData`'s `Read` handler: it is spread over `Read`, `Recv` and
`RecvNothing`, since the network and the clock move between two calls of `recv`.
The variable `reading` keeps every other handler of the stream away meanwhile.

How state corresponds:

- `MarketData`: `channel` is `channel_` as a total function, where a key that
  `get_channel` has not emplaced yet holds a new channel. `last_update_time` and
  `connection_status` are the members of that name. `published`, `network` and
  `now` belong to the environment. `first`, `latest`, `run`, `refused`,
  `last_activity` and `warnings` are history that only properties read.
- `Channel`: `updates` stands for `instrument_id`, `bids` and `asks`, which are
  filled and cleared together; it holds the numbers of the datagrams they came
  from. The operators reduce numbers modulo `Wrap` where the code stores them in
  a `uint32_t`.
- `OrderEntry`: the fields of `Session` are the members without the trailing
  underscore. `connection` stands for the library's connection manager,
  modelled from how the session uses it. `connected_at` and `logons` are
  history. `origin_create_time` of a callback and `source_receive_time` of a read
  are taken for the clock.
- `Gateway`: `thread` names the session whose `Read` handler runs on, `terminated`
  tells that `log::fatal` ended the process, `inbound` which connections have
  bytes to read. The multicast streams appear as what the timer and `Read` do to
  them; their channels are the business of `MarketData`. Under the refinement
  mapping to `LogonProtocol` an account has a connection from `Connected` to
  `Disconnected` or `Stop`: a connection that the exchange has closed, or that the
  session has asked to close, still counts until the callback comes. One call of
  the timer may log on several accounts, so `LogOn` takes a set of them.
- `Startup`: the members of `Config` and `Controller`, and `step` for how far
  the member initializers have come. Hash maps are iterated in any order.
- `Parser2`: a datagram is the sequence of its messages with the length each
  states, and perhaps `trailing` bytes, too few for another header; `offset` is how
  much of `packet` the loop has left behind. `HeaderLength` is `length_message_header`.
  The decoder of a type is generated code, given the rest of the datagram with its
  length: it takes `computeLength` bytes after the header, whatever the message
  states. Of a message shorter than that it reads what comes after, and where the
  datagram has no more it throws (`Throw`, `protocol/sbe/parser_2.cpp:28`). Too few
  bytes for a header fail the assertion of `protocol/sbe/parser_2.cpp:48` or, without
  assertions, make the decoder of the header throw (`BadHeader`). `SBE_TEMPLATE_ID`
  is the table of the schema; `Switch` transcribes the cases, the type in the label
  and the type that is decoded, and `get_name` the names the dump tool prints.
  One nullable value stands for the fields of a message: a time of an instrument,
  a price of the types that print prices; `MapTime` and `MapPrice` convert it. What
  the caller makes of an exception is the library's business: `NextPacket` may
  follow one, and may not.
- `Crypto`: `timestamp` is `timestamp_`; `issued`, `asked`, `earlier` and
  `restarts` are history.

Some modules define a *slip* next to a definition: the same definition with a
plausible mistake. `PROJECT.json` pairs each property with a slip, and the
property fails when the slip takes the definition's place. That shows that the
property depends on the code it is about.

## Runs

All runs that pass explore the whole state space of their instance. Deadlock is
not checked: every instance has bounds (clock, datagrams, restarts), and the
process may end by `log::fatal`; where something must happen, a liveness property
says so.

| run | what it asks | bounds, and why they are enough |
|---|---|---|
| `gaps` | `GapNeverSilent`, `NoFalseAlarm`, `JoinAssertionHolds` of channels joined mid-stream, refinement of `GapDetector` | two channels (ids 1 and 6, whose keys differ although 6 needs reducing), joined at 2, three datagrams each, up to two copies of each. A gap, a late datagram and a repeat are each possible at any place, and any order of the two channels. The clock stands still: it does not touch the channels. 2.9 million states |
| `silence` | `OneWarningPerSilence`, `SilenceIsReported`, `GapNeverSilent` | one channel, four datagrams, timeout 2, clock up to 7: two silences with a datagram between them fit. The numbers 2 to 5 do not fit the width of 4 values: the channel sees the last number that fits and the first that do not |
| `book` | `BookIsUnbroken`, `ReadyIsUnbroken` | numbers 1 to 5, of which 4 and 5 do not fit the width, five datagrams: a join, a gap in a book update or a snapshot, a new run after it, and a truncated number |
| `credentials` | `StrictlyIncreasing`, `LeadIsBounded`, `UniqueAcrossRestarts` | clock values 0 to 5 in any order, three numbers for each of three processes |
| `sessions` | `OneLogonPerConnection`, `ConnectAssertion`, `StatusIsCurrent`, `NoFatalRequest`, refinement of `LogonProtocol` | two accounts, which are symmetric, one stranger, one stream, clock up to 4 with a logon delay of 1: a connection can be made, logged on and lost, and another one made |
| `sessions_live` | `LogonFollows`, `Reconnects` | the same without stream and stranger, no symmetry |
| `startup` | `StreamIdsUnique`, `ServesTheConfiguration`, `MasterIsServed`, `RefusalIsJustified`, `ComesUp` | every configuration of up to three accounts, every combination of master marks, keys and secrets, every setting that construction looks at |
| `packets` | `HandlesMessagesInOrder`, `AllOrNothing`, `TranscriptIsFaithful`, refinement of `PacketDelivery` | datagrams of up to three messages that state 3 or 4 bytes, of an instrument (10), whose header and decoder take 3, of two neighbouring types (20 and 21) that take 4, or of one that no case knows (99): stated lengths below, at and above the decoder's, on the last message and on others. With and without a trailing byte, times and prices null in any part or not, two datagrams: a wrong step over a message shows by the second, a stale index in the second datagram, a copied case or name in a datagram with both types. 279 thousand states. The theorems cover all template ids and lengths |
| `join_at_one`, `auto_reconnect`, `orders_available`, `startup_master` | one property each, which the code does not satisfy | see [findings](#findings) |

Each run also checks the type invariant of its module, where it passes.
`Parser2` needs no liveness property: `HandlesMessagesInOrder` bounds the rounds
of the loop by the number of messages.

## Fairness

- `MarketData`: weak fairness of `Timer`, which the server calls for ever, and of
  `RecvNothing`. The latter says that the loop of `Read` comes to an end. The code
  does not guarantee that against a flood of datagrams that never pauses; in
  the model the number of datagrams is finite, which is the assumption made.
  The clock has no fairness: `SilenceIsReported` speaks of clocks that did pass
  the timeout.
- `Startup`: weak fairness of `Next`. A constructor runs to its end on the main
  thread, without waiting for anything.
- `Gateway`: weak fairness of `Start`, `Timer` and the clock, and of `Connect` and
  `Disconnect` for each account: the library reports losses, and
  `always_reconnect` (`gateway/order_entry.cpp:64`) connects again as long as the
  exchange accepts. Messages, losses, requests and `Stop` have no fairness: the
  environment need not do anything. All handlers need the thread, so fairness of
  the timer means nothing while a handler does not return. `LogonFollows` and
  `Reconnects` say so (`Running`); `auto_reconnect` shows what happens
  without this condition.

## Proofs

TLC checks the instances above; the theorems hold for every value of the
constants that satisfies the named assumptions of the modules.

- `MarketDataProofs`. `GapsAreNeverSilent` and `AlarmsAreJustified` have no hypothesis
  on the constants. The properties themselves say whom they are about: channels
  whose id no other one equals modulo 2^16 (`HasOwnKey`), and for the alarms numbers
  that fit 32 bits. `GapNeverSilent` is not inductive: it does not say what the channel
  remembers. The inductive invariant `GapInv` adds, for each channel with a key of
  its own, that the stored number is the one that came last, reduced to 32 bits, that
  a run ends with it, that on a channel joined at a number that fits only numbers that
  fit are handled, and that a channel whose first number was not 1 is initialized. One lemma treats
  the channel of a datagram (`PacketHeaderOwn`), one all the others
  (`PacketHeaderOther`), and `StepShape` reduces every step of `Next` to a datagram
  or a stutter of these variables. From the same invariant:
  - `OutgrownStreamIsMute`: every number beyond 32 bits is refused, the channel reset;
    such a stream is not used any more, but not silently.
  - `AssertionFailsOnlyIfJoinedAtOne`: with a key of its own, only a channel that was
    joined at number 1 breaks the assertion of `gateway/channel.cpp:33`.
    `JoinAssertionHoldsMidStream` is the property of the run `join_at_one` for streams
    that number from 2 on (`FirstSeq > 1`), whatever the keys: it needs an invariant
    of its own, `UntouchedInv`, since a shared key has no owner.
  - `StreamIsGapDetector`, the refinement, assumes `DistinctKeys`, `NoTruncation` and
    `FirstSeq > 1`: outside of them the stream does not keep the promise.
    `DetectorRunsAreContiguous` says what the promise is worth.
  `SilencesAreReportedOnce` rests on `SilenceInv`: while `last_update_time_` is set,
  it is the time of the last activity and nothing has been reported since.
- `ChannelProofs`: lemmas on the operators of `Channel` (what they return, when
  the wrapped successor is the successor: exactly if it fits) and on runs.
- `ChannelBookProofs`. `ChannelKeepsUnbrokenBook` and `ReadinessIsUnbroken` hold for any
  order and number of datagrams and calls, and for numbers of any size. The
  inductive invariant `BookInv` relates the stored number, the datagram being
  handled and the end of the run.
- `CryptoProofs`. `NumbersGrow`, `LeadBounded` and `NoReuseAfterCleanRestart` follow
  from `SequenceInv`: `timestamp_` is the number issued last, and under clean
  restarts all numbers of earlier processes lie below those of this one.
- `GatewayProofs`. All invariants of `Gateway` and the refinement of `LogonProtocol`,
  for any number of accounts, streams and symbols and any settings. None of them
  is inductive: `OneLogonPerConnection` does not know that the timer of a logon
  that was sent is unset. `GatewayInv` adds, for each session, that the timer is
  set only while there is a connection that has not been logged on, that it then
  holds the time of the connection plus the delay, and that no session is ready;
  and that no session has left its initial state before `Start`. What one session
  does on a timer is a lemma over `OnTimer` alone, since no session touches another.
  Two findings are proved for every instance: `OrdersNeverBecomeAvailable` (a
  connection that lasts refutes `OrdersBecomeAvailable`, since `GatewayInv` says that
  no session is ready) and `HungIsForGood` (a connection lost while the thread hangs
  stays lost, so every behaviour that comes to that refutes `AutoReconnect`).
  `FirstMessageIsLast` is the reason: a message that its decoder can take keeps the
  thread, or ends the process, and nothing gives it back. `NoSessionDoesAnything` says which branches of the
  timer are dead.
- `StartupProofs`. `StartupInv` follows the construction step by step: what has been
  read is the part of the configuration before `unread`, the accounts made so far
  had key and secret, every check behind the current step has passed, and every id in
  use is at most `stream_id_`. From it follow that the ids differ, that what is up
  serves the configuration and its master account, and that every refusal had a
  reason in the configuration.
  `MasterCheckNeverFires` shows that the check that heeds the flag is dead, for every
  configuration, so `NoGatewayWithoutMaster` holds with the flag as well;
  `NeverStopsHalfWay` names, for each state of the construction, the step to come.
- `Parser2Proofs`. `ParserInv`: the start of each message is the end of the one before
  it, and `offset` is the start of the message that is handled next, or `size`.
  `HandlesMessagesInOrder` alone does not tie `offset` to a start. Since starts grow,
  a message is found at its start and nowhere else, whatever its length. For the
  transcript the invariant says what each printed line was made from; that each
  case decodes the type of its label, and that two types have different ids and
  different names, are facts about the tables. `NothingIsSkipped` says how a call may
  end. A whole header is left exactly where a message is (`HeaderIsOfMessage`,
  `BadHeaderAtTheEnd`), since messages have at least a header and what follows the
  last one is shorter: so an exception or the end of the process is put down to the
  message to come, or to the bytes after the last one, and to nothing else.
  `ParserIsPacketDelivery` is the refinement of `PacketDelivery` under a mapping that
  forgets where messages start: that what stands at `offset` is the message to come
  next is what `ParserInv` is needed for.
- `PromiseProofs`: what a program gets by implementing `LogonProtocol` (`StatusIsTrue`)
  or `PacketDelivery` (`DeliveryIsInOrder`). The abstract specifications are not
  weaker than the promises they are named for.

Only model-checked: the liveness properties (`SilenceIsReported`, `LogonFollows`,
`Reconnects`, `ComesUp`). They need `ENABLED` of fair actions, which is out of the
prover's reach. Every other property of a run that passes is the subject of a
theorem. Of the runs that find a violation, the theorems above say how far the
violation reaches.

## Findings

- `join_at_one`: a channel whose first datagram has number 1 takes the branch of
  `gateway/channel.cpp:17`, which does not set `initialized_`. Its first gap is taken
  for a join: the assertion at line 33 fails, or, without assertions, the gap is
  silent. `GapNeverSilent` therefore excludes such channels, and the refinement
  assumes that a channel is joined later.
- `auto_reconnect`: the loop of `gateway/order_entry.cpp:255` tests a buffer that no
  round of it shortens. The first message of an exchange keeps the thread there,
  and no account is reconnected any more.
- `orders_available`: the documentation lists order requests as available, but
  nothing begins the download that makes a session ready.
- `startup_master`: the flag that disables the requirement of a master account is
  looked at only after `create_master_account` has refused a configuration without
  one.

## What is left out

- Decoding, encoding and formatting of fields (generated code, `utils.hpp`,
  `map.cpp`) beyond the names of messages and times and prices that may be null:
  nothing but output depends on the values. Nothing formats the messages of order
  entry.
- Which part of a message a single read of a TCP connection brings: `Gateway.Read`
  admits every outcome, and the loop does not advance in any of them. A decoder
  that throws (`protocol/sbe/parser.cpp:30`) ends the process, or the library
  catches it and nothing has happened.
- How the call of `Parser2` ends inside `MarketData`: an exception leaves the loop
  after the channel has moved on, which is `Recv` followed by `RecvNothing`, and the
  end of the process is that followed by `ReceiverError`. What becomes of the
  messages is the subject of `Parser2` and of none of the properties of
  `MarketData`, whose handlers are empty.
- Message headers that state a length of zero or one beyond the datagram: the
  exchange is taken to state the lengths of what it sends.
- The channels of `MarketDataSnapshot`: its `Read`, `PacketHeader` and `get_channel`
  do what those of `MarketData` do, statement by statement, so they are modelled
  once.
- Digests and nonces of `Crypto`, which have no state.
- Channel ids that share a key: the modules model the width (`KeyWrap`), and a run
  with shared keys is possible, but what such channels do to one another is not
  stated by any property except the assertion of `Channel::operator()`.
- Numbers beyond 32 bits: that the code refuses all of them is proved
  (`OutgrownStreamIsMute`), and no property calls these refusals wrong.
- A flood of datagrams that never pauses: the fairness of `RecvNothing` assumes
  it away.
- A restart whose clock is behind the numbers issued before: nothing in the
  code prevents a number from being used again, and `UniqueAcrossRestarts` is about
  restarts whose clock is past them.
- `stream_id_` is a `uint16_t`; no configuration has that many accounts.
- Metrics, logging, construction of sockets and the library: connection manager,
  rate limiter, dispatcher.
- Symbols, users and rate limits of the configuration, which are stored and
  passed on without a decision; `next_request_id`, `find_instrument` and
  `maybe_create_instrument`, which nothing calls.

## Plan

Done, in this order: `Channel`, `MarketData` with its abstract specification,
`ChannelBook`, `Crypto`, `OrderEntry` with `Gateway`, `Startup`, `Parser2`,
`LogonProtocol`, `PacketDelivery`; the proofs named above.

Next:

1. The two multicast streams side by side in `Gateway`, with their channels, once
   the message handlers do something with snapshots: how a snapshot is joined to
   the increments that follow it is what they will have to get right.
2. The session of `OrderEntry` with its answers, once `send_logon` and the handlers of
   `LogonConf` and `TestRequest` are written: download, readiness, heartbeats and
   the request timeout become reachable then, and `OrdersBecomeAvailable` and
   `NoFatalRequest` change their meaning.
3. The remaining entries of the configuration (symbols, users, rate limits), should
   one of them come to be checked.
4. The safety part of the liveness properties, which the prover can reach: that a
   logon that is due stays due until it is sent or the connection ends, that a timeout
   of a stream stays pending until it is reported or the stream is read, and that each
   step of the construction leaves fewer steps to take. Together with the fairness of
   the timer these are the arguments behind `LogonFollows`, `SilenceIsReported` and
   `ComesUp`.
