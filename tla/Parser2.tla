------------------------------ MODULE Parser2 ------------------------------
(***************************************************************************)
(* How a datagram is cut into messages: Parser2::dispatch of               *)
(* protocol/sbe/parser_2.cpp with PacketHeader::parse of                   *)
(* protocol/sbe/packet_header.hpp, and the handler of dump/controller.cpp, *)
(* which numbers the messages of a packet and prints their fields.         *)
(*                                                                         *)
(* A datagram is what follows its header: the messages the exchange put    *)
(* into it, each taking the message_length its own header states, and      *)
(* perhaps bytes too few for another header.  The decoder of a message is  *)
(* generated code: it takes computeLength bytes after the header of the    *)
(* message, whatever that header states, and throws where the datagram has *)
(* fewer left.  One nullable value stands for the fields of a message.     *)
(***************************************************************************)
EXTENDS Naturals, Sequences

(* The types of the messages of market data: those that have a handler.    *)
Types ==
  {"Instrument", "TradingStatusUpdate", "InstrumentInfo", "InstrumentRef",
   "BidPut", "AskPut", "BidQtyReduced", "AskQtyReduced", "BidDelete", "AskDelete",
   "TradeSummary", "Trade", "BlockTrade", "SnapshotHeader", "SnapshotTrailer",
   "EndOfCycle", "RetransmitRequest", "RetransmitReject"}

CONSTANTS
  TemplateIds,      \* templateId() of a message header
  MessageLengths,   \* messageLength() of a message header
  HeaderLength,     \* length_message_header: MdMessageHeader::encodedLength()
  computeLength,    \* computeLength() of the decoder of each type
  MaxMessages,      \* bound: messages in a datagram
  MaxPackets        \* bound: datagrams

ASSUME LengthsAssumption ==
  /\ TemplateIds \subseteq Nat
  /\ HeaderLength \in Nat \ {0}
  /\ MessageLengths \subseteq {n \in Nat : n >= HeaderLength}
  /\ computeLength \in [Types -> Nat]
ASSUME BoundsAssumption == MaxMessages \in Nat /\ MaxPackets \in Nat

VARIABLES
  messages,   \* the messages of the datagram
  size,       \* their length
  trailing,   \* bytes after them, fewer than a message header has
  packets,    \* datagrams received before
  step,       \* "waiting" for it, "parsing" it, "returned", "thrown" or "fatal"
  accepted,   \* what the handler answered to its packet header
  offset,     \* how much of it the loop has left behind
  handled,    \* the messages passed to the handler
  index,      \* index_ of the dump tool
  printed     \* what is printed of each message of this datagram

vars == <<messages, size, trailing, packets, step, accepted, offset, handled, index, printed>>

(* Price9: both parts of it are there, or one of them is its null value.   *)
Price == {"price", "no price9", "no exponent"}
Priced == {"InstrumentInfo", "InstrumentRef", "BidPut", "AskPut", "TradeSummary", "Trade", "BlockTrade"}

(* creationTime and expiryTime of an instrument, or their null value. *)
Time == {"time", "no time"}

(* Their template ids. *)
SBE_TEMPLATE_ID ==
  [Instrument |-> 10, TradingStatusUpdate |-> 12, InstrumentInfo |-> 13,
   InstrumentRef |-> 14, BidPut |-> 20, AskPut |-> 21, BidQtyReduced |-> 22,
   AskQtyReduced |-> 23, BidDelete |-> 24, AskDelete |-> 25, TradeSummary |-> 30,
   Trade |-> 31, BlockTrade |-> 33, SnapshotHeader |-> 100, SnapshotTrailer |-> 101,
   EndOfCycle |-> 119, RetransmitRequest |-> 200, RetransmitReject |-> 202]

(* get_name of them. *)
get_name ==
  [Instrument |-> "instrument", TradingStatusUpdate |-> "trading_status_update",
   InstrumentInfo |-> "instrument_info", InstrumentRef |-> "instrument_ref",
   BidPut |-> "bid_put", AskPut |-> "ask_put", BidQtyReduced |-> "bid_qty_reduced",
   AskQtyReduced |-> "ask_qty_reduced", BidDelete |-> "bid_delete",
   AskDelete |-> "ask_delete", TradeSummary |-> "trade_summary", Trade |-> "trade",
   BlockTrade |-> "block_trade", SnapshotHeader |-> "snapshot_header",
   SnapshotTrailer |-> "snapshot_trailer", EndOfCycle |-> "end_of_cycle",
   RetransmitRequest |-> "retransmit_request", RetransmitReject |-> "retransmit_reject"]

(* What the nullable field of a message may hold. *)
Nullable(template_id) ==
  CASE template_id = SBE_TEMPLATE_ID["Instrument"] -> Time
    [] template_id \in {SBE_TEMPLATE_ID[type] : type \in Priced} -> Price
    [] OTHER -> {"none"}

Header ==
  {header \in [template_id : TemplateIds, message_length : MessageLengths,
               value : Time \cup Price \cup {"none"}] :
     header.value \in Nullable(header.template_id)}

(* start tells where in the datagram the exchange put the message. *)
Message == [start : Nat, header : Header]

Init ==
  /\ messages = <<>>
  /\ size = 0
  /\ trailing = 0
  /\ packets = 0
  /\ step = "waiting"
  /\ accepted = FALSE
  /\ offset = 0
  /\ handled = <<>>
  /\ index = 0
  /\ printed = <<>>

(* A message as the handler is given it. *)
Handled(o, header) == [start |-> o, header |-> header]

(* The exchange adds a message to the datagram. *)
Compose(header) ==
  /\ step = "waiting"
  /\ trailing = 0
  /\ Len(messages) < MaxMessages
  /\ messages' = Append(messages, [start |-> size, header |-> header])
  /\ size' = size + header.message_length
  /\ UNCHANGED <<trailing, packets, step, accepted, offset, handled, index, printed>>

(* The datagram ends with bytes that belong to no message. *)
Pad(n) ==
  /\ step = "waiting"
  /\ trailing = 0
  /\ trailing' = n
  /\ UNCHANGED <<messages, size, packets, step, accepted, offset, handled, index, printed>>

(* PacketHeader::parse, and the handler's answer to the packet header: the *)
(* dump tool restarts its index; the gateway may refuse the datagram.      *)
(* Slips: the answer is ignored; the index is kept, or one too low.        *)
StepIgnoring(answer) == "parsing"
StepAfter(answer) == IF answer THEN "parsing" ELSE "returned"

KeptIndex == index
MinusOneIndex == 0 - 1
FirstIndex == 0

PacketHeader(answer) ==
  /\ step = "waiting"
  /\ accepted' = answer
  /\ index' = FirstIndex
  /\ step' = StepAfter(answer)
  /\ UNCHANGED <<messages, size, trailing, packets, offset, handled, printed>>

(* The call ends, and leaves all else as it is. *)
EndsAs(outcome) ==
  /\ step' = outcome
  /\ UNCHANGED <<messages, size, trailing, packets, accepted, offset, handled, index, printed>>

(* parse_helper: a datagram too short for a packet header, and so for any  *)
(* message, ends the process.                                              *)
Invalid ==
  /\ step = "waiting"
  /\ messages = <<>> /\ trailing = 0
  /\ EndsAs("fatal")

(* The loop's packet: what is left of the datagram. *)
Rest == size + trailing - offset

(* What the loop takes for a message header: one, where a message starts,  *)
(* and any bytes elsewhere.                                                *)
HeadersAt(o) ==
  LET here == {i \in DOMAIN messages : messages[i].start = o} IN
  IF here # {} THEN {messages[i].header : i \in here} ELSE Header

(* The switch: the type whose id each case is labelled with, and the type  *)
(* it decodes; none in the default (a slip: a case copied from another).   *)
Switch ==
  [Instrument |-> "Instrument", TradingStatusUpdate |-> "TradingStatusUpdate",
   InstrumentInfo |-> "InstrumentInfo", InstrumentRef |-> "InstrumentRef",
   BidPut |-> "BidPut", AskPut |-> "AskPut", BidQtyReduced |-> "BidQtyReduced",
   AskQtyReduced |-> "AskQtyReduced", BidDelete |-> "BidDelete",
   AskDelete |-> "AskDelete", TradeSummary |-> "TradeSummary", Trade |-> "Trade",
   BlockTrade |-> "BlockTrade", SnapshotHeader |-> "SnapshotHeader",
   SnapshotTrailer |-> "SnapshotTrailer", EndOfCycle |-> "EndOfCycle",
   RetransmitRequest |-> "RetransmitRequest", RetransmitReject |-> "RetransmitReject"]

DecodedAsBid(template_id) ==
  {IF label = "AskPut" THEN "BidPut" ELSE Switch[label] :
     label \in {l \in DOMAIN Switch : SBE_TEMPLATE_ID[l] = template_id}}
DecodedAs(template_id) ==
  {Switch[label] : label \in {l \in DOMAIN Switch : SBE_TEMPLATE_ID[l] = template_id}}

compute_length(type) == computeLength[type]

(* Header and decoder are given the rest of the datagram, with its length  *)
(* (a slip: a message may not end where the datagram does).                *)
HasHeader == HeaderLength <= Rest

FitsInside(type) == HeaderLength + compute_length(type) < Rest
Fits(type) == HeaderLength + compute_length(type) <= Rest

AdvanceDecoded(header, type) == HeaderLength + compute_length(type)    \* a slip: bytes
Advance(header, type) == header.message_length

(* What the decoder reads: the value of the message, if the message is as  *)
(* long as the decoder takes it to be, and else perhaps that of the bytes  *)
(* that follow it.                                                         *)
ValuesRead(header, type) ==
  IF HeaderLength + compute_length(type) <= header.message_length
  THEN {header.value}
  ELSE Nullable(SBE_TEMPLATE_ID[type])

(* roq::map of a time and of a Price9 (a slip: any exponent will do). *)
MapTime(time) == IF time = "no time" THEN "0" ELSE "time"

MapPrice9Only(price) == IF price = "no price9" THEN "NaN" ELSE "price"
MapPrice(price) == IF price \in {"no price9", "no exponent"} THEN "NaN" ELSE "price"

(* The formatters of the types. *)
MapValue(type, value) ==
  CASE type = "Instrument" -> MapTime(value)
    [] type \in Priced -> MapPrice(value)
    [] OTHER -> "none"

PrintedMessage(type, value) ==
  [index |-> index, name |-> get_name[type], value |-> MapValue(type, value)]

(* The handlers of the dump tool, one for each type: all print. *)
HandleMessage(type, value) ==
  /\ printed' = Append(printed, PrintedMessage(type, value))
  /\ index' = index + 1

(* One round of the loop: what stands at offset is decoded as type. *)
Dispatch(header, type, value) ==
  /\ step = "parsing"
  /\ HasHeader
  /\ Fits(type)
  /\ handled' = Append(handled, Handled(offset, header))
  /\ HandleMessage(type, value)
  /\ offset' = offset + Advance(header, type)
  /\ UNCHANGED <<messages, size, trailing, packets, step, accepted>>

(* The decoder's constructor throws: the handler is not called. *)
Throw(type) ==
  /\ step = "parsing"
  /\ HasHeader
  /\ ~Fits(type)
  /\ EndsAs("thrown")

(* The default of the switch: log::fatal. *)
Unexpected(header) ==
  /\ step = "parsing"
  /\ HasHeader
  /\ DecodedAs(header.template_id) = {}
  /\ EndsAs("fatal")

(* Fewer bytes than a message header: the assertion ends the process, and  *)
(* in a build without assertions the decoder of the header throws.         *)
BadHeader ==
  /\ step = "parsing"
  /\ 0 < Rest
  /\ ~HasHeader
  /\ \E outcome \in {"fatal", "thrown"} : EndsAs(outcome)

Return ==
  /\ step = "parsing"
  /\ ~(0 < Rest)
  /\ EndsAs("returned")

(* The next datagram, if there is a process that goes on: what becomes of  *)
(* an exception is up to the caller.  index_ waits for the packet header.  *)
NextPacket ==
  /\ step \in {"returned", "thrown"}
  /\ packets < MaxPackets
  /\ packets' = packets + 1
  /\ messages' = <<>>
  /\ size' = 0
  /\ trailing' = 0
  /\ step' = "waiting"
  /\ accepted' = FALSE
  /\ offset' = 0
  /\ handled' = <<>>
  /\ printed' = <<>>
  /\ UNCHANGED index

Next ==
  \/ \E header \in Header : Compose(header)
  \/ \E n \in 1 .. HeaderLength - 1 : Pad(n)
  \/ \E answer \in BOOLEAN : PacketHeader(answer)
  \/ Invalid
  \/ \E header \in HeadersAt(offset) :
       \/ \E type \in DecodedAs(header.template_id) :
            \/ \E value \in ValuesRead(header, type) : Dispatch(header, type, value)
            \/ Throw(type)
       \/ Unexpected(header)
  \/ BadHeader
  \/ Return
  \/ NextPacket

Spec == Init /\ [][Next]_vars

-----------------------------------------------------------------------------
Printed == [index : Nat, name : {get_name[type] : type \in DOMAIN get_name},
            value : {"time", "0", "price", "NaN", "none"}]

(* The type invariant: every variable stays within the states of the code. *)
TypeOK ==
  /\ messages \in Seq(Message)
  /\ size \in Nat
  /\ trailing \in Nat
  /\ packets \in Nat
  /\ step \in {"waiting", "parsing", "returned", "thrown", "fatal"}
  /\ accepted \in BOOLEAN
  /\ offset \in Nat
  /\ handled \in Seq(Message)
  /\ index \in Nat
  /\ printed \in Seq(Printed)

(* The handler is given the messages of the datagram, from the first one,  *)
(* each once, in their order and whole, whatever lengths the decoders      *)
(* take; the loop never leaves the datagram, so it takes at most one round *)
(* for each message (packet.subspan(message_length) of                     *)
(* Parser2::dispatch).                                                     *)
HandlesMessagesInOrder ==
  /\ Len(handled) <= Len(messages)
  /\ \A i \in DOMAIN handled : handled[i] = messages[i]
  /\ offset <= size

(* A call ends in four ways, and no message is lost in another.  It        *)
(* returns: all messages of an accepted datagram have been handled, and    *)
(* nothing else is in it, or none of a refused one.  It throws: in an      *)
(* accepted datagram, at a message of a known type whose decoder needs     *)
(* more than the datagram has left, the messages before it handled, or at  *)
(* bytes after the last message.  It ends the process: at such bytes, at a *)
(* message that no case of the switch knows, or for want of a packet       *)
(* header.  A message that reaches its decoder's length is always handled  *)
(* (the test of the header handler, the assertion, the decoders' bounds    *)
(* and the switch of Parser2::dispatch; parse_helper).                     *)
AllOrNothing ==
  LET all == Len(handled) = Len(messages)
      next == messages[Len(handled) + 1]
  IN
  /\ step = "returned" => IF accepted THEN all /\ trailing = 0 ELSE handled = <<>>
  /\ step = "thrown" =>
       /\ accepted
       /\ \/ all /\ trailing > 0
          \/ ~all /\ \E type \in DecodedAs(next.header.template_id) :
                next.start + HeaderLength + compute_length(type) > size + trailing
  /\ step = "fatal" =>
       \/ messages = <<>> /\ trailing = 0
       \/ accepted /\ all /\ trailing > 0
       \/ accepted /\ ~all /\ DecodedAs(next.header.template_id) = {}

(* The transcript of a packet can be trusted, whatever became of the       *)
(* packets before, and whatever lengths the decoders take: its lines are   *)
(* the messages of the packet by position; two lines bear one name only if *)
(* the exchange sent messages of one type; and a line shows a time or a    *)
(* price exactly if the exchange sent one, with both its parts, in every   *)
(* message that is as long as its decoder takes it to be, whatever stands  *)
(* beside it (index_ and print of dump/controller.cpp, get_name and the    *)
(* formatters of protocol/sbe/utils.hpp, roq::map of protocol/sbe/map.cpp).*)
TranscriptIsFaithful ==
  /\ Len(printed) = Len(handled)
  /\ \A i \in DOMAIN printed :
       LET header == messages[i].header IN
       /\ printed[i].index = i - 1
       /\ (\A type \in DecodedAs(header.template_id) :
              HeaderLength + compute_length(type) <= header.message_length) =>
            \A v \in {"time", "price"} : printed[i].value = v <=> header.value = v
       /\ \A j \in DOMAIN printed :
            printed[i].name = printed[j].name =>
              header.template_id = messages[j].header.template_id

(* Cutting datagrams delivers packets: whatever lengths the decoders take  *)
(* and whatever follows a message, each step hands over the message that   *)
(* is to come, or none (Parser2::dispatch, PacketHeader::parse).           *)
Headers(s) == [i \in DOMAIN s |-> s[i].header]

Delivery == INSTANCE PacketDelivery WITH
  Messages <- Header,
  Known <- {header \in Header : DecodedAs(header.template_id) # {}},
  sent <- Headers(messages),
  delivered <- Headers(handled),
  outcome <- IF step = "returned" /\ ~accepted THEN "refused" ELSE step

IsPacketDelivery == Delivery!Spec

=============================================================================
