--------------------------- MODULE Parser2Proofs ---------------------------
(***************************************************************************)
(* That datagrams are cut where the exchange put its messages, and that    *)
(* the transcript of the dump tool tells what it sent, for any lengths and *)
(* any number of messages and packets.                                     *)
(***************************************************************************)
EXTENDS Parser2, SequenceTheorems, TLAPS

-----------------------------------------------------------------------------
(***************************************************************************)
(* The invariant: each message starts where the one before it ends, so the *)
(* offset, which is the start of the message to come, is that of no other. *)
(***************************************************************************)
StartOf(s, n, i) == IF i <= Len(s) THEN s[i].start ELSE n

ComposedInv ==
  /\ trailing < HeaderLength
  /\ StartOf(messages, size, 1) = 0
  /\ \A i \in 1 .. Len(messages) :
       StartOf(messages, size, i + 1) = StartOf(messages, size, i) + messages[i].header.message_length
  /\ \A i, j \in 1 .. Len(messages) + 1 : i < j => StartOf(messages, size, i) < StartOf(messages, size, j)

HandledInv ==
  /\ Len(handled) <= Len(messages)
  /\ \A i \in 1 .. Len(handled) : handled[i] = messages[i]
  /\ offset = StartOf(messages, size, Len(handled) + 1)

StepInv ==
  /\ step = "waiting" => handled = <<>> /\ printed = <<>>
  /\ step \in {"parsing", "returned"} =>
       index = Len(handled) \/ (~accepted /\ handled = <<>>)
  /\ step = "parsing" => accepted
  /\ AllOrNothing

(* A line of the transcript tells what a message is. *)
Tells(line, message, i) ==
  /\ line.index = i - 1
  /\ line.name \in {get_name[type] : type \in DecodedAs(message.header.template_id)}
  /\ (\A type \in DecodedAs(message.header.template_id) :
         HeaderLength + compute_length(type) <= message.header.message_length) =>
       \A v \in {"time", "price"} : line.value = v <=> message.header.value = v

PrintedInv ==
  /\ Len(printed) = Len(handled)
  /\ \A i \in 1 .. Len(printed) : Tells(printed[i], messages[i], i)

ParserInv == TypeOK /\ ComposedInv /\ HandledInv /\ StepInv /\ PrintedInv

-----------------------------------------------------------------------------
(* No two types have one name (get_name). *)
LEMMA NamesDiffer ==
  \A s, t \in DOMAIN get_name : get_name[s] = get_name[t] => s = t
BY DEF get_name

(* Types with a handler have an id, a case and a name. *)
LEMMA TypesHaveNames ==
  DOMAIN get_name = Types /\ DOMAIN SBE_TEMPLATE_ID = Types /\ DOMAIN Switch = Types
BY DEF get_name, SBE_TEMPLATE_ID, Switch, Types

(* Each case decodes the type it is labelled with. *)
LEMMA SwitchDecodes == \A type \in Types : Switch[type] = type
BY DEF Switch, Types

(* A message is decoded as the type of its id. *)
LEMMA DecodedType ==
  ASSUME NEW id, NEW type \in DecodedAs(id)
  PROVE  type \in Types /\ SBE_TEMPLATE_ID[type] = id
BY TypesHaveNames, SwitchDecodes DEF DecodedAs

(* Decoders take a number of bytes. *)
LEMMA Lengths ==
  /\ HeaderLength \in Nat \ {0}
  /\ \A type \in Types : compute_length(type) \in Nat
BY LengthsAssumption DEF compute_length

(* The fields of a message header. *)
LEMMA HeaderFields ==
  ASSUME NEW header \in Header
  PROVE  /\ header.message_length \in Nat \ {0}
         /\ header.message_length >= HeaderLength
         /\ header.value \in Nullable(header.template_id)
<1>1. /\ header \in [template_id : TemplateIds, message_length : MessageLengths,
                     value : Time \cup Price \cup {"none"}]
      /\ header.value \in Nullable(header.template_id)
  BY DEF Header
<1>2. header.message_length \in MessageLengths
  BY <1>1
<1>3. MessageLengths \subseteq {n \in Nat : n >= HeaderLength} /\ HeaderLength \in Nat \ {0}
  BY LengthsAssumption
<1>4. header.message_length \in Nat /\ header.message_length >= HeaderLength
  BY <1>2, <1>3
<1> QED
  BY <1>1, <1>3, <1>4

-----------------------------------------------------------------------------
(* What the invariant says of sequences, in terms of the indices.          *)
LEMMA Indices ==
  ASSUME ParserInv
  PROVE  /\ messages \in Seq(Message) /\ Len(messages) \in Nat
         /\ handled \in Seq(Message) /\ Len(handled) \in Nat
         /\ printed \in Seq(Printed) /\ Len(printed) = Len(handled)
         /\ size \in Nat /\ trailing \in Nat /\ offset \in Nat /\ index \in Nat
         /\ Len(handled) <= Len(messages)
         /\ \A i \in 1 .. Len(messages) :
              /\ messages[i] \in Message
              /\ messages[i].start \in Nat
              /\ messages[i].header \in Header
              /\ messages[i].header.message_length \in Nat \ {0}
<1>1. /\ messages \in Seq(Message) /\ handled \in Seq(Message) /\ printed \in Seq(Printed)
      /\ size \in Nat /\ trailing \in Nat /\ offset \in Nat /\ index \in Nat
  BY DEF ParserInv, TypeOK
<1>2. Len(messages) \in Nat /\ Len(handled) \in Nat
  BY <1>1
<1>3. Len(handled) <= Len(messages) /\ Len(printed) = Len(handled)
  BY DEF ParserInv, HandledInv, PrintedInv
<1>4. ASSUME NEW i \in 1 .. Len(messages)
      PROVE  messages[i] \in Message
  BY <1>1
<1>5. ASSUME NEW m \in Message
      PROVE  m.start \in Nat /\ m.header \in Header
                /\ m.header.message_length \in Nat \ {0}
  BY HeaderFields DEF Message
<1> QED
  BY <1>1, <1>2, <1>3, <1>4, <1>5

(* The loop is at the end of the messages exactly if all are handled.      *)
LEMMA AtTheEnd ==
  ASSUME ParserInv
  PROVE  offset <= size /\ (offset = size <=> Len(handled) = Len(messages))
<1>1. offset = StartOf(messages, size, Len(handled) + 1)
  BY DEF ParserInv, HandledInv
<1>2. StartOf(messages, size, Len(messages) + 1) = size
  BY Indices DEF StartOf
<1>3. /\ Len(handled) + 1 \in 1 .. Len(messages) + 1
      /\ Len(messages) + 1 \in 1 .. Len(messages) + 1
      /\ Len(handled) = Len(messages) \/ Len(handled) + 1 < Len(messages) + 1
  BY Indices
<1>4. \A i, j \in 1 .. Len(messages) + 1 :
        i < j => StartOf(messages, size, i) < StartOf(messages, size, j)
  BY DEF ParserInv, ComposedInv
<1>5. \/ Len(handled) = Len(messages) /\ offset = size
      \/ Len(handled) # Len(messages) /\ offset < size
  BY <1>1, <1>2, <1>3, <1>4, Indices
<1> QED
  BY <1>5, Indices

(* Where a whole header is left, a message is: fewer bytes follow the last. *)
LEMMA HeaderIsOfMessage == ASSUME ParserInv, HasHeader PROVE offset < size
<1>1. trailing < HeaderLength /\ HeaderLength \in Nat
  BY Lengths DEF ParserInv, ComposedInv
<1> QED
  BY <1>1, AtTheEnd, Indices DEF HasHeader, Rest

(* What stands at the offset is the header of the message to come.         *)
LEMMA HeaderHere ==
  ASSUME ParserInv, HasHeader, NEW header \in HeadersAt(offset)
  PROVE  /\ Len(handled) + 1 \in 1 .. Len(messages)
         /\ messages[Len(handled) + 1].header = header
         /\ messages[Len(handled) + 1].start = offset
<1> DEFINE k == Len(handled) + 1
<1>1. k \in Nat /\ k \in 1 .. Len(messages) + 1 /\ Len(messages) \in Nat
      /\ size \in Nat /\ offset \in Nat
  BY Indices
<1>2. offset = StartOf(messages, size, k)
  BY DEF ParserInv, HandledInv
<1>3. k \in 1 .. Len(messages)
  BY <1>1, <1>2, HeaderIsOfMessage DEF StartOf
<1>4. messages[k].start = offset
  BY <1>2, <1>3 DEF StartOf
<1>5. DOMAIN messages = 1 .. Len(messages)
  BY Indices
<1>6. ASSUME NEW i \in DOMAIN messages, messages[i].start = offset
      PROVE  i = k
  <2>1. i \in 1 .. Len(messages) /\ StartOf(messages, size, i) = StartOf(messages, size, k)
    BY <1>2, <1>5, <1>6 DEF StartOf
  <2>2. StartOf(messages, size, i) \in Nat
    BY <1>1, <1>2, <2>1
  <2>3. \A j, l \in 1 .. Len(messages) + 1 :
          j < l => StartOf(messages, size, j) < StartOf(messages, size, l)
    BY DEF ParserInv, ComposedInv
  <2>4. i \in 1 .. Len(messages) + 1 /\ i \in Nat
    BY <1>1, <2>1
  <2> HIDE DEF k
  <2>5. ~(i < k) /\ ~(k < i)
    BY <1>1, <2>1, <2>2, <2>3, <2>4
  <2> QED
    BY <1>1, <2>4, <2>5
<1>7. header \in {messages[i].header : i \in {i \in DOMAIN messages : messages[i].start = offset}}
  BY <1>3, <1>4, <1>5 DEF HeadersAt
<1> QED
  BY <1>3, <1>4, <1>6, <1>7

(* The invariant holds at first. *)
LEMMA ParserInit == Init => ParserInv
<1> SUFFICES ASSUME Init PROVE ParserInv
  OBVIOUS
<1>1. Len(messages) = 0 /\ Len(handled) = 0 /\ Len(printed) = 0
  BY DEF Init
<1>2. TypeOK
  <2>1. messages \in Seq(Message) /\ handled \in Seq(Message) /\ printed \in Seq(Printed)
    BY DEF Init
  <2> QED
    BY <2>1 DEF Init, TypeOK
<1>3. ComposedInv
  BY <1>1, Lengths DEF Init, ComposedInv, StartOf
<1>4. HandledInv
  BY <1>1 DEF Init, HandledInv, StartOf
<1>5. StepInv /\ PrintedInv
  BY <1>1 DEF Init, StepInv, PrintedInv, AllOrNothing
<1> QED
  BY <1>2, <1>3, <1>4, <1>5 DEF ParserInv

(* A message that the exchange adds starts where the datagram ended.       *)
LEMMA ComposeInv ==
  ASSUME ParserInv, NEW header \in Header, Compose(header)
  PROVE  ParserInv'
<1> DEFINE n == Len(messages)
           m == [start |-> size, header |-> header]
<1>0. header.message_length \in Nat \ {0}
  BY HeaderFields
<1>a. trailing' = trailing /\ trailing < HeaderLength
  BY DEF Compose, ParserInv, ComposedInv
<1>1. /\ n \in Nat
      /\ size \in Nat
      /\ messages' = Append(messages, m)
      /\ size' = size + header.message_length
      /\ m \in Message
  BY Indices DEF Compose, Message
<1>2. /\ messages' \in Seq(Message)
      /\ Len(messages') = n + 1
      /\ \A i \in 1 .. n : messages'[i] = messages[i]
      /\ messages'[n + 1] = m
  BY <1>1, Indices
<1>3. \A i \in 1 .. n + 1 : StartOf(messages', size', i) = StartOf(messages, size, i)
  <2>1. \A i \in 1 .. n : StartOf(messages', size', i) = StartOf(messages, size, i)
    BY <1>1, <1>2 DEF StartOf
  <2>2. StartOf(messages', size', n + 1) = size /\ StartOf(messages, size, n + 1) = size
    BY <1>1, <1>2 DEF StartOf
  <2> QED
    BY <1>1, <2>1, <2>2
<1>4. StartOf(messages', size', n + 2) = size + header.message_length /\ StartOf(messages, size, n + 1) = size
  BY <1>1, <1>2 DEF StartOf
<1>5. \A i \in 1 .. n + 1 : StartOf(messages, size, i) \in Nat
  BY <1>1, Indices DEF StartOf
<1>6. ComposedInv'
  <2>1. StartOf(messages', size', 1) = 0
    BY <1>1, <1>3 DEF ParserInv, ComposedInv
  <2>2. ASSUME NEW i \in 1 .. n + 1
        PROVE  StartOf(messages', size', i + 1) = StartOf(messages', size', i) + messages'[i].header.message_length
    <3>1. CASE i \in 1 .. n
      BY <1>1, <1>2, <1>3, <3>1 DEF ParserInv, ComposedInv
    <3>2. CASE i = n + 1
      BY <1>1, <1>2, <1>3, <1>4, <3>2
    <3> QED
      BY <1>1, <3>1, <3>2
  <2>3. ASSUME NEW i \in 1 .. n + 2, NEW j \in 1 .. n + 2, i < j
        PROVE  StartOf(messages', size', i) < StartOf(messages', size', j)
    <3>1. CASE j \in 1 .. n + 1
      BY <1>1, <1>3, <2>3, <3>1 DEF ParserInv, ComposedInv
    <3>2. CASE j = n + 2
      <4>1. i \in 1 .. n + 1 /\ (i = n + 1 \/ i < n + 1)
        BY <1>1, <2>3, <3>2
      <4>2. StartOf(messages, size, i) <= StartOf(messages, size, n + 1)
        BY <1>1, <1>5, <4>1 DEF ParserInv, ComposedInv
      <4> QED
        BY <1>0, <1>1, <1>3, <1>4, <1>5, <3>2, <4>1, <4>2
    <3> QED
      BY <1>1, <3>1, <3>2
  <2> QED
    BY <1>a, <1>1, <1>2, <2>1, <2>2, <2>3 DEF ComposedInv
<1>7. handled = <<>> /\ printed = <<>> /\ step = "waiting"
  BY DEF Compose, ParserInv, StepInv
<1>8. HandledInv'
  <2>1. handled' = <<>> /\ Len(handled') = 0 /\ offset' = offset
    BY <1>7 DEF Compose
  <2>2. offset = StartOf(messages, size, 1)
    BY <1>7 DEF ParserInv, HandledInv
  <2> QED
    BY <1>1, <1>2, <1>3, <2>1, <2>2 DEF HandledInv
<1>9. StepInv' /\ PrintedInv'
  BY <1>7 DEF Compose, StepInv, PrintedInv, AllOrNothing
<1>10. TypeOK'
  BY <1>0, <1>1, <1>2 DEF Compose, ParserInv, TypeOK
<1> QED
  BY <1>6, <1>8, <1>9, <1>10 DEF ParserInv

(* A step of the call leaves the datagram and what was handled of it as    *)
(* they are.                                                               *)
LEMMA SameDatagram ==
  ASSUME ParserInv, UNCHANGED <<messages, size, trailing, offset, handled, printed>>
  PROVE  ComposedInv' /\ HandledInv' /\ PrintedInv'
BY DEF ParserInv, ComposedInv, HandledInv, PrintedInv

(* A call ends in one of its ways.                                         *)
LEMMA EndInv ==
  ASSUME ParserInv, NEW outcome \in {"returned", "thrown", "fatal"}, EndsAs(outcome),
         outcome = "returned" =>
           accepted /\ index = Len(handled) /\ Len(handled) = Len(messages) /\ trailing = 0,
         outcome = "thrown" =>
           /\ accepted
           /\ \/ Len(handled) = Len(messages) /\ trailing > 0
              \/ /\ Len(handled) # Len(messages)
                 /\ \E type \in DecodedAs(messages[Len(handled) + 1].header.template_id) :
                      messages[Len(handled) + 1].start + HeaderLength + compute_length(type)
                        > size + trailing,
         outcome = "fatal" =>
           \/ messages = <<>> /\ trailing = 0
           \/ accepted /\ Len(handled) = Len(messages) /\ trailing > 0
           \/ /\ accepted /\ Len(handled) # Len(messages)
              /\ DecodedAs(messages[Len(handled) + 1].header.template_id) = {}
  PROVE  ParserInv'
<1>1. StepInv'
  BY DEF EndsAs, StepInv, AllOrNothing
<1>2. TypeOK'
  BY DEF EndsAs, ParserInv, TypeOK
<1> QED
  BY <1>1, <1>2, SameDatagram DEF EndsAs, ParserInv

(* Bytes after the last message belong to none.                            *)
LEMMA PadInv ==
  ASSUME ParserInv, NEW n \in 1 .. HeaderLength - 1, Pad(n)
  PROVE  ParserInv'
<1>1. n \in Nat /\ n < HeaderLength
  BY Lengths
<1>2. ComposedInv' /\ HandledInv' /\ PrintedInv'
  BY <1>1 DEF Pad, ParserInv, ComposedInv, HandledInv, PrintedInv
<1>3. StepInv'
  BY DEF Pad, ParserInv, StepInv, AllOrNothing
<1>4. TypeOK'
  BY <1>1 DEF Pad, ParserInv, TypeOK
<1> QED
  BY <1>2, <1>3, <1>4 DEF ParserInv

(* The handler of the packet header restarts the index.                    *)
LEMMA PacketHeaderInv ==
  ASSUME ParserInv, NEW answer \in BOOLEAN, PacketHeader(answer)
  PROVE  ParserInv'
<1>1. handled = <<>> /\ printed = <<>> /\ Len(handled) = 0
  BY DEF PacketHeader, ParserInv, StepInv
<1>2. StepInv'
  BY <1>1 DEF PacketHeader, StepInv, StepAfter, FirstIndex, AllOrNothing
<1>3. TypeOK'
  BY DEF PacketHeader, StepAfter, FirstIndex, ParserInv, TypeOK
<1> QED
  BY <1>2, <1>3, SameDatagram DEF PacketHeader, ParserInv

(* A value has the form of its type when it is printed.                    *)
LEMMA ValuePrinted ==
  ASSUME NEW type \in Types, NEW value \in Nullable(SBE_TEMPLATE_ID[type])
  PROVE  /\ MapValue(type, value) \in {"time", "0", "price", "NaN", "none"}
         /\ \A v \in {"time", "price"} : MapValue(type, value) = v <=> value = v
<1>1. CASE type = "Instrument"
  <2>1. /\ SBE_TEMPLATE_ID["Instrument"] \notin {SBE_TEMPLATE_ID[t] : t \in Priced}
        /\ "Instrument" \notin Priced
    BY DEF SBE_TEMPLATE_ID, Priced
  <2>2. value \in Time
    BY <1>1, <2>1 DEF Nullable
  <2>3. MapValue(type, value) = MapTime(value)
    BY <1>1, <2>1 DEF MapValue
  <2> QED
    BY <2>2, <2>3 DEF MapTime, Time
<1>2. CASE type \in Priced
  <2>1. /\ SBE_TEMPLATE_ID[type] \in {SBE_TEMPLATE_ID[t] : t \in Priced}
        /\ SBE_TEMPLATE_ID[type] # SBE_TEMPLATE_ID["Instrument"]
        /\ type # "Instrument"
    BY <1>2 DEF SBE_TEMPLATE_ID, Priced
  <2>2. value \in Price
    BY <2>1 DEF Nullable
  <2>3. MapValue(type, value) = MapPrice(value)
    BY <1>2, <2>1 DEF MapValue
  <2> QED
    BY <2>2, <2>3 DEF MapPrice, Price
<1>3. CASE type # "Instrument" /\ type \notin Priced
  <2>1. \A s, t \in Types : SBE_TEMPLATE_ID[s] = SBE_TEMPLATE_ID[t] => s = t
    BY DEF SBE_TEMPLATE_ID, Types
  <2>2. "Instrument" \in Types /\ Priced \subseteq Types
    BY DEF Types, Priced
  <2>3. value = "none"
    BY <1>3, <2>1, <2>2 DEF Nullable
  <2>4. MapValue(type, value) = "none"
    BY <1>3 DEF MapValue
  <2> QED
    BY <2>3, <2>4
<1> QED
  BY <1>1, <1>2, <1>3

(* The value of a message that is all there is the one that is printed.    *)
LEMMA ValueTold ==
  ASSUME NEW header \in Header, NEW type \in DecodedAs(header.template_id),
         NEW value \in ValuesRead(header, type)
  PROVE  /\ MapValue(type, value) \in {"time", "0", "price", "NaN", "none"}
         /\ HeaderLength + compute_length(type) <= header.message_length =>
              \A v \in {"time", "price"} : MapValue(type, value) = v <=> header.value = v
<1>1. type \in Types /\ SBE_TEMPLATE_ID[type] = header.template_id
  BY DecodedType
<1>2. header.value \in Nullable(header.template_id)
  BY HeaderFields
<1>3. value \in Nullable(SBE_TEMPLATE_ID[type])
  BY <1>1, <1>2 DEF ValuesRead
<1>4. HeaderLength + compute_length(type) <= header.message_length => value = header.value
  BY DEF ValuesRead
<1> QED
  BY <1>1, <1>3, <1>4, ValuePrinted

(* A round of the loop handles the message to come and prints its line.    *)
LEMMA DispatchInv ==
  ASSUME ParserInv, NEW header \in HeadersAt(offset),
         NEW type \in DecodedAs(header.template_id), NEW value \in ValuesRead(header, type),
         Dispatch(header, type, value)
  PROVE  ParserInv'
<1> DEFINE k == Len(handled)
           m == messages[k + 1]
           line == PrintedMessage(type, value)
<1>1. /\ k \in Nat
      /\ k + 1 \in 1 .. Len(messages)
      /\ m \in Message
      /\ m.header = header
      /\ m.start = offset
      /\ header \in Header
      /\ header.message_length \in Nat \ {0}
      /\ Len(messages) \in Nat
  BY HeaderHere, Indices DEF Dispatch
<1>2. m = [start |-> offset, header |-> header]
  BY <1>1 DEF Message
<1>3. step = "parsing" /\ step' = "parsing" /\ accepted /\ index = k /\ accepted' = accepted
  BY DEF Dispatch, ParserInv, StepInv
<1>4. /\ handled' = Append(handled, m)
      /\ Len(handled') = k + 1
      /\ \A i \in 1 .. k : handled'[i] = handled[i]
      /\ handled'[k + 1] = m
      /\ handled' \in Seq(Message)
  BY <1>1, <1>2, Indices DEF Dispatch, Handled
<1>5. line \in Printed /\ Tells(line, m, k + 1)
  <2>1. /\ line.index = index
        /\ line.name = get_name[type]
        /\ line.value = MapValue(type, value)
    BY DEF PrintedMessage
  <2>2. type \in DOMAIN get_name
    BY TypesHaveNames, DecodedType
  <2>3. index \in Nat
    BY Indices
  <2>4. line \in Printed
    BY <1>1, <2>2, <2>3, ValueTold DEF PrintedMessage, Printed
  <2>5. Tells(line, m, k + 1)
    BY <1>1, <1>3, <2>1, ValueTold DEF Tells
  <2> QED
    BY <2>4, <2>5
<1>6. /\ Len(printed') = k + 1
      /\ \A i \in 1 .. k : printed'[i] = printed[i]
      /\ printed'[k + 1] = line
      /\ printed' \in Seq(Printed)
  BY <1>5, Indices DEF Dispatch, HandleMessage
<1>7. messages' = messages /\ size' = size /\ trailing' = trailing /\ index' = k + 1
      /\ offset' = offset + header.message_length
  BY <1>3 DEF Dispatch, HandleMessage, Advance
<1>8. StartOf(messages, size, k + 2) = offset + header.message_length
  <2>1. StartOf(messages, size, k + 1) = offset
    BY DEF ParserInv, HandledInv
  <2> QED
    BY <1>1, <2>1 DEF ParserInv, ComposedInv
<1>9. HandledInv'
  <2>1. \A i \in 1 .. k + 1 : handled'[i] = messages[i]
    BY <1>1, <1>4 DEF ParserInv, HandledInv
  <2> QED
    BY <1>1, <1>4, <1>7, <1>8, <2>1 DEF HandledInv
<1>10. PrintedInv'
  <2>1. \A i \in 1 .. k : Tells(printed[i], messages[i], i)
    BY DEF ParserInv, PrintedInv
  <2>2. \A i \in 1 .. k + 1 : Tells(printed'[i], messages[i], i)
    BY <1>1, <1>5, <1>6, <2>1
  <2> QED
    BY <1>1, <1>4, <1>6, <1>7, <2>2 DEF PrintedInv
<1>11. StepInv'
  BY <1>3, <1>4, <1>7 DEF StepInv, AllOrNothing
<1>12. ComposedInv'
  BY <1>7 DEF ParserInv, ComposedInv
<1>13. TypeOK'
  <2>1. offset' \in Nat /\ index' \in Nat
    BY <1>1, <1>7, Indices
  <2> QED
    BY <1>3, <1>4, <1>6, <1>7, <2>1 DEF Dispatch, ParserInv, TypeOK
<1> QED
  BY <1>9, <1>10, <1>11, <1>12, <1>13 DEF ParserInv

(* The loop returns when all messages are handled and nothing follows them. *)
LEMMA ReturnInv == ASSUME ParserInv, Return PROVE ParserInv'
<1>1. offset = size /\ trailing = 0
  BY AtTheEnd, Indices DEF Return, Rest
<1>2. Len(handled) = Len(messages)
  BY <1>1, AtTheEnd
<1>3. accepted /\ (index = Len(handled) \/ ~accepted)
  BY DEF Return, ParserInv, StepInv
<1>4. EndsAs("returned")
  BY DEF Return
<1> QED
  BY <1>1, <1>2, <1>3, <1>4, EndInv

(* The decoder throws at the message to come, which is too short for it.   *)
LEMMA ThrowInv ==
  ASSUME ParserInv, NEW header \in HeadersAt(offset),
         NEW type \in DecodedAs(header.template_id), Throw(type)
  PROVE  ParserInv'
<1> DEFINE m == messages[Len(handled) + 1]
<1>1. /\ Len(handled) + 1 \in 1 .. Len(messages) /\ m.header = header /\ m.start = offset
  BY HeaderHere DEF Throw
<1>2. Len(handled) # Len(messages)
  BY <1>1, Indices
<1>3. compute_length(type) \in Nat /\ HeaderLength \in Nat
  BY DecodedType, Lengths
<1>4. m.start + HeaderLength + compute_length(type) > size + trailing
  BY <1>1, <1>3, Indices DEF Throw, Fits, Rest
<1>5. type \in DecodedAs(m.header.template_id)
  BY <1>1
<1>6. accepted /\ EndsAs("thrown")
  BY DEF Throw, ParserInv, StepInv
<1> QED
  BY <1>2, <1>4, <1>5, <1>6, EndInv

(* The process ends at the message to come.                                *)
LEMMA UnexpectedInv ==
  ASSUME ParserInv, NEW header \in HeadersAt(offset), Unexpected(header)
  PROVE  ParserInv'
<1>1. /\ Len(handled) + 1 \in 1 .. Len(messages)
      /\ messages[Len(handled) + 1].header = header
  BY HeaderHere DEF Unexpected
<1>2. Len(handled) # Len(messages)
  BY <1>1, Indices
<1>3. accepted /\ EndsAs("fatal") /\ DecodedAs(header.template_id) = {}
  BY DEF Unexpected, ParserInv, StepInv
<1> QED
  BY <1>1, <1>2, <1>3, EndInv

(* Bytes too few for a header are those after the last message.            *)
LEMMA BadHeaderAtTheEnd ==
  ASSUME ParserInv, BadHeader
  PROVE  accepted /\ Len(handled) = Len(messages) /\ trailing > 0
<1>1. step = "parsing" /\ 0 < Rest /\ ~HasHeader
  BY DEF BadHeader
<1>2. accepted
  BY <1>1 DEF ParserInv, StepInv
<1>3. offset = size
  <2>1. CASE Len(handled) + 1 \in 1 .. Len(messages)
    <3> DEFINE k == Len(handled) + 1
    <3>1. messages[k].header.message_length >= HeaderLength
          /\ messages[k].header.message_length \in Nat
      BY <2>1, Indices, HeaderFields
    <3>2. k + 1 \in 1 .. Len(messages) + 1 /\ Len(messages) + 1 \in 1 .. Len(messages) + 1
          /\ (k + 1 = Len(messages) + 1 \/ k + 1 < Len(messages) + 1)
      BY <2>1, Indices
    <3>3. StartOf(messages, size, k) = offset
      BY DEF ParserInv, HandledInv
    <3>4. StartOf(messages, size, k + 1) = offset + messages[k].header.message_length
      BY <2>1, <3>3 DEF ParserInv, ComposedInv
    <3>5. StartOf(messages, size, Len(messages) + 1) = size
      BY Indices DEF StartOf
    <3>6. \A i, j \in 1 .. Len(messages) + 1 :
            i < j => StartOf(messages, size, i) < StartOf(messages, size, j)
      BY DEF ParserInv, ComposedInv
    <3> HIDE DEF k
    <3>7. offset + messages[k].header.message_length <= size
      <4>1. StartOf(messages, size, k + 1) \in Nat
        BY <3>1, <3>4, Indices
      <4>2. CASE k + 1 = Len(messages) + 1
        BY <3>4, <3>5, <4>1, <4>2
      <4>3. CASE k + 1 < Len(messages) + 1
        BY <3>2, <3>4, <3>5, <3>6, <4>1, <4>3, Indices
      <4> QED
        BY <3>2, <4>2, <4>3
    <3>8. HeaderLength <= Rest
      BY <3>1, <3>7, Lengths, Indices DEF Rest
    <3> QED
      BY <1>1, <3>8 DEF HasHeader
  <2>2. CASE Len(handled) + 1 \notin 1 .. Len(messages)
    BY <2>2, AtTheEnd, Indices
  <2> QED
    BY <2>1, <2>2
<1>4. trailing > 0
  BY <1>1, <1>3, Indices DEF Rest
<1> QED
  BY <1>2, <1>3, <1>4, AtTheEnd

(* Bytes after the last message end the call.                              *)
LEMMA BadHeaderInv == ASSUME ParserInv, BadHeader PROVE ParserInv'
<1>1. PICK outcome \in {"fatal", "thrown"} : EndsAs(outcome)
  BY DEF BadHeader
<1> QED
  BY <1>1, BadHeaderAtTheEnd, EndInv

(* A datagram without a packet header ends the process.                    *)
LEMMA InvalidInv == ASSUME ParserInv, Invalid PROVE ParserInv'
BY EndInv DEF Invalid

(* The next datagram is cut anew.                                          *)
LEMMA NextPacketInv == ASSUME ParserInv, NextPacket PROVE ParserInv'
<1>1. /\ messages' = <<>> /\ handled' = <<>> /\ printed' = <<>>
      /\ size' = 0 /\ trailing' = 0 /\ offset' = 0 /\ step' = "waiting"
  BY DEF NextPacket
<1>2. Len(messages') = 0 /\ Len(handled') = 0 /\ Len(printed') = 0
  BY <1>1
<1>3. ComposedInv'
  BY <1>1, <1>2, Lengths DEF ComposedInv, StartOf
<1>4. HandledInv' /\ PrintedInv' /\ StepInv'
  BY <1>1, <1>2 DEF HandledInv, PrintedInv, StepInv, StartOf, AllOrNothing
<1>5. TypeOK'
  <2>1. messages' \in Seq(Message) /\ handled' \in Seq(Message)
    BY <1>1
  <2>2. printed' \in Seq(Printed)
    BY <1>1
  <2>3. size' \in Nat /\ trailing' \in Nat /\ offset' \in Nat
        /\ step' \in {"waiting", "parsing", "returned", "thrown", "fatal"}
    BY <1>1
  <2>4. packets' \in Nat
    BY DEF NextPacket, ParserInv, TypeOK
  <2>5. index' \in Nat /\ accepted' \in BOOLEAN
    BY DEF NextPacket, ParserInv, TypeOK
  <2> QED
    BY <2>1, <2>2, <2>3, <2>4, <2>5 DEF TypeOK
<1> QED
  BY <1>3, <1>4, <1>5 DEF ParserInv

(* Every step keeps the invariant.                                         *)
LEMMA ParserStep == ParserInv /\ [Next]_vars => ParserInv'
<1> SUFFICES ASSUME ParserInv, [Next]_vars PROVE ParserInv'
  OBVIOUS
<1>1. CASE \E header \in Header : Compose(header)
  BY <1>1, ComposeInv
<1>2. CASE \E answer \in BOOLEAN : PacketHeader(answer)
  BY <1>2, PacketHeaderInv
<1>3. CASE Invalid
  BY <1>3, InvalidInv
<1>4. CASE \E n \in 1 .. HeaderLength - 1 : Pad(n)
  BY <1>4, PadInv
<1>5. ASSUME NEW header \in HeadersAt(offset), NEW type \in DecodedAs(header.template_id),
             NEW value \in ValuesRead(header, type), Dispatch(header, type, value)
      PROVE  ParserInv'
  BY <1>5, DispatchInv
<1>6. ASSUME NEW header \in HeadersAt(offset), NEW type \in DecodedAs(header.template_id),
             Throw(type)
      PROVE  ParserInv'
  BY <1>6, ThrowInv
<1>7. ASSUME NEW header \in HeadersAt(offset), Unexpected(header)
      PROVE  ParserInv'
  BY <1>7, UnexpectedInv
<1>8. CASE BadHeader
  BY <1>8, BadHeaderInv
<1>9. CASE Return
  BY <1>9, ReturnInv
<1>10. CASE NextPacket
  BY <1>10, NextPacketInv
<1>11. CASE UNCHANGED vars
  <2>1. StepInv' /\ TypeOK'
    BY <1>11 DEF vars, ParserInv, StepInv, TypeOK, AllOrNothing
  <2> QED
    BY <1>11, <2>1, SameDatagram DEF vars, ParserInv
<1> QED
  BY <1>1, <1>2, <1>3, <1>4, <1>5, <1>6, <1>7, <1>8, <1>9, <1>10, <1>11 DEF Next

(* The invariant always holds.                                             *)
LEMMA ParserInvariant == Spec => []ParserInv
BY ParserInit, ParserStep, PTL DEF Spec

-----------------------------------------------------------------------------
(* Types: the index and the offset stay numbers, and no line bears a name  *)
(* that get_name does not give (members of Bridge, locals of dispatch).    *)
THEOREM TypeCorrect == Spec => []TypeOK
<1>1. ParserInv => TypeOK
  BY DEF ParserInv
<1> QED
  BY <1>1, ParserInvariant, PTL

(* The invariant bounds the loop. *)
LEMMA InvHandles == ASSUME ParserInv PROVE HandlesMessagesInOrder
<1>1. DOMAIN handled = 1 .. Len(handled)
  BY Indices
<1>2. offset <= size
  BY AtTheEnd
<1> QED
  BY <1>1, <1>2 DEF ParserInv, HandledInv, HandlesMessagesInOrder

(* The handler is given the messages of the datagram in their order and    *)
(* whole, whatever their lengths and those their decoders take            *)
(* (Parser2::dispatch).                                                    *)
THEOREM MessagesInOrder == Spec => []HandlesMessagesInOrder
<1>1. ParserInv => HandlesMessagesInOrder
  BY InvHandles
<1> QED
  BY <1>1, ParserInvariant, PTL

(* A call that returns handled all messages of a datagram or none; it      *)
(* throws, or ends the process, only at the first message whose decoder    *)
(* needs more than is left or that is of no known type, or at bytes too    *)
(* few for a header: for any lengths that headers state and decoders take  *)
(* (Parser2::dispatch and PacketHeader::parse).                            *)
THEOREM NothingIsSkipped == Spec => []AllOrNothing
<1>1. ParserInv => AllOrNothing
  BY DEF ParserInv, StepInv, AllOrNothing
<1> QED
  BY <1>1, ParserInvariant, PTL

(* The invariant tells the transcript. *)
LEMMA InvTells == ASSUME ParserInv PROVE TranscriptIsFaithful
<1>1. DOMAIN printed = 1 .. Len(printed) /\ Len(printed) = Len(handled)
  BY Indices
<1>2. \A i \in 1 .. Len(printed) : Tells(printed[i], messages[i], i)
  BY DEF ParserInv, PrintedInv
<1>3. ASSUME NEW i \in DOMAIN printed, NEW j \in DOMAIN printed,
             printed[i].name = printed[j].name
      PROVE  messages[i].header.template_id = messages[j].header.template_id
  <2>1. PICK s \in DecodedAs(messages[i].header.template_id) : printed[i].name = get_name[s]
    BY <1>1, <1>2 DEF Tells
  <2>2. PICK t \in DecodedAs(messages[j].header.template_id) : printed[j].name = get_name[t]
    BY <1>1, <1>2 DEF Tells
  <2>3. s \in DOMAIN get_name /\ t \in DOMAIN get_name
    BY TypesHaveNames, DecodedType
  <2>4. s = t
    BY <1>3, <2>1, <2>2, <2>3, NamesDiffer
  <2> QED
    BY <2>4, DecodedType
<1> QED
  BY <1>1, <1>2, <1>3 DEF TranscriptIsFaithful, Tells

(* The transcript of the dump tool tells the positions, types, times and   *)
(* prices of what was sent, of any number of packets (Bridge::print,       *)
(* get_name, roq::map).                                                    *)
THEOREM TranscriptIsTrue == Spec => []TranscriptIsFaithful
<1>1. ParserInv => TranscriptIsFaithful
  BY InvTells
<1> QED
  BY <1>1, ParserInvariant, PTL

-----------------------------------------------------------------------------
(* Refinement. *)

(* The headers of a sequence of messages are a sequence of headers. *)
LEMMA HeadersType ==
  ASSUME NEW s \in Seq(Message)
  PROVE  /\ Headers(s) \in Seq(Header)
         /\ Len(Headers(s)) = Len(s)
         /\ \A i \in 1 .. Len(s) : Headers(s)[i] = s[i].header
<1>1. DOMAIN s = 1 .. Len(s) /\ Len(s) \in Nat
  OBVIOUS
<1>2. ASSUME NEW i \in 1 .. Len(s)
      PROVE  s[i].header \in Header
  <2>1. s[i] \in Message
    BY <1>1
  <2> QED
    BY <2>1 DEF Message
<1>3. Headers(s) = [i \in 1 .. Len(s) |-> s[i].header]
  BY <1>1 DEF Headers
<1>4. Headers(s) \in Seq(Header)
  BY <1>1, <1>2, <1>3, IsASeq
<1> QED
  BY <1>1, <1>3, <1>4

(* One more message is one more header. *)
LEMMA HeadersAppend ==
  ASSUME NEW s \in Seq(Message), NEW m \in Message
  PROVE  Headers(Append(s, m)) = Append(Headers(s), m.header)
<1> DEFINE l == Headers(Append(s, m))
           r == Append(Headers(s), m.header)
           n == Len(s)
<1>1. m.header \in Header /\ n \in Nat
  BY DEF Message
<1>2. /\ Append(s, m) \in Seq(Message) /\ Len(Append(s, m)) = n + 1
      /\ \A i \in 1 .. n : Append(s, m)[i] = s[i]
      /\ Append(s, m)[n + 1] = m
  BY AppendProperties
<1>3. /\ l \in Seq(Header) /\ Len(l) = n + 1
      /\ \A i \in 1 .. n + 1 : l[i] = Append(s, m)[i].header
  BY <1>2, HeadersType
<1>4. /\ Headers(s) \in Seq(Header) /\ Len(Headers(s)) = n
      /\ \A i \in 1 .. n : Headers(s)[i] = s[i].header
  BY HeadersType
<1>5. /\ r \in Seq(Header) /\ Len(r) = n + 1
      /\ \A i \in 1 .. n : r[i] = Headers(s)[i]
      /\ r[n + 1] = m.header
  BY <1>1, <1>4, AppendProperties
<1> HIDE DEF l, r
<1>6. ASSUME NEW i \in 1 .. n + 1 PROVE l[i] = r[i]
  <2>1. l[i] = Append(s, m)[i].header
    BY <1>3
  <2>2. CASE i = n + 1
    BY <1>2, <1>5, <2>1, <2>2
  <2>3. CASE i \in 1 .. n
    <3>1. l[i] = s[i].header
      BY <1>2, <2>1, <2>3
    <3>2. r[i] = s[i].header
      BY <1>4, <1>5, <2>3
    <3> QED
      BY <3>1, <3>2
  <2> QED
    BY <1>1, <2>2, <2>3
<1>7. l = r
  BY <1>3, <1>5, <1>6, SeqEqual
<1> QED
  BY <1>7 DEF l, r

(* No messages, no headers. *)
LEMMA HeadersEmpty == Headers(<<>>) = <<>>
BY DEF Headers

Outcome == IF step = "returned" /\ ~accepted THEN "refused" ELSE step
KnownHeaders == {header \in Header : DecodedAs(header.template_id) # {}}

(* The actions of PacketDelivery in terms of what a parser is seen as.     *)
LEMMA DeliveryNext ==
  ASSUME \/ /\ Outcome = "waiting" /\ Outcome' = "waiting"
            /\ \E m \in Header : Headers(messages)' = Append(Headers(messages), m)
            /\ Headers(handled)' = Headers(handled)
         \/ /\ Outcome = "waiting" /\ Outcome' \in {"parsing", "refused"}
            /\ Headers(messages)' = Headers(messages) /\ Headers(handled)' = Headers(handled)
         \/ /\ Outcome = "parsing" /\ Outcome' = "parsing"
            /\ Len(Headers(handled)) < Len(Headers(messages))
            /\ Headers(messages)[Len(Headers(handled)) + 1] \in KnownHeaders
            /\ Headers(handled)' = Append(Headers(handled),
                                    Headers(messages)[Len(Headers(handled)) + 1])
            /\ Headers(messages)' = Headers(messages)
         \/ /\ Outcome = "parsing" /\ Outcome' = "returned"
            /\ Len(Headers(handled)) = Len(Headers(messages))
            /\ Headers(messages)' = Headers(messages) /\ Headers(handled)' = Headers(handled)
         \/ /\ Outcome = "parsing" /\ Outcome' = "thrown"
            /\ Len(Headers(handled)) < Len(Headers(messages)) =>
                 Headers(messages)[Len(Headers(handled)) + 1] \in KnownHeaders
            /\ Headers(messages)' = Headers(messages) /\ Headers(handled)' = Headers(handled)
         \/ /\ \/ Outcome = "waiting" /\ Headers(messages) = <<>>
               \/ /\ Outcome = "parsing"
                  /\ Len(Headers(handled)) < Len(Headers(messages))
                  /\ Headers(messages)[Len(Headers(handled)) + 1] \notin KnownHeaders
               \/ Outcome = "parsing" /\ Len(Headers(handled)) = Len(Headers(messages))
            /\ Outcome' = "fatal"
            /\ Headers(messages)' = Headers(messages) /\ Headers(handled)' = Headers(handled)
         \/ /\ Outcome \in {"returned", "refused", "thrown"} /\ Outcome' = "waiting"
            /\ Headers(messages)' = <<>> /\ Headers(handled)' = <<>>
         \/ /\ Outcome' = Outcome
            /\ Headers(messages)' = Headers(messages) /\ Headers(handled)' = Headers(handled)
  PROVE  [Delivery!Next]_(Delivery!vars)
BY DEF Delivery!Next, Delivery!Send, Delivery!Judge, Delivery!Deliver, Delivery!ToCome,
       Delivery!Return, Delivery!Break, Delivery!GiveUp, Delivery!NextDatagram, Delivery!vars,
       Outcome, KnownHeaders

(* What the invariant says of the headers. *)
LEMMA DeliveryIndices ==
  ASSUME ParserInv
  PROVE  /\ Len(Headers(messages)) = Len(messages)
         /\ Len(Headers(handled)) = Len(handled)
         /\ \A i \in 1 .. Len(messages) : Headers(messages)[i] = messages[i].header
BY Indices, HeadersType

(* Every step of the parser is one of a delivery, or nobody sees it.       *)
LEMMA DeliveryStep ==
  ASSUME ParserInv, [Next]_vars
  PROVE  [Delivery!Next]_(Delivery!vars)
<1>1. ASSUME NEW header \in Header, Compose(header)
      PROVE  [Delivery!Next]_(Delivery!vars)
  <2> DEFINE m == [start |-> size, header |-> header]
  <2>1. m \in Message /\ m.header = header /\ messages \in Seq(Message)
    BY Indices DEF Message
  <2>2. messages' = Append(messages, m) /\ step = "waiting" /\ step' = "waiting"
        /\ handled' = handled
    BY <1>1 DEF Compose
  <2> HIDE DEF m
  <2>3. Headers(messages)' = Append(Headers(messages), header)
    BY <2>1, <2>2, HeadersAppend DEF Headers
  <2>4. Headers(handled)' = Headers(handled) /\ Outcome = "waiting" /\ Outcome' = "waiting"
    BY <2>2 DEF Headers, Outcome
  <2> QED
    BY <2>3, <2>4, DeliveryNext
<1>2. ASSUME NEW answer \in BOOLEAN, PacketHeader(answer)
      PROVE  [Delivery!Next]_(Delivery!vars)
  <2>1. Outcome = "waiting" /\ Outcome' \in {"parsing", "refused"}
    BY <1>2 DEF PacketHeader, StepAfter, Outcome
  <2>2. Headers(messages)' = Headers(messages) /\ Headers(handled)' = Headers(handled)
    BY <1>2 DEF PacketHeader, Headers
  <2> QED
    BY <2>1, <2>2, DeliveryNext
<1>3. CASE Invalid
  <2>1. Outcome = "waiting" /\ Outcome' = "fatal" /\ Headers(messages) = <<>>
    BY <1>3, HeadersEmpty DEF Invalid, EndsAs, Outcome
  <2>2. Headers(messages)' = Headers(messages) /\ Headers(handled)' = Headers(handled)
    BY <1>3 DEF Invalid, EndsAs, Headers
  <2> QED
    BY <2>1, <2>2, DeliveryNext
<1>4. ASSUME NEW header \in HeadersAt(offset), NEW type \in DecodedAs(header.template_id),
             NEW value \in ValuesRead(header, type), Dispatch(header, type, value)
      PROVE  [Delivery!Next]_(Delivery!vars)
  <2> DEFINE k == Len(handled)
             m == [start |-> offset, header |-> header]
  <2>1. /\ step = "parsing" /\ step' = "parsing" /\ HasHeader
        /\ messages' = messages /\ handled' = Append(handled, m)
    BY <1>4 DEF Dispatch, Handled
  <2>2. /\ k + 1 \in 1 .. Len(messages)
        /\ messages[k + 1].header = header
        /\ k \in Nat /\ Len(messages) \in Nat
        /\ messages[k + 1].header \in Header
        /\ offset \in Nat /\ handled \in Seq(Message)
    BY <2>1, HeaderHere, Indices
  <2>3. m \in Message /\ m.header = header
    BY <2>2 DEF Message
  <2> HIDE DEF m
  <2>4. Headers(handled)' = Append(Headers(handled), header)
    BY <2>1, <2>2, <2>3, HeadersAppend DEF Headers
  <2>5. Headers(messages)[Len(Headers(handled)) + 1] = header
        /\ Len(Headers(handled)) < Len(Headers(messages))
    BY <2>2, DeliveryIndices
  <2>6. header \in KnownHeaders
    BY <2>2 DEF KnownHeaders
  <2>7. Outcome = "parsing" /\ Outcome' = "parsing" /\ Headers(messages)' = Headers(messages)
    BY <2>1 DEF Outcome, Headers
  <2> QED
    BY <2>4, <2>5, <2>6, <2>7, DeliveryNext
<1>5. ASSUME NEW header \in HeadersAt(offset), Unexpected(header)
      PROVE  [Delivery!Next]_(Delivery!vars)
  <2>1. HasHeader /\ DecodedAs(header.template_id) = {}
    BY <1>5 DEF Unexpected
  <2>2. /\ Len(handled) + 1 \in 1 .. Len(messages)
        /\ messages[Len(handled) + 1].header = header
        /\ Len(handled) \in Nat /\ Len(messages) \in Nat
    BY <2>1, HeaderHere, Indices
  <2>3. Headers(messages)[Len(Headers(handled)) + 1] = header
        /\ Len(Headers(handled)) < Len(Headers(messages))
    BY <2>2, DeliveryIndices
  <2>4. header \notin KnownHeaders
    BY <2>1 DEF KnownHeaders
  <2>5. Outcome = "parsing" /\ Outcome' = "fatal"
        /\ Headers(messages)' = Headers(messages) /\ Headers(handled)' = Headers(handled)
    BY <1>5 DEF Unexpected, EndsAs, Outcome, Headers
  <2> QED
    BY <2>3, <2>4, <2>5, DeliveryNext
<1>6. CASE Return
  <2>1. ParserInv'
    BY <1>6, ReturnInv
  <2>2. step' = "returned" /\ accepted /\ accepted' /\ handled' = handled
        /\ messages' = messages
    BY <1>6 DEF Return, EndsAs, ParserInv, StepInv
  <2>3. Len(handled) = Len(messages)
    BY <2>1, <2>2 DEF ParserInv, StepInv, AllOrNothing
  <2>4. Outcome = "parsing" /\ Outcome' = "returned"
    BY <1>6, <2>2 DEF Return, EndsAs, Outcome
  <2>5. Headers(messages)' = Headers(messages) /\ Headers(handled)' = Headers(handled)
    BY <2>2 DEF Headers
  <2> QED
    BY <2>3, <2>4, <2>5, DeliveryIndices, DeliveryNext
<1>7. ASSUME NEW header \in HeadersAt(offset), NEW type \in DecodedAs(header.template_id),
             Throw(type)
      PROVE  [Delivery!Next]_(Delivery!vars)
  <2>1. /\ Len(handled) + 1 \in 1 .. Len(messages)
        /\ messages[Len(handled) + 1].header = header /\ header \in Header
    BY <1>7, HeaderHere, Indices DEF Throw
  <2>2. Headers(messages)[Len(Headers(handled)) + 1] \in KnownHeaders
    BY <2>1, DeliveryIndices DEF KnownHeaders
  <2>3. Outcome = "parsing" /\ Outcome' = "thrown"
        /\ Headers(messages)' = Headers(messages) /\ Headers(handled)' = Headers(handled)
    BY <1>7 DEF Throw, EndsAs, Outcome, Headers
  <2> QED
    BY <2>2, <2>3, DeliveryNext
<1>8. CASE BadHeader
  <2>1. PICK outcome \in {"fatal", "thrown"} : step = "parsing" /\ EndsAs(outcome)
    BY <1>8 DEF BadHeader
  <2>2. Outcome = "parsing" /\ Outcome' \in {"fatal", "thrown"}
        /\ Headers(messages)' = Headers(messages) /\ Headers(handled)' = Headers(handled)
    BY <2>1 DEF EndsAs, Outcome, Headers
  <2>3. Len(Headers(handled)) = Len(Headers(messages)) /\ Len(Headers(messages)) \in Nat
    BY <1>8, BadHeaderAtTheEnd, DeliveryIndices, Indices
  <2>4. ~(Len(Headers(handled)) < Len(Headers(messages)))
    BY <2>3
  <2> QED
    BY <2>2, <2>3, <2>4, DeliveryNext
<1>9. CASE NextPacket
  <2>1. Outcome \in {"returned", "refused", "thrown"} /\ Outcome' = "waiting"
    BY <1>9 DEF NextPacket, Outcome
  <2>2. Headers(messages)' = <<>> /\ Headers(handled)' = <<>>
    BY <1>9, HeadersEmpty DEF NextPacket, Headers
  <2> QED
    BY <2>1, <2>2, DeliveryNext
<1>10. ASSUME NEW n \in 1 .. HeaderLength - 1, Pad(n)
       PROVE  [Delivery!Next]_(Delivery!vars)
  <2>1. Outcome' = Outcome
        /\ Headers(messages)' = Headers(messages) /\ Headers(handled)' = Headers(handled)
    BY <1>10 DEF Pad, Outcome, Headers
  <2> QED
    BY <2>1, DeliveryNext
<1>11. CASE UNCHANGED vars
  <2>1. Outcome' = Outcome
        /\ Headers(messages)' = Headers(messages) /\ Headers(handled)' = Headers(handled)
    BY <1>11 DEF vars, Outcome, Headers
  <2> QED
    BY <2>1, DeliveryNext
<1> QED
  BY <1>1, <1>2, <1>3, <1>4, <1>5, <1>6, <1>7, <1>8, <1>9, <1>10, <1>11 DEF Next

(* The parser implements the delivery of packets, for any lengths, any     *)
(* number of messages and any number of datagrams (Parser2::dispatch).     *)
THEOREM ParserIsPacketDelivery == Spec => IsPacketDelivery
<1>1. Init => Delivery!Init
  BY HeadersEmpty DEF Init, Delivery!Init
<1>2. ParserInv /\ [Next]_vars => [Delivery!Next]_(Delivery!vars)
  BY DeliveryStep
<1> QED
  BY <1>1, <1>2, ParserInvariant, PTL DEF Spec, IsPacketDelivery, Delivery!Spec

=============================================================================
