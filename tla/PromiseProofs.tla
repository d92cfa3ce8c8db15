--------------------------- MODULE PromiseProofs ---------------------------
(***************************************************************************)
(* What the abstract specifications are worth: theorems about every        *)
(* program that implements LogonProtocol or PacketDelivery, Gateway and    *)
(* Parser2 among them.                                                     *)
(***************************************************************************)
EXTENDS Integers, Sequences, TLAPS

CONSTANTS Accounts, Messages, Known

VARIABLES connected, logons, status, sent, delivered, outcome

Logons == INSTANCE LogonProtocol
Delivery == INSTANCE PacketDelivery

-----------------------------------------------------------------------------
(* Logons. *)

LogonType ==
  /\ connected \subseteq Accounts
  /\ logons \in [Accounts -> 0 .. 1]
  /\ status \in [Accounts -> {"UNDEFINED", "LOGIN_SENT", "DISCONNECTED"}]

StatusTellsOfLogon ==
  \A a \in Accounts :
    /\ status[a] = "LOGIN_SENT" => logons[a] = 1
    /\ a \in connected => (status[a] = "LOGIN_SENT" <=> logons[a] = 1)

(* Every step keeps the types. *)
LEMMA LogonTypeStep == LogonType /\ [Logons!Next]_(Logons!vars) => LogonType'
<1> SUFFICES ASSUME LogonType, [Logons!Next]_(Logons!vars) PROVE LogonType'
  OBVIOUS
<1> USE DEF LogonType
<1>1. ASSUME NEW a \in Accounts, Logons!Connect(a) PROVE LogonType'
  BY <1>1 DEF Logons!Connect
<1>2. ASSUME NEW S \in SUBSET Accounts, Logons!LogOn(S) PROVE LogonType'
  BY <1>2 DEF Logons!LogOn
<1>3. ASSUME NEW a \in Accounts, Logons!Disconnect(a) PROVE LogonType'
  BY <1>3 DEF Logons!Disconnect
<1>4. CASE Logons!Stop
  BY <1>4 DEF Logons!Stop
<1>5. CASE UNCHANGED Logons!vars
  BY <1>5 DEF Logons!vars
<1> QED
  BY <1>1, <1>2, <1>3, <1>4, <1>5 DEF Logons!Next

(* Every step keeps the status true. *)
LEMMA LogonStep ==
  LogonType /\ StatusTellsOfLogon /\ [Logons!Next]_(Logons!vars) => StatusTellsOfLogon'
<1> SUFFICES ASSUME LogonType, StatusTellsOfLogon, [Logons!Next]_(Logons!vars),
                    NEW b \in Accounts
             PROVE  /\ status'[b] = "LOGIN_SENT" => logons'[b] = 1
                    /\ b \in connected' => (status'[b] = "LOGIN_SENT" <=> logons'[b] = 1)
  BY DEF StatusTellsOfLogon
<1>1. /\ status[b] = "LOGIN_SENT" => logons[b] = 1
      /\ b \in connected => (status[b] = "LOGIN_SENT" <=> logons[b] = 1)
  BY DEF StatusTellsOfLogon
<1> USE DEF LogonType
<1>2. ASSUME NEW a \in Accounts, Logons!Connect(a)
      PROVE  /\ status'[b] = "LOGIN_SENT" => logons'[b] = 1
             /\ b \in connected' => (status'[b] = "LOGIN_SENT" <=> logons'[b] = 1)
  BY <1>1, <1>2 DEF Logons!Connect
<1>3. ASSUME NEW S \in SUBSET Accounts, Logons!LogOn(S)
      PROVE  /\ status'[b] = "LOGIN_SENT" => logons'[b] = 1
             /\ b \in connected' => (status'[b] = "LOGIN_SENT" <=> logons'[b] = 1)
  BY <1>1, <1>3 DEF Logons!LogOn
<1>4. ASSUME NEW a \in Accounts, Logons!Disconnect(a)
      PROVE  /\ status'[b] = "LOGIN_SENT" => logons'[b] = 1
             /\ b \in connected' => (status'[b] = "LOGIN_SENT" <=> logons'[b] = 1)
  BY <1>1, <1>4 DEF Logons!Disconnect
<1>5. CASE Logons!Stop
  BY <1>1, <1>5 DEF Logons!Stop
<1>6. CASE UNCHANGED Logons!vars
  BY <1>1, <1>6 DEF Logons!vars
<1> QED
  BY <1>2, <1>3, <1>4, <1>5, <1>6 DEF Logons!Next

(* Whoever watches the status of a session knows what was done: while      *)
(* there is a connection, the status says LOGIN_SENT exactly if a logon    *)
(* was sent on it, and at most one was (OrderEntry::send_logon and the     *)
(* callbacks of the connection, seen through LogonProtocol).               *)
THEOREM StatusIsTrue == Logons!Spec => [](LogonType /\ StatusTellsOfLogon)
<1>1. Logons!Init => LogonType /\ StatusTellsOfLogon
  BY DEF Logons!Init, LogonType, StatusTellsOfLogon
<1> QED
  BY <1>1, LogonTypeStep, LogonStep, PTL DEF Logons!Spec

-----------------------------------------------------------------------------
(* Deliveries. *)

DeliveryType ==
  /\ sent \in Seq(Messages)
  /\ delivered \in Seq(Messages)
  /\ outcome \in {"waiting", "parsing", "refused", "returned", "thrown", "fatal"}

DeliveredInOrder ==
  /\ Len(delivered) <= Len(sent)
  /\ \A i \in 1 .. Len(delivered) : delivered[i] = sent[i] /\ sent[i] \in Known
  /\ outcome \in {"waiting", "refused"} => delivered = <<>>
  /\ outcome = "returned" => delivered = sent
  /\ outcome = "thrown" /\ Len(delivered) < Len(sent) => sent[Len(delivered) + 1] \in Known
  /\ outcome = "fatal" /\ Len(delivered) < Len(sent) => sent[Len(delivered) + 1] \notin Known

DeliveryInv == DeliveryType /\ DeliveredInOrder

(* Every step of a delivery keeps the order. *)
LEMMA DeliveryStep == DeliveryInv /\ [Delivery!Next]_(Delivery!vars) => DeliveryInv'
<1> SUFFICES ASSUME DeliveryInv, [Delivery!Next]_(Delivery!vars) PROVE DeliveryInv'
  OBVIOUS
<1> USE DEF DeliveryInv, DeliveryType, DeliveredInOrder
<1>1. ASSUME NEW m \in Messages, Delivery!Send(m) PROVE DeliveryInv'
  BY <1>1 DEF Delivery!Send
<1>2. CASE Delivery!Judge
  BY <1>2 DEF Delivery!Judge
<1>3. CASE Delivery!Deliver
  <2>1. /\ Len(delivered) \in Nat /\ Len(sent) \in Nat /\ Len(delivered) < Len(sent)
        /\ Delivery!ToCome = sent[Len(delivered) + 1]
        /\ Delivery!ToCome \in Known /\ Delivery!ToCome \in Messages
    BY <1>3 DEF Delivery!Deliver, Delivery!ToCome
  <2>2. /\ delivered' = Append(delivered, Delivery!ToCome)
        /\ sent' = sent /\ outcome = "parsing" /\ outcome' = "parsing"
    BY <1>3 DEF Delivery!Deliver
  <2>3. /\ delivered' \in Seq(Messages) /\ Len(delivered') = Len(delivered) + 1
        /\ \A i \in 1 .. Len(delivered) : delivered'[i] = delivered[i]
        /\ delivered'[Len(delivered) + 1] = Delivery!ToCome
    BY <2>1, <2>2
  <2>4. ASSUME NEW i \in 1 .. Len(delivered') PROVE delivered'[i] = sent[i] /\ sent[i] \in Known
    <3>1. CASE i = Len(delivered) + 1
      BY <2>1, <2>3, <3>1
    <3>2. CASE i \in 1 .. Len(delivered)
      BY <2>3, <3>2
    <3> QED
      BY <2>1, <2>3, <3>1, <3>2
  <2> QED
    BY <2>1, <2>2, <2>3, <2>4
<1>4. CASE Delivery!Return
  <2>1. \A i \in 1 .. Len(sent) : delivered[i] = sent[i]
    BY <1>4 DEF Delivery!Return
  <2>2. delivered = sent
    BY <1>4, <2>1 DEF Delivery!Return
  <2> QED
    BY <1>4, <2>2 DEF Delivery!Return
<1>5. CASE Delivery!GiveUp
  BY <1>5 DEF Delivery!GiveUp, Delivery!ToCome
<1>6. CASE Delivery!Break
  BY <1>6 DEF Delivery!Break, Delivery!ToCome
<1>7. CASE Delivery!NextDatagram
  BY <1>7 DEF Delivery!NextDatagram
<1>8. CASE UNCHANGED Delivery!vars
  BY <1>8 DEF Delivery!vars
<1> QED
  BY <1>1, <1>2, <1>3, <1>4, <1>5, <1>6, <1>7, <1>8 DEF Delivery!Next

(* A handler is given a prefix of what was sent, all of it when the call   *)
(* returns, nothing of what it refused; the process gives up before a      *)
(* message only if it is of an unknown kind, and a call breaks off before  *)
(* one only if it is of a known kind (Parser2::dispatch, seen through      *)
(* PacketDelivery).                                                        *)
THEOREM DeliveryIsInOrder == Delivery!Spec => []DeliveredInOrder
<1>1. Delivery!Init => DeliveryInv
  BY DEF Delivery!Init, DeliveryInv, DeliveryType, DeliveredInOrder
<1>2. DeliveryInv => DeliveredInOrder
  BY DEF DeliveryInv
<1> QED
  BY <1>1, <1>2, DeliveryStep, PTL DEF Delivery!Spec

=============================================================================
