--------------------------- MODULE PacketDelivery ---------------------------
(***************************************************************************)
(* What a reader of datagrams promises its handler: the messages of a      *)
(* datagram that the handler accepts are delivered one by one, in the      *)
(* order they were sent, each once, until all are; of one it refuses none  *)
(* is.  The reader may break off before a message of a known kind, or when *)
(* all are delivered; it gives up only on a datagram without messages, at  *)
(* a message of an unknown kind, or when all are delivered.                *)
(***************************************************************************)
EXTENDS Naturals, Sequences

CONSTANTS
  Messages,    \* what a message may be
  Known        \* the messages of a kind that is known

VARIABLES
  sent,        \* the messages of the datagram
  delivered,   \* those that the handler was given
  outcome      \* what has become of the datagram

vars == <<sent, delivered, outcome>>

Init ==
  /\ sent = <<>>
  /\ delivered = <<>>
  /\ outcome = "waiting"

Send(m) ==
  /\ outcome = "waiting"
  /\ sent' = Append(sent, m)
  /\ UNCHANGED <<delivered, outcome>>

(* The handler answers to the header. *)
Judge ==
  /\ outcome = "waiting"
  /\ outcome' \in {"parsing", "refused"}
  /\ UNCHANGED <<sent, delivered>>

ToCome == sent[Len(delivered) + 1]

Deliver ==
  /\ outcome = "parsing"
  /\ Len(delivered) < Len(sent)
  /\ ToCome \in Known
  /\ delivered' = Append(delivered, ToCome)
  /\ UNCHANGED <<sent, outcome>>

Return ==
  /\ outcome = "parsing"
  /\ Len(delivered) = Len(sent)
  /\ outcome' = "returned"
  /\ UNCHANGED <<sent, delivered>>

(* The reader fails at what follows, and may be called again. *)
Break ==
  /\ outcome = "parsing"
  /\ Len(delivered) < Len(sent) => ToCome \in Known
  /\ outcome' = "thrown"
  /\ UNCHANGED <<sent, delivered>>

(* The process ends. *)
GiveUp ==
  /\ \/ outcome = "waiting" /\ sent = <<>>
     \/ outcome = "parsing" /\ Len(delivered) < Len(sent) /\ ToCome \notin Known
     \/ outcome = "parsing" /\ Len(delivered) = Len(sent)
  /\ outcome' = "fatal"
  /\ UNCHANGED <<sent, delivered>>

NextDatagram ==
  /\ outcome \in {"returned", "refused", "thrown"}
  /\ sent' = <<>>
  /\ delivered' = <<>>
  /\ outcome' = "waiting"

Next ==
  \/ \E m \in Messages : Send(m)
  \/ Judge
  \/ Deliver
  \/ Return
  \/ Break
  \/ GiveUp
  \/ NextDatagram

Spec == Init /\ [][Next]_vars

=============================================================================
