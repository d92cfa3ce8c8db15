--------------------------- MODULE LogonProtocol ---------------------------
(***************************************************************************)
(* What the order sessions promise to whoever watches their status: a      *)
(* connection is logged on at most once, the status says so only of a      *)
(* connection that has been, and the loss of a connection is told before   *)
(* the next one is made.  Accounts do not disturb one another, but a timer *)
(* may log on several of them in one step.                                 *)
(***************************************************************************)
EXTENDS Integers

CONSTANT Accounts

VARIABLES
  connected,   \* accounts that have a connection
  logons,      \* logons sent on the connection made last, by account
  status       \* connection status told last, by account

vars == <<connected, logons, status>>

Init ==
  /\ connected = {}
  /\ logons = [a \in Accounts |-> 0]
  /\ status = [a \in Accounts |-> "UNDEFINED"]

(* A connection is made; nobody may still be told of the one before. *)
Connect(a) ==
  /\ a \notin connected
  /\ status[a] # "LOGIN_SENT"
  /\ connected' = connected \cup {a}
  /\ logons' = [logons EXCEPT ![a] = 0]
  /\ UNCHANGED status

(* The accounts of S are logged on. *)
LogOn(S) ==
  /\ \A a \in S : a \in connected /\ logons[a] = 0
  /\ logons' = [a \in Accounts |-> IF a \in S THEN 1 ELSE logons[a]]
  /\ status' = [a \in Accounts |-> IF a \in S THEN "LOGIN_SENT" ELSE status[a]]
  /\ UNCHANGED connected

Disconnect(a) ==
  /\ a \in connected
  /\ connected' = connected \ {a}
  /\ status' = [status EXCEPT ![a] = "DISCONNECTED"]
  /\ UNCHANGED logons

(* The gateway is stopped: connections end, and nothing is told any more. *)
Stop ==
  /\ connected' = {}
  /\ UNCHANGED <<logons, status>>

Next ==
  \/ \E a \in Accounts : Connect(a)
  \/ \E S \in SUBSET Accounts : LogOn(S)
  \/ \E a \in Accounts : Disconnect(a)
  \/ Stop

Spec == Init /\ [][Next]_vars

=============================================================================
