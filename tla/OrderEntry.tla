----------------------------- MODULE OrderEntry -----------------------------
(***************************************************************************)
(* A session of order entry: struct OrderEntry of gateway/order_entry.hpp  *)
(* and gateway/order_entry.cpp, one for each account, as operators from    *)
(* the state of the session before a callback to the state after it.       *)
(*                                                                         *)
(* connection stands for the library's io::net::ConnectionManager, modelled *)
(* from how the session uses it: refresh tells whether there is a          *)
(* connection, the callbacks Connected and Disconnected alternate, and     *)
(* always_reconnect makes it connect again after a loss.                   *)
(*   "stopped"     before start and after stop                             *)
(*   "connecting"  looking for a connection                                *)
(*   "connected"   the exchange is there                                   *)
(*   "lost"        the exchange has gone, which nobody has noticed yet     *)
(*   "closing"     closed by the session, the callback is still to come    *)
(***************************************************************************)
EXTENDS Naturals, Sequences

CONSTANTS
  RequestTimeout,       \* settings.fix.request_timeout
  PingFreq,             \* settings.fix.ping_freq
  TestOrderLogon,       \* settings.fix.test_order_logon
  TestOrderDisconnect   \* settings.fix.test_order_disconnect

ASSUME SettingsAssumption ==
  /\ RequestTimeout \in Nat
  /\ PingFreq \in Nat \ {0}
  /\ TestOrderLogon \in Nat
  /\ TestOrderDisconnect \in Nat

Connection == {"stopped", "connecting", "connected", "lost", "closing"}
Status == {"UNDEFINED", "DISCONNECTED", "LOGIN_SENT", "READY"}

(* Times are 0 when unset.  logons is history: the times at which this     *)
(* connection was logged on; connected_at is when it was made.             *)
Session ==
  [connection : Connection,
   connection_status : Status,
   ready : BOOLEAN,
   next_heartbeat : Nat,
   last_logon_or_heartbeat : Nat,
   test_logon_time : Nat,
   test_disconnect_time : Nat,
   connected_at : Nat,
   logons : Seq(Nat)]

NewSession ==
  [connection |-> "stopped",
   connection_status |-> "UNDEFINED",
   ready |-> FALSE,
   next_heartbeat |-> 0,
   last_logon_or_heartbeat |-> 0,
   test_logon_time |-> 0,
   test_disconnect_time |-> 0,
   connected_at |-> 0,
   logons |-> <<>>]

-----------------------------------------------------------------------------
(* The connection manager. *)

Refresh(s) == s.connection \in {"connected", "lost"}
Close(s) == [s EXCEPT !.connection = "closing"]

(* operator()(Trace<Start>) and operator()(Trace<Stop>). *)
OnStart(s) == [s EXCEPT !.connection = "connecting"]
OnStop(s) == [s EXCEPT !.connection = "stopped"]

-----------------------------------------------------------------------------
(* operator()(Trace<Timer>). *)

IsSet(time) == time # 0

RequestTimedOut(s, now) ==
  /\ IsSet(s.last_logon_or_heartbeat)
  /\ RequestTimeout # 0
  /\ now - s.last_logon_or_heartbeat > RequestTimeout

DisconnectDue(s, now) == IsSet(s.test_disconnect_time) /\ s.test_disconnect_time < now
LogonDueNow(s, now) == s.test_logon_time = now    \* a slip: only in that instant
LogonDue(s, now) == IsSet(s.test_logon_time) /\ s.test_logon_time < now

(* Slips: the timer is not stopped; the logon is taken for its answer; a   *)
(* status no session has.                                                  *)
LogonAgain(s, now) ==
  [s EXCEPT !.connection_status = "LOGIN_SENT", !.logons = Append(@, now)]
LogonIsReady(s, now) ==
  [s EXCEPT !.test_logon_time = 0, !.connection_status = "READY",
            !.logons = Append(@, now)]
LogonUnknown(s, now) ==
  [s EXCEPT !.test_logon_time = 0, !.connection_status = "CONNECTED",
            !.logons = Append(@, now)]

(* send_logon has an empty body: all that is left of a logon is the        *)
(* status that is dispatched.                                              *)
Logon(s, now) ==
  [s EXCEPT !.test_logon_time = 0,
            !.connection_status = "LOGIN_SENT",
            !.logons = Append(@, now)]

Heartbeat(s, now) ==
  IF s.next_heartbeat <= now THEN [s EXCEPT !.next_heartbeat = now + PingFreq] ELSE s

OnTimer(s, now) ==
  CASE ~Refresh(s) -> s
    [] Refresh(s) /\ RequestTimedOut(s, now) -> Close(s)
    [] Refresh(s) /\ ~RequestTimedOut(s, now) /\ s.ready ->
         IF DisconnectDue(s, now)
         THEN IF TestOrderDisconnect # 0 THEN Close(s) ELSE s
         ELSE Heartbeat(s, now)
    [] Refresh(s) /\ ~RequestTimedOut(s, now) /\ ~s.ready ->
         IF LogonDue(s, now) THEN Logon(s, now) ELSE s

-----------------------------------------------------------------------------
(* The callbacks of the connection manager. *)

OnConnected(s, now) ==
  [s EXCEPT !.connection = "connected",
            !.test_logon_time = now + TestOrderLogon,
            !.test_disconnect_time =
               IF TestOrderDisconnect # 0 THEN now + TestOrderDisconnect ELSE @,
            !.connected_at = now,
            !.logons = <<>>]

(* Slips: what the timer waits for, the status, or the reconnect is        *)
(* forgotten.                                                              *)
OnDisconnectedKeepsTimer(s) ==
  [s EXCEPT !.connection = "connecting", !.ready = FALSE,
            !.connection_status = "DISCONNECTED"]
OnDisconnectedKeepsStatus(s) ==
  [s EXCEPT !.connection = "connecting", !.ready = FALSE, !.test_logon_time = 0]
OnDisconnectedStops(s) ==
  [s EXCEPT !.connection = "stopped", !.ready = FALSE, !.test_logon_time = 0,
            !.connection_status = "DISCONNECTED"]

OnDisconnected(s) ==
  [s EXCEPT !.connection = "connecting",
            !.ready = FALSE,
            !.next_heartbeat = 0,
            !.connection_status = "DISCONNECTED",
            !.last_logon_or_heartbeat = 0,
            !.test_logon_time = 0,
            !.test_disconnect_time = 0]

(* The handlers of the messages of the exchange, LogonConf, TestRequest,   *)
(* Reject and the fills among them, have empty bodies.                     *)
OnMessage(s) == s

(* ready() of server::Stream looks at the status, not at ready_, which     *)
(* download sets when it dispatches READY.  Nothing ever begins the        *)
(* download (download_ is only constructed and reset), so OnDownloaded has *)
(* no caller; it is what the properties of Gateway would meet if it had.   *)
IsReady(s) == s.connection_status = "READY"
OnDownloaded(s) == [s EXCEPT !.connection_status = "READY", !.ready = TRUE]

=============================================================================
