------------------------------ MODULE Gateway ------------------------------
(***************************************************************************)
(* The gateway: gateway/controller.hpp and gateway/controller.cpp with the *)
(* sessions of OrderEntry and, reduced to what the timer and the Read      *)
(* handler do to it, the multicast streams of MarketData.                  *)
(*                                                                         *)
(* One thread calls every handler.  A handler that does not return keeps   *)
(* it: thread names the session whose Read handler is running on.          *)
(***************************************************************************)
EXTENDS OrderEntry

CONSTANTS
  Accounts,     \* the configured accounts
  Strangers,    \* names of accounts that are not configured
  Streams,      \* market_data_snapshot_ and market_data_, those that exist
  Symbols,      \* symbols that clients subscribe
  Timeout,      \* settings.multicast.timeout
  MaxTime       \* bound: the clock stops here

ASSUME GatewayAssumption ==
  /\ Accounts \cap Strangers = {}
  /\ Timeout \in Nat \ {0}
  /\ MaxTime \in Nat

CONSTANT Idle   \* the thread waits for an event
ASSUME IdleAssumption == Idle \notin Accounts

(* What a multicast stream keeps, apart from its channels. *)
StreamState ==
  [connection_status : {"UNDEFINED", "CONNECTING", "READY"}, last_update_time : Nat]

VARIABLES
  now,          \* the clock
  phase,        \* between the events Start and Stop of the server
  terminated,   \* log::fatal has ended the process
  thread,       \* the session whose Read handler does not return, or Idle
  session,      \* order_entry_
  inbound,      \* accounts whose connection has bytes to read
  stream,       \* status and last_update_time_ of a multicast stream
  all_symbols,  \* shared_.all_symbols
  state,        \* the state last given to the dispatcher
  answer        \* history: what became of the last request

vars == <<now, phase, terminated, thread, session, inbound, stream,
          all_symbols, state, answer>>

Init ==
  /\ now = 1
  /\ phase = "created"
  /\ terminated = FALSE
  /\ thread = Idle
  /\ session = [a \in Accounts |-> NewSession]
  /\ inbound = {}
  /\ stream = [m \in Streams |-> [connection_status |-> "UNDEFINED", last_update_time |-> 0]]
  /\ all_symbols = {}
  /\ state = "UNDEFINED"
  /\ answer = "none"

(* An event of the server or of the network can be handled. *)
CanHandle == ~terminated /\ thread = Idle

-----------------------------------------------------------------------------
(* The events of the server, dispatched to every stream. *)

StreamStarted == [connection_status |-> "CONNECTING", last_update_time |-> now]

Start ==
  /\ CanHandle
  /\ phase = "created"
  /\ phase' = "started"
  /\ session' = [a \in Accounts |-> OnStart(session[a])]
  /\ stream' = [m \in Streams |-> StreamStarted]
  /\ UNCHANGED <<now, terminated, thread, inbound, all_symbols, state, answer>>

Stop ==
  /\ CanHandle
  /\ phase = "started"
  /\ phase' = "stopped"
  /\ session' = [a \in Accounts |-> OnStop(session[a])]
  /\ inbound' = {}
  /\ UNCHANGED <<now, terminated, thread, stream, all_symbols, state, answer>>

StreamTimedOut(m) ==
  /\ stream[m].last_update_time # 0
  /\ stream[m].last_update_time + Timeout < now

(* dispatch_helper, with the timer: every session, then every stream; none *)
(* of them touches another.                                                *)
DispatchTimer ==
  /\ session' = [a \in Accounts |-> OnTimer(session[a], now)]
  /\ stream' = [m \in Streams |->
                  IF StreamTimedOut(m) THEN [stream[m] EXCEPT !.last_update_time = 0]
                                       ELSE stream[m]]

Timer ==
  /\ CanHandle
  /\ phase = "started"
  /\ DispatchTimer
  /\ UNCHANGED <<now, phase, terminated, thread, inbound, all_symbols, state, answer>>

(* New symbols are remembered, and the list of them is dropped. *)
Subscribe(symbol) ==
  /\ CanHandle
  /\ phase = "started"
  /\ symbol \notin all_symbols
  /\ all_symbols' = all_symbols \cup {symbol}
  /\ UNCHANGED <<now, phase, terminated, thread, session, inbound, stream, state, answer>>

(* ENABLE and DISABLE only change the state of the dispatcher. *)
Control(s) ==
  /\ CanHandle
  /\ phase = "started"
  /\ state' = s
  /\ UNCHANGED <<now, phase, terminated, thread, session, inbound, stream,
                 all_symbols, answer>>

-----------------------------------------------------------------------------
(* The requests of the clients. *)

(* What CreateOrder, ModifyOrder, CancelOrder and CancelAllOrders answer:  *)
(* get_order_entry throws for a stranger, the session throws unless it is  *)
(* ready, and a session that is ready ends the process.                    *)
HasOrderEntry(a) == a \in DOMAIN session

Answer(a) ==
  CASE ~HasOrderEntry(a) -> "unknown account"
    [] HasOrderEntry(a) /\ ~IsReady(session[a]) -> "not ready"
    [] HasOrderEntry(a) /\ IsReady(session[a]) -> "fatal"

Order(a) ==
  /\ CanHandle
  /\ phase = "started"
  /\ answer' = Answer(a)
  /\ terminated' = (Answer(a) = "fatal")
  /\ UNCHANGED <<now, phase, thread, session, inbound, stream, all_symbols, state>>

(* MassQuote and CancelQuotes throw. *)
Quote ==
  /\ CanHandle
  /\ phase = "started"
  /\ answer' = "not supported"
  /\ UNCHANGED <<now, phase, terminated, thread, session, inbound, stream,
                 all_symbols, state>>

-----------------------------------------------------------------------------
(* The events of the network. *)

(* The connection manager connects an account and calls Connected. *)
Connect(a) ==
  /\ CanHandle
  /\ session[a].connection = "connecting"
  /\ session' = [session EXCEPT ![a] = OnConnected(@, now)]
  /\ UNCHANGED <<now, phase, terminated, thread, inbound, stream, all_symbols,
                 state, answer>>

(* The connection manager notices the end of a connection. *)
Disconnect(a) ==
  /\ CanHandle
  /\ session[a].connection \in {"lost", "closing"}
  /\ session' = [session EXCEPT ![a] = OnDisconnected(@)]
  /\ inbound' = inbound \ {a}
  /\ UNCHANGED <<now, phase, terminated, thread, stream, all_symbols, state, answer>>

(* Parser::dispatch: log::fatal for a message no case of the switch knows; *)
(* a handler for the others, and true, whatever the length of the message. *)
ParserDispatch(known) == IF known THEN "true" ELSE "fatal"

(* operator()(Trace<Read>): the loop tests buffer, which no round of it    *)
(* changes, so it ends only with the process.  Its first round stands for  *)
(* all: the buffer and the session are the same in each.  What has arrived *)
(* may be less than a message header: an assertion ends the process then,  *)
(* or, without assertions, whatever bytes follow are taken for the header, *)
(* which is known or not.  The decoder of a message throws if less than    *)
(* the message has arrived: that ends the process too, or, if the library  *)
(* catches it, the read was nothing to the gateway, a stutter.             *)
Read(a, known) ==
  /\ CanHandle
  /\ a \in inbound
  /\ Refresh(session[a])
  /\ IF ParserDispatch(known) = "true"
     THEN /\ session' = [session EXCEPT ![a] = OnMessage(@)]
          /\ thread' = a
          /\ UNCHANGED terminated
     ELSE /\ terminated' = TRUE
          /\ UNCHANGED <<session, thread>>
  /\ UNCHANGED <<now, phase, inbound, stream, all_symbols, state, answer>>

(* A multicast stream reads what has arrived, after Stop too, which is     *)
(* empty and leaves the receiver open.  What that does to the channels of  *)
(* such a stream is the business of MarketData; nothing else here depends  *)
(* on it, as the message handlers are empty.                               *)
ReadStream(m) ==
  /\ CanHandle
  /\ phase # "created"
  /\ stream' = [stream EXCEPT ![m] = [connection_status |-> "READY",
                                      last_update_time |-> now]]
  /\ UNCHANGED <<now, phase, terminated, thread, session, inbound, all_symbols,
                 state, answer>>

-----------------------------------------------------------------------------
(* The exchange and the clock, which do not wait for the thread. *)

Arrive(a) ==
  /\ session[a].connection = "connected"
  /\ a \notin inbound
  /\ inbound' = inbound \cup {a}
  /\ UNCHANGED <<now, phase, terminated, thread, session, stream, all_symbols,
                 state, answer>>

PeerCloses(a) ==
  /\ session[a].connection = "connected"
  /\ session' = [session EXCEPT ![a].connection = "lost"]
  /\ UNCHANGED <<now, phase, terminated, thread, inbound, stream, all_symbols,
                 state, answer>>

Tick ==
  /\ now < MaxTime
  /\ now' = now + 1
  /\ UNCHANGED <<phase, terminated, thread, session, inbound, stream,
                 all_symbols, state, answer>>

Next ==
  \/ Start
  \/ Stop
  \/ Timer
  \/ Quote
  \/ Tick
  \/ \E symbol \in Symbols : Subscribe(symbol)
  \/ \E s \in {"ENABLED", "DISABLED"} : Control(s)
  \/ \E a \in Accounts \cup Strangers : Order(a)
  \/ \E a \in Accounts : Connect(a)
  \/ \E a \in Accounts : Disconnect(a)
  \/ \E a \in Accounts, known \in BOOLEAN : Read(a, known)
  \/ \E a \in Accounts : Arrive(a)
  \/ \E a \in Accounts : PeerCloses(a)
  \/ \E m \in Streams : ReadStream(m)

Spec == Init /\ [][Next]_vars

(* The server starts and keeps calling the timer, the exchange accepts a   *)
(* connection again, and the event loop reports the loss of one.           *)
FairSpec ==
  /\ Spec
  /\ WF_vars(Start)
  /\ WF_vars(Tick)
  /\ WF_vars(Timer)
  /\ \A a \in Accounts : WF_vars(Connect(a)) /\ WF_vars(Disconnect(a))

-----------------------------------------------------------------------------
(* The type invariant: every variable stays within the states of the code. *)
TypeOK ==
  /\ now \in Nat
  /\ phase \in {"created", "started", "stopped"}
  /\ terminated \in BOOLEAN
  /\ thread \in Accounts \cup {Idle}
  /\ session \in [Accounts -> Session]
  /\ inbound \subseteq Accounts
  /\ stream \in [Streams -> StreamState]
  /\ all_symbols \subseteq Symbols
  /\ state \in {"UNDEFINED", "ENABLED", "DISABLED"}
  /\ answer \in {"none", "unknown account", "not ready", "not supported", "fatal"}

(* A connection is logged on at most once, never before the delay has      *)
(* passed since it was made, and the delay of an earlier connection never  *)
(* logs a later one on (OrderEntry::operator()(Trace<Timer>), Connected).  *)
OneLogonPerConnection ==
  \A a \in Accounts :
    LET s == session[a] IN
    /\ Len(s.logons) <= 1
    /\ \A i \in DOMAIN s.logons : s.logons[i] > s.connected_at + TestOrderLogon

(* assert(test_logon_time_.count() == 0) of the Connected callback holds   *)
(* whenever the connection manager may call it, even if the connection     *)
(* before was lost between Connected and the logon.                        *)
ConnectAssertion ==
  \A a \in Accounts :
    session[a].connection = "connecting" => ~IsSet(session[a].test_logon_time)

(* The status of a session never outlives its connection: LOGIN_SENT means *)
(* that the connection there is, or that was there when the gateway was    *)
(* stopped, has been logged on (the status dispatched by Timer and         *)
(* Disconnected).                                                          *)
StatusIsCurrent ==
  \A a \in Accounts :
    session[a].connection_status = "LOGIN_SENT" =>
      /\ session[a].connection # "connecting"
      /\ session[a].logons # <<>>

(* No order request ends the process, whatever the session has been        *)
(* through: the log::fatal behind the check of ready() is never reached    *)
(* (OrderEntry::operator()(Event<CreateOrder>) and its siblings).          *)
NoFatalRequest == answer # "fatal"

(* The sessions of all accounts together keep the protocol of logons: what *)
(* is told of an account agrees with its connection, whatever is lost,     *)
(* made again and logged on at the same time for the others                *)
(* (OrderEntry::operator()(Trace<Timer>), Connected, Disconnected).        *)
Protocol == INSTANCE LogonProtocol WITH
  connected <- {a \in Accounts : session[a].connection \in {"connected", "lost", "closing"}},
  logons <- [a \in Accounts |-> Len(session[a].logons)],
  status <- [a \in Accounts |-> session[a].connection_status]

IsLogonProtocol == Protocol!Spec

(* The thread still handles events. *)
Running == phase = "started" /\ ~terminated /\ thread = Idle

(* A connection that lasts is logged on once the delay has passed, as long *)
(* as the thread handles events: neither the other accounts nor an earlier *)
(* connection of the account keep it from that                             *)
(* (OrderEntry::operator()(Trace<Timer>), Controller::dispatch).           *)
LogonFollows ==
  \A a \in Accounts, t \in 1 .. MaxTime :
    (session[a].connection = "connected" /\ session[a].connected_at = t
       /\ t + TestOrderLogon < MaxTime)
      ~> (\/ session[a].logons # <<>>
          \/ session[a].connection # "connected"
          \/ session[a].connected_at # t
          \/ ~Running)

(* A connection that is lost is made again, as long as the thread handles  *)
(* events: a loss never leaves a session waiting (always_reconnect of      *)
(* create_connection_manager, the Disconnected callback).                  *)
Reconnects ==
  \A a \in Accounts :
    session[a].connection = "lost"
      ~> (session[a].connection = "connected" \/ ~Running)

(* "Auto-reconnect after exchange maintenance (#246)", CHANGELOG.md: a     *)
(* connection that is lost is made again while the gateway runs            *)
(* (OrderEntry::operator()(Trace<Read>) is what stands in its way).        *)
AutoReconnect ==
  \A a \in Accounts :
    session[a].connection = "lost"
      ~> (session[a].connection = "connected" \/ terminated \/ phase = "stopped")

(* CreateOrder is "Available", index.rst: a session that is connected and  *)
(* stays so becomes ready for requests (OrderEntry::ready, download).      *)
OrdersBecomeAvailable ==
  \A a \in Accounts :
    session[a].connection = "connected"
      ~> (IsReady(session[a]) \/ session[a].connection # "connected" \/ ~Running)

=============================================================================
