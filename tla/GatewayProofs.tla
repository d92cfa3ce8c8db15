--------------------------- MODULE GatewayProofs ---------------------------
(***************************************************************************)
(* That the order sessions of a gateway keep the protocol of logons, for   *)
(* any accounts, any settings and any behaviour of the network.            *)
(***************************************************************************)
EXTENDS Gateway, SequenceTheorems, TLAPS

-----------------------------------------------------------------------------
(***************************************************************************)
(* The invariant of one session.  The logon timer is set only while the    *)
(* connection that set it has not been logged on, so it never fires twice  *)
(* nor on the next connection; READY is never told.  Nothing sets ready_   *)
(* or last_logon_or_heartbeat_, so the session neither sends a heartbeat   *)
(* nor closes its connection.                                              *)
(***************************************************************************)
Up == {"connected", "lost", "closing"}

SessionInv(s) ==
  /\ s \in Session
  /\ s.connection_status # "READY"
  /\ ~s.ready
  /\ s.last_logon_or_heartbeat = 0
  /\ s.next_heartbeat = 0
  /\ s.connection # "closing"
  /\ s.connection = "connecting" => s.test_logon_time = 0
  /\ s.connection = "connecting" => s.connection_status # "LOGIN_SENT"
  /\ s.connection_status = "LOGIN_SENT" => s.logons # <<>>
  /\ s.test_logon_time # 0 => s.logons = <<>>
  /\ s.test_logon_time # 0 => s.test_logon_time = s.connected_at + TestOrderLogon
  /\ Len(s.logons) <= 1
  /\ \A i \in DOMAIN s.logons : s.logons[i] > s.connected_at + TestOrderLogon

(* The connection follows the phase of the gateway. *)
PhaseInv(p, s) ==
  /\ p = "created" => s = NewSession
  /\ p = "started" => s.connection # "stopped"
  /\ p = "stopped" => s.connection = "stopped"

GatewayInv ==
  /\ TypeOK
  /\ answer # "fatal"
  /\ \A a \in Accounts : SessionInv(session[a]) /\ PhaseInv(phase, session[a])

-----------------------------------------------------------------------------
(* The operators of OrderEntry keep the invariant of a session. *)

(* A session that is new. *)
LEMMA NewSessionInv == SessionInv(NewSession)
BY DEF SessionInv, NewSession, Session, Connection, Status

(* What the timer assigns has the types of the session. *)
LEMMA LogonType ==
  ASSUME NEW s \in Session, NEW l \in Seq(Nat)
  PROVE  [s EXCEPT !.test_logon_time = 0, !.connection_status = "LOGIN_SENT",
                   !.logons = l] \in Session
BY DEF Session, Connection, Status

(* What the callback Connected assigns has the types of the session. *)
LEMMA ConnectedType ==
  ASSUME NEW s \in Session, NEW t \in Nat, NEW logon \in Nat, NEW disconnect \in Nat,
         NEW l \in Seq(Nat)
  PROVE  [s EXCEPT !.connection = "connected", !.test_logon_time = logon,
                   !.test_disconnect_time = disconnect, !.connected_at = t,
                   !.logons = l] \in Session
BY DEF Session, Connection, Status

(* The server starts a new session. *)
LEMMA OnStartInv ==
  /\ SessionInv(OnStart(NewSession))
  /\ OnStart(NewSession).connection = "connecting"
  /\ OnStart(NewSession).logons = <<>>
  /\ OnStart(NewSession).connection_status = "UNDEFINED"
<1> DEFINE s == OnStart(NewSession)
<1>1. s = [NewSession EXCEPT !.connection = "connecting"]
  BY DEF OnStart
<1>2. NewSession \in Session
  BY NewSessionInv DEF SessionInv
<1>3. /\ s.connection = "connecting"
      /\ s.connection_status = "UNDEFINED"
      /\ s.logons = <<>>
      /\ s.test_logon_time = 0
      /\ s.last_logon_or_heartbeat = 0
      /\ s.next_heartbeat = 0
      /\ ~s.ready
  BY <1>1 DEF NewSession
<1>4. Len(s.logons) = 0 /\ DOMAIN s.logons = {}
  BY <1>3
<1>5. s \in Session
  BY <1>1, <1>2 DEF Session, Connection
<1> QED
  BY <1>3, <1>4, <1>5 DEF SessionInv

(* The server stops a session. *)
LEMMA OnStopInv ==
  ASSUME NEW s, SessionInv(s)
  PROVE  /\ SessionInv(OnStop(s))
         /\ OnStop(s).connection = "stopped"
         /\ OnStop(s).logons = s.logons
         /\ OnStop(s).connection_status = s.connection_status
BY DEF SessionInv, OnStop, Session, Connection, Status

(* The exchange closes a connection. *)
LEMMA EndingInv ==
  ASSUME NEW s, SessionInv(s), s.connection \in Up
  PROVE  SessionInv([s EXCEPT !.connection = "lost"])
BY DEF SessionInv, Up, Session, Connection, Status

(* A logon that is due, of a connection that was not logged on. *)
LEMMA LogonInv ==
  ASSUME NEW s, SessionInv(s), NEW t \in Nat,
         s.connection \in Up, LogonDue(s, t)
  PROVE  /\ SessionInv(Logon(s, t))
         /\ s.logons = <<>>
         /\ Logon(s, t).logons = <<t>>
         /\ Logon(s, t).connection = s.connection
         /\ Logon(s, t).connection_status = "LOGIN_SENT"
<1>0. s \in Session /\ TestOrderLogon \in Nat
  BY SettingsAssumption DEF SessionInv
<1>1. s.logons = <<>> /\ s.test_logon_time = s.connected_at + TestOrderLogon
  BY DEF SessionInv, LogonDue, IsSet
<1>2. t > s.connected_at + TestOrderLogon
  BY <1>0, <1>1 DEF LogonDue, Session
<1>3. Append(s.logons, t) = <<t>>
  BY <1>1
<1>4. Logon(s, t) = [s EXCEPT !.test_logon_time = 0, !.connection_status = "LOGIN_SENT",
                              !.logons = <<t>>]
  BY <1>0, <1>3 DEF Logon, Session
<1>5. <<t>> \in Seq(Nat) /\ Len(<<t>>) = 1 /\ DOMAIN <<t>> = {1} /\ <<t>>[1] = t
  OBVIOUS
<1>6. Logon(s, t) \in Session
  <2> DEFINE l == <<t>>
  <2>1. l \in Seq(Nat)
    BY <1>5
  <2>2. Logon(s, t) = [s EXCEPT !.test_logon_time = 0, !.connection_status = "LOGIN_SENT",
                                !.logons = l]
    BY <1>4
  <2> HIDE DEF l
  <2>3. [s EXCEPT !.test_logon_time = 0, !.connection_status = "LOGIN_SENT",
                  !.logons = l] \in Session
    BY <1>0, <2>1, LogonType
  <2> QED
    BY <2>2, <2>3
<1>7. /\ Logon(s, t).logons = <<t>>
      /\ Logon(s, t).connection = s.connection
      /\ Logon(s, t).connection_status = "LOGIN_SENT"
      /\ Logon(s, t).test_logon_time = 0
      /\ Logon(s, t).ready = s.ready
      /\ Logon(s, t).last_logon_or_heartbeat = s.last_logon_or_heartbeat
      /\ Logon(s, t).next_heartbeat = s.next_heartbeat
      /\ Logon(s, t).connected_at = s.connected_at
  BY <1>0, <1>4 DEF Session
<1>8. /\ Len(Logon(s, t).logons) <= 1
      /\ Logon(s, t).logons # <<>>
      /\ \A i \in DOMAIN Logon(s, t).logons :
           Logon(s, t).logons[i] > Logon(s, t).connected_at + TestOrderLogon
  BY <1>2, <1>5, <1>7
<1>9. /\ s.connection \notin {"connecting", "closing"} /\ ~s.ready
      /\ s.last_logon_or_heartbeat = 0 /\ s.next_heartbeat = 0
  BY DEF SessionInv, Up
<1> QED
  BY <1>1, <1>6, <1>7, <1>8, <1>9 DEF SessionInv

(* A connection is made. *)
LEMMA OnConnectedInv ==
  ASSUME NEW s, SessionInv(s), s.connection = "connecting", NEW t \in Nat
  PROVE  /\ SessionInv(OnConnected(s, t))
         /\ OnConnected(s, t).connection = "connected"
         /\ OnConnected(s, t).logons = <<>>
         /\ OnConnected(s, t).connection_status = s.connection_status
<1>1. s \in Session /\ TestOrderLogon \in Nat /\ TestOrderDisconnect \in Nat
  BY SettingsAssumption DEF SessionInv
<1>2. OnConnected(s, t) \in Session
  <2> DEFINE disconnect == IF TestOrderDisconnect # 0 THEN t + TestOrderDisconnect
                                                      ELSE s.test_disconnect_time
             logon == t + TestOrderLogon
             l == <<>>
  <2>1. logon \in Nat /\ disconnect \in Nat
    BY <1>1 DEF Session
  <2>2. l \in Seq(Nat)
    OBVIOUS
  <2>3. OnConnected(s, t) =
          [s EXCEPT !.connection = "connected", !.test_logon_time = logon,
                    !.test_disconnect_time = disconnect, !.connected_at = t,
                    !.logons = l]
    BY DEF OnConnected
  <2> HIDE DEF disconnect, logon, l
  <2>4. [s EXCEPT !.connection = "connected", !.test_logon_time = logon,
                  !.test_disconnect_time = disconnect, !.connected_at = t,
                  !.logons = l] \in Session
    BY <1>1, <2>1, <2>2, ConnectedType
  <2> QED
    BY <2>3, <2>4
<1>3. /\ s.connection_status # "LOGIN_SENT"
      /\ s.connection_status # "READY"
      /\ ~s.ready
      /\ s.last_logon_or_heartbeat = 0
      /\ s.next_heartbeat = 0
  BY DEF SessionInv
<1>4. /\ OnConnected(s, t).connection = "connected"
      /\ OnConnected(s, t).connection_status = s.connection_status
      /\ OnConnected(s, t).ready = s.ready
      /\ OnConnected(s, t).last_logon_or_heartbeat = s.last_logon_or_heartbeat
      /\ OnConnected(s, t).next_heartbeat = s.next_heartbeat
      /\ OnConnected(s, t).logons = <<>>
      /\ OnConnected(s, t).connected_at = t
      /\ OnConnected(s, t).test_logon_time = t + TestOrderLogon
  BY <1>1 DEF OnConnected, Session
<1>5. Len(OnConnected(s, t).logons) = 0 /\ DOMAIN OnConnected(s, t).logons = {}
  BY <1>4
<1> QED
  BY <1>2, <1>3, <1>4, <1>5 DEF SessionInv

(* A connection has ended. *)
LEMMA OnDisconnectedInv ==
  ASSUME NEW s, SessionInv(s)
  PROVE  /\ SessionInv(OnDisconnected(s))
         /\ OnDisconnected(s).connection = "connecting"
         /\ OnDisconnected(s).logons = s.logons
         /\ OnDisconnected(s).connection_status = "DISCONNECTED"
BY DEF SessionInv, OnDisconnected, Session, Connection, Status

(* What the timer may do to a session: nothing, or log it on. *)
LEMMA OnTimerCases ==
  ASSUME NEW s, SessionInv(s), NEW t
  PROVE  \/ OnTimer(s, t) = s
         \/ s.connection \in Up /\ LogonDue(s, t) /\ OnTimer(s, t) = Logon(s, t)
BY DEF OnTimer, SessionInv, Refresh, RequestTimedOut, IsSet, Up

(* The timer keeps the invariant and tells nothing but a logon. *)
LEMMA OnTimerInv ==
  ASSUME NEW s, SessionInv(s), NEW t \in Nat
  PROVE  /\ SessionInv(OnTimer(s, t))
         /\ OnTimer(s, t).connection = s.connection \/ (s.connection \in Up /\ OnTimer(s, t).connection \in Up)
         /\ \/ /\ OnTimer(s, t).logons = s.logons
               /\ OnTimer(s, t).connection_status = s.connection_status
            \/ /\ s.connection \in Up
               /\ s.logons = <<>>
               /\ Len(OnTimer(s, t).logons) = 1
               /\ OnTimer(s, t).connection_status = "LOGIN_SENT"
<1>1. CASE OnTimer(s, t) = s
  BY <1>1
<1>2. CASE s.connection \in Up /\ LogonDue(s, t) /\ OnTimer(s, t) = Logon(s, t)
  <2>1. Len(<<t>>) = 1
    OBVIOUS
  <2> QED
    BY <1>2, <2>1, LogonInv
<1> QED
  BY <1>1, <1>2, OnTimerCases

-----------------------------------------------------------------------------
(* The invariant holds at first. *)
LEMMA InitInv == Init => GatewayInv
<1> SUFFICES ASSUME Init PROVE GatewayInv
  OBVIOUS
<1>1. NewSession \in Session
  BY NewSessionInv DEF SessionInv
<1>2. TypeOK
  BY <1>1 DEF Init, TypeOK, StreamState
<1>3. \A a \in Accounts : SessionInv(session[a]) /\ PhaseInv(phase, session[a])
  BY NewSessionInv DEF Init, PhaseInv
<1> QED
  BY <1>2, <1>3 DEF GatewayInv, Init

(* A step that leaves the sessions alone keeps the invariant when it keeps *)
(* the types and ends no process.                                          *)
LEMMA OtherInv ==
  ASSUME GatewayInv, TypeOK', answer' # "fatal", UNCHANGED <<session, phase>>
  PROVE  GatewayInv'
BY DEF GatewayInv, PhaseInv

(* A step that changes sessions keeps the invariant when each of them      *)
(* keeps its own and the others keep their types.                          *)
LEMMA SessionsInv ==
  ASSUME NEW f, session' = [a \in Accounts |-> f[a]],
         \A a \in Accounts : SessionInv(f[a]) /\ PhaseInv(phase', f[a]),
         answer' # "fatal",
         session' \in [Accounts -> Session] => TypeOK'
  PROVE  GatewayInv'
<1>1. session' \in [Accounts -> Session]
  BY DEF SessionInv
<1>2. \A a \in Accounts : SessionInv(session'[a]) /\ PhaseInv(phase', session'[a])
  BY DEF PhaseInv
<1> QED
  BY <1>1, <1>2 DEF GatewayInv

(* The events of the server keep the invariant. *)
LEMMA StartInv == ASSUME GatewayInv, Start PROVE GatewayInv'
<1> DEFINE f == [a \in Accounts |-> OnStart(session[a])]
<1>1. ASSUME NEW a \in Accounts
      PROVE  SessionInv(f[a]) /\ PhaseInv(phase', f[a])
  <2>1. phase' = "started" /\ session[a] = NewSession
    BY DEF GatewayInv, PhaseInv, Start
  <2>2. f[a] = OnStart(NewSession)
    BY <2>1
  <2>3. f[a].connection # "stopped"
    BY <2>2, OnStartInv
  <2> HIDE DEF f
  <2> QED
    BY <2>1, <2>2, <2>3, OnStartInv DEF PhaseInv
<1>2. session' \in [Accounts -> Session] => TypeOK'
  BY DEF Start, StreamStarted, StreamState, GatewayInv, TypeOK
<1>3. session' = [a \in Accounts |-> f[a]] /\ answer' # "fatal"
  BY DEF Start, GatewayInv
<1> HIDE DEF f
<1> QED
  BY <1>1, <1>2, <1>3, SessionsInv

(* So does the end of the gateway. *)
LEMMA StopInv == ASSUME GatewayInv, Stop PROVE GatewayInv'
<1> DEFINE f == [a \in Accounts |-> OnStop(session[a])]
<1>1. ASSUME NEW a \in Accounts
      PROVE  SessionInv(f[a]) /\ PhaseInv(phase', f[a])
  <2>1. phase' = "stopped" /\ SessionInv(session[a])
    BY DEF GatewayInv, Stop
  <2> QED
    BY <2>1, OnStopInv DEF PhaseInv
<1>2. session' \in [Accounts -> Session] => TypeOK'
  BY DEF Stop, GatewayInv, TypeOK
<1>3. session' = [a \in Accounts |-> f[a]] /\ answer' # "fatal"
  BY DEF Stop, GatewayInv
<1> HIDE DEF f
<1> QED
  BY <1>1, <1>2, <1>3, SessionsInv

(* So does the timer, for all sessions and streams at once. *)
LEMMA TimerInv == ASSUME GatewayInv, Timer PROVE GatewayInv'
<1> DEFINE f == [a \in Accounts |-> OnTimer(session[a], now)]
<1>1. ASSUME NEW a \in Accounts
      PROVE  SessionInv(f[a]) /\ PhaseInv(phase', f[a])
  <2>1. /\ phase' = "started"
        /\ now \in Nat
        /\ SessionInv(session[a])
        /\ session[a].connection # "stopped"
    BY DEF GatewayInv, PhaseInv, TypeOK, Timer
  <2>2. SessionInv(f[a]) /\ f[a].connection # "stopped"
    BY <2>1, OnTimerInv DEF Up
  <2> HIDE DEF f
  <2> QED
    BY <2>1, <2>2 DEF PhaseInv
<1>2. stream' \in [Streams -> StreamState]
  BY DEF Timer, DispatchTimer, StreamTimedOut, StreamState, GatewayInv, TypeOK
<1>3. session' \in [Accounts -> Session] => TypeOK'
  BY <1>2 DEF Timer, GatewayInv, TypeOK
<1>4. session' = [a \in Accounts |-> f[a]] /\ answer' # "fatal"
  BY DEF Timer, DispatchTimer, GatewayInv
<1> HIDE DEF f
<1> QED
  BY <1>1, <1>3, <1>4, SessionsInv

(* A connection that is not stopped belongs to a gateway that runs. *)
LEMMA RunningPhase ==
  ASSUME GatewayInv, NEW a \in Accounts, session[a].connection # "stopped"
  PROVE  phase = "started" /\ SessionInv(session[a])
<1>1. NewSession.connection = "stopped"
  BY DEF NewSession
<1> QED
  BY <1>1 DEF GatewayInv, PhaseInv, TypeOK

(* An event of one connection keeps the invariant when its session does. *)
LEMMA OneSessionInv ==
  ASSUME GatewayInv, NEW a \in Accounts, session[a].connection # "stopped",
         NEW s, SessionInv(s), s.connection # "stopped",
         session' = [session EXCEPT ![a] = s],
         phase' = phase, answer' = answer,
         session' \in [Accounts -> Session] => TypeOK'
  PROVE  GatewayInv'
<1> DEFINE f == [session EXCEPT ![a] = s]
<1>1. ASSUME NEW b \in Accounts
      PROVE  SessionInv(f[b]) /\ PhaseInv(phase', f[b])
  <2>1. phase' = "started"
    BY RunningPhase
  <2>2. SessionInv(session[b]) /\ session[b].connection # "stopped"
    BY <2>1 DEF GatewayInv, PhaseInv
  <2>3. f[b] = IF b = a THEN s ELSE session[b]
    BY DEF GatewayInv, TypeOK
  <2> HIDE DEF f
  <2> QED
    BY <2>1, <2>2, <2>3 DEF PhaseInv
<1>2. session' = [b \in Accounts |-> f[b]] /\ answer' # "fatal"
  BY DEF GatewayInv, TypeOK
<1> HIDE DEF f
<1> QED
  BY <1>1, <1>2, SessionsInv

(* A connection that is made keeps the invariant. *)
LEMMA ConnectInv == ASSUME GatewayInv, NEW a \in Accounts, Connect(a) PROVE GatewayInv'
<1> DEFINE s == OnConnected(session[a], now)
<1>1. session[a].connection = "connecting"
  BY DEF Connect
<1>2. SessionInv(s) /\ s.connection # "stopped"
  BY <1>1, RunningPhase, OnConnectedInv DEF GatewayInv, TypeOK
<1>3. session' = [session EXCEPT ![a] = s] /\ phase' = phase /\ answer' = answer
  BY DEF Connect
<1>4. session' \in [Accounts -> Session] => TypeOK'
  BY DEF Connect, GatewayInv, TypeOK
<1> HIDE DEF s
<1> QED
  BY <1>1, <1>2, <1>3, <1>4, OneSessionInv

(* So does one that has ended. *)
LEMMA DisconnectInv == ASSUME GatewayInv, NEW a \in Accounts, Disconnect(a) PROVE GatewayInv'
<1> DEFINE s == OnDisconnected(session[a])
<1>1. session[a].connection # "stopped"
  BY DEF Disconnect
<1>2. SessionInv(s) /\ s.connection # "stopped"
  BY <1>1, RunningPhase, OnDisconnectedInv
<1>3. session' = [session EXCEPT ![a] = s] /\ phase' = phase /\ answer' = answer
  BY DEF Disconnect
<1>4. session' \in [Accounts -> Session] => TypeOK'
  BY DEF Disconnect, GatewayInv, TypeOK
<1> HIDE DEF s
<1> QED
  BY <1>1, <1>2, <1>3, <1>4, OneSessionInv

(* So does one that the exchange closes. *)
LEMMA PeerClosesInv == ASSUME GatewayInv, NEW a \in Accounts, PeerCloses(a) PROVE GatewayInv'
<1> DEFINE s == [session[a] EXCEPT !.connection = "lost"]
<1>1. session[a].connection = "connected"
  BY DEF PeerCloses
<1>2. SessionInv(s)
  BY <1>1, RunningPhase, EndingInv DEF Up
<1>3. s.connection # "stopped"
  BY <1>1, RunningPhase DEF SessionInv, Session
<1>4. session' = [session EXCEPT ![a] = s] /\ phase' = phase /\ answer' = answer
  BY DEF PeerCloses
<1>5. session' \in [Accounts -> Session] => TypeOK'
  BY DEF PeerCloses, GatewayInv, TypeOK
<1> HIDE DEF s
<1> QED
  BY <1>1, <1>2, <1>3, <1>4, <1>5, OneSessionInv

(* A message leaves its session alone, and no order ends the process. *)
LEMMA ReadInv ==
  ASSUME GatewayInv, NEW a \in Accounts, NEW known \in BOOLEAN, Read(a, known)
  PROVE  GatewayInv'
<1>1. session' = session
  BY DEF Read, OnMessage, GatewayInv, TypeOK
<1>2. TypeOK'
  BY <1>1 DEF Read, GatewayInv, TypeOK
<1>3. answer' # "fatal" /\ UNCHANGED <<session, phase>>
  BY <1>1 DEF Read, GatewayInv
<1> QED
  BY <1>2, <1>3, OtherInv

(* An order is refused, of whatever account. *)
LEMMA OrderInv ==
  ASSUME GatewayInv, NEW a \in Accounts \cup Strangers, Order(a)
  PROVE  GatewayInv'
<1>1. Answer(a) \in {"unknown account", "not ready"}
  <2>1. DOMAIN session = Accounts
    BY DEF GatewayInv, TypeOK
  <2>2. HasOrderEntry(a) => ~IsReady(session[a])
    BY <2>1 DEF HasOrderEntry, IsReady, GatewayInv, SessionInv
  <2> QED
    BY <2>2 DEF Answer
<1>2. TypeOK' /\ answer' # "fatal"
  BY <1>1 DEF Order, GatewayInv, TypeOK
<1>3. UNCHANGED <<session, phase>>
  BY DEF Order
<1> QED
  BY <1>2, <1>3, OtherInv

(* Every step keeps the invariant. *)
LEMMA StepInv == GatewayInv /\ [Next]_vars => GatewayInv'
<1> SUFFICES ASSUME GatewayInv, [Next]_vars PROVE GatewayInv'
  OBVIOUS
<1>1. CASE Start
  BY <1>1, StartInv
<1>2. CASE Stop
  BY <1>2, StopInv
<1>3. CASE Timer
  BY <1>3, TimerInv
<1>4. CASE Quote
  <2>1. TypeOK' /\ answer' # "fatal" /\ UNCHANGED <<session, phase>>
    BY <1>4 DEF Quote, GatewayInv, TypeOK
  <2> QED
    BY <2>1, OtherInv
<1>5. CASE Tick
  <2>1. now' \in Nat
    <3>1. now \in Nat
      BY DEF GatewayInv, TypeOK
    <3> QED
      BY <1>5, <3>1 DEF Tick
  <2>2. TypeOK' /\ answer' # "fatal" /\ UNCHANGED <<session, phase>>
    BY <1>5, <2>1 DEF Tick, GatewayInv, TypeOK
  <2> QED
    BY <2>2, OtherInv
<1>6. CASE \E symbol \in Symbols : Subscribe(symbol)
  <2>1. TypeOK' /\ answer' # "fatal" /\ UNCHANGED <<session, phase>>
    BY <1>6 DEF Subscribe, GatewayInv, TypeOK
  <2> QED
    BY <2>1, OtherInv
<1>7. CASE \E c \in {"ENABLED", "DISABLED"} : Control(c)
  <2>1. TypeOK' /\ answer' # "fatal" /\ UNCHANGED <<session, phase>>
    BY <1>7 DEF Control, GatewayInv, TypeOK
  <2> QED
    BY <2>1, OtherInv
<1>8. CASE \E a \in Accounts \cup Strangers : Order(a)
  BY <1>8, OrderInv
<1>9. CASE \E a \in Accounts : Connect(a)
  BY <1>9, ConnectInv
<1>10. CASE \E a \in Accounts : Disconnect(a)
  BY <1>10, DisconnectInv
<1>11. CASE \E a \in Accounts, known \in BOOLEAN : Read(a, known)
  BY <1>11, ReadInv
<1>12. CASE \E a \in Accounts : Arrive(a)
  <2>1. TypeOK' /\ answer' # "fatal" /\ UNCHANGED <<session, phase>>
    BY <1>12 DEF Arrive, GatewayInv, TypeOK
  <2> QED
    BY <2>1, OtherInv
<1>13. CASE \E a \in Accounts : PeerCloses(a)
  BY <1>13, PeerClosesInv
<1>14. CASE \E m \in Streams : ReadStream(m)
  <2>1. stream' \in [Streams -> StreamState]
    <3>1. now \in Nat /\ stream \in [Streams -> StreamState]
      BY DEF GatewayInv, TypeOK
    <3>2. [connection_status |-> "READY", last_update_time |-> now] \in StreamState
      BY <3>1 DEF StreamState
    <3> QED
      BY <1>14, <3>1, <3>2 DEF ReadStream
  <2>2. TypeOK' /\ answer' # "fatal" /\ UNCHANGED <<session, phase>>
    BY <1>14, <2>1 DEF ReadStream, GatewayInv, TypeOK
  <2> QED
    BY <2>2, OtherInv
<1>15. CASE UNCHANGED vars
  <2>1. TypeOK' /\ answer' # "fatal" /\ UNCHANGED <<session, phase>>
    BY <1>15 DEF vars, GatewayInv, TypeOK
  <2> QED
    BY <2>1, OtherInv
<1> QED
  BY <1>1, <1>2, <1>3, <1>4, <1>5, <1>6, <1>7, <1>8, <1>9, <1>10, <1>11, <1>12,
     <1>13, <1>14, <1>15 DEF Next

(* The invariant always holds. *)
LEMMA GatewayInvariant == Spec => []GatewayInv
BY InitInv, StepInv, PTL DEF Spec

(* Types: no session gets a status or a time the code has none of          *)
(* (members of OrderEntry and Controller).                                 *)
THEOREM TypeCorrect == Spec => []TypeOK
<1>1. GatewayInv => TypeOK
  BY DEF GatewayInv
<1> QED
  BY <1>1, GatewayInvariant, PTL

(* A connection is logged on once at most and never too early, of any      *)
(* number of accounts and for any delays (OrderEntry::operator()(Timer)).  *)
THEOREM LoggedOnOnce == Spec => []OneLogonPerConnection
<1>1. GatewayInv => OneLogonPerConnection
  BY DEF GatewayInv, SessionInv, OneLogonPerConnection
<1> QED
  BY <1>1, GatewayInvariant, PTL

(* The assertion of the callback Connected holds.                          *)
THEOREM AssertionHolds == Spec => []ConnectAssertion
<1>1. GatewayInv => ConnectAssertion
  BY DEF GatewayInv, SessionInv, ConnectAssertion, IsSet
<1> QED
  BY <1>1, GatewayInvariant, PTL

(* The status LOGIN_SENT is told of nothing but a connection that was      *)
(* logged on (the status dispatched by Timer and Disconnected).            *)
THEOREM StatusFollowsConnection == Spec => []StatusIsCurrent
<1>1. GatewayInv => StatusIsCurrent
  BY DEF GatewayInv, SessionInv, StatusIsCurrent
<1> QED
  BY <1>1, GatewayInvariant, PTL

(* No order of any client ends the process (the log::fatal behind the      *)
(* check of ready()).                                                      *)
THEOREM OrdersAreRefused == Spec => []NoFatalRequest
<1>1. GatewayInv => NoFatalRequest
  BY DEF GatewayInv, NoFatalRequest
<1> QED
  BY <1>1, GatewayInvariant, PTL

-----------------------------------------------------------------------------
(***************************************************************************)
(* What a session never does.  The code to close a connection that does    *)
(* not answer (request_timeout), to close one on test_order_disconnect, to *)
(* send heartbeats (ping_freq) and to be ready for orders is there, but no *)
(* behaviour of the gateway reaches it.                                    *)
(***************************************************************************)
SessionsAreInert ==
  \A a \in Accounts :
    /\ ~IsReady(session[a])
    /\ session[a].connection # "closing"
    /\ session[a].next_heartbeat = 0

(* For any accounts and settings no session becomes ready, closes its      *)
(* connection or sends a heartbeat: OrderEntry::ready() is false for good, *)
(* and three settings have no effect (OrderEntry::operator()(Timer)).      *)
THEOREM NoSessionDoesAnything == Spec => []SessionsAreInert
<1>1. GatewayInv => SessionsAreInert
  BY DEF GatewayInv, SessionInv, SessionsAreInert, IsReady
<1> QED
  BY <1>1, GatewayInvariant, PTL

(* Orders never become available: a connection that lasts, in a gateway    *)
(* whose thread handles events, refutes OrdersBecomeAvailable, for any     *)
(* accounts and settings (OrderEntry::ready, download).                    *)
THEOREM OrdersNeverBecomeAvailable ==
  ASSUME NEW a \in Accounts
  PROVE  Spec /\ <>[](session[a].connection = "connected" /\ Running)
           => ~OrdersBecomeAvailable
<1>1. OrdersBecomeAvailable =>
        (session[a].connection = "connected" ~>
           (IsReady(session[a]) \/ session[a].connection # "connected" \/ ~Running))
  BY DEF OrdersBecomeAvailable
<1>2. SessionsAreInert => ~IsReady(session[a])
  BY DEF SessionsAreInert
<1>3. session[a].connection # "connected" <=> ~(session[a].connection = "connected")
  OBVIOUS
<1> QED
  BY <1>1, <1>2, <1>3, NoSessionDoesAnything, PTL

-----------------------------------------------------------------------------
(***************************************************************************)
(* The first message.  Its Read handler either ends the process or never   *)
(* returns, and one thread calls every handler.                            *)
(***************************************************************************)

(* Without the thread, only the exchange and the clock move on: whatever   *)
(* else the gateway keeps stays as it is, and so does a lost connection.   *)
DeadStaysDead ==
  ~CanHandle =>
    /\ ~CanHandle'
    /\ UNCHANGED <<phase, terminated, thread, stream, all_symbols, state, answer>>
    /\ \A a \in Accounts :
         /\ session'[a].connection_status = session[a].connection_status
         /\ session[a].connection = "lost" => session'[a].connection = "lost"

(* Every step of the gateway is like that (CanHandle of its handlers).     *)
LEMMA DeadStep == GatewayInv /\ [Next]_vars => DeadStaysDead
<1> SUFFICES ASSUME GatewayInv, [Next]_vars, ~CanHandle PROVE DeadStaysDead
  BY DEF DeadStaysDead
<1>1. CASE \E a \in Accounts : PeerCloses(a)
  <2>1. PICK b \in Accounts : PeerCloses(b)
    BY <1>1
  <2>2. /\ UNCHANGED <<phase, terminated, thread, stream, all_symbols, state, answer>>
        /\ session' = [session EXCEPT ![b].connection = "lost"]
        /\ session \in [Accounts -> Session]
    BY <2>1 DEF PeerCloses, GatewayInv, TypeOK
  <2>3. ~CanHandle'
    BY <2>2 DEF CanHandle
  <2>4. ASSUME NEW a \in Accounts
        PROVE  /\ session'[a].connection_status = session[a].connection_status
               /\ session[a].connection = "lost" => session'[a].connection = "lost"
    <3>1. CASE a = b
      BY <2>2, <3>1 DEF Session
    <3>2. CASE a # b
      BY <2>2, <3>2
    <3> QED
      BY <3>1, <3>2
  <2> QED
    BY <2>2, <2>3, <2>4 DEF DeadStaysDead
<1>2. CASE Tick \/ (\E a \in Accounts : Arrive(a)) \/ UNCHANGED vars
  <2>1. UNCHANGED <<phase, terminated, thread, session, stream, all_symbols,
                    state, answer>>
    BY <1>2 DEF Tick, Arrive, vars
  <2> QED
    BY <2>1 DEF DeadStaysDead, CanHandle
<1> QED
  BY <1>1, <1>2 DEF Next, Start, Stop, Timer, Quote, Subscribe, Control, Order,
                    Connect, Disconnect, Read, ReadStream

(* The first message of any account that its decoder can take, or that has *)
(* none, is the last event the gateway handles: from then on no handler    *)
(* runs, no state but that of the network changes                          *)
(* (OrderEntry::operator()(Trace<Read>), Parser::dispatch).                *)
THEOREM FirstMessageIsLast ==
  /\ Spec => [][\A a \in Accounts, known \in BOOLEAN :
                  Read(a, known) => ~CanHandle']_vars
  /\ Spec => [](~CanHandle => []~CanHandle)
  /\ Spec => [][DeadStaysDead]_vars
<1>1. ASSUME NEW a \in Accounts, NEW known \in BOOLEAN, Read(a, known)
      PROVE  ~CanHandle'
  BY <1>1, IdleAssumption DEF Read, CanHandle
<1>2. [Next]_vars => [\A a \in Accounts, known \in BOOLEAN :
                        Read(a, known) => ~CanHandle']_vars
  BY <1>1
<1>3. GatewayInv /\ [Next]_vars => [DeadStaysDead]_vars
  BY DeadStep
<1>4. GatewayInv /\ ~CanHandle /\ [Next]_vars => ~CanHandle'
  BY DeadStep DEF DeadStaysDead
<1> QED
  BY <1>2, <1>3, <1>4, GatewayInvariant, PTL DEF Spec

(* A connection that is lost while the Read handler of some session runs   *)
(* on, in a gateway that nobody has stopped.                               *)
Hung(a) ==
  /\ thread # Idle
  /\ ~terminated
  /\ phase # "stopped"
  /\ session[a].connection = "lost"

(* Such a connection is never made again, although the gateway runs: every *)
(* behaviour that comes to this refutes AutoReconnect, whatever the server *)
(* and the network do, for any accounts and settings                       *)
(* (OrderEntry::operator()(Trace<Read>), always_reconnect).                *)
THEOREM HungIsForGood ==
  ASSUME NEW a \in Accounts
  PROVE  /\ Spec => [](Hung(a) => []Hung(a))
         /\ Spec /\ <>Hung(a) => ~AutoReconnect
<1>1. GatewayInv /\ Hung(a) /\ [Next]_vars => Hung(a)'
  <2> SUFFICES ASSUME GatewayInv, Hung(a), [Next]_vars PROVE Hung(a)'
    OBVIOUS
  <2>1. ~CanHandle
    BY DEF Hung, CanHandle
  <2>2. DeadStaysDead
    BY DeadStep
  <2> QED
    BY <2>1, <2>2 DEF DeadStaysDead, Hung
<1>2. Hung(a) =>
        /\ session[a].connection = "lost"
        /\ ~(session[a].connection = "connected" \/ terminated \/ phase = "stopped")
  BY DEF Hung
<1>3. AutoReconnect =>
        (session[a].connection = "lost" ~>
           (session[a].connection = "connected" \/ terminated \/ phase = "stopped"))
  BY DEF AutoReconnect
<1> QED
  BY <1>1, <1>2, <1>3, GatewayInvariant, PTL DEF Spec

-----------------------------------------------------------------------------
(* The refinement. *)

Connected == {a \in Accounts : session[a].connection \in Up}
Logons == [a \in Accounts |-> Len(session[a].logons)]
StatusTold == [a \in Accounts |-> session[a].connection_status]

(* The actions of LogonProtocol in terms of what the sessions are seen as. *)
LEMMA ProtocolNext ==
  ASSUME \/ \E a \in Accounts :
              /\ a \notin Connected
              /\ StatusTold[a] # "LOGIN_SENT"
              /\ Connected' = Connected \cup {a}
              /\ Logons' = [Logons EXCEPT ![a] = 0]
              /\ StatusTold' = StatusTold
         \/ \E S \in SUBSET Accounts :
              /\ \A a \in S : a \in Connected /\ Logons[a] = 0
              /\ Logons' = [a \in Accounts |-> IF a \in S THEN 1 ELSE Logons[a]]
              /\ StatusTold' = [a \in Accounts |-> IF a \in S THEN "LOGIN_SENT"
                                                            ELSE StatusTold[a]]
              /\ Connected' = Connected
         \/ \E a \in Accounts :
              /\ a \in Connected
              /\ Connected' = Connected \ {a}
              /\ StatusTold' = [StatusTold EXCEPT ![a] = "DISCONNECTED"]
              /\ Logons' = Logons
         \/ Connected' = {} /\ Logons' = Logons /\ StatusTold' = StatusTold
         \/ Connected' = Connected /\ Logons' = Logons /\ StatusTold' = StatusTold
  PROVE  [Protocol!Next]_(Protocol!vars)
BY DEF Protocol!Next, Protocol!Connect, Protocol!LogOn, Protocol!Disconnect,
       Protocol!Stop, Protocol!vars, Connected, Logons, StatusTold, Up

(* A new gateway is a new protocol. *)
LEMMA ProtocolInit == Init => Protocol!Init
<1> SUFFICES ASSUME Init PROVE Protocol!Init
  OBVIOUS
<1>1. /\ NewSession.connection = "stopped"
      /\ NewSession.connection_status = "UNDEFINED"
      /\ NewSession.logons = <<>>
  BY DEF NewSession
<1>2. Len(NewSession.logons) = 0
  BY <1>1
<1> QED
  BY <1>1, <1>2 DEF Init, Protocol!Init

(* A step that nobody sees. *)
LEMMA Unseen ==
  ASSUME \A a \in Accounts :
           /\ session'[a].connection \in Up <=> session[a].connection \in Up
           /\ session'[a].logons = session[a].logons
           /\ session'[a].connection_status = session[a].connection_status
  PROVE  [Protocol!Next]_(Protocol!vars)
<1>1. Connected' = Connected /\ Logons' = Logons /\ StatusTold' = StatusTold
  BY DEF Connected, Logons, StatusTold
<1> QED
  BY <1>1, ProtocolNext

(* The timer logs on those whose logons change. *)
LEMMA TimerLogsOn == ASSUME GatewayInv, Timer PROVE [Protocol!Next]_(Protocol!vars)
<1> DEFINE S == {a \in Accounts : session'[a].logons # session[a].logons}
<1>1. ASSUME NEW a \in Accounts
      PROVE  /\ session'[a].connection \in Up <=> session[a].connection \in Up
             /\ a \notin S => session'[a].connection_status = session[a].connection_status
             /\ a \in S => /\ session[a].connection \in Up
                          /\ session[a].logons = <<>>
                          /\ Len(session'[a].logons) = 1
                          /\ session'[a].connection_status = "LOGIN_SENT"
  <2>1. session'[a] = OnTimer(session[a], now)
    BY DEF Timer, DispatchTimer
  <2>2. SessionInv(session[a]) /\ now \in Nat
    BY DEF GatewayInv, TypeOK
  <2> DEFINE s == session[a]
             t == OnTimer(s, now)
  <2>3. /\ t.connection = s.connection \/ (s.connection \in Up /\ t.connection \in Up)
        /\ \/ t.logons = s.logons /\ t.connection_status = s.connection_status
           \/ /\ s.connection \in Up
              /\ s.logons = <<>>
              /\ Len(t.logons) = 1
              /\ t.connection_status = "LOGIN_SENT"
    BY <2>2, OnTimerInv
  <2>4. session'[a] = t
    BY <2>1
  <2> HIDE DEF t
  <2>5. a \in S <=> t.logons # s.logons
    BY <2>4
  <2>6. Len(<<>>) # 1
    OBVIOUS
  <2>7. CASE t.logons = s.logons /\ t.connection_status = s.connection_status
    BY <2>3, <2>4, <2>5, <2>7
  <2>8. CASE /\ s.connection \in Up
             /\ s.logons = <<>>
             /\ Len(t.logons) = 1
             /\ t.connection_status = "LOGIN_SENT"
    BY <2>3, <2>4, <2>5, <2>6, <2>8
  <2> QED
    BY <2>3, <2>7, <2>8
<1>2. Connected' = Connected
  BY <1>1 DEF Connected
<1>3. \A a \in S : a \in Connected /\ Logons[a] = 0
  <2>1. Len(<<>>) = 0
    OBVIOUS
  <2> QED
    BY <1>1, <2>1 DEF Connected, Logons
<1>4. Logons' = [a \in Accounts |-> IF a \in S THEN 1 ELSE Logons[a]]
  BY <1>1 DEF Logons
<1>5. StatusTold' = [a \in Accounts |-> IF a \in S THEN "LOGIN_SENT" ELSE StatusTold[a]]
  BY <1>1 DEF StatusTold
<1>6. S \in SUBSET Accounts
  OBVIOUS
<1> HIDE DEF S
<1> QED
  BY <1>2, <1>3, <1>4, <1>5, <1>6, ProtocolNext

(* A connection that is made is a connection of the protocol. *)
LEMMA ConnectConnects ==
  ASSUME GatewayInv, NEW a \in Accounts, Connect(a)
  PROVE  [Protocol!Next]_(Protocol!vars)
<1>1. /\ session[a].connection = "connecting"
      /\ session[a].connection_status # "LOGIN_SENT"
      /\ SessionInv(session[a])
  BY DEF Connect, GatewayInv, SessionInv
<1>2. /\ \A b \in Accounts : b # a => session'[b] = session[b]
      /\ session'[a] = OnConnected(session[a], now)
      /\ now \in Nat
  BY DEF Connect, GatewayInv, TypeOK
<1>3. /\ session'[a].connection = "connected"
      /\ session'[a].logons = <<>>
      /\ session'[a].connection_status = session[a].connection_status
  BY <1>1, <1>2, OnConnectedInv
<1>4. Len(session'[a].logons) = 0
  BY <1>3
<1>5. a \notin Connected /\ Connected' = Connected \cup {a}
  BY <1>1, <1>2, <1>3 DEF Connected, Up
<1>6. Logons' = [Logons EXCEPT ![a] = 0]
  BY <1>2, <1>4 DEF Logons
<1>7. StatusTold[a] # "LOGIN_SENT" /\ StatusTold' = StatusTold
  BY <1>1, <1>2, <1>3 DEF StatusTold
<1> QED
  BY <1>5, <1>6, <1>7, ProtocolNext

(* A connection that has ended is told of. *)
LEMMA DisconnectDisconnects ==
  ASSUME GatewayInv, NEW a \in Accounts, Disconnect(a)
  PROVE  [Protocol!Next]_(Protocol!vars)
<1>1. session[a].connection \in Up /\ SessionInv(session[a])
  BY DEF Disconnect, GatewayInv, Up
<1>2. /\ \A b \in Accounts : b # a => session'[b] = session[b]
      /\ session'[a] = OnDisconnected(session[a])
  BY DEF Disconnect, GatewayInv, TypeOK
<1>3. /\ session'[a].connection = "connecting"
      /\ session'[a].logons = session[a].logons
      /\ session'[a].connection_status = "DISCONNECTED"
  BY <1>1, <1>2, OnDisconnectedInv
<1>4. a \in Connected /\ Connected' = Connected \ {a}
  BY <1>1, <1>2, <1>3 DEF Connected, Up
<1>5. Logons' = Logons
  BY <1>2, <1>3 DEF Logons
<1>6. StatusTold' = [StatusTold EXCEPT ![a] = "DISCONNECTED"]
  BY <1>2, <1>3 DEF StatusTold
<1> QED
  BY <1>4, <1>5, <1>6, ProtocolNext

(* The end of the gateway ends every connection. *)
LEMMA StopStops == ASSUME GatewayInv, Stop PROVE [Protocol!Next]_(Protocol!vars)
<1>1. ASSUME NEW a \in Accounts
      PROVE  /\ session'[a].connection = "stopped"
             /\ session'[a].logons = session[a].logons
             /\ session'[a].connection_status = session[a].connection_status
  <2>1. SessionInv(session[a]) /\ session'[a] = OnStop(session[a])
    BY DEF Stop, GatewayInv
  <2> QED
    BY <2>1, OnStopInv
<1>2. Connected' = {}
  BY <1>1 DEF Connected, Up
<1>3. Logons' = Logons /\ StatusTold' = StatusTold
  BY <1>1 DEF Logons, StatusTold
<1> QED
  BY <1>2, <1>3, ProtocolNext

(* The start of the gateway looks for connections and has none yet. *)
LEMMA StartIsUnseen == ASSUME GatewayInv, Start PROVE [Protocol!Next]_(Protocol!vars)
<1>1. ASSUME NEW a \in Accounts
      PROVE  /\ session'[a].connection \in Up <=> session[a].connection \in Up
             /\ session'[a].logons = session[a].logons
             /\ session'[a].connection_status = session[a].connection_status
  <2>1. session[a] = NewSession /\ session'[a] = OnStart(session[a])
    BY DEF Start, GatewayInv, PhaseInv
  <2>2. /\ NewSession.connection = "stopped"
        /\ NewSession.logons = <<>>
        /\ NewSession.connection_status = "UNDEFINED"
    BY DEF NewSession
  <2> QED
    BY <2>1, <2>2, OnStartInv DEF Up
<1> QED
  BY <1>1, Unseen

(* The loss of a connection is not told of before it is noticed. *)
LEMMA PeerClosesIsUnseen ==
  ASSUME GatewayInv, NEW a \in Accounts, PeerCloses(a)
  PROVE  [Protocol!Next]_(Protocol!vars)
<1>1. session[a].connection = "connected" /\ session[a] \in Session
  BY DEF PeerCloses, GatewayInv, SessionInv
<1>2. /\ \A b \in Accounts : b # a => session'[b] = session[b]
      /\ session'[a] = [session[a] EXCEPT !.connection = "lost"]
  BY DEF PeerCloses, GatewayInv, TypeOK
<1>3. /\ session'[a].connection = "lost"
      /\ session'[a].logons = session[a].logons
      /\ session'[a].connection_status = session[a].connection_status
  BY <1>1, <1>2 DEF Session
<1> QED
  BY <1>1, <1>2, <1>3, Unseen DEF Up

(* Every step is one of the protocol or unseen. *)
LEMMA ProtocolStep ==
  ASSUME GatewayInv, [Next]_vars
  PROVE  [Protocol!Next]_(Protocol!vars)
<1>1. CASE Start
  BY <1>1, StartIsUnseen
<1>2. CASE Stop
  BY <1>2, StopStops
<1>3. CASE Timer
  BY <1>3, TimerLogsOn
<1>4. CASE \E a \in Accounts : Connect(a)
  BY <1>4, ConnectConnects
<1>5. CASE \E a \in Accounts : Disconnect(a)
  BY <1>5, DisconnectDisconnects
<1>6. CASE \E a \in Accounts : PeerCloses(a)
  BY <1>6, PeerClosesIsUnseen
<1>7. CASE \E a \in Accounts, known \in BOOLEAN : Read(a, known)
  <2>1. session' = session
    BY <1>7 DEF Read, OnMessage, GatewayInv, TypeOK
  <2> QED
    BY <2>1, Unseen
<1>8. CASE UNCHANGED session
  BY <1>8, Unseen
<1> QED
  BY <1>1, <1>2, <1>3, <1>4, <1>5, <1>6, <1>7, <1>8
     DEF Next, Quote, Tick, Subscribe, Control, Order, Arrive, ReadStream, vars

(* The sessions of a gateway keep the protocol of logons: for any accounts *)
(* and delays, and whatever the network does, what is told of an account   *)
(* agrees with its connection (the callbacks and the timer of OrderEntry). *)
THEOREM GatewayIsLogonProtocol == Spec => IsLogonProtocol
<1>1. Init => Protocol!Init
  BY ProtocolInit
<1>2. GatewayInv /\ [Next]_vars => [Protocol!Next]_(Protocol!vars)
  BY ProtocolStep
<1> QED
  BY <1>1, <1>2, GatewayInvariant, PTL DEF Spec, IsLogonProtocol, Protocol!Spec

=============================================================================
