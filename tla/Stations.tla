------------------------------ MODULE Stations ------------------------------
(***************************************************************************)
(* The station side of cpms: csms.Server, which accepts the WebSockets a   *)
(* charge point dials in on and keeps the live one registered, and the     *)
(* part of core.Service that says whether the station is online and what   *)
(* each EVSE is doing.                                                     *)
(*                                                                         *)
(* One charge point is configured.  Each connection is served by its own   *)
(* goroutine; the steps it takes under csms' lock and under core's lock    *)
(* are separate here, as they are in serveConn.                            *)
(***************************************************************************)
EXTENDS Integers, Sequences

CONSTANTS
  Conns,          \* connections the charge point can make
  NoConn,         \* no connection is registered
  Connectors,     \* OCPP connector ids the charge point reports on
  Mapped,         \* the ones the configuration maps to an EVSE
  WireStatuses,   \* OCPP 1.6 statuses it reports
  MaxReports,     \* bound on the number of StatusNotifications
  CallBuffer      \* callBuffer: inbound calls a connection may queue

ASSUME StationsAssumption ==
  /\ NoConn \notin Conns
  /\ Connectors \subseteq Nat
  /\ Mapped \subseteq Connectors \ {0}
  /\ MaxReports \in Nat
  /\ CallBuffer \in Nat \ {0}

VARIABLES
  pc,          \* where the goroutine of each connection is
  open,        \* connections whose Conn has not been closed
  registered,  \* Server.conns for the configured identity
  calls,       \* calls read from each connection and not handled yet, in order
  online,      \* chargePointState.online
  station,     \* chargePointState.station: the status of connector 0
  known,       \* connectors with an EVSE (chargePointState.order)
  reported,    \* what the charge point last said of each EVSE, or "none"
  effective,   \* what the rest of cpms sees
  shutdown,    \* how far Server.Shutdown is
  sent         \* StatusNotifications the charge point has sent, for the bound

server == <<pc, open, registered>>
core == <<online, station, known, reported, effective>>
vars == <<server, calls, core, shutdown, sent>>

\* evseUID: every connector that is spoken of has an EVSE, configured or
\* synthetic; meter values of connector 0 make one for the station itself.
EVSEs == Connectors
Statuses == {"AVAILABLE", "CHARGING", "RESERVED", "INOPERATIVE", "OUTOFORDER", "UNKNOWN"}

\* statusMap; what it does not list is UNKNOWN.
MapStatus(s) ==
  CASE s \in {"Available", "Preparing", "Finishing"} -> "AVAILABLE"
    [] s \in {"Charging", "SuspendedEV", "SuspendedEVSE"} -> "CHARGING"
    [] s = "Reserved" -> "RESERVED"
    [] s = "Unavailable" -> "INOPERATIVE"
    [] s = "Faulted" -> "OUTOFORDER"
    [] OTHER -> "UNKNOWN"

EffectiveStatus(on, whole, connector) ==
  IF ~on THEN "UNKNOWN"
  ELSE IF whole \in {"OUTOFORDER", "INOPERATIVE"} THEN whole
  ELSE IF connector = "none" THEN "UNKNOWN"
  ELSE connector

\* Mutant: an EVSE that the report has just added is left out.
RecomputeOld ==
  effective' = [e \in EVSEs |-> IF e \in known
                                THEN EffectiveStatus(online', station', reported'[e])
                                ELSE effective[e]]

\* recompute, from the values the caller has just set.
Recompute ==
  effective' = [e \in EVSEs |-> IF e \in known'
                                THEN EffectiveStatus(online', station', reported'[e])
                                ELSE effective[e]]
-----------------------------------------------------------------------------
(* ServeHTTP and serveConn.  The goroutines Shutdown waits for are the ones *)
(* past wg.Add; http.Server only knows of those before the hijack.          *)

Serving == {"upgraded", "registered", "running", "ended", "unregistered"}
At(c, p) == pc[c] = p
Goto(c, p) == pc' = [pc EXCEPT ![c] = p]

\* A request with a known id and a common OCPP version; the others are
\* refused and leave nothing behind.
Dial(c) ==
  /\ At(c, "none")
  /\ shutdown \in {"no", "cancelled", "closed"}   \* the listener is open
  /\ Goto(c, "handshake")
  /\ UNCHANGED <<open, registered, calls, core, shutdown, sent>>

\* Upgrade hijacks the connection from the http server.
Upgrade(c) ==
  /\ At(c, "handshake")
  /\ Goto(c, "hijacked")
  /\ open' = open \cup {c}
  /\ UNCHANGED <<registered, calls, core, shutdown, sent>>

\* wg.Add and go.
Spawn(c) ==
  /\ At(c, "hijacked")
  /\ Goto(c, "upgraded")
  /\ UNCHANGED <<open, registered, calls, core, shutdown, sent>>

\* Mutant: the connection that is replaced stays open.
RegisterBeside(c) ==
  /\ At(c, "upgraded")
  /\ registered' = c
  /\ Goto(c, "registered")
  /\ UNCHANGED <<open, calls, core, shutdown, sent>>

\* Replace and close what is registered.
Register(c) ==
  /\ At(c, "upgraded")
  /\ open' = open \ ({registered} \ {c})
  /\ registered' = c
  /\ Goto(c, "registered")
  /\ UNCHANGED <<calls, core, shutdown, sent>>

\* core.Connected; Run follows.
Connected(c) ==
  /\ At(c, "registered")
  /\ online' = TRUE
  /\ UNCHANGED <<station, known, reported>>
  /\ Recompute
  /\ Goto(c, "running")
  /\ UNCHANGED <<open, registered, calls, shutdown, sent>>

\* The peer goes away, a write fails or the idle watchdog fires.
Closes(c) ==
  /\ c \in open
  /\ At(c, "running")
  /\ open' = open \ {c}
  /\ UNCHANGED <<pc, registered, calls, core, shutdown, sent>>

\* Run returns once its loops have; what is still queued is dropped.
RunReturns(c) ==
  /\ At(c, "running")
  /\ c \notin open
  /\ calls' = [calls EXCEPT ![c] = <<>>]
  /\ Goto(c, "ended")
  /\ UNCHANGED <<open, registered, core, shutdown, sent>>

\* Only the current connection is deleted, and only it reports the station
\* offline.
Unregister(c) ==
  /\ At(c, "ended")
  /\ \/ /\ registered = c
        /\ registered' = NoConn
        /\ Goto(c, "unregistered")
     \/ /\ registered # c
        /\ Goto(c, "gone")
        /\ UNCHANGED registered
  /\ UNCHANGED <<open, calls, core, shutdown, sent>>

\* core.Disconnected does nothing for a station that is offline already.
Disconnected(c) ==
  /\ At(c, "unregistered")
  /\ \/ /\ online
        /\ online' = FALSE
        /\ UNCHANGED <<station, known, reported>>
        /\ Recompute
     \/ ~online /\ UNCHANGED core
  /\ Goto(c, "gone")
  /\ UNCHANGED <<open, registered, calls, shutdown, sent>>
-----------------------------------------------------------------------------
(* Inbound calls: readLoop queues them, handleLoop takes them in order.     *)

\* The charge point talks on a connection the server is reading.
Sends(c, call) ==
  /\ At(c, "running") /\ c \in open
  /\ Len(calls[c]) < CallBuffer
  /\ calls' = [calls EXCEPT ![c] = Append(@, call)]
  /\ UNCHANGED <<server, core, shutdown>>

SendsStatus(c, n, s) ==
  /\ sent < MaxReports
  /\ sent' = sent + 1
  /\ Sends(c, [kind |-> "StatusNotification", connector |-> n, status |-> s])

SendsMeterValues(c, n) ==
  /\ Sends(c, [kind |-> "MeterValues", connector |-> n, status |-> ""])
  /\ UNCHANGED sent

\* A closed connection may still have its handleLoop take a call: select
\* chooses among what is ready.
Take(c, kind) ==
  /\ At(c, "running")
  /\ calls[c] # <<>>
  /\ Head(calls[c]).kind = kind
  /\ calls' = [calls EXCEPT ![c] = Tail(@)]

SetConnectorStatus(c) ==
  LET m == Head(calls[c])
  IN /\ Take(c, "StatusNotification")
     /\ \/ /\ m.connector = 0
           /\ station' = MapStatus(m.status)
           /\ UNCHANGED <<known, reported>>
        \/ /\ m.connector # 0
           /\ known' = known \cup {m.connector}
           /\ reported' = [reported EXCEPT ![m.connector] = MapStatus(m.status)]
           /\ UNCHANGED station
     /\ UNCHANGED online
     /\ Recompute
     /\ UNCHANGED <<server, shutdown, sent>>

\* addEVSE without a recompute: a new EVSE starts UNKNOWN.
RecordMeterValues(c) ==
  /\ Take(c, "MeterValues")
  /\ known' = known \cup {Head(calls[c]).connector}
  /\ UNCHANGED <<server, online, station, reported, effective, shutdown, sent>>
-----------------------------------------------------------------------------
(* Server.Shutdown, without the deadline that lets it give up.              *)

ShutdownCancel ==
  /\ shutdown = "no"
  /\ shutdown' = "cancelled"
  /\ UNCHANGED <<server, calls, core, sent>>

\* Under s.mu: close every registered connection.
ShutdownClose ==
  /\ shutdown = "cancelled"
  /\ shutdown' = "closed"
  /\ open' = open \ {registered}
  /\ UNCHANGED <<pc, registered, calls, core, sent>>

\* http.Server.Shutdown closes the listener ...
ShutdownListener ==
  /\ shutdown = "closed"
  /\ shutdown' = "draining"
  /\ UNCHANGED <<server, calls, core, sent>>

\* ... and waits for the requests that are not hijacked; then wg.Wait.
ShutdownReturns ==
  /\ shutdown = "draining"
  /\ \A c \in Conns : pc[c] # "handshake" /\ pc[c] \notin Serving
  /\ shutdown' = "returned"
  /\ UNCHANGED <<server, calls, core, sent>>
-----------------------------------------------------------------------------
Init ==
  /\ pc = [c \in Conns |-> "none"]
  /\ open = {}
  /\ registered = NoConn
  /\ calls = [c \in Conns |-> <<>>]
  /\ online = FALSE
  /\ station = "AVAILABLE"
  /\ known = Mapped
  /\ reported = [e \in EVSEs |-> "none"]
  /\ effective = [e \in EVSEs |-> "UNKNOWN"]
  /\ shutdown = "no"
  /\ sent = 0

Serve(c) == Upgrade(c) \/ Spawn(c) \/ Register(c) \/ Connected(c) \/ RunReturns(c)
              \/ Unregister(c) \/ Disconnected(c)

Handle(c) == SetConnectorStatus(c) \/ RecordMeterValues(c)

ShutdownStep == ShutdownClose \/ ShutdownListener \/ ShutdownReturns

Next ==
  \/ \E c \in Conns :
       \/ Dial(c) \/ Serve(c) \/ Closes(c) \/ Handle(c)
       \/ \E n \in Connectors : SendsMeterValues(c, n) \/ \E s \in WireStatuses : SendsStatus(c, n, s)
  \/ ShutdownCancel
  \/ ShutdownStep

Spec == Init /\ [][Next]_vars

-----------------------------------------------------------------------------
\* Types: whatever a station reports, core only ever holds its own statuses.
TypeOK ==
  /\ pc \in [Conns -> {"none", "handshake", "hijacked", "gone"} \cup Serving]
  /\ open \subseteq Conns
  /\ registered \in Conns \cup {NoConn}
  /\ \A c \in Conns : Len(calls[c]) <= CallBuffer
  /\ online \in BOOLEAN
  /\ station \in Statuses
  /\ known \subseteq EVSEs
  /\ reported \in [EVSEs -> Statuses \cup {"none"}]
  /\ effective \in [EVSEs -> Statuses]
  /\ shutdown \in {"no", "cancelled", "closed", "draining", "returned"}

(* Of the connections the server has taken over, only the registered one is   *)
(* open: commands go to a connection that is the station's latest, and a      *)
(* replaced one cannot go on reading (server.go:264).                         *)
OnlyRegisteredOpen ==
  \A c \in Conns : pc[c] \in {"registered", "running"} /\ c \in open => registered = c

(* What cpms shows of an EVSE that is configured or was reported is what the  *)
(* two rules of effectiveStatus make of the last reports, after any mix of    *)
(* reconnects, station-wide and per-connector reports.                        *)
EffectiveFollowsReports ==
  \A e \in EVSEs : e \in Mapped \/ reported[e] # "none"
    => effective[e] = EffectiveStatus(online, station, reported[e])

Settled == \A c \in Conns : pc[c] \in {"none", "running", "gone"}

(* "A superseded connection must not report the station offline ... saying    *)
(* otherwise would blank out a live station's status" (server.go:290): once   *)
(* every goroutine is through, a registered open connection means online.     *)
LiveStationOnline == Settled /\ registered \in open => online
=============================================================================
