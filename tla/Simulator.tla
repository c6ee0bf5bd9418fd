----------------------------- MODULE Simulator -----------------------------
(***************************************************************************)
(* The simulated charge point (internal/simulator).  It connects, boots    *)
(* and reports its status; then one goroutine answers the CSMS's commands  *)
(* while the side effect of each accepted command runs in a goroutine of   *)
(* its own ("after"), and a heartbeat loop runs beside them.  They meet in *)
(* the connectors' state, which each touches under s.mu but never across a *)
(* call, and in the WaitGroup that Wait waits on.                          *)
(*                                                                         *)
(* A side effect is what is left of it to do: a sequence of steps.  A call *)
(* to the CSMS is a step that either is answered, or fails and abandons    *)
(* the rest (the call timeout, or the closed connection).                  *)
(***************************************************************************)
EXTENDS Integers, Sequences, FiniteSets, FiniteSetsExt

CONSTANTS
  Connectors,        \* connector numbers, from 1
  Unknown,           \* a connector number the station does not have
  Scenarios,         \* scenarios considered
  Slots,             \* goroutines that may be under way at once (bound)
  ReservationIDs,    \* ids the CSMS sends with ReserveNow
  MaxTransactionID,  \* transactions the CSMS hands out (bound)
  MaxCommands        \* commands received and local calls made (bound)

ASSUME SimulatorAssumption ==
  /\ Connectors \subseteq Nat \ {0} /\ Connectors # {}
  /\ Unknown \in Nat \ (Connectors \cup {0})
  /\ ReservationIDs \subseteq Nat \ {0}
  /\ Slots \subseteq Nat /\ IsFiniteSet(Slots)
  /\ MaxTransactionID \in Nat /\ MaxCommands \in Nat

VARIABLES
  scenario,   \* opts.Scenario
  connect,    \* where Connect is: "dial", "boot", "report", "up", "failed"
  run,        \* where Run is: "connect", "select", "wait", "returned"
  done,       \* s.done is closed, and with it the connection
  connRun,    \* the goroutine that runs the connection: "off", "running", "ended"
  heart,      \* heartbeatLoop: "off", "waiting", "calling", "ended"
  station,    \* status of connector 0
  connector,  \* status, transactionID, reservationID of each connector
  handling,   \* the command the handler goroutine has in hand
  jobs,       \* the goroutines that carry out side effects
  wg,         \* the WaitGroup's counter
  commands,   \* number of commands received and local calls made
  nextTx,     \* the CSMS: the next transaction id
  stops       \* history: StopTransactions sent for each transaction

vars == <<scenario, connect, run, done, connRun, heart, station, connector,
          handling, jobs, wg, commands, nextTx, stops>>
linkVars == <<scenario, connect, run, done, connRun, heart>>

Transactions == 1 .. MaxTransactionID

\* The steps of a side effect.
SetStatus(c, s)   == [op |-> "set", at |-> c, to |-> s]
SendStatus(c, s)  == [op |-> "status", at |-> c, to |-> s]
TakeTransaction(c) == [op |-> "take", at |-> c, to |-> "Finishing"]
SendStart(c)      == [op |-> "start", at |-> c, to |-> "Charging"]
SendStop(c, x)    == [op |-> "stop", at |-> c, to |-> x]
SendOther         == [op |-> "other", at |-> 0, to |-> "Available"]

\* SetConnectorStatus: connector 0 is the station, an unknown one an error.
SetConnectorStatus(c, s) == <<SetStatus(c, s), SendStatus(c, s)>>

\* startTransaction and stopTransaction, up to the answer they depend on.
StartTransaction(c) == SetConnectorStatus(c, "Preparing") \o <<SendStart(c)>>
StopTransaction(c) == <<TakeTransaction(c)>>

Idle == [phase |-> "free", by |-> "after", todo |-> <<>>]
FreeSlots == {j \in Slots : jobs[j].phase = "free"}
NoCommand == [action |-> "none"]

Init ==
  /\ scenario \in Scenarios
  /\ connect = "dial" /\ run = "connect" /\ done = FALSE
  /\ connRun = "off" /\ heart = "off"
  /\ station = "Available"
  /\ connector = [c \in Connectors |->
                    [status |-> "Available", transactionID |-> 0, reservationID |-> 0]]
  /\ handling = NoCommand
  /\ jobs = [j \in Slots |-> Idle]
  /\ wg = 0 /\ commands = 0 /\ nextTx = 1
  /\ stops = [x \in Transactions |-> 0]

\* Close, from whichever goroutine gets there first.
Close == done' = TRUE

-----------------------------------------------------------------------------
(* Connect and Run. *)

\* The dial succeeds: the connection's goroutine starts.
Dial ==
  /\ connect = "dial"
  /\ connect' = "boot"
  /\ connRun' = "running"
  /\ wg' = wg + 1
  /\ UNCHANGED <<scenario, run, done, heart, station, connector, handling, jobs, commands, nextTx, stops>>

\* The dial fails: Connect returns with nothing started.
DialFails ==
  /\ connect = "dial"
  /\ connect' = "failed" /\ run' = "returned"
  /\ UNCHANGED <<scenario, done, connRun, heart, station, connector, handling, jobs, wg, commands, nextTx, stops>>

\* boot is answered Accepted.
Booted ==
  /\ connect = "boot" /\ ~done
  /\ connect' = "report"
  /\ UNCHANGED <<scenario, run, done, connRun, heart, station, connector, handling, jobs, wg, commands, nextTx, stops>>

\* reportInitialStatus has had every status answered: the heartbeat loop starts,
\* and ends at once if the scenario is the silent one.  The station may have been
\* closed since the last answer.
Reported ==
  /\ connect = "report"
  /\ connect' = "up" /\ run' = "select"
  /\ heart' = IF scenario = "silent" THEN "ended" ELSE "waiting"
  /\ wg' = IF scenario = "silent" THEN wg ELSE wg + 1
  /\ UNCHANGED <<scenario, done, connRun, station, connector, handling, jobs, commands, nextTx, stops>>

\* Mutant: a boot that fails leaves the connection open.
ReportFailsOpen ==
  /\ connect \in {"boot", "report"}
  /\ connect' = "failed" /\ run' = "returned"
  /\ UNCHANGED <<scenario, done, connRun, heart, station, connector, handling, jobs, wg, commands, nextTx, stops>>

\* One of those calls fails or is refused: Connect closes and Run returns its
\* error without waiting.
ReportFails ==
  /\ connect \in {"boot", "report"}
  /\ connect' = "failed" /\ run' = "returned"
  /\ Close
  /\ UNCHANGED <<scenario, connRun, heart, station, connector, handling, jobs, wg, commands, nextTx, stops>>

\* Run's context is cancelled, or done is closed: it closes and waits.
RunSelects ==
  /\ run = "select"
  /\ run' = "wait"
  /\ Close
  /\ UNCHANGED <<scenario, connect, connRun, heart, station, connector, handling, jobs, wg, commands, nextTx, stops>>

Wait ==
  /\ run = "wait" /\ wg = 0
  /\ run' = "returned"
  /\ UNCHANGED <<scenario, connect, done, connRun, heart, station, connector, handling, jobs, wg, commands, nextTx, stops>>

\* The connection ends, because it was closed or because it dropped.  Conn.Run
\* returns once its handler goroutine has; then Close.
ConnectionEnds ==
  /\ connRun = "running"
  /\ handling = NoCommand
  /\ connRun' = "ended"
  /\ wg' = wg - 1
  /\ Close
  /\ UNCHANGED <<scenario, connect, run, heart, station, connector, handling, jobs, commands, nextTx, stops>>

\* heartbeatLoop: the timer fires ...
HeartbeatDue ==
  /\ heart = "waiting"
  /\ heart' = "calling"
  /\ UNCHANGED <<scenario, connect, run, done, connRun, station, connector, handling, jobs, wg, commands, nextTx, stops>>

\* ... and the call is answered.
HeartbeatAnswered ==
  /\ heart = "calling" /\ ~done
  /\ heart' = "waiting"
  /\ UNCHANGED <<scenario, connect, run, done, connRun, station, connector, handling, jobs, wg, commands, nextTx, stops>>

\* The loop ends on done or when Connect's context does, which may be at any
\* time, or on the first heartbeat that fails.
HeartbeatEnds ==
  /\ heart \in {"waiting", "calling"}
  /\ heart' = "ended"
  /\ wg' = wg - 1
  /\ UNCHANGED <<scenario, connect, run, done, connRun, station, connector, handling, jobs, commands, nextTx, stops>>

-----------------------------------------------------------------------------
(* Commands, answered one at a time by the connection's handler goroutine. *)

Named == Connectors \cup {Unknown}
Requests ==
  [action : {"ReserveNow"}, connector : Named, id : ReservationIDs]
    \cup [action : {"CancelReservation"}, id : ReservationIDs]
    \cup [action : {"RemoteStart"}, connector : Named \cup {0}]
    \cup [action : {"RemoteStop"}, id : Transactions]
    \cup [action : {"TriggerMessage"}, message : {"StatusNotification"}, connector : Named \cup {0}]
    \cup [action : {"TriggerMessage"}, message : {"BootNotification"}]
    \cup [action : {"ChangeAvailability"}, connector : Named \cup {0}, operative : BOOLEAN]
    \cup [action : {"Other"}]

Receive(cmd) ==
  /\ connRun = "running" /\ ~done
  /\ handling = NoCommand
  /\ commands < MaxCommands
  /\ commands' = commands + 1
  /\ handling' = cmd
  /\ UNCHANGED <<linkVars, station, connector, jobs, wg, nextTx, stops>>

\* The handler answers and takes the next command.
Answered(action) ==
  /\ handling.action = action
  /\ handling' = NoCommand

\* Mutant: the goroutine is not added to the WaitGroup.
AfterUntracked(steps) ==
  /\ FreeSlots # {}
  /\ jobs' = [jobs EXCEPT ![Min(FreeSlots)] = [phase |-> "settling", by |-> "after", todo |-> steps]]
  /\ UNCHANGED wg

\* after: the side effect runs in a goroutine the WaitGroup counts.
After(steps) ==
  /\ FreeSlots # {}
  /\ jobs' = [jobs EXCEPT ![Min(FreeSlots)] = [phase |-> "settling", by |-> "after", todo |-> steps]]
  /\ wg' = wg + 1

\* The command is answered without a side effect.
NoEffect == UNCHANGED <<connector, jobs, wg>>

\* ScenarioSlow: the station closes while the handler stalls.
StallEnds ==
  /\ scenario = "slow" /\ done
  /\ handling # NoCommand
  /\ handling' = NoCommand
  /\ UNCHANGED <<linkVars, station, connector, jobs, wg, commands, nextTx, stops>>

\* Mutant: only the status is looked at.
MayReserveByStatus(c) ==
  c \in Connectors /\ connector[c].status \notin {"Charging", "Preparing", "Faulted", "Unavailable"}

\* reserveNow's conditions: a scenario that refuses, an unknown connector, a
\* session, a car, an unavailable connector.
MayReserve(c) ==
  /\ scenario \notin {"reject-reserve", "occupied"}
  /\ c \in Connectors
  /\ connector[c].transactionID = 0
  /\ connector[c].status \notin {"Charging", "Preparing", "Faulted", "Unavailable"}

ReserveNow ==
  /\ Answered("ReserveNow")
  /\ LET c == handling.connector IN
     IF MayReserve(c)
     THEN /\ connector' = [connector EXCEPT ![c].reservationID = handling.id, ![c].status = "Reserved"]
          /\ After(<<SendStatus(c, "Reserved")>>)
     ELSE NoEffect
  /\ UNCHANGED <<linkVars, station, commands, nextTx, stops>>

\* The connector is freed whatever its status was; of several that hold the id,
\* one is picked (map order).
CancelReservation ==
  /\ Answered("CancelReservation")
  /\ LET held == {c \in Connectors : connector[c].reservationID = handling.id} IN
     \/ /\ held = {} /\ NoEffect
     \/ \E c \in held :
          /\ connector' = [connector EXCEPT ![c].reservationID = 0, ![c].status = "Available"]
          /\ After(<<SendStatus(c, "Available")>>)
  /\ UNCHANGED <<linkVars, station, commands, nextTx, stops>>

\* firstFreeConnector, when the request names none (0); 1 when none is free.
StartOn(c) ==
  LET free == {d \in Connectors : connector[d].transactionID = 0} IN
  IF c # 0 THEN c ELSE IF free # {} THEN Min(free) ELSE 1

\* remoteStart checks for a session now; startTransaction runs later.
RemoteStart ==
  /\ Answered("RemoteStart")
  /\ LET c == StartOn(handling.connector) IN
     IF c \in Connectors /\ connector[c].transactionID = 0
     THEN After(StartTransaction(c)) /\ UNCHANGED connector
     ELSE NoEffect
  /\ UNCHANGED <<linkVars, station, commands, nextTx, stops>>

RemoteStop ==
  /\ Answered("RemoteStop")
  /\ LET on == {c \in Connectors : connector[c].transactionID = handling.id} IN
     \/ on = {} /\ NoEffect
     \/ \E c \in on : After(StopTransaction(c)) /\ UNCHANGED connector
  /\ UNCHANGED <<linkVars, station, commands, nextTx, stops>>

\* triggerMessage reads the status now and sends it later.
TriggerMessage ==
  /\ Answered("TriggerMessage")
  /\ After(IF handling.message # "StatusNotification" THEN <<SendOther>>
           ELSE <<SendStatus(handling.connector,
                    IF handling.connector = 0 THEN station
                    ELSE IF handling.connector \in Connectors
                         THEN connector[handling.connector].status ELSE "")>>)
  /\ UNCHANGED <<linkVars, station, connector, commands, nextTx, stops>>

ChangeAvailability ==
  /\ Answered("ChangeAvailability")
  /\ After(SetConnectorStatus(handling.connector,
             IF handling.operative THEN "Available" ELSE "Unavailable"))
  /\ UNCHANGED <<linkVars, station, connector, commands, nextTx, stops>>

\* unlockConnector, getConfiguration, Reset, a trigger of another message and
\* unknown actions only answer.
AnswerOnly ==
  /\ Answered("Other")
  /\ NoEffect
  /\ UNCHANGED <<linkVars, station, commands, nextTx, stops>>

\* StartTransaction, StopTransaction or SetConnectorStatus called locally, in the
\* caller's goroutine, which wg does not count.
Local(steps) ==
  /\ connect = "up"
  /\ commands < MaxCommands
  /\ commands' = commands + 1
  /\ FreeSlots # {}
  /\ jobs' = [jobs EXCEPT ![Min(FreeSlots)] = [phase |-> "running", by |-> "caller", todo |-> steps]]
  /\ UNCHANGED <<linkVars, station, connector, handling, wg, nextTx, stops>>

-----------------------------------------------------------------------------
(* Side effects. *)

\* Goroutine j goes on with steps; with none left it ends.
GoOn(j, steps) ==
  IF steps = <<>>
  THEN /\ jobs' = [jobs EXCEPT ![j] = Idle]
       /\ wg' = IF jobs[j].by = "after" THEN wg - 1 ELSE wg
  ELSE /\ jobs' = [jobs EXCEPT ![j].todo = steps]
       /\ UNCHANGED wg

Next1(j) == Head(jobs[j].todo)
Later(j) == Tail(jobs[j].todo)
At(j, op) == jobs[j].phase = "running" /\ Next1(j).op = op

\* commandSettle is over.
Settle(j) ==
  /\ jobs[j].phase = "settling"
  /\ jobs' = [jobs EXCEPT ![j].phase = "running"]
  /\ UNCHANGED <<linkVars, station, connector, handling, wg, commands, nextTx, stops>>

SettleAborted(j) ==
  /\ jobs[j].phase = "settling" /\ done
  /\ GoOn(j, <<>>)
  /\ UNCHANGED <<linkVars, station, connector, handling, commands, nextTx, stops>>

\* Under s.mu: the status is set.
Set(j) ==
  /\ At(j, "set")
  /\ LET c == Next1(j).at IN
     /\ station' = IF c = 0 THEN Next1(j).to ELSE station
     /\ connector' = [d \in Connectors |-> IF d = c THEN [connector[d] EXCEPT !.status = Next1(j).to]
                                                    ELSE connector[d]]
     /\ GoOn(j, IF c \in Connectors \cup {0} THEN Later(j) ELSE <<>>)
  /\ UNCHANGED <<linkVars, handling, commands, nextTx, stops>>

\* A status or another notification is answered.
Told(j) ==
  /\ At(j, "status") \/ At(j, "other")
  /\ ~done
  /\ GoOn(j, Later(j))
  /\ UNCHANGED <<linkVars, station, connector, handling, commands, nextTx, stops>>

\* A call fails: the side effect is abandoned where it is.
CallFails(j) ==
  /\ jobs[j].phase = "running"
  /\ Next1(j).op \in {"status", "start", "other"}
  /\ GoOn(j, <<>>)
  /\ UNCHANGED <<linkVars, station, connector, handling, commands, nextTx, stops>>

\* StartTransaction is accepted: the session takes the connector, and with it
\* whatever reservation was held there.
StartAccepted(j) ==
  /\ At(j, "start") /\ ~done
  /\ nextTx <= MaxTransactionID
  /\ nextTx' = nextTx + 1
  /\ connector' = [connector EXCEPT ![Next1(j).at].transactionID = nextTx,
                                    ![Next1(j).at].reservationID = 0]
  /\ GoOn(j, SetConnectorStatus(Next1(j).at, "Charging"))
  /\ UNCHANGED <<linkVars, station, handling, commands, stops>>

\* The CSMS refuses the tag.
StartRefused(j) ==
  /\ At(j, "start") /\ ~done
  /\ GoOn(j, SetConnectorStatus(Next1(j).at, "Available"))
  /\ UNCHANGED <<linkVars, station, connector, handling, commands, nextTx, stops>>

\* Mutant: the session is taken off the connector only once it is reported.
TakeKept(j) ==
  /\ At(j, "take")
  /\ LET c == Next1(j).at IN
     GoOn(j, IF connector[c].transactionID = 0 THEN <<>>
             ELSE <<SendStop(c, connector[c].transactionID)>>
                    \o SetConnectorStatus(c, "Finishing") \o SetConnectorStatus(c, "Available"))
  /\ UNCHANGED <<linkVars, station, connector, handling, commands, nextTx, stops>>

\* stopTransaction, under s.mu: the session is taken off the connector, if it
\* is still there.
Take(j) ==
  /\ At(j, "take")
  /\ LET c == Next1(j).at IN
     /\ GoOn(j, IF c \notin Connectors \/ connector[c].transactionID = 0 THEN <<>>
                ELSE <<SendStop(c, connector[c].transactionID)>>
                       \o SetConnectorStatus(c, "Finishing") \o SetConnectorStatus(c, "Available"))
     /\ connector' = [connector EXCEPT ![c].transactionID = 0]
  /\ UNCHANGED <<linkVars, station, handling, commands, nextTx, stops>>

\* StopTransaction is sent; the rest follows only if it is answered.
Stop(j) ==
  /\ At(j, "stop")
  /\ stops' = [stops EXCEPT ![Next1(j).to] = @ + 1]
  /\ \/ ~done /\ GoOn(j, Later(j))
     \/ GoOn(j, <<>>)
  /\ UNCHANGED <<linkVars, station, connector, handling, commands, nextTx>>

HandleCall ==
  \/ ReserveNow \/ CancelReservation \/ RemoteStart \/ RemoteStop
  \/ TriggerMessage \/ ChangeAvailability \/ AnswerOnly \/ StallEnds

Step(j) ==
  \/ Settle(j) \/ SettleAborted(j) \/ Set(j) \/ Told(j) \/ CallFails(j)
  \/ StartAccepted(j) \/ StartRefused(j) \/ Take(j) \/ Stop(j)

Next ==
  \/ Dial \/ DialFails \/ Booted \/ Reported \/ ReportFails \/ RunSelects \/ Wait
  \/ ConnectionEnds \/ HeartbeatDue \/ HeartbeatAnswered \/ HeartbeatEnds
  \/ \E cmd \in Requests : Receive(cmd)
  \/ HandleCall
  \/ \E c \in Connectors : \/ Local(StartTransaction(c))
                            \/ Local(StopTransaction(c))
                            \/ Local(SetConnectorStatus(c, "Faulted"))
  \/ \E j \in Slots : Step(j)

Spec == Init /\ [][Next]_vars

\* Every call of the connection returns (its timeout, or the closing), a closed
\* connection ends, goroutines are scheduled; nothing is assumed of the CSMS, of
\* the operator or of how long the connection lasts.
Fairness ==
  /\ WF_vars(HandleCall)
  /\ \A j \in Slots : WF_vars(Step(j))
  /\ WF_vars(done /\ ConnectionEnds)
  /\ WF_vars(done /\ HeartbeatEnds)
  /\ WF_vars(Booted \/ Reported \/ ReportFails)
  /\ WF_vars(Wait)

LiveSpec == Spec /\ Fairness

-----------------------------------------------------------------------------
(* Properties. *)

\* A connector in a session holds no reservation: reserveNow refuses one that
\* has a transaction whatever its status says (ChangeAvailability may have
\* changed it), and startTransaction consumes the one it finds.
NoReservationInSession ==
  \A c \in Connectors : connector[c].transactionID # 0 => connector[c].reservationID = 0

\* A session is reported stopped at most once, however many RemoteStops and
\* local stops were accepted while it ran (stopTransaction takes it off the
\* connector before it reports it).
StoppedOnce == \A x \in Transactions : stops[x] <= 1

\* When Run returns from Wait, no goroutine of the station's is left: "Wait
\* blocks until every goroutine the simulator started has finished".
WaitCoversAll ==
  run = "returned" /\ connect = "up" =>
    /\ connRun = "ended" /\ heart = "ended"
    /\ \A j \in Slots : jobs[j].phase # "free" => jobs[j].by = "caller"

\* Once Connect has failed or the station is closed, every goroutine it started
\* ends.
StationStops == (connect = "failed" \/ done) ~> (wg = 0)
=============================================================================
