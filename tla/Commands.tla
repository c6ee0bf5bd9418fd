------------------------------ MODULE Commands ------------------------------
(***************************************************************************)
(* A one-shot command, from the process that runs it to the exit code it   *)
(* ends with: the CLI (internal/cli), the control socket's client and      *)
(* dispatch (internal/control/socket), the checks of internal/control, the *)
(* OCPP 1.6 command and its status (internal/ocpp/v16), and back.          *)
(*                                                                         *)
(* What may go wrong on the way is in the model: no daemon, a client that  *)
(* gives up, a daemon that stops or dies, a station that is not connected, *)
(* disconnects under way, does not answer, answers late, answers with an   *)
(* error, with a status that belongs to another command or with no status  *)
(* at all.  What core records is abstracted to whether it refuses; Core    *)
(* and Control model it.                                                   *)
(***************************************************************************)
EXTENDS Integers, FiniteSets, Probe

CONSTANTS
  Clients,      \* one-shot command processes
  EVSEs,        \* EVSEs in the config the commands read
  Typo,         \* an --evse that is not in config
  MaxLinks      \* connections the station makes (bound)

ASSUME CommandsAssumption == Typo \notin EVSEs /\ Typo # "" /\ "" \notin EVSEs /\ MaxLinks \in Nat

VARIABLES
  daemon,   \* cpms run: "up", "closing" (no new requests), "down"
  link,     \* the station's connection: 0 when there is none, else its number
  links,    \* connections made so far
  served,   \* EVSEs in the config the daemon was started with
  req,      \* each client's operation, EVSE and protocol version
  pc,       \* where each command is
  on,       \* the connection its call was made on
  err,      \* control's result: "nil", an error, or a refusing status
  exit,     \* the process's exit code, or Running
  sent,     \* history: the station has received the command
  raw       \* history: what the station answered

vars == <<daemon, link, links, served, req, pc, on, err, exit, sent, raw>>

Running == -1
Version == 1
NoAnswer == "none"

\* The operations, and the OCPP action each one sends.
Ops == {"reserve", "cancel", "start", "stop", "unlock", "status", "probe"}
NeedsEVSE(op) == op \notin {"status", "probe"}
Action == [reserve |-> "ReserveNow", cancel |-> "CancelReservation",
           start |-> "RemoteStartTransaction", stop |-> "RemoteStopTransaction",
           unlock |-> "UnlockConnector"]

\* The statuses each action defines, and the one that says yes.
commandStatusMap ==
  [ReserveNow             |-> {"Accepted", "Faulted", "Occupied", "Rejected", "Unavailable"},
   CancelReservation      |-> {"Accepted", "Rejected"},
   RemoteStartTransaction |-> {"Accepted", "Rejected"},
   RemoteStopTransaction  |-> {"Accepted", "Rejected"},
   UnlockConnector        |-> {"Unlocked", "UnlockFailed", "NotSupported"}]
Statuses == UNION {commandStatusMap[a] : a \in DOMAIN commandStatusMap}
Yes(op) == IF op = "unlock" THEN "Unlocked" ELSE "Accepted"

\* What a station may answer: any status, one no action defines, a CALLERROR,
\* or a payload that does not decode.
CallErrors == {"NotImplementedError", "InternalError"}

\* The configurations a station may report, by the profiles it advertises.
Advertises == [nothing |-> {}, basic |-> {"Core"}, full |-> {"Core", "Reservation"},
               odd |-> {"Reservation", "RemoteTrigger", "SmartCharging"}]

Answers(op) == {"Garbled"} \cup CallErrors
               \cup IF op = "probe" THEN DOMAIN Advertises ELSE Statuses \cup {"Undefined"}

MapCommandStatus(action, status) ==
  IF status \in commandStatusMap[action] THEN status ELSE "Unknown"

\* Control's errors that are refusals of its own, before anything is sent.
Refusals == {"ErrAlreadyReserved", "ErrShuttingDown", "ErrNoReservation", "ErrNoActiveTransaction"}

\* What the checks of each operation may end in before it sends: the service is
\* closed, core refuses or cannot record, there is nothing to act on, there are
\* two sessions to choose from.
LocalErrors(op) ==
  CASE op = "reserve" -> {"ErrShuttingDown", "ErrAlreadyReserved", "unrecorded"}
    [] op = "cancel"  -> {"ErrNoReservation"}
    [] op = "start"   -> {"unrecorded"}
    [] op = "stop"    -> {"ErrNoActiveTransaction", "ambiguous"}
    [] OTHER          -> {}

\* Mutant: a failed call counts as not sent.
classifyUnsent(e) ==
  CASE e = "Occupied" -> "occupied"
    [] e \in {"Faulted", "Unavailable"} -> "faulted"
    [] e \in {"UnlockFailed", "NotSupported", "NotImplementedError"} -> "unlock_failed"
    [] e \in {"Rejected", "Unknown", "Accepted", "Unlocked"} -> "rejected"
    [] e = "ErrTimeout" -> "timeout"
    [] e \in Refusals \cup {"ErrNotConnected"} -> "refused"
    [] e \in {"ErrUnknownEVSE", "usage"} -> "usage"
    [] OTHER -> "internal"

\* The socket's error code.  A status that refuses is the error's own name; one
\* the command does not define is "Unknown".
classify(e) ==
  CASE e = "Occupied" -> "occupied"
    [] e \in {"Faulted", "Unavailable"} -> "faulted"
    [] e \in {"UnlockFailed", "NotSupported", "NotImplementedError"} -> "unlock_failed"
    [] e \in {"Rejected", "Unknown", "Accepted", "Unlocked"} -> "rejected"
    [] e = "ErrTimeout" -> "timeout"
    [] e = "ErrNotConnected" -> "not_connected"
    [] e \in Refusals -> "refused"
    [] e \in {"ErrUnknownEVSE", "usage"} -> "usage"
    [] OTHER -> "internal"

ExitOK == 0
ExitError == 1
ExitNotRunning == 2
ExitMissingCapability == 10

\* exitFor: every code of the socket has its exit code.
exitFor(code) ==
  CASE code = "not_connected" -> 3
    [] code = "rejected" -> 4
    [] code = "occupied" -> 5
    [] code = "faulted" -> 6
    [] code = "timeout" -> 7
    [] code = "unlock_failed" -> 8
    [] code = "refused" -> 9
    [] OTHER -> ExitError

\* The process c ends with code.
ExitWith(c, code) ==
  /\ exit' = [exit EXCEPT ![c] = code]
  /\ UNCHANGED <<daemon, link, links, served, on, err, sent, raw>>

Goto(c, l) == pc' = [pc EXCEPT ![c] = l]
Fails(c, e) == err' = [err EXCEPT ![c] = e] /\ Goto(c, "reply")

Init ==
  /\ daemon \in {"up", "down"}
  /\ link = 0 /\ links = 0
  /\ served \in SUBSET EVSEs
  /\ req \in [Clients -> [op : Ops, evse : EVSEs \cup {Typo, ""}, v : {Version, Version + 1}]]
  /\ pc = [c \in Clients |-> "start"]
  /\ on = [c \in Clients |-> 0]
  /\ err = [c \in Clients |-> "nil"]
  /\ exit = [c \in Clients |-> Running]
  /\ sent = [c \in Clients |-> FALSE]
  /\ raw = [c \in Clients |-> NoAnswer]

-----------------------------------------------------------------------------
(* The process. *)

\* resolveEVSE: --evse is checked against config, and may be left out when there
\* is one EVSE; status and probe take none.
Resolved(r) ==
  IF ~NeedsEVSE(r.op) THEN ""
  ELSE IF r.evse = "" /\ Cardinality(EVSEs) = 1 THEN CHOOSE e \in EVSEs : TRUE
  ELSE r.evse

Resolve(c) ==
  /\ pc[c] = "start"
  /\ LET e == Resolved(req[c]) IN
     \/ /\ ~NeedsEVSE(req[c].op) \/ e \in EVSEs
        /\ req' = [req EXCEPT ![c].evse = e]
        /\ Goto(c, "dial")
        /\ UNCHANGED <<daemon, link, links, served, on, err, exit, sent, raw>>
     \/ /\ NeedsEVSE(req[c].op) /\ e \notin EVSEs
        /\ Goto(c, "exited") /\ ExitWith(c, ExitError)
        /\ UNCHANGED req

\* Call: dial and send the request.
Dial(c) ==
  /\ pc[c] = "dial" /\ daemon = "up"
  /\ Goto(c, "dispatch")
  /\ UNCHANGED <<daemon, link, links, served, req, on, err, exit, sent, raw>>

DialFails(c) ==
  /\ pc[c] = "dial" /\ daemon # "up"
  /\ Goto(c, "exited") /\ ExitWith(c, ExitNotRunning)
  /\ UNCHANGED req

\* The client's deadline passes: it exits, the daemon goes on.
GiveUp(c) ==
  /\ exit[c] = Running
  /\ pc[c] \notin {"start", "dial", "exited"}
  /\ ExitWith(c, ExitError)
  /\ UNCHANGED <<req, pc>>

-----------------------------------------------------------------------------
(* The daemon. *)

\* A process of another version is told so.
BadVersion(c) ==
  /\ pc[c] = "dispatch" /\ req[c].v # Version
  /\ Fails(c, "usage")
  /\ UNCHANGED <<daemon, link, links, served, req, on, exit, sent, raw>>

\* checkEVSE, for the operations that name one.
Known(c) == NeedsEVSE(req[c].op) => req[c].evse \in served

\* A refusal before anything is sent: unknown EVSE, a check, no connection.
Refuse(c) ==
  /\ pc[c] = "dispatch" /\ req[c].v = Version /\ req[c].op # "status"
  /\ \/ ~Known(c) /\ Fails(c, "ErrUnknownEVSE")
     \/ /\ Known(c)
        /\ \E e \in LocalErrors(req[c].op) : Fails(c, e)
     \/ /\ Known(c) /\ link = 0
        /\ Fails(c, "ErrNotConnected")
  /\ UNCHANGED <<daemon, link, links, served, req, on, exit, sent, raw>>

\* status reads a snapshot of core.
Status(c) ==
  /\ pc[c] = "dispatch" /\ req[c].v = Version /\ req[c].op = "status"
  /\ Goto(c, "reply")
  /\ UNCHANGED <<daemon, link, links, served, req, on, err, exit, sent, raw>>

\* The checks pass: the command is called on the connection there is.
Call(c) ==
  /\ pc[c] = "dispatch" /\ req[c].v = Version /\ req[c].op # "status"
  /\ Known(c)
  /\ link # 0
  /\ on' = [on EXCEPT ![c] = link]
  /\ Goto(c, "call")
  /\ UNCHANGED <<daemon, link, links, served, req, err, exit, sent, raw>>

\* The station receives the command, perhaps after the call that queued it has
\* timed out ...
Deliver(c) ==
  /\ on[c] # 0 /\ on[c] = link /\ ~sent[c]
  /\ sent' = [sent EXCEPT ![c] = TRUE]
  /\ UNCHANGED <<daemon, link, links, served, req, pc, on, err, exit, raw>>

\* ... and answers, perhaps after the daemon has stopped waiting.
Answer(c, a) ==
  /\ sent[c] /\ raw[c] = NoAnswer /\ a \in Answers(req[c].op)
  /\ raw' = [raw EXCEPT ![c] = a]
  /\ UNCHANGED <<daemon, link, links, served, req, pc, on, err, exit, sent>>

\* Mutant: only an outright rejection counts as a no.
ResultLenient(op, a) ==
  IF a \in CallErrors \/ a = "Garbled" THEN a
  ELSE IF op = "probe" THEN "nil"
  ELSE IF MapCommandStatus(Action[op], a) = "Rejected" THEN "Rejected" ELSE "nil"

\* command maps the status; the operation compares it with the one that says
\* yes, and anything else is a refusal.
Result(op, a) ==
  IF a \in CallErrors \/ a = "Garbled" THEN a
  ELSE IF op = "probe" THEN "nil"
  ELSE IF MapCommandStatus(Action[op], a) = Yes(op) THEN "nil"
  ELSE MapCommandStatus(Action[op], a)

CallAnswered(c) ==
  /\ pc[c] = "call" /\ on[c] = link /\ raw[c] # NoAnswer
  /\ Fails(c, Result(req[c].op, raw[c]))
  /\ UNCHANGED <<daemon, link, links, served, req, on, exit, sent, raw>>

\* The call timeout expires, or the connection has closed.
CallTimesOut(c) ==
  /\ pc[c] = "call"
  /\ Fails(c, "ErrTimeout")
  /\ UNCHANGED <<daemon, link, links, served, req, on, exit, sent, raw>>

CallClosed(c) ==
  /\ pc[c] = "call" /\ on[c] # link
  /\ Fails(c, "ErrNotConnected")
  /\ UNCHANGED <<daemon, link, links, served, req, on, exit, sent, raw>>

\* What the CLI makes of a success: probe judges the report.  (After "not
\* connected" it also asks for the status, which does not change its code.)
ExitOf(c) ==
  IF err[c] # "nil" THEN exitFor(classify(err[c]))
  ELSE IF req[c].op = "probe" /\ ~ProbeOK(Advertises[raw[c]]) THEN ExitMissingCapability
  ELSE ExitOK

\* The response reaches the client, if it still waits.
Reply(c) ==
  /\ pc[c] = "reply"
  /\ Goto(c, "exited")
  /\ exit' = [exit EXCEPT ![c] = IF @ # Running THEN @ ELSE ExitOf(c)]
  /\ UNCHANGED <<daemon, link, links, served, req, on, err, sent, raw>>

-----------------------------------------------------------------------------
(* The station's connection and the daemon's end. *)

StationConnects ==
  /\ daemon # "down" /\ links < MaxLinks
  /\ links' = links + 1
  /\ link' = links + 1
  /\ UNCHANGED <<daemon, served, req, pc, on, err, exit, sent, raw>>

StationDrops ==
  /\ link # 0
  /\ link' = 0
  /\ UNCHANGED <<daemon, links, served, req, pc, on, err, exit, sent, raw>>

\* Shutdown: no new requests, the ones in flight are answered first.
Shutdown ==
  /\ daemon = "up"
  /\ daemon' = "closing"
  /\ UNCHANGED <<link, links, served, req, pc, on, err, exit, sent, raw>>

Stopped ==
  /\ daemon = "closing"
  /\ \A c \in Clients : pc[c] \in {"start", "dial", "exited"}
  /\ daemon' = "down" /\ link' = 0
  /\ UNCHANGED <<links, served, req, pc, on, err, exit, sent, raw>>

\* The daemon is killed: the clients it was serving read the end of the stream.
Crash ==
  /\ daemon # "down"
  /\ daemon' = "down" /\ link' = 0
  /\ pc' = [c \in Clients |-> IF pc[c] \in {"start", "dial"} THEN pc[c] ELSE "exited"]
  /\ exit' = [c \in Clients |-> IF pc[c] \in {"start", "dial"} \/ exit[c] # Running THEN exit[c]
                                ELSE ExitError]
  /\ UNCHANGED <<links, served, req, on, err, sent, raw>>

Next ==
  \/ \E c \in Clients :
       \/ Resolve(c) \/ Dial(c) \/ DialFails(c) \/ GiveUp(c)
       \/ BadVersion(c) \/ Refuse(c) \/ Status(c) \/ Call(c) \/ Deliver(c)
       \/ CallAnswered(c) \/ CallTimesOut(c) \/ CallClosed(c) \/ Reply(c)
       \/ \E a \in Answers("unlock") \cup Answers("probe") : Answer(c, a)
  \/ StationConnects \/ StationDrops \/ Shutdown \/ Stopped \/ Crash

Spec == Init /\ [][Next]_vars

-----------------------------------------------------------------------------
(* Properties: what a script may conclude from the exit code. *)

\* Exit codes 2 and 9, and a typo in --evse, mean that the station has not been
\* sent the command and will not be: it is safe to run it again.  README:
\* "Refused by cpms before sending", "A typo is caught from config before
\* anything is sent".
NotSentMeansNotSent ==
  \A c \in Clients :
    exit[c] \in {2, 9} \/ (exit[c] = 1 /\ NeedsEVSE(req[c].op) /\ req[c].evse \notin EVSEs) =>
      ~sent[c] /\ pc[c] = "exited"

\* What the exit code says of the station's answer.  0: it said yes to this very
\* command, in the words OCPP defines for it, or reported a configuration that
\* rules out nothing cpms requires; no other answer, no closed connection and no
\* timeout passes for success.  10: it listed its profiles, and Core or
\* Reservation was not among them (README: "reported as absent ... makes the
\* command exit 10").  4, 5, 6 and 8: it answered, and did not say yes.
ExitTellsAnswer ==
  \A c \in Clients :
    LET probe == req[c].op = "probe"
        Lacks(a) == Advertises[a] # {} /\ ~({"Core", "Reservation"} \subseteq Advertises[a])
        yes == IF probe THEN {a \in DOMAIN Advertises : ~Lacks(a)} ELSE {Yes(req[c].op)}
    IN /\ exit[c] = 0 /\ req[c].op # "status" => raw[c] \in yes
       /\ exit[c] = 10 => probe /\ raw[c] \in DOMAIN Advertises \ yes
       /\ exit[c] \in {4, 5, 6, 8} => raw[c] \notin {NoAnswer} \cup DOMAIN Advertises \cup yes
=============================================================================
