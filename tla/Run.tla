-------------------------------- MODULE Run ---------------------------------
(***************************************************************************)
(* cpms run (internal/cli/run.go) from loading the config to the end of    *)
(* the process: what is started in which order, what a failure in the      *)
(* middle takes down again, and the shutdown after a signal, while the     *)
(* goroutines of every part come and go.  A second signal changes nothing: *)
(* the context is done, and the handler stays installed until run returns. *)
(* A signal before the handler is installed kills the process and is left  *)
(* to ControlSocket, which has processes die anywhere.                     *)
(*                                                                         *)
(* Of the goroutines only their being there is modelled; what they do is   *)
(* in Core, Control, RpcConn and ControlSocket.                            *)
(***************************************************************************)
EXTENDS Config, Ocpi

CONSTANTS
  Inputs,   \* what run may find: [raw, wiring], a config and the modules to register
  Conns,    \* station connections
  Calls,    \* requests on the control socket
  Timers,   \* expiry timers of reservations
  Resolve(_) \* the address a host stands for on this machine: "wildcard" for all
             \* of them, "none" if it is not known or not an address of this machine

ASSUME RunAssumption ==
  /\ Inputs \subseteq [raw : Configuration, wiring : Seq(ModuleRecords)]
  /\ Resolve("any") = "wildcard"

VARIABLES
  pc,        \* where run is
  input,     \* the input of this process
  cfg,       \* its config, once loaded
  reason,    \* why it failed, or ""
  next,      \* the next module startOCPI registers
  held,      \* the state lock
  listening, \* {"socket", "ocpp"}: which of the two listen
  signalled, \* SIGINT or SIGTERM has come
  conn,      \* each connection: none, upgraded, serving or closed
  call,      \* each socket request: none, handling, or background (its cancel)
  timer,     \* each timer: off, armed or fired
  grace      \* the two deadlines: off, running or expired

runVars == <<pc, input, cfg, reason, next, held, listening, signalled, conn, call, timer, grace>>
allVars == <<runVars, ocpiVars>>

At(s) == pc = s
Goto(s) == pc' = s
Continue(s) == Goto(s) /\ UNCHANGED reason
Fail(why, s) == Goto(s) /\ reason' = why
NothingElse == UNCHANGED <<input, cfg, next, held, listening, signalled, conn, call, timer, grace, ocpiVars>>
-----------------------------------------------------------------------------
(* Starting.  Every error unwinds what is up so far. *)

Load ==
  /\ At("load")
  /\ LET parsed == Parse(input.raw)
     IN /\ cfg' = parsed.cfg
        /\ IF parsed.ok THEN Continue("version") ELSE Fail("config", "exit")
  /\ UNCHANGED <<input, next, held, listening, signalled, conn, call, timer, grace, ocpiVars>>

CheckVersion ==
  /\ At("version")
  /\ IF cfg.version.text = "1.6" THEN Continue("lock") ELSE Fail("version", "exit")
  /\ NothingElse

Lock ==
  /\ At("lock")
  /\ \/ held' = TRUE /\ Continue("open")
     \/ UNCHANGED held /\ Fail("locked", "exit")
  /\ UNCHANGED <<input, cfg, next, listening, signalled, conn, call, timer, grace, ocpiVars>>

\* A corrupt or newer state file stops it here.
OpenStore ==
  /\ At("open")
  /\ Continue("listen") \/ Fail("state", "release")
  /\ NothingElse

ListenSocket ==
  /\ At("listen")
  /\ \/ listening' = listening \cup {"socket"} /\ Continue("core")
     \/ UNCHANGED listening /\ Fail("socket", "release")
  /\ UNCHANGED <<input, cfg, next, held, signalled, conn, call, timer, grace, ocpiVars>>

\* core.New arms the timers of the reservations in the file.
NewCore ==
  /\ At("core")
  /\ Continue("csms")
  /\ timer' \in [Timers -> {"off", "armed"}]
  /\ UNCHANGED <<input, cfg, next, held, listening, signalled, conn, call, grace, ocpiVars>>

\* Whether a listener can be bound to host at all.
Bindable(host) == Resolve(host) # "none"

\* csms.Server.Start.  Listening fails if the host cannot be bound; otherwise
\* it may be refused, for a port that another program has or that is privileged.
StartCSMS ==
  /\ At("csms")
  /\ \/ Bindable(cfg.ocpp.host) /\ listening' = listening \cup {"ocpp"} /\ Continue("ocpi")
     \/ UNCHANGED listening /\ Fail(IF Bindable(cfg.ocpp.host) THEN "refused" ELSE "host", "stop timers")
  /\ UNCHANGED <<input, cfg, next, held, signalled, conn, call, timer, grace, ocpiVars>>

NewOCPI ==
  /\ At("ocpi")
  /\ IF UsableBaseURL(cfg.url)
     THEN NewServer /\ Continue("register")
     ELSE UNCHANGED ocpiVars /\ Fail("url", "close commands")
  /\ UNCHANGED <<input, cfg, next, held, listening, signalled, conn, call, timer, grace>>

\* Mutant: startOCPI does not look at Register's error.
RegisterNextUnchecked ==
  /\ At("register")
  /\ next <= Len(input.wiring)
  /\ Register(input.wiring[next])
  /\ next' = next + 1
  /\ Continue("register")
  /\ UNCHANGED <<input, cfg, held, listening, signalled, conn, call, timer, grace>>

RegisterNext ==
  /\ At("register")
  /\ next <= Len(input.wiring)
  /\ Register(input.wiring[next])
  /\ next' = next + 1
  /\ IF modules' # modules THEN Continue("register") ELSE Fail("clash", "close commands")
  /\ UNCHANGED <<input, cfg, held, listening, signalled, conn, call, timer, grace>>

\* The two listeners of one port compete for an address; Validate compares
\* the words they are written with.
Collide == /\ cfg.ocpp.port = cfg.ocpi.port
           /\ \/ Resolve(cfg.ocpp.host) = Resolve(cfg.ocpi.host)
              \/ "wildcard" \in {Resolve(cfg.ocpp.host), Resolve(cfg.ocpi.host)}

StartOCPI ==
  /\ At("register")
  /\ next > Len(input.wiring)
  /\ \/ Bindable(cfg.ocpi.host) /\ ~Collide /\ Start(TRUE) /\ Continue("serve")
     \/ /\ Start(FALSE)
        /\ Fail(IF ~Bindable(cfg.ocpi.host) THEN "host" ELSE IF Collide THEN "collision" ELSE "refused",
                "close commands")
  /\ UNCHANGED <<input, cfg, next, held, listening, signalled, conn, call, timer, grace>>

\* Subscribe, install the signal handler, ctl.Serve.
Serve ==
  /\ At("serve")
  /\ Continue("wait")
  /\ NothingElse
-----------------------------------------------------------------------------
(* Shutting down *)

Signal ==
  /\ At("wait") /\ ~signalled
  /\ signalled' = TRUE
  /\ UNCHANGED <<pc, input, cfg, reason, next, held, listening, conn, call, timer, grace, ocpiVars>>

\* A goroutine of Serve closes the socket as soon as the context is done.
SocketCloses ==
  /\ signalled /\ "socket" \in listening
  /\ listening' = listening \ {"socket"}
  /\ UNCHANGED <<pc, input, cfg, reason, next, held, signalled, conn, call, timer, grace, ocpiVars>>

ShutdownOCPI ==
  /\ At("wait") /\ signalled
  /\ Continue("drain ocpi")
  /\ grace' = [grace EXCEPT !.ocpi = "running"]
  /\ ShutdownBegins
  /\ UNCHANGED <<input, cfg, next, held, listening, signalled, conn, call, timer>>

OCPIDrained ==
  /\ At("drain ocpi")
  /\ ShutdownDone(grace.ocpi = "expired")
  /\ Continue("close socket")
  /\ NothingElse

\* Mutant: ctl.Close comes after the others.
CloseSocketLate ==
  /\ At("close socket")
  /\ Continue("close commands")
  /\ NothingElse

\* ctl.Close stops accepting and waits for the requests in hand.
CloseSocket ==
  /\ At("close socket")
  /\ listening' = listening \ {"socket"}
  /\ IF \E k \in Calls : call[k] = "handling" THEN UNCHANGED <<pc, reason>> ELSE Continue("close commands")
  /\ UNCHANGED <<input, cfg, next, held, signalled, conn, call, timer, grace, ocpiVars>>

\* commands.Close waits for the background cancels; who would Reserve is gone.
CloseCommands ==
  /\ At("close commands")
  /\ IF \E k \in Calls : call[k] = "background" THEN UNCHANGED <<pc, reason>> ELSE Continue("shutdown csms")
  /\ UNCHANGED <<input, cfg, next, held, listening, signalled, conn, call, timer, grace, ocpiVars>>

\* csms Shutdown closes what is registered at this moment ...
ShutdownCSMS ==
  /\ At("shutdown csms")
  /\ Continue("close csms")
  /\ grace' = [grace EXCEPT !.csms = "running"]
  /\ conn' = [c \in Conns |-> IF conn[c] = "serving" THEN "closed" ELSE conn[c]]
  /\ UNCHANGED <<input, cfg, next, held, listening, signalled, call, timer, ocpiVars>>

\* ... then the listener ...
CloseCSMS ==
  /\ At("close csms")
  /\ Continue("drain csms")
  /\ listening' = listening \ {"ocpp"}
  /\ UNCHANGED <<input, cfg, next, held, signalled, conn, call, timer, grace, ocpiVars>>

\* Mutant: the wait for the connections has no deadline.
CSMSDrainedFully ==
  /\ At("drain csms")
  /\ \A c \in Conns : conn[c] = "none"
  /\ Continue("stop timers")
  /\ NothingElse

\* ... and waits for the connections, or for the deadline.
CSMSDrained ==
  /\ At("drain csms")
  /\ (\A c \in Conns : conn[c] = "none") \/ grace.csms = "expired"
  /\ Continue("stop timers")
  /\ NothingElse

\* The deferred svc.Close: it stops timers, and leaves one that has fired.
StopTimers ==
  /\ At("stop timers")
  /\ Continue("release")
  /\ timer' = [x \in Timers |-> IF timer[x] = "armed" THEN "off" ELSE timer[x]]
  /\ UNCHANGED <<input, cfg, next, held, listening, signalled, conn, call, grace, ocpiVars>>

\* The deferred ctl.Close, for a start that failed, and lock.Release.
Release ==
  /\ At("release")
  /\ Continue("exit")
  /\ listening' = listening \ {"socket"}
  /\ held' = FALSE
  /\ UNCHANGED <<input, cfg, next, signalled, conn, call, timer, grace, ocpiVars>>

\* main returns: whatever still runs is gone with the process.
Exit ==
  /\ At("exit")
  /\ Continue("exited")
  /\ conn' = [c \in Conns |-> "none"]
  /\ call' = [k \in Calls |-> "none"]
  /\ timer' = [x \in Timers |-> "off"]
  /\ request' = [r \in Requests |-> "none"]
  /\ UNCHANGED <<input, cfg, next, held, listening, signalled, grace,
                 mounted, modules, started, lifetime, accepting>>

Main ==
  \/ Load \/ CheckVersion \/ Lock \/ OpenStore \/ ListenSocket \/ NewCore \/ StartCSMS
  \/ NewOCPI \/ RegisterNext \/ StartOCPI \/ Serve
  \/ ShutdownOCPI \/ OCPIDrained \/ CloseSocket \/ CloseCommands
  \/ ShutdownCSMS \/ CloseCSMS \/ CSMSDrained \/ StopTimers \/ Release \/ Exit
-----------------------------------------------------------------------------
(* The goroutines *)

Running == pc # "exited"

Others(x) == UNCHANGED <<pc, input, cfg, reason, next, held, listening, signalled, grace, ocpiVars, x>>

\* A handshake succeeds and its goroutine begins ...
Upgrade(c) ==
  /\ "ocpp" \in listening /\ conn[c] = "none"
  /\ conn' = [conn EXCEPT ![c] = "upgraded"]
  /\ Others(<<call, timer>>)

\* ... it registers and replaces the one that was registered ...
RegisterConn(c) ==
  /\ Running /\ conn[c] = "upgraded"
  /\ conn' = [d \in Conns |-> IF d = c THEN "serving"
                              ELSE IF conn[d] = "serving" THEN "closed" ELSE conn[d]]
  /\ Others(<<call, timer>>)

\* ... the station may go at any time ...
ConnDrops(c) ==
  /\ Running /\ conn[c] = "serving"
  /\ conn' = [conn EXCEPT ![c] = "closed"]
  /\ Others(<<call, timer>>)

\* ... and Run of a closed connection returns.
ConnEnds(c) ==
  /\ Running /\ conn[c] = "closed"
  /\ conn' = [conn EXCEPT ![c] = "none"]
  /\ Others(<<call, timer>>)

\* The accept loop of ctl.Serve goes on until the socket closes.
AcceptCall(k) ==
  /\ pc \in {"wait", "drain ocpi", "close socket"}
  /\ "socket" \in listening /\ call[k] = "none"
  /\ call' = [call EXCEPT ![k] = "handling"]
  /\ Others(<<conn, timer>>)

\* A Reserve arms the timer of its reservation.
ArmTimer(k, x) ==
  /\ call[k] = "handling" /\ timer[x] = "off"
  /\ timer' = [timer EXCEPT ![x] = "armed"]
  /\ Others(<<conn, call>>)

\* The answer is written; after a ReserveNow that failed, its cancel goes on.
CallAnswered(k) ==
  /\ call[k] = "handling"
  /\ \E after \in {"none", "background"} :
       call' = [call EXCEPT ![k] = after]
  /\ Others(<<conn, timer>>)

CancelEnds(k) ==
  /\ call[k] = "background"
  /\ call' = [call EXCEPT ![k] = "none"]
  /\ Others(<<conn, timer>>)

Fire(x) ==
  /\ timer[x] = "armed"
  /\ timer' = [timer EXCEPT ![x] = "fired"]
  /\ Others(<<conn, call>>)

\* expireReservation: it ends the reservation and writes the file.
Expire(x) ==
  /\ timer[x] = "fired"
  /\ timer' = [timer EXCEPT ![x] = "off"]
  /\ Others(<<conn, call>>)

\* What may be asked for: any method on any path, with any header.
Paths == {r.path : r \in mounted} \cup {<<Version, "unknown">>}
Headers == [form : {"base64"}, token : {cfg.tokenA.text, cfg.tokenC.text}]
           \cup [form : {"none", "plain"}, token : {cfg.tokenA.text}]
Outcomes == {Outcome(cfg.tokenA.text, m, p, h) : m \in Methods, p \in Paths, h \in Headers}

OCPIRequest(r) ==
  /\ \/ AcceptRequest(r)
     \/ \E outcome \in Outcomes : Dispatch(r, outcome)
     \/ HandlerReturns(r)
     \/ RequestEnds(r)
  /\ UNCHANGED runVars

\* A shutdownGrace runs out.
GraceEnds(g) ==
  /\ Running /\ grace[g] = "running"
  /\ grace' = [grace EXCEPT ![g] = "expired"]
  /\ UNCHANGED <<pc, input, cfg, reason, next, held, listening, signalled, conn, call, timer, ocpiVars>>
-----------------------------------------------------------------------------
RunInit ==
  /\ pc = "load" /\ input \in Inputs /\ cfg = input.raw /\ reason = "" /\ next = 1
  /\ held = FALSE /\ listening = {} /\ signalled = FALSE
  /\ conn = [c \in Conns |-> "none"]
  /\ call = [k \in Calls |-> "none"]
  /\ timer = [x \in Timers |-> "off"]
  /\ grace = [ocpi |-> "off", csms |-> "off"]
  /\ OcpiInit

RunNext ==
  \/ Main \/ Signal \/ SocketCloses
  \/ \E c \in Conns : Upgrade(c) \/ RegisterConn(c) \/ ConnDrops(c) \/ ConnEnds(c)
  \/ \E k \in Calls : AcceptCall(k) \/ CallAnswered(k) \/ CancelEnds(k) \/ (\E x \in Timers : ArmTimer(k, x))
  \/ \E x \in Timers : Fire(x) \/ Expire(x)
  \/ \E r \in Requests : OCPIRequest(r)
  \/ \E g \in {"ocpi", "csms"} : GraceEnds(g)

(* run itself and its deadlines go on.  A call ends by its call timeout and  *)
(* so does the cancel after it; a handler need not end, and neither need a   *)
(* station leave: that is what the deadlines are for.                        *)
RunFairness ==
  /\ WF_allVars(Main)
  /\ \A k \in Calls : WF_allVars(CallAnswered(k)) /\ WF_allVars(CancelEnds(k))
  /\ \A g \in {"ocpi", "csms"} : WF_allVars(GraceEnds(g))

RunSpec == RunInit /\ [][RunNext]_allVars /\ RunFairness
-----------------------------------------------------------------------------
(* Properties *)

(* "its routes are served and it is listed in version details" (ocpi/server  *)
(* .go:163), for whatever modules were wired: while the server accepts       *)
(* requests, a path and method reach a route exactly if one of versions,     *)
(* version details and the listed modules has it, at most one route is in    *)
(* charge of them, and TOKEN_A gets past the check exactly where that route  *)
(* asks for no more than registration access.  A Register that failed        *)
(* half-way has mounted routes nobody lists; it must stop the start.         *)
AdvertisedIsServed ==
  accepting =>
    LET own == {[method |-> "GET", path |-> p, need |-> AccessRegistration]
                  : p \in {<<"versions">>, <<Version>>}}
        listed == own \cup UNION {{Route(modules[k], i) : i \in DOMAIN modules[k].routes} : k \in DOMAIN modules}
        fits(m, p) == {r \in listed : r.method = m /\ Covers(r.path, p)}
        got(m, p) == Outcome(cfg.tokenA.text, m, p, [form |-> "base64", token |-> cfg.tokenA.text])
    IN \A m \in Methods, p \in Paths :
         /\ (got(m, p) \in {"handler", "unauthorized"}) <=> (fits(m, p) # {})
         /\ \A r, s \in Best(fits(m, p)) : r = s
         /\ (got(m, p) = "handler") <=> \E r \in Best(fits(m, p)) : r.need = AccessRegistration

(* "Stop taking commands before the station connection goes away"            *)
(* (run.go:171): once the connections are being closed, no request of the    *)
(* control socket and no background cancel is left, and OCPI requests only   *)
(* if their grace ran out.  And "one cpms per state file" (run.go:65): once  *)
(* the lock is released, the only goroutines that may still write the state  *)
(* are an expiry that had fired and, if its grace ran out, a connection.     *)
DrainedInOrder ==
  /\ pc \in {"close csms", "drain csms", "stop timers", "release", "exit"} =>
       /\ \A k \in Calls : call[k] = "none"
       /\ InFlight # {} => grace.ocpi = "expired"
  /\ pc = "exit" /\ (\E c \in Conns : conn[c] # "none") => grace.csms = "expired"
  /\ pc = "exit" => \A x \in Timers : timer[x] # "armed"

(* "nil if the config is usable" (config/validate.go:39), as far as it goes: *)
(* with an accepted config every EVSE is found under its own uid and its own *)
(* connector, heartbeats fit the timeout and TOKEN_C does not open what      *)
(* TOKEN_A opens.  Of the rules that Validate and the start both have, the   *)
(* start is stricter in three: OCPP 2.0.1, a query or braces in the URL, and *)
(* two listeners on one port, where different words for one address pass     *)
(* Validate (validate.go:109) and the second cannot be bound.  Whether a     *)
(* host can be bound on this machine Validate does not ask (validate.go:138),*)
(* nor whether the port is free: both fail the start too, a host only if it  *)
(* is not a wildcard.                                                        *)
AcceptedConfigUsable ==
  pc # "load" /\ reason # "config" =>
    /\ \A i \in DOMAIN cfg.evses : /\ EVSEByUID(cfg, cfg.evses[i].uid) = i
                                   /\ EVSEByConnectorID(cfg, cfg.evses[i].connector) = i
    /\ cfg.timeout.dur > cfg.interval.dur
    /\ Access(cfg.tokenA.text, cfg.tokenC.text) = AccessNone
    /\ reason = "version" => cfg.version.text = "2.0.1"
    /\ reason = "url" => cfg.url.query \/ cfg.url.braces
    /\ reason = "collision" => cfg.ocpp.host # cfg.ocpi.host /\ "any" \notin {cfg.ocpp.host, cfg.ocpi.host}
    /\ reason = "host" => {cfg.ocpp.host, cfg.ocpi.host} # {"any"}

(* A signal, or an error while starting, always ends the process: a station  *)
(* that stays, a connection that registers after Shutdown has closed the     *)
(* others, or an OCPI handler that hangs only costs its grace (run.go:27).   *)
ShutdownCompletes == (signalled \/ reason # "") ~> (pc = "exited")
=============================================================================
