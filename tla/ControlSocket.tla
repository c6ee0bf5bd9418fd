--------------------------- MODULE ControlSocket ---------------------------
(***************************************************************************)
(* The control socket (internal/control/socket): how a cpms process claims *)
(* its path, serves requests on it and gives it up, in the order cpms run  *)
(* takes (internal/cli/run.go): the state lock of module StateLock first,  *)
(* the socket under it, the release last.  Every system call is a step.    *)
(*                                                                         *)
(* All processes use one state file and one socket path.  A cpms with      *)
(* another state file may have been serving on the path before them; it    *)
(* can stop, which unlinks the path whatever it names by then, and is not  *)
(* modelled further (None owns its socket).                                *)
(***************************************************************************)
EXTENDS StateLock

CONSTANT Requests   \* one-shot commands

VARIABLES
  stage,     \* where each process is with its socket
  sock,      \* what the path names: [kind, by], a socket by its process
  bound,     \* sockets that accept connections: bound and listening
  request,   \* each command: [pc, at], at the process that accepted it
  cut        \* history: a socket that was listening lost its name to one of Procs,
             \* other than that of None to one whose dial failed for another reason

socketVars == <<stage, sock, bound, request, cut>>
allVars == <<vars, socketVars>>

\* The path names nothing, a socket of a process or something else.
Nothing == [kind |-> "none", by |-> None]
SocketOf(p) == [kind |-> "socket", by |-> p]
Other == [kind |-> "file", by |-> None]
\* Somebody listens on what the path names.
Live == sock.kind = "socket" /\ sock.by \in bound

At(p, s) == stage[p] = s
Goto(p, s) == stage' = [stage EXCEPT ![p] = s]
-----------------------------------------------------------------------------
(* cpms run: lock, listen, serve, close, release. *)

\* LockPath, before there is a socket.
LockStep(p) ==
  /\ At(p, "off")
  /\ Call(p) \/ Open(p) \/ Flock(p) \/ WouldBlock(p) \/ SameFile(p) \/ Retry(p)
  /\ UNCHANGED socketVars

\* Mutant: run goes on without the state lock.
ListenUnlocked(p) ==
  /\ At(p, "off")
  /\ Goto(p, "lstat")
  /\ UNCHANGED <<vars, sock, bound, request, cut>>

\* run calls Listen once it holds the lock.
Listen(p) ==
  /\ At(p, "off") /\ pc[p] = "held"
  /\ Goto(p, "lstat")
  /\ UNCHANGED <<vars, sock, bound, request, cut>>

\* The deferred Release, after Close or after an error.
ReleaseStep(p) ==
  /\ At(p, "done")
  /\ \/ ReleaseRemove(p) /\ UNCHANGED stage
     \/ ReleaseClose(p) /\ Goto(p, "off")
  /\ UNCHANGED <<sock, bound, request, cut>>
-----------------------------------------------------------------------------
(* socket.Listen *)

Lstat(p) ==
  /\ At(p, "lstat")
  /\ Goto(p, CASE sock.kind = "none" -> "listen"
               [] sock.kind = "socket" -> "dial"
               [] sock.kind = "file" -> "done")
  /\ UNCHANGED <<vars, sock, bound, request, cut>>

\* Somebody accepts: ErrAlreadyRunning.
DialAnswered(p) ==
  /\ At(p, "dial")
  /\ Live
  /\ Goto(p, "done")
  /\ UNCHANGED <<vars, sock, bound, request, cut>>

DialRefused(p) ==
  /\ At(p, "dial")
  /\ ~Live
  /\ Goto(p, "remove")
  /\ UNCHANGED <<vars, sock, bound, request, cut>>

\* The dial fails though somebody listens: the backlog is full, the socket is
\* another user's, or this process has no descriptor left.  Any error is taken
\* for "nobody answers".
DialFails(p) ==
  /\ At(p, "dial")
  /\ Live
  /\ Goto(p, "unreached")
  /\ UNCHANGED <<vars, sock, bound, request, cut>>

\* os.Remove of whatever the path names by now; nothing there is an error.
RemoveStale(p) ==
  /\ At(p, "remove") \/ At(p, "unreached")
  /\ Goto(p, IF sock = Nothing THEN "done" ELSE "listen")
  /\ sock' = Nothing
  /\ cut' = (cut \/ (Live /\ (At(p, "remove") \/ sock.by \in Procs)))
  /\ UNCHANGED <<vars, bound, request>>

\* net.Listen: bind creates the file or fails with "address in use" ...
Bind(p) ==
  /\ At(p, "listen")
  /\ Goto(p, IF sock = Nothing THEN "bound" ELSE "done")
  /\ sock' = IF sock = Nothing THEN SocketOf(p) ELSE sock
  /\ UNCHANGED <<vars, bound, request, cut>>

\* ... and listen makes it accept; the backlog does so before Serve.
ListenSocket(p) ==
  /\ At(p, "bound")
  /\ bound' = bound \cup {p}
  /\ Goto(p, "serving")
  /\ UNCHANGED <<vars, sock, request, cut>>
-----------------------------------------------------------------------------
(* Serve, handle and Close *)

\* The client's connect: whoever the path leads to.
Connect(r) ==
  /\ request[r].pc = "none"
  /\ sock.kind = "socket" /\ sock.by \in bound \ {None}
  /\ request' = [request EXCEPT ![r] = [pc |-> "connected", at |-> sock.by]]
  /\ UNCHANGED <<vars, stage, sock, bound, cut>>

Accept(r) ==
  /\ request[r].pc = "connected"
  /\ request[r].at \in bound
  /\ request' = [request EXCEPT ![r].pc = "handling"]
  /\ UNCHANGED <<vars, stage, sock, bound, cut>>

\* dispatch is not cancelled by Close; the answer is written, or the client
\* is gone or never sent its line.
Answer(r) ==
  /\ request[r].pc = "handling"
  /\ request' = [request EXCEPT ![r].pc = "answered"]
  /\ UNCHANGED <<vars, stage, sock, bound, cut>>

\* Close: UnlinkOnClose removes the path, by name, before the socket closes.
\* A start that fails after the bind (chmod, another listener) closes the
\* same way.
CloseUnlink(p) ==
  /\ At(p, "serving")
  /\ sock' = Nothing
  /\ cut' = (cut \/ (Live /\ sock.by # p))
  /\ Goto(p, "unlinked")
  /\ UNCHANGED <<vars, bound, request>>

Reset(p, pcs) == [r \in Requests |-> IF request[r].at = p /\ request[r].pc \in pcs
                                     THEN [request[r] EXCEPT !.pc = "reset"] ELSE request[r]]

\* The socket closes; what its backlog holds is reset.
CloseListener(p) ==
  /\ At(p, "unlinked")
  /\ bound' = bound \ {p}
  /\ request' = Reset(p, {"connected"})
  /\ Goto(p, "draining")
  /\ UNCHANGED <<vars, sock, cut>>

\* Mutant: Close does not wait for the requests in hand.
CloseReturnsAtOnce(p) ==
  /\ At(p, "draining")
  /\ Goto(p, "done")
  /\ UNCHANGED <<vars, sock, bound, request, cut>>

\* wg.Wait, then the rest of the shutdown.
CloseReturns(p) ==
  /\ At(p, "draining")
  /\ \A r \in Requests : request[r].at = p => request[r].pc # "handling"
  /\ Goto(p, "done")
  /\ UNCHANGED <<vars, sock, bound, request, cut>>

\* The socket file of a process that dies stays behind.
ProcessDies(p) ==
  /\ Die(p)
  /\ Goto(p, "off")
  /\ bound' = bound \ {p}
  /\ request' = Reset(p, {"connected", "handling"})
  /\ UNCHANGED <<sock, cut>>

\* The cpms that was there first stops: it closes its socket or is killed.
OtherEnds ==
  /\ None \in bound
  /\ bound' = bound \ {None}
  /\ sock' \in {Nothing, sock}
  /\ UNCHANGED <<vars, stage, request, cut>>
-----------------------------------------------------------------------------
SocketInit ==
  /\ Init
  /\ stage = [p \in Procs |-> "off"]
  /\ \/ sock \in {Nothing, SocketOf(None), Other} /\ bound = {}   \* a socket left behind
     \/ sock = SocketOf(None) /\ bound = {None}                   \* one in use
  /\ request = [r \in Requests |-> [pc |-> "none", at |-> None]]
  /\ cut = FALSE

SocketNext ==
  \/ \E p \in Procs :
       \/ LockStep(p) \/ Listen(p) \/ ReleaseStep(p)
       \/ Lstat(p) \/ DialAnswered(p) \/ DialRefused(p) \/ DialFails(p) \/ RemoveStale(p)
       \/ Bind(p) \/ ListenSocket(p) \/ CloseUnlink(p) \/ CloseListener(p) \/ CloseReturns(p)
       \/ ProcessDies(p)
  \/ \E r \in Requests : Connect(r) \/ Accept(r) \/ Answer(r)
  \/ OtherEnds

SocketSpec == SocketInit /\ [][SocketNext]_allVars
-----------------------------------------------------------------------------
(* "a live instance's socket is never touched" (server.go:94): no process    *)
(* takes the path away from a socket that is listening.  Between a refused   *)
(* dial and the remove another process could bind the path, and a dial may   *)
(* fail against a process that listens; that neither costs a process of this *)
(* state file its socket is owed to the lock (run.go:67), which is taken     *)
(* first.  A cpms of another state file has no such protection: its socket   *)
(* is safe only as long as a dial of it fails for no other reason than that  *)
(* nobody listens (server.go:79).                                            *)
LiveSocketUntouched == ~cut

-----------------------------------------------------------------------------
(* The abstract daemon that the lock and the socket implement.             *)

Holders == {p \in Procs : pc[p] = "held"}

Daemon == IF Holders = {} THEN None ELSE CHOOSE p \in Holders : TRUE

WorkOn(r) ==
  CASE request[r].pc \in {"none", "connected"} -> [pc |-> "new", at |-> None]
    [] request[r].pc = "handling" -> [pc |-> "taken", at |-> request[r].at]
    [] request[r].pc = "answered" -> [pc |-> "answered", at |-> None]
    [] request[r].pc = "reset" -> [pc |-> "failed", at |-> None]

Work == [r \in Requests |-> WorkOn(r)]

OneDaemon == INSTANCE Daemon WITH daemon <- Daemon, work <- Work

(* "One cpms per state file, whatever --socket says" (run.go:65): however    *)
(* processes start, stop and die, they behave like one daemon at a time that *)
(* finishes the requests it has taken before it lets the next one in.        *)
ImplementsDaemon == OneDaemon!Spec
=============================================================================
