------------------------------ MODULE Control ------------------------------
(***************************************************************************)
(* The command side of cpms over the core: control.Service (Reserve,       *)
(* Cancel, Start, Stop, Close), the OCPP 1.6 handler that records the      *)
(* sessions a station reports, and the connection between them and a       *)
(* station.                                                                *)
(*                                                                         *)
(* Every step that touches core is a step of module Core, so this          *)
(* specification implements Core's.  The station and the network are       *)
(* external: a station answers in the order it was asked, over one         *)
(* connection at a time; a request or an answer may be late or lost.       *)
(***************************************************************************)
EXTENDS Core, Sequences

CONSTANTS
  Reservers,      \* goroutines of one Reserve each
  Operators,      \* goroutines of one Cancel, Start, Stop, Unlock or TriggerStatus each
  Handlers,       \* goroutines that run a connection's handleLoop
  Timers,         \* goroutines that run expiry timers
  DefaultTag,     \* auth.default_id_tag, the only tag a session may use
  MaxDrops,       \* bound on the number of lost connections
  Closable        \* whether the process is asked to stop in this instance

Clients == Reservers \cup Operators

ASSUME ControlAssumption ==
  /\ Workers = Clients \cup Handlers \cup Timers
  /\ IsFiniteSet(Reservers) /\ EVSEs # {}
  /\ Reservers \cap Operators = {}
  /\ Clients \cap (Handlers \cup Timers) = {}
  /\ Handlers \cap Timers = {}
  /\ DefaultTag \in Tags
  /\ MaxDrops \in Nat
  /\ Closable \in BOOLEAN

VARIABLES
  flow,       \* where each command is: [op, pc, evse, tag, id, conn]
  ans,        \* the answer to its outstanding call, once the station gave one
  conn,       \* the registered connection: its number, and whether it is open
  wire,       \* requests on their way to the station, in order
  calls,      \* session reports on their way to the handler, in order
  handling,   \* the report each handler works on: [pc, id, msg]
  held,       \* station: the reservation each EVSE is held for, or 0
  sess,       \* station: the session on each EVSE
  closing,    \* control.Service.Close: "open", "closing" or "closed"
  inflight    \* control.Service.inflight

station == <<held, sess>>
link == <<conn, wire, calls, handling>>
shut == <<closing, inflight>>
controlVars == <<flow, ans, link, station, shut>>
allVars == <<vars, controlVars>>

NoFlow == [op |-> "none", pc |-> "idle", evse |-> CHOOSE e \in EVSEs : TRUE, tag |-> DefaultTag,
           id |-> 0, conn |-> 0]
\* The commands that change nothing in core.
Plain == {"UnlockConnector", "TriggerMessage"}
OpKinds == {"none", "ReserveNow", "CancelReservation", "RemoteStart", "RemoteStop"} \cup Plain
NoReport == [kind |-> "none", evse |-> CHOOSE e \in EVSEs : TRUE, tag |-> DefaultTag,
             id |-> 0, conn |-> 0]
NoWork == [pc |-> "idle", id |-> 0, msg |-> NoReport]
\* sent: the last connection the station reported the start (or end) on.
NoSession == [state |-> "none", tag |-> DefaultTag, named |-> 0, id |-> 0, sent |-> 0]

PCs == {"idle", "entered", "begin", "send", "wait", "orphaned", "cancelWait",
        "cancelEnd", "cancelled", "lapsed", "return", "vanished", "returned", "abandoned"}
Answers == {"none", "accepted", "refused", "error"}
SessionStates == {"none", "starting", "running", "ending"}

At(t, p) == flow[t].pc = p /\ th[t] = Idle
Goto(t, p) == flow' = [flow EXCEPT ![t].pc = p]
Bound(t) == conn.open /\ flow[t].conn = conn.n
Request(k, t, i) == [kind |-> k, by |-> t, id |-> i, evse |-> flow[t].evse]
Mine(t) == {r \in reservations : r.id = flow[t].id}
-----------------------------------------------------------------------------
(* Conn.Call on a connection that may be gone.  A call can fail at any time. *)
(* Unsent: the connection is gone, or the context ended while the send queue *)
(* was full, which the model does not count, so it may be full at any time.  *)
(* While it waits: a CALLERROR, the timeout, the context, the connection;    *)
(* the select may take these even when the answer has just arrived.          *)

\* Call queues its request.
CallSend(t, k, i, p) ==
  /\ Bound(t)
  /\ wire' = Append(wire, Request(k, t, i))
  /\ ans' = [ans EXCEPT ![t] = "none"]
  /\ Goto(t, p)

-----------------------------------------------------------------------------
(* control.Service.Reserve *)

ReserveEnter(t, e, tag) ==
  /\ up /\ At(t, "idle")
  /\ closing = "open"
  /\ inflight' = inflight + 1
  /\ flow' = [flow EXCEPT ![t] = [NoFlow EXCEPT !.op = "ReserveNow", !.pc = "entered", !.evse = e, !.tag = tag]]
  /\ UNCHANGED <<vars, ans, link, station, closing>>

\* checkEVSE, chargePoint and BeginReservation, or one of their refusals.
ReserveBegin(t) ==
  /\ At(t, "entered")
  /\ conn.open
  /\ BeginReservation(t, flow[t].evse, flow[t].tag)
  /\ flow' = [flow EXCEPT ![t].pc = "begin", ![t].id = next.reservation, ![t].conn = conn.n]
  /\ UNCHANGED <<ans, link, station, shut>>

ReserveRefused(t) ==
  /\ At(t, "entered")
  /\ \/ flow[t].evse \notin Configured
     \/ ~conn.open
     \/ ReservationsOn(flow[t].evse) # {}
     \/ next.reservation > MaxReservationID   \* the bound of the model
  /\ Goto(t, "return")
  /\ UNCHANGED <<vars, ans, link, station, shut>>

ReserveBegun(t) ==
  /\ flow[t].pc = "begin"
  /\ BeginReturn(t)
  /\ Goto(t, IF th[t].phase = "done" THEN "send" ELSE "return")
  /\ UNCHANGED <<ans, link, station, shut>>

ReserveSend(t) ==
  /\ At(t, "send")
  /\ CallSend(t, "ReserveNow", flow[t].id, "wait")
  /\ UNCHANGED <<vars, conn, calls, handling, station, shut>>

\* Mutant: a call that is on its way has no timeout.
GivesUpOnlyUnsent(t) == At(t, "send")

\* The call failed: it could not be sent, or it got an error, or no answer.
GivesUp(t) == At(t, "send") \/ At(t, "wait")

\* Mutant: the record ends before the station was told to cancel.
ForgetReserveAtOnce(t) ==
  \/ \E r \in Mine(t) : EndReservation(t, r)
  \/ Mine(t) = {} /\ UNCHANGED vars

\* OrphanReservation does nothing to a record that is not pending.
ForgetReserve(t) ==
  \/ \E r \in Mine(t) : OrphanReservation(t, r)
  \/ /\ \A r \in Mine(t) : r.status # "pending"
     /\ UNCHANGED vars

\* Mutant: the background cancel is not added to inflight.
ReserveFailsUntracked(t) ==
  /\ GivesUp(t)
  /\ ForgetReserve(t)
  /\ inflight' = inflight - 1
  /\ Goto(t, "orphaned")
  /\ UNCHANGED <<ans, link, station, closing>>

\* ReserveNow got no usable answer: orphan the record; the goroutine of the
\* cancel is added to inflight before Reserve returns and leaves it.
ReserveFails(t) ==
  /\ GivesUp(t)
  /\ ForgetReserve(t)
  /\ inflight' = inflight + 1 - 1
  /\ Goto(t, "orphaned")
  /\ UNCHANGED <<ans, link, station, closing>>

ReserveRejected(t) ==
  /\ At(t, "wait")
  /\ ans[t] = "refused"
  /\ \/ \E r \in Mine(t) : EndReservation(t, r)
     \/ Mine(t) = {} /\ UNCHANGED vars
  /\ Goto(t, "return")
  /\ UNCHANGED <<ans, link, station, shut>>

ReserveAccepted(t) ==
  /\ At(t, "wait")
  /\ ans[t] = "accepted"
  /\ \/ \E r \in Mine(t) : ActivateReservation(t, r) /\ Goto(t, "return")
     \/ /\ \A r \in Mine(t) : r.status # "pending"
        /\ Goto(t, "vanished")
        /\ UNCHANGED vars
  /\ UNCHANGED <<ans, link, station, shut>>

\* cancelOrphan in the background, bound to the connection of the ReserveNow.
OrphanSend(t) ==
  /\ At(t, "orphaned")
  /\ CallSend(t, "CancelReservation", flow[t].id, "cancelWait")
  /\ UNCHANGED <<vars, conn, calls, handling, station, shut>>

\* The cancel never got into the send queue: its connection is gone, or the
\* deadline of cancelOrphan passed while the queue was full.
OrphanUnsent(t) ==
  /\ At(t, "orphaned")
  /\ Goto(t, "lapsed")
  /\ UNCHANGED <<vars, ans, link, station, shut>>

\* Mutant: a cancel that was not sent yet is taken for one that was.
OrphanSkipped(t) ==
  /\ At(t, "orphaned") \/ At(t, "cancelWait")
  /\ Goto(t, "cancelEnd")
  /\ UNCHANGED <<vars, ans, link, station, shut>>

\* An answer, an error, a timeout or a lost connection: all end the wait.
OrphanAnswered(t) ==
  /\ At(t, "cancelWait")
  /\ Goto(t, "cancelEnd")
  /\ UNCHANGED <<vars, ans, link, station, shut>>

\* Sent or not, the record ends when cancelOrphan returns: from "lapsed" the
\* station may keep the reservation, and nothing will ask it again.
OrphanEnd(t) ==
  /\ At(t, "cancelEnd") \/ At(t, "lapsed")
  /\ \/ \E r \in Mine(t) : EndReservation(t, r)
     \/ Mine(t) = {} /\ UNCHANGED vars
  /\ Goto(t, IF flow[t].pc = "cancelEnd" THEN "cancelled" ELSE "return")
  /\ UNCHANGED <<ans, link, station, shut>>

\* Mutant: a Reserve that returns does not leave inflight.
ReserveReturnStays(t) ==
  /\ t \in Reservers
  /\ At(t, "return") \/ At(t, "cancelled")
  /\ Goto(t, IF flow[t].pc = "return" THEN "returned" ELSE "abandoned")
  /\ UNCHANGED <<vars, ans, link, station, shut>>

\* inflight.Done: of Reserve, or of the background cancel that replaced it.
ReserveReturn(t) ==
  /\ t \in Reservers
  /\ At(t, "return") \/ At(t, "cancelled")
  /\ inflight' = inflight - 1
  /\ Goto(t, IF flow[t].pc = "return" THEN "returned" ELSE "abandoned")
  /\ UNCHANGED <<vars, ans, link, station, closing>>
-----------------------------------------------------------------------------
(* control.Service.Cancel, Start, Stop, Unlock and TriggerStatus *)

\* A command has what it needs and the connection it will use.
Begins(t, k, p, e, tag, i) ==
  flow' = [flow EXCEPT ![t] = [op |-> k, pc |-> p, evse |-> e, tag |-> tag, id |-> i, conn |-> conn.n]]

\* The reservation to cancel and the connection, read before the call.
CancelBegin(t, e) ==
  /\ up /\ At(t, "idle")
  /\ conn.open
  /\ \E r \in ActiveOn(e) : Begins(t, "CancelReservation", "send", e, r.tag, r.id)
  /\ UNCHANGED <<vars, ans, link, station, shut>>

\* Accepted or refused, our record of it ends.
CancelAnswered(t) ==
  /\ At(t, "wait") /\ flow[t].op = "CancelReservation"
  /\ ans[t] \in {"accepted", "refused"}
  /\ \/ \E r \in Mine(t) : EndReservation(t, r)
     \/ Mine(t) = {} /\ UNCHANGED vars
  /\ Goto(t, "returned")
  /\ UNCHANGED <<ans, link, station, shut>>

\* The others, and every command that gets no answer, change nothing.
CommandFails(t) ==
  /\ At(t, "wait")
  /\ Goto(t, "returned")
  /\ UNCHANGED <<vars, ans, link, station, shut>>

StartBegin(t, e, tag) ==
  /\ up /\ At(t, "idle")
  /\ conn.open
  /\ NextRemoteStartID(t)
  /\ Begins(t, "RemoteStart", "begin", e, tag, next.remoteStart)
  /\ UNCHANGED <<ans, link, station, shut>>

\* A failed write is returned and nothing is sent.
StartBegun(t) ==
  /\ flow[t].pc = "begin"
  /\ Return(t)
  /\ Goto(t, IF th[t].phase = "done" THEN "send" ELSE "returned")
  /\ UNCHANGED <<ans, link, station, shut>>

\* A command returns unsent when its connection is gone or its context ends.
CommandSend(t) ==
  /\ t \in Operators
  /\ At(t, "send")
  /\ \/ CallSend(t, flow[t].op, flow[t].id, "wait")
     \/ Goto(t, "returned") /\ UNCHANGED <<ans, wire>>
  /\ UNCHANGED <<vars, conn, calls, handling, station, shut>>

ActiveTransactions(e) == {x \in transactions : x.evse = e}

\* With no session, or more than one, Stop returns an error.
StopBegin(t, e) ==
  /\ up /\ At(t, "idle")
  /\ conn.open
  /\ Cardinality(ActiveTransactions(e)) = 1
  /\ \E x \in ActiveTransactions(e) : Begins(t, "RemoteStop", "send", e, x.tag, x.id)
  /\ UNCHANGED <<vars, ans, link, station, shut>>

PlainBegin(t, e, k) ==
  /\ up /\ At(t, "idle")
  /\ conn.open
  /\ Begins(t, k, "send", e, DefaultTag, 0)
  /\ UNCHANGED <<vars, ans, link, station, shut>>

CommandAnswered(t) ==
  /\ At(t, "wait") /\ flow[t].op # "CancelReservation"
  /\ ans[t] \in {"accepted", "refused"}
  /\ Goto(t, "returned")
  /\ UNCHANGED <<vars, ans, link, station, shut>>
-----------------------------------------------------------------------------
(* control.Service.Close *)

CloseBegin ==
  /\ up
  /\ Closable
  /\ closing = "open"
  /\ closing' = "closing"
  /\ UNCHANGED <<vars, flow, ans, link, station, inflight>>

CloseDone ==
  /\ closing = "closing"
  /\ inflight = 0
  /\ closing' = "closed"
  /\ UNCHANGED <<vars, flow, ans, link, station, inflight>>
-----------------------------------------------------------------------------
(* v16.Handler: StartTransaction and StopTransaction *)

KnownTag(tag) == Fold[tag] = Fold[DefaultTag]
Report == Head(calls)
\* handleLoop takes one call at a time; each connection has its own loop.
Free(h) == /\ th[h] = Idle
           /\ handling[h].pc = "idle"
           /\ calls # <<>>
           /\ \A g \in Handlers : handling[g].pc # "idle" => handling[g].msg.conn # Report.conn
Take(h, p, i) == /\ handling' = [handling EXCEPT ![h] = [pc |-> p, id |-> i, msg |-> Report]]
                 /\ calls' = Tail(calls)

HandleStart(h) ==
  /\ Free(h)
  /\ Report.kind = "StartTransaction"
  /\ \/ /\ KnownTag(Report.tag)
        /\ NextTransactionID(h)
        /\ Take(h, "allocated", next.transaction)
     \/ /\ ~KnownTag(Report.tag)
        /\ Take(h, "invalid", 0)
        /\ UNCHANGED vars
  /\ UNCHANGED <<flow, ans, conn, wire, station, shut>>

HandleStarted(h) ==
  /\ handling[h].pc = "allocated"
  /\ LET m == handling[h].msg
     IN StartTransaction(h, handling[h].id, m.evse, m.tag, m.id)
  /\ handling' = [handling EXCEPT ![h].pc = "reply"]
  /\ UNCHANGED <<flow, ans, conn, wire, calls, station, shut>>

\* An unknown transaction is accepted too.
HandleStop(h) ==
  /\ Free(h)
  /\ Report.kind = "StopTransaction"
  /\ LET Named == {x \in transactions : x.id = Report.id}
     IN \/ \E x \in Named : StopTransaction(h, x)
        \/ Named = {} /\ UNCHANGED vars
  /\ Take(h, "reply", 0)
  /\ UNCHANGED <<flow, ans, conn, wire, station, shut>>

\* Mutant: the answer does not wait for the session to be written.
HandleReplyAtOnce(h) ==
  /\ handling[h].pc \in {"reply", "invalid"}
  /\ LET w == handling[h]
     IN sess' = IF conn.open /\ conn.n = w.msg.conn
                THEN [sess EXCEPT ![w.msg.evse] =
                        IF w.msg.kind = "StartTransaction" /\ w.pc = "reply"
                        THEN [@ EXCEPT !.state = "running", !.id = w.id]
                        ELSE NoSession]
                ELSE sess
  /\ handling' = [handling EXCEPT ![h] = NoWork]
  /\ UNCHANGED <<vars, flow, ans, conn, wire, calls, held, shut>>

\* The answer reaches the station if its connection is still there.
HandleReply(h) ==
  /\ handling[h].pc \in {"reply", "invalid"}
  /\ th[h] = Idle
  /\ LET w == handling[h]
     IN sess' = IF conn.open /\ conn.n = w.msg.conn
                THEN [sess EXCEPT ![w.msg.evse] =
                        IF w.msg.kind = "StartTransaction" /\ w.pc = "reply"
                        THEN [@ EXCEPT !.state = "running", !.id = w.id]
                        ELSE NoSession]
                ELSE sess
  /\ handling' = [handling EXCEPT ![h] = NoWork]
  /\ UNCHANGED <<vars, flow, ans, conn, wire, calls, held, shut>>
-----------------------------------------------------------------------------
(* The station (external). *)

\* An answer nobody waits for any more is dropped (Conn.deliver).
Reply(s) == /\ ans' = [ans EXCEPT ![Head(wire).by] =
                        IF flow[Head(wire).by].pc = "wait" THEN s ELSE @]
            /\ wire' = Tail(wire)

StationReserve ==
  /\ wire # <<>> /\ Head(wire).kind = "ReserveNow"
  /\ LET e == Head(wire).evse
     IN \/ /\ held[e] = 0 /\ sess[e].state = "none"
           /\ held' = [held EXCEPT ![e] = Head(wire).id]
           /\ Reply("accepted")
        \/ Reply("refused") /\ UNCHANGED held
        \/ Reply("error") /\ UNCHANGED held
  /\ UNCHANGED <<vars, flow, conn, calls, handling, sess, shut>>

StationCancel ==
  /\ wire # <<>> /\ Head(wire).kind = "CancelReservation"
  /\ LET e == Head(wire).evse
     IN IF held[e] = Head(wire).id
        THEN held' = [held EXCEPT ![e] = 0] /\ Reply("accepted")
        ELSE Reply("refused") /\ UNCHANGED held
  /\ UNCHANGED <<vars, flow, conn, calls, handling, sess, shut>>

StationRemoteStart ==
  /\ wire # <<>> /\ Head(wire).kind = "RemoteStart"
  /\ LET c == Head(wire)
     IN IF sess[c.evse].state = "none"
        THEN /\ sess' = [sess EXCEPT ![c.evse] = [NoSession EXCEPT !.state = "starting",
                                                    !.tag = flow[c.by].tag, !.named = held[c.evse]]]
             /\ held' = [held EXCEPT ![c.evse] = 0]
             /\ Reply("accepted")
        ELSE Reply("refused") /\ UNCHANGED station
  /\ UNCHANGED <<vars, flow, conn, calls, handling, shut>>

StationRemoteStop ==
  /\ wire # <<>> /\ Head(wire).kind = "RemoteStop"
  /\ LET On == {e \in EVSEs : sess[e].state = "running" /\ sess[e].id = Head(wire).id}
     IN IF On # {}
        THEN /\ sess' = [e \in EVSEs |-> IF e \in On THEN [sess[e] EXCEPT !.state = "ending", !.sent = 0]
                                                      ELSE sess[e]]
             /\ Reply("accepted")
        ELSE Reply("refused") /\ UNCHANGED sess
  /\ UNCHANGED <<vars, flow, conn, calls, handling, held, shut>>

StationPlain ==
  /\ wire # <<>> /\ Head(wire).kind \in Plain
  /\ \E s \in {"accepted", "refused"} : Reply(s)
  /\ UNCHANGED <<vars, flow, conn, calls, handling, station, shut>>

\* Somebody plugs in.  A station that holds the EVSE lets the session redeem
\* the reservation, and may leave its id out of the report.
StationPlugIn(e, tag) ==
  /\ sess[e].state = "none"
  /\ \E named \in {0, held[e]} :
       sess' = [sess EXCEPT ![e] = [NoSession EXCEPT !.state = "starting", !.tag = tag, !.named = named]]
  /\ held' = [held EXCEPT ![e] = 0]
  /\ UNCHANGED <<vars, flow, ans, link, shut>>

StationUnplug(e) ==
  /\ sess[e].state = "running"
  /\ sess' = [sess EXCEPT ![e].state = "ending", ![e].sent = 0]
  /\ UNCHANGED <<vars, flow, ans, link, held, shut>>

\* A report is repeated on every new connection until it is answered.
StationReports(e) ==
  /\ conn.open
  /\ sess[e].state \in {"starting", "ending"}
  /\ sess[e].sent # conn.n
  /\ sess' = [sess EXCEPT ![e].sent = conn.n]
  /\ LET start == sess[e].state = "starting"
     IN calls' = Append(calls, [kind |-> IF start THEN "StartTransaction" ELSE "StopTransaction",
                                evse |-> e, tag |-> sess[e].tag,
                                id |-> IF start THEN sess[e].named ELSE sess[e].id,
                                conn |-> conn.n])
  /\ UNCHANGED <<vars, flow, ans, conn, wire, handling, held, shut>>

\* The station's own copy expires.
StationExpires(e) ==
  /\ held[e] # 0
  /\ held' = [held EXCEPT ![e] = 0]
  /\ UNCHANGED <<vars, flow, ans, link, sess, shut>>

Drop ==
  /\ conn.open
  /\ conn.n <= MaxDrops
  /\ conn' = [conn EXCEPT !.open = FALSE]
  /\ wire' = <<>>
  /\ calls' = <<>>
  /\ UNCHANGED <<vars, flow, ans, handling, station, shut>>

Reconnect ==
  /\ up /\ th[Main] = Idle
  /\ closing # "closed"
  /\ ~conn.open
  /\ conn' = [n |-> conn.n + 1, open |-> TRUE]
  /\ UNCHANGED <<vars, flow, ans, wire, calls, handling, station, shut>>
-----------------------------------------------------------------------------
\* The process dies with its connection; the station keeps what it holds.
ProcessCrash ==
  /\ Crash
  /\ flow' = [t \in Clients |-> IF flow[t].pc = "idle" THEN flow[t]
                                ELSE [flow[t] EXCEPT !.pc = "returned"]]
  /\ handling' = [h \in Handlers |-> NoWork]
  /\ ans' = [t \in Clients |-> "none"]
  /\ conn' = [conn EXCEPT !.open = FALSE]
  /\ wire' = <<>>
  /\ calls' = <<>>
  /\ closing' = "open"
  /\ inflight' = 0
  /\ UNCHANGED station

ProcessRestart == /\ \E dropped \in SUBSET disk.reservations : Restart(dropped)
                  /\ UNCHANGED controlVars

\* The stages of core's methods that no command waits on by name.
CoreStep(t) ==
  /\ \/ PersistSnapshot(t) \/ PersistWrite(t) \/ PersistFail(t)
     \/ Return(t) /\ (t \in Operators => flow[t].pc # "begin")
  /\ UNCHANGED controlVars

TimerStep == /\ \/ \E i \in armed : TimerFires(i)
                \/ \E t \in Timers, i \in fired : Expire(t, i)
             /\ UNCHANGED controlVars
-----------------------------------------------------------------------------
ControlInit ==
  /\ Init
  /\ flow = [t \in Clients |-> NoFlow]
  /\ ans = [t \in Clients |-> "none"]
  /\ conn = [n |-> 1, open |-> TRUE]
  /\ wire = <<>>
  /\ calls = <<>>
  /\ handling = [h \in Handlers |-> NoWork]
  /\ held = [e \in EVSEs |-> 0]
  /\ sess = [e \in EVSEs |-> NoSession]
  /\ closing = "open"
  /\ inflight = 0

\* What a Reserve does once it was called.
ReserveStep(t) ==
  \/ ReserveBegin(t) \/ ReserveRefused(t) \/ ReserveBegun(t) \/ ReserveSend(t)
  \/ ReserveFails(t) \/ ReserveRejected(t) \/ ReserveAccepted(t)
  \/ OrphanSend(t) \/ OrphanUnsent(t) \/ OrphanAnswered(t) \/ OrphanEnd(t) \/ ReserveReturn(t)

HandlerStep(h) == HandleStart(h) \/ HandleStarted(h) \/ HandleStop(h) \/ HandleReply(h)

StationAnswers == StationReserve \/ StationCancel \/ StationRemoteStart \/ StationRemoteStop
                    \/ StationPlain

ControlNext ==
  \/ \E t \in Reservers : \/ \E e \in EVSEs, tag \in Tags : ReserveEnter(t, e, tag)
                          \/ ReserveStep(t)
  \/ \E t \in Operators :
       \/ \E e \in Configured : \/ CancelBegin(t, e)
                               \/ StopBegin(t, e)
                               \/ \E tag \in Tags : StartBegin(t, e, tag)
                               \/ \E k \in Plain : PlainBegin(t, e, k)
       \/ StartBegun(t) \/ CommandSend(t)
       \/ CancelAnswered(t) \/ CommandAnswered(t) \/ CommandFails(t)
  \/ CloseBegin \/ CloseDone
  \/ \E h \in Handlers : HandlerStep(h)
  \/ StationAnswers
  \/ \E e \in EVSEs : \/ \E tag \in Tags : StationPlugIn(e, tag)
                      \/ StationUnplug(e) \/ StationReports(e) \/ StationExpires(e)
  \/ Drop \/ Reconnect
  \/ \E t \in Threads : CoreStep(t)
  \/ TimerStep
  \/ ProcessCrash \/ ProcessRestart

ControlSpec == ControlInit /\ [][ControlNext]_allVars

\* Goroutines run, locks are granted (sync.Mutex is starvation free) and a
\* call ends at the latest when its timeout does.
ControlFairness ==
  /\ \A t \in Reservers : WF_allVars(ReserveStep(t))
  /\ \A t \in Threads : WF_allVars(CoreStep(t))
  /\ WF_allVars(CloseDone)

LiveControlSpec == ControlSpec /\ ControlFairness
-----------------------------------------------------------------------------
\* Types.  What names a reservation names one within the bound.
Flows == [op : OpKinds, pc : PCs, evse : EVSEs, tag : Tags, id : Nat, conn : Nat]
WireRequests == [kind : OpKinds, by : Clients, id : Nat, evse : EVSEs]
Reports == [kind : {"none", "StartTransaction", "StopTransaction"}, evse : EVSEs, tag : Tags,
            id : Nat, conn : Nat]
Works == [pc : {"idle", "allocated", "invalid", "reply"}, id : Nat, msg : Reports]
Sessions == [state : SessionStates, tag : Tags, named : 0..MaxReservationID, id : Nat, sent : Nat]
NamesReservation(m) == m.kind = "StartTransaction" => m.id \in 0..MaxReservationID

ControlTypeOK ==
  /\ flow \in [Clients -> Flows]
  /\ ans \in [Clients -> Answers]
  /\ conn \in [n : Nat, open : BOOLEAN]
  /\ wire \in Seq(WireRequests)
  /\ calls \in Seq(Reports) /\ \A k \in DOMAIN calls : NamesReservation(calls[k])
  /\ handling \in [Handlers -> Works] /\ \A h \in Handlers : NamesReservation(handling[h].msg)
  /\ held \in [EVSEs -> 0..MaxReservationID]
  /\ sess \in [EVSEs -> Sessions]
  /\ closing \in {"open", "closing", "closed"}
  /\ inflight \in Int

(* "Nothing else ends a pending reservation" (control.go:191): when the      *)
(* station accepts, Reserve finds its record still pending, whatever         *)
(* sessions, timers and other commands did meanwhile.                        *)
NothingElseEndsPending == \A t \in Reservers : flow[t].pc # "vanished"

\* A Reserve that gave up and whose cancel is, or still may be, queued; not
\* one whose cancel failed unsent ("lapsed").
Orphaned(t) == flow[t].pc \in {"orphaned", "cancelWait", "cancelEnd", "cancelled", "abandoned"}

(* "a second ReserveNow cannot overtake the cancel and be answered Occupied" *)
(* (reservations.go:27): while the connection lasts, a station that gets to  *)
(* a ReserveNow no longer holds the EVSE for one that was given up and whose *)
(* cancel was queued.  The condition is needed: a cancel that failed unsent, *)
(* on a full send queue too (conn.go:179), is not repeated, its record ends  *)
(* all the same (control.go:180) and the next ReserveNow may find the EVSE   *)
(* occupied.                                                                 *)
NoReserveBehindOrphan ==
  wire # <<>> /\ Head(wire).kind = "ReserveNow" =>
    \A t \in Reservers : Orphaned(t) /\ flow[t].conn = conn.n
                           => held[Head(wire).evse] # flow[t].id

(* Once Close has returned, no Reserve is in flight and no cancel is left to *)
(* send: the connection may be closed (control.go:98).                       *)
CloseLeavesNothingBehind ==
  closing = "closed" => \A r \in reservations : r.status = "active"

(* A Reserve that gave up and could queue its background cancel leaves       *)
(* nothing behind at the station, as far as its connection reaches           *)
(* (control.go:211): once cancelOrphan is done, timed out or not, and while  *)
(* the connection lasts, the station does not hold the EVSE for it, or the   *)
(* CancelReservation is still to reach it.  A cancel that failed unsent      *)
(* ("lapsed") promises nothing.                                              *)
OrphanCancelled ==
  \A t \in Reservers :
    flow[t].pc \in {"cancelEnd", "cancelled", "abandoned"} /\ Bound(t) /\ held[flow[t].evse] = flow[t].id
      => \E k \in DOMAIN wire : wire[k].kind = "CancelReservation" /\ wire[k].id = flow[t].id

(* A session that a station was given an id for is in core's records, over   *)
(* reconnects, repeated reports and a crash, so that it can be stopped and    *)
(* its end is recognised (handler.go:173).  A failed write can break it.      *)
RunningSessionKnown ==
  up /\ failures = 0 =>
    \A e \in EVSEs : sess[e].state = "running" =>
      \E x \in transactions : x.id = sess[e].id /\ x.evse = e

(* "If the session redeems a reservation, the reservation ends as consumed"  *)
(* (transactions.go:62): no reservation is active next to the session that   *)
(* redeemed it.  StartTransaction can be handled before Reserve got round to *)
(* activating the reservation the station had already accepted.              *)
RedeemedReservationEnds ==
  \A x \in transactions, r \in reservations : x.reservation = r.id => r.status # "active"

(* Reserve returns and its background cancel ends. *)
ReserveEnds ==
  \A t \in Reservers : flow[t].pc = "entered" ~> flow[t].pc \in {"returned", "abandoned"}

(* Close does not wait forever. *)
CloseReturns == closing = "closing" ~> closing # "closing"
=============================================================================
