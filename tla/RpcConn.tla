------------------------------ MODULE RpcConn ------------------------------
(***************************************************************************)
(* One OCPP-J connection (ocppj.Conn): goroutines that Call, and the       *)
(* reader, the writer and the handler that Run starts, joined by two       *)
(* bounded channels, a map of pending calls and the done channel.          *)
(*                                                                         *)
(* The peer is external: it may answer late, twice or never, send calls of *)
(* its own and frames that do not parse, stop reading, or hang up.  A      *)
(* frame carries, as history, the Call it came from.                       *)
(***************************************************************************)
EXTENDS Integers, Sequences, FiniteSets

CONSTANTS
  Callers,      \* goroutines that make one Call each
  NoCaller,
  SendBuffer,   \* sendBuffer
  CallBuffer,   \* callBuffer
  MaxInbound,   \* bound on the calls and malformed frames the peer sends
  MaxAnswers,   \* bound on the answers it gives
  MaxFlight     \* bound on the frames between the peer and the reader

ASSUME RpcConnAssumption ==
  /\ NoCaller \notin Callers
  /\ SendBuffer \in Nat \ {0}
  /\ CallBuffer \in Nat \ {0}
  /\ MaxInbound \in Nat
  /\ MaxAnswers \in Nat
  /\ MaxFlight \in Nat

VARIABLES
  caller,    \* each Call: [pc, id, ch]; ch is its channel of capacity 1
  nextID,    \* Conn.nextID
  pending,   \* the ids in Conn.pending, each with its Call
  send,      \* Conn.send
  calls,     \* Conn.calls
  reader, writer, handler,   \* the goroutines: [pc, f]
  done,      \* Conn.done is closed
  inbound,   \* frames the peer has sent and the reader has not read
  peer,      \* the peer: what it received, how often it answered and called
  handled    \* history: the inbound calls dispatched, in order

vars == <<caller, nextID, pending, send, calls, reader, writer, handler, done,
          inbound, peer, handled>>

NoFrame == [type |-> "none", id |-> 0, by |-> NoCaller]
Frame(t, i, k) == [type |-> t, id |-> i, by |-> k]
Quiet == [pc |-> "ready", f |-> NoFrame]
Holding(p, f) == [pc |-> p, f |-> f]
Returned == [pc |-> "returned", f |-> NoFrame]
NoCall == [pc |-> "idle", id |-> 0, ch |-> NoFrame]

CallGoto(k, p) == caller' = [caller EXCEPT ![k].pc = p]
-----------------------------------------------------------------------------
(* Conn.Call *)

\* Mutant: an id is taken again once its call has returned.
CallBeginReusedID(k) ==
  LET i == Cardinality(pending) + 1
  IN /\ caller[k].pc = "idle"
     /\ pending' = pending \cup {[id |-> i, by |-> k]}
     /\ caller' = [caller EXCEPT ![k] = [pc |-> "sending", id |-> i, ch |-> NoFrame]]
     /\ UNCHANGED <<nextID, send, calls, reader, writer, handler, done, inbound, peer, handled>>

\* Take an id and register under it.
CallBegin(k) ==
  /\ caller[k].pc = "idle"
  /\ nextID' = nextID + 1
  /\ pending' = pending \cup {[id |-> nextID + 1, by |-> k]}
  /\ caller' = [caller EXCEPT ![k] = [pc |-> "sending", id |-> nextID + 1, ch |-> NoFrame]]
  /\ UNCHANGED <<send, calls, reader, writer, handler, done, inbound, peer, handled>>

CallSend(k) ==
  /\ caller[k].pc = "sending"
  /\ Len(send) < SendBuffer
  /\ send' = Append(send, Frame("call", caller[k].id, k))
  /\ CallGoto(k, "waiting")
  /\ UNCHANGED <<nextID, pending, calls, reader, writer, handler, done, inbound, peer, handled>>

\* Mutant: the first select does not look at done.
CallClosedWaiting(k) ==
  /\ caller[k].pc = "waiting"
  /\ done
  /\ CallGoto(k, "failed")
  /\ UNCHANGED <<nextID, pending, send, calls, reader, writer, handler, done, inbound, peer, handled>>

\* The first select has no timer: done ends both.
CallClosed(k) ==
  /\ caller[k].pc \in {"sending", "waiting"}
  /\ done
  /\ CallGoto(k, "failed")
  /\ UNCHANGED <<nextID, pending, send, calls, reader, writer, handler, done, inbound, peer, handled>>

\* The caller's context may end either select, and need not.
CallCancelled(k) ==
  /\ caller[k].pc \in {"sending", "waiting"}
  /\ CallGoto(k, "failed")
  /\ UNCHANGED <<nextID, pending, send, calls, reader, writer, handler, done, inbound, peer, handled>>

CallTimeout(k) ==
  /\ caller[k].pc = "waiting"
  /\ CallGoto(k, "failed")
  /\ UNCHANGED <<nextID, pending, send, calls, reader, writer, handler, done, inbound, peer, handled>>

CallAnswered(k) ==
  /\ caller[k].pc = "waiting"
  /\ caller[k].ch # NoFrame
  /\ CallGoto(k, "answered")
  /\ UNCHANGED <<nextID, pending, send, calls, reader, writer, handler, done, inbound, peer, handled>>

\* Mutant: a call that failed leaves its entry behind.
ForgetAnswered(k) ==
  /\ caller[k].pc \in {"failed", "answered"}
  /\ pending' = {p \in pending : p.id # caller[k].id \/ caller[k].pc = "failed"}
  /\ caller' = [caller EXCEPT ![k] = IF @.pc = "answered" THEN [@ EXCEPT !.pc = "returned"]
                                     ELSE [@ EXCEPT !.pc = "gaveUp", !.ch = NoFrame]]
  /\ UNCHANGED <<nextID, send, calls, reader, writer, handler, done, inbound, peer, handled>>

\* The deferred forget.
Forget(k) ==
  /\ caller[k].pc \in {"failed", "answered"}
  /\ pending' = {p \in pending : p.id # caller[k].id}
  /\ caller' = [caller EXCEPT ![k] = IF @.pc = "answered" THEN [@ EXCEPT !.pc = "returned"]
                                     ELSE [@ EXCEPT !.pc = "gaveUp", !.ch = NoFrame]]
  /\ UNCHANGED <<nextID, send, calls, reader, writer, handler, done, inbound, peer, handled>>
-----------------------------------------------------------------------------
(* readLoop *)

\* deliver: an answer nobody waits for, or a second one, is dropped.
Deliver(f) ==
  caller' = [k \in Callers |->
               IF [id |-> f.id, by |-> k] \in pending /\ caller[k].ch = NoFrame
               THEN [caller[k] EXCEPT !.ch = f] ELSE caller[k]]

\* What is buffered may still be read after Close.
ReadFrame ==
  /\ reader.pc = "ready"
  /\ inbound # <<>>
  /\ inbound' = Tail(inbound)
  /\ LET f == Head(inbound)
     IN \/ f.type = "call" /\ reader' = Holding("queueing", f) /\ UNCHANGED caller
        \/ f.type = "answer" /\ Deliver(f) /\ UNCHANGED reader
        \/ f.type = "garbage" /\ reader' = Holding("erring", Frame("error", 0, NoCaller)) /\ UNCHANGED caller
  /\ UNCHANGED <<nextID, pending, send, calls, writer, handler, done, peer, handled>>

\* Mutant: a full queue makes room by dropping what it holds.
ReaderPutsOver ==
  /\ \/ /\ reader.pc = "queueing"
        /\ calls' = IF Len(calls) < CallBuffer THEN Append(calls, reader.f) ELSE <<reader.f>>
        /\ UNCHANGED send
     \/ /\ reader.pc = "erring"
        /\ Len(send) < SendBuffer
        /\ send' = Append(send, reader.f)
        /\ UNCHANGED calls
  /\ reader' = Quiet
  /\ UNCHANGED <<caller, nextID, pending, writer, handler, done, inbound, peer, handled>>

\* The frame in hand goes to the handler, or a CALLERROR to the writer.
ReaderPuts ==
  /\ \/ /\ reader.pc = "queueing"
        /\ Len(calls) < CallBuffer
        /\ calls' = Append(calls, reader.f)
        /\ UNCHANGED send
     \/ /\ reader.pc = "erring"
        /\ Len(send) < SendBuffer
        /\ send' = Append(send, reader.f)
        /\ UNCHANGED calls
  /\ reader' = Quiet
  /\ UNCHANGED <<caller, nextID, pending, writer, handler, done, inbound, peer, handled>>

\* ReadMessage fails: the peer hung up or went silent past the idle timeout,
\* or Close closed the socket.  The frame in hand and those not read are lost.
\* Run then calls Close.
ReaderReturns ==
  /\ \/ reader.pc = "ready"
     \/ reader.pc \in {"queueing", "erring"} /\ done
  /\ reader' = Returned
  /\ done' = TRUE
  /\ inbound' = <<>>
  /\ UNCHANGED <<caller, nextID, pending, send, calls, writer, handler, peer, handled>>
-----------------------------------------------------------------------------
(* handleLoop and writeLoop *)

\* select takes a queued call even when done is closed as well.
HandleCall ==
  /\ handler.pc = "ready"
  /\ calls # <<>>
  /\ handled' = Append(handled, Head(calls).id)
  /\ handler' = Holding("replying", Frame("result", Head(calls).id, NoCaller))
  /\ calls' = Tail(calls)
  /\ UNCHANGED <<caller, nextID, pending, send, reader, writer, done, inbound, peer>>

\* Mutant: the reply is queued without looking at done.
HandlerPutsOnly ==
  /\ handler.pc = "replying"
  /\ Len(send) < SendBuffer /\ send' = Append(send, handler.f)
  /\ handler' = Quiet
  /\ UNCHANGED <<caller, nextID, pending, calls, reader, writer, done, inbound, peer, handled>>

HandlerPuts ==
  /\ handler.pc = "replying"
  /\ \/ Len(send) < SendBuffer /\ send' = Append(send, handler.f)
     \/ done /\ UNCHANGED send
  /\ handler' = Quiet
  /\ UNCHANGED <<caller, nextID, pending, calls, reader, writer, done, inbound, peer, handled>>

HandlerReturns ==
  /\ handler.pc = "ready"
  /\ done
  /\ handler' = Returned
  /\ UNCHANGED <<caller, nextID, pending, send, calls, reader, writer, done, inbound, peer, handled>>

WriterTakes ==
  /\ writer.pc = "ready"
  /\ send # <<>>
  /\ writer' = Holding("writing", Head(send))
  /\ send' = Tail(send)
  /\ UNCHANGED <<caller, nextID, pending, calls, reader, handler, done, inbound, peer, handled>>

\* Of what the peer gets, the calls matter: it may answer them.
WriteFrame ==
  /\ writer.pc = "writing"
  /\ peer' = [peer EXCEPT !.got = IF writer.f.type = "call" THEN @ \cup {writer.f} ELSE @]
  /\ writer' = Quiet
  /\ UNCHANGED <<caller, nextID, pending, send, calls, reader, handler, done, inbound, handled>>

\* The write, or a ping, fails within writeWait: Close and return.
WriteFails ==
  /\ writer.pc \in {"ready", "writing"}
  /\ writer' = Returned
  /\ done' = TRUE
  /\ UNCHANGED <<caller, nextID, pending, send, calls, reader, handler, inbound, peer, handled>>

WriterReturns ==
  /\ writer.pc = "ready"
  /\ done
  /\ writer' = Returned
  /\ UNCHANGED <<caller, nextID, pending, send, calls, reader, handler, done, inbound, peer, handled>>

\* Close from outside: the registry replaced us, or the server shuts down.
Close ==
  /\ ~done
  /\ done' = TRUE
  /\ UNCHANGED <<caller, nextID, pending, send, calls, reader, writer, handler, inbound, peer, handled>>
-----------------------------------------------------------------------------
(* The peer (external). *)

PeerSends(f) == /\ ~done
                /\ Len(inbound) < MaxFlight
                /\ inbound' = Append(inbound, f)
                /\ UNCHANGED <<caller, nextID, pending, send, calls, reader, writer, handler,
                               done, handled>>

PeerAnswers(f) ==
  /\ f \in peer.got
  /\ peer.answers < MaxAnswers
  /\ peer' = [peer EXCEPT !.answers = @ + 1]
  /\ PeerSends(Frame("answer", f.id, f.by))

PeerCalls ==
  /\ peer.calls + peer.garbage < MaxInbound
  /\ peer' = [peer EXCEPT !.calls = @ + 1]
  /\ PeerSends(Frame("call", peer.calls + 1, NoCaller))

PeerGarbles ==
  /\ peer.calls + peer.garbage < MaxInbound
  /\ peer' = [peer EXCEPT !.garbage = @ + 1]
  /\ PeerSends(Frame("garbage", 0, NoCaller))
-----------------------------------------------------------------------------
Init ==
  /\ caller = [k \in Callers |-> NoCall]
  /\ nextID = 0
  /\ pending = {}
  /\ send = <<>>
  /\ calls = <<>>
  /\ reader = Quiet
  /\ writer = Quiet
  /\ handler = Quiet
  /\ done = FALSE
  /\ inbound = <<>>
  /\ peer = [got |-> {}, answers |-> 0, calls |-> 0, garbage |-> 0]
  /\ handled = <<>>

CallStep(k) == CallSend(k) \/ CallClosed(k) \/ CallTimeout(k) \/ CallAnswered(k) \/ Forget(k)
ReaderStep == ReadFrame \/ ReaderPuts \/ ReaderReturns
HandlerStep == HandleCall \/ HandlerPuts \/ HandlerReturns
WriterStep == WriterTakes \/ WriteFrame \/ WriteFails \/ WriterReturns

Next ==
  \/ \E k \in Callers : CallBegin(k) \/ CallCancelled(k) \/ CallStep(k)
  \/ ReaderStep \/ HandlerStep \/ WriterStep \/ Close
  \/ \E f \in peer.got : PeerAnswers(f)
  \/ PeerCalls \/ PeerGarbles

Spec == Init /\ [][Next]_vars

\* Goroutines run, a timer fires, a write ends within writeWait, and a reader
\* whose socket is closed returns.  Nothing is assumed of the peer: a quiet
\* connection stays open.
Fairness ==
  /\ \A k \in Callers : WF_vars(CallStep(k))
  /\ WF_vars(ReadFrame \/ ReaderPuts \/ (done /\ ReaderReturns))
  /\ WF_vars(HandlerStep)
  /\ WF_vars(WriterTakes \/ WriterReturns \/ (writer.pc = "writing" /\ WriterStep))

LiveSpec == Spec /\ Fairness
-----------------------------------------------------------------------------
(* Requests and responses are correlated by id: what a Call returns was sent  *)
(* in answer to that Call, however late or often the peer answers others.     *)
OwnAnswer ==
  \A k \in Callers : caller[k].pc \in {"answered", "returned"} => caller[k].ch.by = k

(* "in every one of those cases it removes its pending entry" (conn.go:158):  *)
(* every entry belongs to a Call that has not returned.                       *)
NoPendingLeak ==
  \A p \in pending : caller[p.by].pc \notin {"idle", "returned", "gaveUp"}

(* "preserving the order the charger sent them in" (conn.go:311): the calls   *)
(* that were dispatched are the first ones the peer made, each once.          *)
HandledInOrder == \A i \in DOMAIN handled : handled[i] = i

(* A Call returns, whatever the peer does and however full the channels are.  *)
CallReturns == \A k \in Callers : caller[k].pc = "sending" ~> caller[k].pc \in {"returned", "gaveUp"}

(* "unblocking everything waiting on it" (conn.go:214): once the connection   *)
(* is closed Run returns, with a handler stuck on a full send queue and a     *)
(* reader stuck on a full call queue too.                                     *)
RunReturns == done ~> \A g \in {reader, writer, handler} : g.pc = "returned"
=============================================================================
