--------------------------- MODULE RpcConnProofs ---------------------------
(***************************************************************************)
(* One connection for every number of callers, every size of its channels  *)
(* and every behaviour of the peer: a Call gets its own answer and leaves  *)
(* no entry behind, and the peer's calls are handled in the order it made  *)
(* them.                                                                   *)
(***************************************************************************)
EXTENDS RpcConn, SequenceTheorems, TLAPS

Frames == [type : {"none", "call", "answer", "garbage", "error", "result"},
           id : Nat, by : Callers \cup {NoCaller}]
Peers == [got : SUBSET Frames, answers : Nat, calls : Nat, garbage : Nat]
CallStates == {"idle", "sending", "waiting", "failed", "answered", "returned", "gaveUp"}

TypeOK ==
  /\ caller \in [Callers -> [pc : CallStates, id : Nat, ch : Frames]]
  /\ nextID \in Nat
  /\ pending \subseteq [id : Nat, by : Callers]
  /\ send \in Seq(Frames)
  /\ calls \in Seq(Frames)
  /\ reader \in [pc : {"ready", "queueing", "erring", "returned"}, f : Frames]
  /\ writer \in [pc : {"ready", "writing", "returned"}, f : Frames]
  /\ handler \in [pc : {"ready", "replying", "returned"}, f : Frames]
  /\ done \in BOOLEAN
  /\ inbound \in Seq(Frames)
  /\ peer \in Peers
  /\ handled \in Seq(Nat)

\* An id is taken once, so that it tells whose Call it is.
IdsUnique ==
  /\ \A k \in Callers : caller[k].pc # "idle" => caller[k].id \in 1..nextID
  /\ \A k, l \in Callers : /\ caller[k].pc # "idle" /\ caller[l].pc # "idle"
                           /\ caller[k].id = caller[l].id
                           => k = l

\* An entry belongs to the Call that took its id, until that Call forgets it.
PendingOwned ==
  \A p \in pending : /\ caller[p.by].pc \in {"sending", "waiting", "failed", "answered"}
                     /\ caller[p.by].id = p.id

\* The frame comes from the Call it names.
From(f) == f.by \in Callers /\ caller[f.by].pc # "idle" /\ caller[f.by].id = f.id

\* Our calls on their way to the peer, and its answers on their way back.
FramesTraced ==
  /\ \A i \in DOMAIN send : send[i].type = "call" => From(send[i])
  /\ writer.f.type = "call" => From(writer.f)
  /\ \A f \in peer.got : From(f)
  /\ \A i \in DOMAIN inbound : inbound[i].type = "answer" => From(inbound[i])
  /\ reader.pc = "erring" => reader.f.type = "error"
  /\ handler.pc = "replying" => handler.f.type = "result"

\* What is in a Call's channel answers that Call.
ChannelOwn ==
  \A k \in Callers : /\ caller[k].ch # NoFrame => caller[k].ch.by = k
                     /\ caller[k].pc \in {"answered", "returned"} => caller[k].ch # NoFrame

\* The calls of the peer that the reader has taken.
Taken == Len(handled) + Len(calls) + (IF reader.pc = "queueing" THEN 1 ELSE 0)

\* The peer numbers its calls; they stay in that order from its hand to the
\* handler, and while the reader runs none is missing.
InSequence ==
  /\ HandledInOrder
  /\ \A i \in DOMAIN calls : calls[i].id = Len(handled) + i
  /\ reader.pc = "queueing" => reader.f.id = Taken

NoneMissing ==
  reader.pc # "returned" =>
    /\ \A i \in DOMAIN inbound :
         inbound[i].type = "call" => inbound[i].id > Taken /\ inbound[i].id <= peer.calls
    /\ \A i, j \in DOMAIN inbound :
         inbound[i].type = "call" /\ inbound[j].type = "call" /\ i < j
           => inbound[i].id < inbound[j].id
    /\ \A n \in Taken + 1 .. peer.calls :
         \E i \in DOMAIN inbound : inbound[i].type = "call" /\ inbound[i].id = n
    /\ Taken <= peer.calls

Correlation == IdsUnique /\ PendingOwned /\ FramesTraced /\ ChannelOwn
ConnInv == TypeOK /\ Correlation /\ InSequence /\ NoneMissing
-----------------------------------------------------------------------------
(* What the provers need to know of the channels.                            *)

LEMMA Appending ==
  ASSUME NEW S, NEW s \in Seq(S), NEW x \in S
  PROVE  /\ Append(s, x) \in Seq(S)
         /\ Len(Append(s, x)) = Len(s) + 1
         /\ DOMAIN Append(s, x) = 1 .. Len(s) + 1
         /\ \A i \in DOMAIN Append(s, x) : IF i \in DOMAIN s THEN Append(s, x)[i] = s[i]
                                           ELSE i = Len(s) + 1 /\ Append(s, x)[i] = x
  <1>1. DOMAIN s = 1 .. Len(s) /\ Len(s) \in Nat
    BY LenProperties
  <1>2. /\ Append(s, x) \in Seq(S)
        /\ Len(Append(s, x)) = Len(s) + 1
        /\ \A i \in 1 .. Len(s) : Append(s, x)[i] = s[i]
        /\ Append(s, x)[Len(s) + 1] = x
    BY AppendProperties
  <1>3. DOMAIN Append(s, x) = 1 .. Len(s) + 1
    BY <1>2, LenProperties
  <1>4. QED
    BY <1>1, <1>2, <1>3

LEMMA Taking ==
  ASSUME NEW S, NEW s \in Seq(S), s # <<>>
  PROVE  /\ Head(s) \in S /\ Head(s) = s[1] /\ 1 \in DOMAIN s
         /\ Tail(s) \in Seq(S)
         /\ Len(s) = Len(Tail(s)) + 1
         /\ \A i \in DOMAIN Tail(s) : i \in Nat /\ i >= 1 /\ i + 1 \in DOMAIN s /\ Tail(s)[i] = s[i + 1]
         /\ \A i \in DOMAIN s : i # 1 => i - 1 \in DOMAIN Tail(s) /\ Tail(s)[i - 1] = s[i]
  <1>1. /\ DOMAIN s = 1 .. Len(s) /\ Len(s) \in Nat /\ Len(s) # 0
    BY LenProperties, EmptySeq
  <1>2. /\ Head(s) \in S /\ Head(s) = s[1] /\ Tail(s) \in Seq(S)
        /\ Len(Tail(s)) = Len(s) - 1
        /\ \A i \in 1 .. Len(Tail(s)) : Tail(s)[i] = s[i + 1]
    BY HeadTailProperties
  <1>3. DOMAIN Tail(s) = 1 .. Len(s) - 1
    BY <1>2, LenProperties
  <1>4. QED
    BY <1>1, <1>2, <1>3
-----------------------------------------------------------------------------
(* Types *)

LEMMA PeerCounts ==
  ASSUME NEW p \in Peers
  PROVE  /\ p.got \subseteq Frames /\ p.answers \in Nat /\ p.calls \in Nat /\ p.garbage \in Nat
         /\ [p EXCEPT !.answers = @ + 1] \in Peers
         /\ [p EXCEPT !.calls = @ + 1] \in Peers
         /\ [p EXCEPT !.garbage = @ + 1] \in Peers
         /\ \A f \in Frames : [p EXCEPT !.got = @ \cup {f}] \in Peers
         /\ [p EXCEPT !.got = @] \in Peers
  BY DEF Peers

LEMMA InitType == Init => TypeOK
  <1>1. NoFrame \in Frames
    BY DEF NoFrame, Frames
  <1>2. /\ NoCall \in [pc : CallStates, id : Nat, ch : Frames]
        /\ Quiet \in [pc : {"ready", "queueing", "erring", "returned"}, f : Frames]
        /\ Quiet \in [pc : {"ready", "writing", "returned"}, f : Frames]
        /\ Quiet \in [pc : {"ready", "replying", "returned"}, f : Frames]
    BY <1>1 DEF NoCall, Quiet, CallStates
  <1>3. <<>> \in Seq(Frames) /\ <<>> \in Seq(Nat)
    OBVIOUS
  <1>4. [got |-> {}, answers |-> 0, calls |-> 0, garbage |-> 0] \in Peers
    BY DEF Peers
  <1> SUFFICES ASSUME Init PROVE TypeOK
    OBVIOUS
  <1>5. peer \in Peers
    BY <1>4 DEF Init
  <1>6. caller \in [Callers -> [pc : CallStates, id : Nat, ch : Frames]]
    BY <1>2 DEF Init
  <1>7. send \in Seq(Frames) /\ calls \in Seq(Frames) /\ inbound \in Seq(Frames) /\ handled \in Seq(Nat)
    BY <1>3 DEF Init
  <1>8. /\ reader \in [pc : {"ready", "queueing", "erring", "returned"}, f : Frames]
        /\ writer \in [pc : {"ready", "writing", "returned"}, f : Frames]
        /\ handler \in [pc : {"ready", "replying", "returned"}, f : Frames]
    BY <1>2 DEF Init
  <1>9. nextID \in Nat /\ pending \subseteq [id : Nat, by : Callers] /\ done \in BOOLEAN
    BY DEF Init
  <1>10. QED
    BY <1>5, <1>6, <1>7, <1>8, <1>9 DEF TypeOK

LEMMA CallType ==
  ASSUME TypeOK, NEW k \in Callers, CallBegin(k) \/ CallCancelled(k) \/ CallStep(k)
  PROVE  TypeOK'
  <1> USE DEF TypeOK, CallStates
  <1>1. NoFrame \in Frames
    BY DEF NoFrame, Frames
  <1>2. CASE CallBegin(k)
    BY <1>1, <1>2 DEF CallBegin
  <1>3. CASE CallSend(k)
    <2>1. Frame("call", caller[k].id, k) \in Frames
      BY DEF Frame, Frames
    <2>2. send' \in Seq(Frames)
      BY <1>3, <2>1, Appending DEF CallSend
    <2>3. QED
      BY <1>3, <2>2 DEF CallSend, CallGoto
  <1>4. CASE CallClosed(k) \/ CallCancelled(k) \/ CallTimeout(k) \/ CallAnswered(k)
    <2>1. ASSUME NEW p \in CallStates, CallGoto(k, p)
          PROVE  caller' \in [Callers -> [pc : CallStates, id : Nat, ch : Frames]]
      BY <2>1 DEF CallGoto
    <2>2. QED
      BY <1>4, <2>1 DEF CallClosed, CallCancelled, CallTimeout, CallAnswered
  <1>5. CASE Forget(k)
    BY <1>1, <1>5 DEF Forget
  <1>6. QED
    BY <1>2, <1>3, <1>4, <1>5 DEF CallStep

LEMMA ReaderType ==
  ASSUME TypeOK, ReaderStep
  PROVE  TypeOK'
  <1> USE DEF TypeOK
  <1>1. CASE ReadFrame
    <2> DEFINE f == Head(inbound)
    <2>1. f \in Frames /\ inbound' \in Seq(Frames)
      BY <1>1, Taking DEF ReadFrame
    <2>2. Frame("error", 0, NoCaller) \in Frames
      BY DEF Frame, Frames
    <2>3. reader' \in [pc : {"ready", "queueing", "erring", "returned"}, f : Frames]
      BY <1>1, <2>1, <2>2 DEF ReadFrame, Holding
    <2>4. caller' \in [Callers -> [pc : CallStates, id : Nat, ch : Frames]]
      <3>1. CASE UNCHANGED caller
        BY <3>1
      <3>2. CASE Deliver(f)
        <4>1. ASSUME NEW k \in Callers
              PROVE  [caller[k] EXCEPT !.ch = f] \in [pc : CallStates, id : Nat, ch : Frames]
          BY <2>1
        <4>2. QED
          BY <3>2, <4>1 DEF Deliver
      <3>3. QED
        BY <1>1, <3>1, <3>2 DEF ReadFrame
    <2>5. QED
      BY <1>1, <2>1, <2>3, <2>4 DEF ReadFrame
  <1>2. CASE ReaderPuts
    <2>1. reader.f \in Frames
      OBVIOUS
    <2>2. Append(calls, reader.f) \in Seq(Frames) /\ Append(send, reader.f) \in Seq(Frames)
      BY <2>1, Appending
    <2>3. Quiet \in [pc : {"ready", "queueing", "erring", "returned"}, f : Frames]
      BY DEF Quiet, NoFrame, Frames
    <2>4. QED
      BY <1>2, <2>2, <2>3 DEF ReaderPuts
  <1>3. CASE ReaderReturns
    <2>1. Returned \in [pc : {"ready", "queueing", "erring", "returned"}, f : Frames]
      BY DEF Returned, NoFrame, Frames
    <2>2. QED
      BY <1>3, <2>1 DEF ReaderReturns
  <1>4. QED
    BY <1>1, <1>2, <1>3 DEF ReaderStep

LEMMA HandlerType ==
  ASSUME TypeOK, HandlerStep
  PROVE  TypeOK'
  <1> USE DEF TypeOK
  <1>1. /\ Quiet \in [pc : {"ready", "replying", "returned"}, f : Frames]
        /\ Returned \in [pc : {"ready", "replying", "returned"}, f : Frames]
    BY DEF Quiet, Returned, NoFrame, Frames
  <1>2. CASE HandleCall
    <2>1. Head(calls) \in Frames /\ calls' \in Seq(Frames)
      BY <1>2, Taking DEF HandleCall
    <2>2. Head(calls).id \in Nat
      BY <2>1 DEF Frames
    <2>3. handled' \in Seq(Nat)
      BY <1>2, <2>2, Appending DEF HandleCall
    <2>4. handler' \in [pc : {"ready", "replying", "returned"}, f : Frames]
      BY <1>2, <2>2 DEF HandleCall, Holding, Frame, Frames
    <2>5. QED
      BY <1>2, <2>1, <2>3, <2>4 DEF HandleCall
  <1>3. CASE HandlerPuts
    <2>1. handler.f \in Frames
      OBVIOUS
    <2>2. Append(send, handler.f) \in Seq(Frames)
      BY <2>1, Appending
    <2>3. QED
      BY <1>1, <1>3, <2>2 DEF HandlerPuts
  <1>4. CASE HandlerReturns
    BY <1>1, <1>4 DEF HandlerReturns
  <1>5. QED
    BY <1>2, <1>3, <1>4 DEF HandlerStep

LEMMA WriterType ==
  ASSUME TypeOK, WriterStep \/ Close
  PROVE  TypeOK'
  <1> USE DEF TypeOK
  <1>1. /\ Quiet \in [pc : {"ready", "writing", "returned"}, f : Frames]
        /\ Returned \in [pc : {"ready", "writing", "returned"}, f : Frames]
    BY DEF Quiet, Returned, NoFrame, Frames
  <1>2. CASE WriterTakes
    <2>1. Head(send) \in Frames /\ send' \in Seq(Frames)
      BY <1>2, Taking DEF WriterTakes
    <2>2. writer' \in [pc : {"ready", "writing", "returned"}, f : Frames]
      BY <1>2, <2>1 DEF WriterTakes, Holding
    <2>3. QED
      BY <1>2, <2>1, <2>2 DEF WriterTakes
  <1>3. CASE WriteFrame
    <2>1. peer' \in Peers
      BY <1>3, PeerCounts DEF WriteFrame
    <2>2. QED
      BY <1>1, <1>3, <2>1 DEF WriteFrame
  <1>4. CASE WriteFails \/ WriterReturns \/ Close
    BY <1>1, <1>4 DEF WriteFails, WriterReturns, Close
  <1>5. QED
    BY <1>2, <1>3, <1>4 DEF WriterStep

LEMMA PeerType ==
  ASSUME TypeOK, (\E f \in peer.got : PeerAnswers(f)) \/ PeerCalls \/ PeerGarbles
  PROVE  TypeOK'
  <1> USE DEF TypeOK
  <1>1. ASSUME NEW f \in Frames PROVE Append(inbound, f) \in Seq(Frames)
    BY Appending
  <1>2. ASSUME NEW f \in peer.got, PeerAnswers(f) PROVE TypeOK'
    <2>1. Frame("answer", f.id, f.by) \in Frames
      BY PeerCounts DEF Frame, Frames
    <2>2. inbound' \in Seq(Frames)
      BY <1>1, <1>2, <2>1, Zenon DEF PeerAnswers, PeerSends
    <2>3. peer' \in Peers
      BY <1>2, PeerCounts DEF PeerAnswers
    <2>4. QED
      BY <1>2, <2>2, <2>3 DEF PeerAnswers, PeerSends
  <1>3. CASE PeerCalls
    <2>1. Frame("call", peer.calls + 1, NoCaller) \in Frames
      <3>1. peer.calls + 1 \in Nat
        BY DEF Peers
      <3>2. QED
        BY <3>1 DEF Frame, Frames
    <2>2. inbound' \in Seq(Frames)
      BY <1>1, <1>3, <2>1, Zenon DEF PeerCalls, PeerSends
    <2>3. peer' \in Peers
      BY <1>3, PeerCounts DEF PeerCalls
    <2>4. QED
      BY <1>3, <2>2, <2>3 DEF PeerCalls, PeerSends
  <1>4. CASE PeerGarbles
    <2>1. Frame("garbage", 0, NoCaller) \in Frames
      BY DEF Frame, Frames
    <2>2. inbound' \in Seq(Frames)
      BY <1>1, <1>4, <2>1, Zenon DEF PeerGarbles, PeerSends
    <2>3. peer' \in Peers
      BY <1>4, PeerCounts DEF PeerGarbles
    <2>4. QED
      BY <1>4, <2>2, <2>3 DEF PeerGarbles, PeerSends
  <1>5. QED
    BY <1>2, <1>3, <1>4

LEMMA NextType == TypeOK /\ [Next]_vars => TypeOK'
  <1>1. TypeOK /\ UNCHANGED vars => TypeOK'
    BY DEF vars, TypeOK
  <1>2. QED
    BY <1>1, CallType, ReaderType, HandlerType, WriterType, PeerType DEF Next
-----------------------------------------------------------------------------
(* Correlation *)

\* No step takes an id away from a Call that has one.
IdsKept ==
  \A k \in Callers : caller[k].pc # "idle" => caller'[k].pc # "idle" /\ caller'[k].id = caller[k].id

LEMMA FromKept ==
  ASSUME IdsKept
  PROVE  \A f : From(f) => f.by \in Callers /\ caller'[f.by].pc # "idle" /\ caller'[f.by].id = f.id
  BY DEF IdsKept, From

LEMMA CallBeginCorrelation ==
  ASSUME TypeOK, Correlation, NEW k \in Callers, CallBegin(k)
  PROVE  Correlation'
  <1>1. /\ caller[k].pc = "idle"
        /\ nextID \in Nat /\ nextID' = nextID + 1
        /\ pending' = pending \cup {[id |-> nextID + 1, by |-> k]}
        /\ caller'[k] = [pc |-> "sending", id |-> nextID + 1, ch |-> NoFrame]
        /\ \A l \in Callers : l # k => caller'[l] = caller[l]
        /\ UNCHANGED <<send, writer, peer, inbound, reader, handler>>
    BY DEF TypeOK, CallBegin
  <1>2. IdsKept
    BY <1>1 DEF IdsKept
  <1>3. IdsUnique'
    <2>1. \A l \in Callers : caller[l].pc # "idle" => caller[l].id \in 1..nextID
      BY DEF Correlation, IdsUnique
    <2>2. caller'[k].pc = "sending" /\ caller'[k].id = nextID + 1
      BY <1>1
    <2>3. \A l \in Callers : caller'[l].pc # "idle" => caller'[l].id \in 1..nextID'
      BY <1>1, <2>1, <2>2
    <2>4. \A l \in Callers : l # k /\ caller'[l].pc # "idle" => caller'[l].id # caller'[k].id
      BY <1>1, <2>1, <2>2
    <2>5. QED
      BY <1>1, <2>3, <2>4 DEF Correlation, IdsUnique
  <1>4. PendingOwned'
    BY <1>1 DEF Correlation, PendingOwned, TypeOK
  <1>5. FramesTraced'
    BY <1>1, <1>2, FromKept DEF Correlation, FramesTraced, From
  <1>6. ChannelOwn'
    BY <1>1 DEF Correlation, ChannelOwn
  <1>7. QED
    BY <1>3, <1>4, <1>5, <1>6 DEF Correlation

\* The steps of a Call that only move it on.
LEMMA CallMoves ==
  ASSUME TypeOK, Correlation, NEW k \in Callers, NEW p \in {"waiting", "failed", "answered"},
         CallGoto(k, p), UNCHANGED <<nextID, pending>>,
         caller[k].pc \in {"sending", "waiting"},
         p = "answered" => caller[k].ch # NoFrame
  PROVE  IdsKept /\ IdsUnique' /\ PendingOwned' /\ ChannelOwn'
  <1>1. /\ caller'[k].pc = p /\ caller'[k].id = caller[k].id /\ caller'[k].ch = caller[k].ch
        /\ \A l \in Callers : l # k => caller'[l] = caller[l]
    BY DEF TypeOK, CallGoto
  <1>2. IdsKept
    BY <1>1 DEF IdsKept
  <1>3. IdsUnique'
    BY <1>1 DEF Correlation, IdsUnique
  <1>4. PendingOwned'
    BY <1>1 DEF Correlation, PendingOwned, TypeOK
  <1>5. ChannelOwn'
    BY <1>1 DEF Correlation, ChannelOwn
  <1>6. QED
    BY <1>2, <1>3, <1>4, <1>5

LEMMA CallStepCorrelation ==
  ASSUME TypeOK, Correlation, NEW k \in Callers, CallCancelled(k) \/ CallStep(k)
  PROVE  Correlation'
  <1>1. CASE CallSend(k)
    <2> DEFINE f == Frame("call", caller[k].id, k)
    <2>1. IdsKept /\ IdsUnique' /\ PendingOwned' /\ ChannelOwn'
      BY <1>1, CallMoves DEF CallSend
    <2>2. f \in Frames /\ From(f) /\ send \in Seq(Frames)
      BY <1>1 DEF CallSend, TypeOK, Frame, Frames, From
    <2>3. \A i \in DOMAIN send' : IF i \in DOMAIN send THEN send'[i] = send[i] ELSE send'[i] = f
      BY <1>1, <2>2, Appending DEF CallSend
    <2>4. FramesTraced'
      BY <1>1, <2>1, <2>2, <2>3, FromKept DEF CallSend, Correlation, FramesTraced, From
    <2>5. QED
      BY <2>1, <2>4 DEF Correlation
  <1>2. CASE CallClosed(k) \/ CallCancelled(k) \/ CallTimeout(k) \/ CallAnswered(k)
    <2>1. IdsKept /\ IdsUnique' /\ PendingOwned' /\ ChannelOwn'
      BY <1>2, CallMoves DEF CallClosed, CallCancelled, CallTimeout, CallAnswered
    <2>2. UNCHANGED <<send, writer, peer, inbound, reader, handler>>
      BY <1>2 DEF CallClosed, CallCancelled, CallTimeout, CallAnswered
    <2>3. FramesTraced'
      BY <2>1, <2>2, FromKept DEF Correlation, FramesTraced, From
    <2>4. QED
      BY <2>1, <2>3 DEF Correlation
  <1>3. CASE Forget(k)
    <2>1. /\ caller[k].pc \in {"failed", "answered"}
          /\ pending' = {p \in pending : p.id # caller[k].id}
          /\ caller'[k].pc \in {"returned", "gaveUp"} /\ caller'[k].id = caller[k].id
          /\ \/ caller[k].pc = "answered" /\ caller'[k].pc = "returned" /\ caller'[k].ch = caller[k].ch
             \/ caller'[k].pc = "gaveUp" /\ caller'[k].ch = NoFrame
          /\ \A l \in Callers : l # k => caller'[l] = caller[l]
          /\ UNCHANGED <<nextID, send, writer, peer, inbound, reader, handler>>
      BY <1>3 DEF Forget, TypeOK
    <2>2. IdsKept
      BY <2>1 DEF IdsKept
    <2>3. IdsUnique'
      BY <2>1 DEF Correlation, IdsUnique
    <2>4. PendingOwned'
      BY <2>1 DEF Correlation, PendingOwned, TypeOK
    <2>5. FramesTraced'
      BY <2>1, <2>2, FromKept DEF Correlation, FramesTraced, From
    <2>6. ChannelOwn'
      BY <2>1 DEF Correlation, ChannelOwn
    <2>7. QED
      BY <2>3, <2>4, <2>5, <2>6 DEF Correlation
  <1>4. QED
    BY <1>1, <1>2, <1>3 DEF CallStep

\* deliver gives an answer to the Call it answers and to no other.
LEMMA DeliverCorrelation ==
  ASSUME TypeOK, Correlation, NEW f \in Frames, f.type = "answer", From(f), Deliver(f),
         UNCHANGED <<nextID, pending>>
  PROVE  IdsKept /\ IdsUnique' /\ PendingOwned' /\ ChannelOwn'
  <1>1. \A k \in Callers : caller'[k].pc = caller[k].pc /\ caller'[k].id = caller[k].id
    BY DEF Deliver, TypeOK
  <1>2. ASSUME NEW k \in Callers
        PROVE  caller'[k].ch = caller[k].ch \/ (caller'[k].ch = f /\ k = f.by)
    <2>1. CASE [id |-> f.id, by |-> k] \in pending
      <3>1. caller[k].id = f.id /\ caller[k].pc # "idle"
        BY <2>1 DEF Correlation, PendingOwned
      <3>2. k = f.by
        BY <3>1 DEF Correlation, IdsUnique, From
      <3>3. QED
        BY <3>2 DEF Deliver, TypeOK
    <2>2. CASE [id |-> f.id, by |-> k] \notin pending
      BY <2>2 DEF Deliver
    <2>3. QED
      BY <2>1, <2>2
  <1>3. f # NoFrame
    BY DEF NoFrame
  <1>4. IdsKept /\ IdsUnique'
    BY <1>1 DEF IdsKept, Correlation, IdsUnique
  <1>5. PendingOwned'
    BY <1>1 DEF Correlation, PendingOwned, TypeOK
  <1>6. ChannelOwn'
    BY <1>1, <1>2, <1>3 DEF Correlation, ChannelOwn
  <1>7. QED
    BY <1>4, <1>5, <1>6

\* Without a step of a Call or an answer, only the frames may move.
LEMMA FramesMove ==
  ASSUME Correlation, UNCHANGED <<caller, nextID, pending>>, FramesTraced'
  PROVE  Correlation'
  BY DEF Correlation, IdsUnique, PendingOwned, ChannelOwn

LEMMA ReaderCorrelation ==
  ASSUME TypeOK, Correlation, ReaderStep
  PROVE  Correlation'
  <1>1. CASE ReadFrame
    <2> DEFINE f == Head(inbound)
    <2>1. /\ f \in Frames /\ f = inbound[1] /\ 1 \in DOMAIN inbound
          /\ \A i \in DOMAIN inbound' : i + 1 \in DOMAIN inbound /\ inbound'[i] = inbound[i + 1]
      BY <1>1, Taking DEF ReadFrame, TypeOK
    <2>2. UNCHANGED <<nextID, pending, send, writer, peer, handler>>
      BY <1>1 DEF ReadFrame
    <2>3. CASE f.type = "answer" /\ Deliver(f) /\ UNCHANGED reader
      <3>1. From(f)
        BY <2>1, <2>3 DEF Correlation, FramesTraced
      <3>2. IdsKept /\ IdsUnique' /\ PendingOwned' /\ ChannelOwn'
        BY <2>1, <2>2, <2>3, <3>1, DeliverCorrelation
      <3>3. FramesTraced'
        BY <2>1, <2>2, <2>3, <3>2, FromKept DEF Correlation, FramesTraced, From
      <3>4. QED
        BY <3>2, <3>3 DEF Correlation
    <2>4. CASE /\ UNCHANGED caller
               /\ \/ reader' = Holding("queueing", f)
                  \/ reader' = Holding("erring", Frame("error", 0, NoCaller))
      <3>1. FramesTraced'
        BY <2>1, <2>2, <2>4 DEF Correlation, FramesTraced, From, Holding, Frame
      <3>2. QED
        BY <2>2, <2>4, <3>1, FramesMove
    <2>5. QED
      BY <1>1, <2>3, <2>4 DEF ReadFrame
  <1>2. CASE ReaderPuts
    <2>1. reader.f \in Frames /\ send \in Seq(Frames)
      BY DEF TypeOK
    <2>2. \/ send' = send
          \/ /\ reader.f.type = "error"
             /\ \A i \in DOMAIN send' :
                  IF i \in DOMAIN send THEN send'[i] = send[i] ELSE send'[i] = reader.f
      BY <1>2, <2>1, Appending DEF ReaderPuts, Correlation, FramesTraced
    <2>3. reader'.pc = "ready" /\ UNCHANGED <<caller, nextID, pending, writer, peer, inbound, handler>>
      BY <1>2 DEF ReaderPuts, Quiet
    <2>4. FramesTraced'
      BY <2>2, <2>3 DEF Correlation, FramesTraced, From
    <2>5. QED
      BY <2>3, <2>4, FramesMove
  <1>3. CASE ReaderReturns
    <2>1. /\ reader'.pc = "returned" /\ inbound' = <<>>
          /\ UNCHANGED <<caller, nextID, pending, send, writer, peer, handler>>
      BY <1>3 DEF ReaderReturns, Returned
    <2>2. FramesTraced'
      BY <2>1 DEF Correlation, FramesTraced, From
    <2>3. QED
      BY <2>1, <2>2, FramesMove
  <1>4. QED
    BY <1>1, <1>2, <1>3 DEF ReaderStep

LEMMA HandlerCorrelation ==
  ASSUME TypeOK, Correlation, HandlerStep
  PROVE  Correlation'
  <1>1. /\ UNCHANGED <<caller, nextID, pending, writer, peer, inbound, reader>>
        /\ handler'.pc = "replying" => handler'.f.type = "result"
    BY DEF HandlerStep, HandleCall, HandlerPuts, HandlerReturns, Holding, Frame, Quiet, Returned
  <1>2. \/ send' = send
        \/ /\ handler.f.type = "result"
           /\ \A i \in DOMAIN send' :
                IF i \in DOMAIN send THEN send'[i] = send[i] ELSE send'[i] = handler.f
    <2>1. handler.f \in Frames /\ send \in Seq(Frames)
      BY DEF TypeOK
    <2>2. QED
      BY <2>1, Appending
      DEF HandlerStep, HandleCall, HandlerPuts, HandlerReturns, Correlation, FramesTraced
  <1>3. FramesTraced'
    BY <1>1, <1>2 DEF Correlation, FramesTraced, From
  <1>4. QED
    BY <1>1, <1>3, FramesMove

LEMMA WriterCorrelation ==
  ASSUME TypeOK, Correlation, WriterStep \/ Close
  PROVE  Correlation'
  <1>1. UNCHANGED <<caller, nextID, pending, inbound, reader, handler>>
    BY DEF WriterStep, WriterTakes, WriteFrame, WriteFails, WriterReturns, Close
  <1>2. CASE WriterTakes
    <2>1. /\ writer'.f = send[1] /\ 1 \in DOMAIN send /\ peer' = peer
          /\ \A i \in DOMAIN send' : i + 1 \in DOMAIN send /\ send'[i] = send[i + 1]
      BY <1>2, Taking DEF WriterTakes, TypeOK, Holding
    <2>2. FramesTraced'
      BY <1>1, <2>1 DEF Correlation, FramesTraced, From
    <2>3. QED
      BY <1>1, <2>2, FramesMove
  <1>3. CASE WriteFrame
    <2>1. /\ peer'.got = IF writer.f.type = "call" THEN peer.got \cup {writer.f} ELSE peer.got
          /\ writer'.f.type = "none" /\ send' = send
      BY <1>3 DEF WriteFrame, Quiet, NoFrame, TypeOK, Peers
    <2>2. FramesTraced'
      BY <1>1, <2>1 DEF Correlation, FramesTraced, From
    <2>3. QED
      BY <1>1, <2>2, FramesMove
  <1>4. CASE WriteFails \/ WriterReturns \/ Close
    <2>1. /\ writer' = writer \/ writer'.f.type = "none"
          /\ UNCHANGED <<send, peer>>
      BY <1>4 DEF WriteFails, WriterReturns, Close, Returned, NoFrame
    <2>2. FramesTraced'
      BY <1>1, <2>1 DEF Correlation, FramesTraced, From
    <2>3. QED
      BY <1>1, <2>2, FramesMove
  <1>5. QED
    BY <1>2, <1>3, <1>4 DEF WriterStep

LEMMA PeerCorrelation ==
  ASSUME TypeOK, Correlation,
         (\E f \in peer.got : PeerAnswers(f)) \/ PeerCalls \/ PeerGarbles
  PROVE  Correlation'
  <1>1. /\ UNCHANGED <<caller, nextID, pending, send, writer, reader, handler>>
        /\ peer'.got = peer.got
    BY DEF PeerAnswers, PeerCalls, PeerGarbles, PeerSends, TypeOK, Peers
  <1>2. PICK f \in Frames : /\ inbound' = Append(inbound, f)
                            /\ f.type = "answer" => From(f)
    <2>1. CASE \E f \in peer.got : PeerAnswers(f)
      <3>1. PICK f \in peer.got : PeerAnswers(f)
        BY <2>1
      <3>2. From(f) /\ f \in Frames
        BY DEF Correlation, FramesTraced, TypeOK, Peers
      <3>3. Frame("answer", f.id, f.by) \in Frames /\ From(Frame("answer", f.id, f.by))
        BY <3>2 DEF Frame, Frames, From
      <3>4. inbound' = Append(inbound, Frame("answer", f.id, f.by))
        BY <3>1 DEF PeerAnswers, PeerSends
      <3>5. QED
        BY <3>3, <3>4
    <2>2. CASE PeerCalls
      <3>1. peer.calls + 1 \in Nat
        BY DEF TypeOK, Peers
      <3>2. /\ Frame("call", peer.calls + 1, NoCaller) \in Frames
            /\ Frame("call", peer.calls + 1, NoCaller).type = "call"
        BY <3>1 DEF Frame, Frames
      <3>3. inbound' = Append(inbound, Frame("call", peer.calls + 1, NoCaller))
        BY <2>2 DEF PeerCalls, PeerSends
      <3>4. QED
        BY <3>2, <3>3
    <2>3. CASE PeerGarbles
      <3>1. /\ Frame("garbage", 0, NoCaller) \in Frames
            /\ Frame("garbage", 0, NoCaller).type = "garbage"
        BY DEF Frame, Frames
      <3>2. inbound' = Append(inbound, Frame("garbage", 0, NoCaller))
        BY <2>3 DEF PeerGarbles, PeerSends
      <3>3. QED
        BY <3>1, <3>2
    <2>4. QED
      BY <2>1, <2>2, <2>3
  <1>3. \A i \in DOMAIN inbound' :
          IF i \in DOMAIN inbound THEN inbound'[i] = inbound[i] ELSE inbound'[i] = f
    BY <1>2, Appending DEF TypeOK
  <1>4. FramesTraced'
    BY <1>1, <1>2, <1>3 DEF Correlation, FramesTraced, From
  <1>5. QED
    BY <1>1, <1>4, FramesMove

LEMMA NextCorrelation == TypeOK /\ Correlation /\ [Next]_vars => Correlation'
  <1>1. ASSUME Correlation, UNCHANGED vars PROVE Correlation'
    <2>1. FramesTraced'
      BY <1>1 DEF vars, Correlation, FramesTraced, From
    <2>2. QED
      BY <1>1, <2>1, FramesMove DEF vars
  <1>2. QED
    BY <1>1, CallBeginCorrelation, CallStepCorrelation, ReaderCorrelation, HandlerCorrelation,
       WriterCorrelation, PeerCorrelation DEF Next
-----------------------------------------------------------------------------
(* Order *)

\* Steps that touch neither the peer's calls nor where they are.
LEMMA OrderUntouched ==
  ASSUME InSequence, NoneMissing, UNCHANGED <<calls, reader, inbound, handled>>,
         peer'.calls = peer.calls
  PROVE  InSequence' /\ NoneMissing'
  BY DEF InSequence, NoneMissing, HandledInOrder, Taken

LEMMA ReadFrameOrder ==
  ASSUME TypeOK, InSequence, NoneMissing, ReadFrame
  PROVE  InSequence' /\ NoneMissing'
  <1> DEFINE f == Head(inbound)
  <1>1. /\ f \in Frames /\ f = inbound[1] /\ 1 \in DOMAIN inbound
        /\ \A i \in DOMAIN inbound' : i \in Nat /\ i >= 1 /\ i + 1 \in DOMAIN inbound /\ inbound'[i] = inbound[i + 1]
        /\ \A i \in DOMAIN inbound : i # 1 => i - 1 \in DOMAIN inbound' /\ inbound'[i - 1] = inbound[i]
        /\ \A i \in DOMAIN inbound : i \in Nat /\ i >= 1
    BY Taking, LenProperties DEF ReadFrame, TypeOK
  <1>2. reader.pc = "ready" /\ UNCHANGED <<calls, peer, handled>>
    BY DEF ReadFrame
  <1>3. Len(handled) \in Nat /\ Len(calls) \in Nat /\ Taken \in Nat /\ Taken = Len(handled) + Len(calls)
    BY <1>2, LenProperties DEF TypeOK, Taken
  <1>4. peer.calls \in Nat /\ \A i \in DOMAIN inbound : inbound[i].id \in Nat
    <2>1. \A i \in DOMAIN inbound : inbound[i] \in Frames
      BY LenProperties DEF TypeOK
    <2>2. QED
      BY <2>1 DEF TypeOK, Peers, Frames
  <1>5. CASE f.type = "call" /\ reader' = Holding("queueing", f)
    <2>1. f.id = Taken + 1
      <3>1. f.id > Taken /\ f.id <= peer.calls
        BY <1>1, <1>2, <1>5 DEF NoneMissing
      <3>2. Taken + 1 \in Taken + 1 .. peer.calls
        BY <1>1, <1>3, <1>4, <3>1
      <3>3. PICK i \in DOMAIN inbound : inbound[i].type = "call" /\ inbound[i].id = Taken + 1
        BY <1>2, <3>2 DEF NoneMissing
      <3>4. i = 1 \/ f.id < Taken + 1
        BY <1>1, <1>2, <1>5, <3>3 DEF NoneMissing
      <3>5. QED
        BY <1>1, <1>3, <1>4, <3>1, <3>3, <3>4
    <2>2. reader'.pc = "queueing" /\ reader'.f = f /\ Taken' = Taken + 1
      BY <1>2, <1>3, <1>5 DEF Holding, Taken
    <2>3. InSequence'
      BY <1>2, <2>1, <2>2 DEF InSequence, HandledInOrder
    <2>4. \A i \in DOMAIN inbound' :
            inbound'[i].type = "call" => inbound'[i].id > Taken' /\ inbound'[i].id <= peer'.calls
      <3> SUFFICES ASSUME NEW i \in DOMAIN inbound', inbound'[i].type = "call"
                   PROVE  inbound'[i].id > Taken' /\ inbound'[i].id <= peer'.calls
        OBVIOUS
      <3>1. i + 1 \in DOMAIN inbound /\ inbound'[i] = inbound[i + 1] /\ 1 < i + 1
        BY <1>1
      <3>2. f.id < inbound[i + 1].id /\ inbound[i + 1].id <= peer.calls
        BY <1>1, <1>2, <1>5, <3>1 DEF NoneMissing
      <3>3. QED
        BY <1>2, <1>3, <1>4, <2>1, <2>2, <3>1, <3>2
    <2>5. \A i, j \in DOMAIN inbound' :
            inbound'[i].type = "call" /\ inbound'[j].type = "call" /\ i < j
              => inbound'[i].id < inbound'[j].id
      BY <1>1, <1>2 DEF NoneMissing
    <2>6. \A n \in Taken' + 1 .. peer'.calls :
            \E i \in DOMAIN inbound' : inbound'[i].type = "call" /\ inbound'[i].id = n
      <3> SUFFICES ASSUME NEW n \in Taken' + 1 .. peer'.calls
                   PROVE  \E i \in DOMAIN inbound' : inbound'[i].type = "call" /\ inbound'[i].id = n
        OBVIOUS
      <3>1. n \in Taken + 1 .. peer.calls /\ n # Taken + 1
        BY <1>2, <1>3, <1>4, <2>2
      <3>2. PICK i \in DOMAIN inbound : inbound[i].type = "call" /\ inbound[i].id = n
        BY <1>2, <3>1 DEF NoneMissing
      <3>3. i # 1
        BY <1>1, <2>1, <3>1, <3>2
      <3>4. QED
        BY <1>1, <3>2, <3>3
    <2>7. Taken' <= peer'.calls
      BY <1>1, <1>2, <1>3, <1>4, <1>5, <2>1, <2>2 DEF NoneMissing
    <2>8. QED
      BY <2>3, <2>4, <2>5, <2>6, <2>7 DEF NoneMissing
  <1>6. CASE f.type # "call" /\ reader'.pc \in {"ready", "erring"}
    <2>1. Taken' = Taken
      BY <1>2, <1>6 DEF Taken
    <2>2. InSequence'
      BY <1>2, <1>6 DEF InSequence, HandledInOrder
    <2>3. \A n \in Taken' + 1 .. peer'.calls :
            \E i \in DOMAIN inbound' : inbound'[i].type = "call" /\ inbound'[i].id = n
      <3> SUFFICES ASSUME NEW n \in Taken' + 1 .. peer'.calls
                   PROVE  \E i \in DOMAIN inbound' : inbound'[i].type = "call" /\ inbound'[i].id = n
        OBVIOUS
      <3>1. PICK i \in DOMAIN inbound : inbound[i].type = "call" /\ inbound[i].id = n
        BY <1>2, <2>1 DEF NoneMissing
      <3>2. i # 1
        BY <1>1, <1>6, <3>1
      <3>3. QED
        BY <1>1, <3>1, <3>2
    <2>4. /\ \A i \in DOMAIN inbound' :
               inbound'[i].type = "call" => inbound'[i].id > Taken' /\ inbound'[i].id <= peer'.calls
          /\ \A i, j \in DOMAIN inbound' :
               inbound'[i].type = "call" /\ inbound'[j].type = "call" /\ i < j
                 => inbound'[i].id < inbound'[j].id
          /\ Taken' <= peer'.calls
      BY <1>1, <1>2, <2>1 DEF NoneMissing
    <2>5. QED
      BY <2>2, <2>3, <2>4 DEF NoneMissing
  <1>7. QED
    BY <1>2, <1>5, <1>6 DEF ReadFrame, Holding

LEMMA ReaderPutsOrder ==
  ASSUME TypeOK, Correlation, InSequence, NoneMissing, ReaderPuts
  PROVE  InSequence' /\ NoneMissing'
  <1>1. reader'.pc = "ready" /\ UNCHANGED <<inbound, peer, handled>>
    BY DEF ReaderPuts, Quiet
  <1>2. Len(handled) \in Nat /\ Len(calls) \in Nat /\ calls \in Seq(Frames) /\ reader.f \in Frames
    BY LenProperties DEF TypeOK
  <1>3. CASE reader.pc = "queueing" /\ calls' = Append(calls, reader.f)
    <2>1. /\ Len(calls') = Len(calls) + 1
          /\ \A i \in DOMAIN calls' : IF i \in DOMAIN calls THEN calls'[i] = calls[i]
                                      ELSE i = Len(calls) + 1 /\ calls'[i] = reader.f
      BY <1>2, <1>3, Appending
    <2>2. Taken = Len(handled) + Len(calls) + 1 /\ Taken' = Taken
      BY <1>1, <1>2, <1>3, <2>1 DEF Taken
    <2>3. \A i \in DOMAIN calls' : calls'[i].id = Len(handled') + i
      BY <1>1, <1>2, <1>3, <2>1, <2>2 DEF InSequence
    <2>4. InSequence' /\ NoneMissing'
      BY <1>1, <1>3, <2>2, <2>3 DEF InSequence, NoneMissing, HandledInOrder
    <2>5. QED
      BY <2>4
  <1>4. CASE reader.pc = "erring" /\ calls' = calls
    <2>1. Taken' = Taken
      BY <1>1, <1>4 DEF Taken
    <2>2. QED
      BY <1>1, <1>4, <2>1 DEF InSequence, NoneMissing, HandledInOrder
  <1>5. QED
    BY <1>3, <1>4 DEF ReaderPuts

LEMMA HandleCallOrder ==
  ASSUME TypeOK, InSequence, NoneMissing, HandleCall
  PROVE  InSequence' /\ NoneMissing'
  <1>1. /\ Head(calls) = calls[1] /\ 1 \in DOMAIN calls /\ Head(calls) \in Frames
        /\ Len(calls) = Len(calls') + 1
        /\ \A i \in DOMAIN calls' : i \in Nat /\ i + 1 \in DOMAIN calls /\ calls'[i] = calls[i + 1]
    BY Taking DEF HandleCall, TypeOK
  <1>2. handled \in Seq(Nat) /\ calls[1].id \in Nat /\ handled' = Append(handled, calls[1].id)
    BY <1>1 DEF HandleCall, TypeOK, Frames
  <1>3. /\ Len(handled') = Len(handled) + 1
        /\ \A i \in DOMAIN handled' : IF i \in DOMAIN handled THEN handled'[i] = handled[i]
                                      ELSE i = Len(handled) + 1 /\ handled'[i] = calls[1].id
    BY <1>2, Appending
  <1>4. Len(handled) \in Nat /\ Len(calls') \in Nat
    BY NextType, LenProperties DEF TypeOK, Next, HandlerStep
  <1>5. UNCHANGED <<reader, inbound, peer>>
    BY DEF HandleCall
  <1>6. Taken' = Taken
    BY <1>1, <1>3, <1>4, <1>5 DEF Taken
  <1>7. HandledInOrder'
    BY <1>1, <1>3, <1>4 DEF InSequence, HandledInOrder
  <1>8. \A i \in DOMAIN calls' : calls'[i].id = Len(handled') + i
    BY <1>1, <1>3, <1>4 DEF InSequence
  <1>9. QED
    BY <1>5, <1>6, <1>7, <1>8 DEF InSequence, NoneMissing

LEMMA PeerSendsOrder ==
  ASSUME TypeOK, InSequence, NoneMissing, NEW f \in Frames, PeerSends(f),
         \/ f.type = "call" /\ f.id = peer.calls + 1 /\ peer'.calls = peer.calls + 1
         \/ f.type # "call" /\ peer'.calls = peer.calls
  PROVE  InSequence' /\ NoneMissing'
  <1>1. /\ Len(inbound) \in Nat /\ DOMAIN inbound = 1 .. Len(inbound)
        /\ DOMAIN inbound' = 1 .. Len(inbound) + 1
        /\ \A i \in DOMAIN inbound' : IF i \in DOMAIN inbound THEN inbound'[i] = inbound[i]
                                      ELSE i = Len(inbound) + 1 /\ inbound'[i] = f
    BY Appending, LenProperties DEF PeerSends, TypeOK
  <1>2. UNCHANGED <<calls, reader, handled>> /\ Taken' = Taken
    BY DEF PeerSends, Taken
  <1>3. Taken \in Nat /\ peer.calls \in Nat /\ \A i \in DOMAIN inbound : inbound[i].id \in Nat
    <2>1. \A i \in DOMAIN inbound : inbound[i] \in Frames
      BY LenProperties DEF TypeOK
    <2>2. Len(handled) \in Nat /\ Len(calls) \in Nat
      BY LenProperties DEF TypeOK
    <2>3. QED
      BY <2>1, <2>2 DEF TypeOK, Peers, Frames, Taken
  <1>4. InSequence'
    BY <1>2 DEF InSequence, HandledInOrder
  <1>5. ASSUME reader.pc # "returned"
        PROVE  /\ \A i \in DOMAIN inbound' :
                    inbound'[i].type = "call" => inbound'[i].id > Taken' /\ inbound'[i].id <= peer'.calls
               /\ Taken' <= peer'.calls
    BY <1>1, <1>2, <1>3, <1>5 DEF NoneMissing
  <1>6. ASSUME reader.pc # "returned", NEW i \in DOMAIN inbound', NEW j \in DOMAIN inbound',
               inbound'[i].type = "call", inbound'[j].type = "call", i < j
        PROVE  inbound'[i].id < inbound'[j].id
    BY <1>1, <1>3, <1>6 DEF NoneMissing
  <1>7. ASSUME reader.pc # "returned", NEW n \in Taken' + 1 .. peer'.calls
        PROVE  \E i \in DOMAIN inbound' : inbound'[i].type = "call" /\ inbound'[i].id = n
    <2>1. CASE n \in Taken + 1 .. peer.calls
      <3>1. PICK i \in DOMAIN inbound : inbound[i].type = "call" /\ inbound[i].id = n
        BY <1>7, <2>1 DEF NoneMissing
      <3>2. QED
        BY <1>1, <3>1
    <2>2. CASE n = peer.calls + 1 /\ f.type = "call" /\ f.id = peer.calls + 1
      <3>1. Len(inbound) + 1 \in DOMAIN inbound' /\ inbound'[Len(inbound) + 1] = f
        BY <1>1
      <3>2. QED
        BY <2>2, <3>1
    <2>3. QED
      BY <1>2, <1>3, <2>1, <2>2
  <1>8. QED
    BY <1>2, <1>4, <1>5, <1>6, <1>7 DEF NoneMissing

LEMMA NextOrder == TypeOK /\ Correlation /\ InSequence /\ NoneMissing /\ [Next]_vars
                   => InSequence' /\ NoneMissing'
  <1> SUFFICES ASSUME TypeOK, Correlation, InSequence, NoneMissing, [Next]_vars
               PROVE  InSequence' /\ NoneMissing'
    OBVIOUS
  <1>1. CASE UNCHANGED vars \/ \E k \in Callers : CallBegin(k) \/ CallCancelled(k) \/ CallStep(k)
    <2>1. UNCHANGED <<calls, reader, inbound, handled, peer>>
      BY <1>1 DEF vars, CallBegin, CallCancelled, CallStep, CallSend, CallClosed, CallTimeout, CallAnswered, Forget
    <2>2. QED
      BY <2>1, OrderUntouched
  <1>2. CASE HandlerPuts \/ HandlerReturns \/ WriterStep \/ Close
    <2>1. UNCHANGED <<calls, reader, inbound, handled>> /\ peer'.calls = peer.calls
      BY <1>2 DEF HandlerPuts, HandlerReturns, WriterStep, WriterTakes, WriteFrame, WriteFails,
                  WriterReturns, Close, TypeOK, Peers
    <2>2. QED
      BY <2>1, OrderUntouched
  <1>3. CASE ReaderReturns
    <2>1. reader'.pc = "returned" /\ UNCHANGED <<calls, handled>>
      BY <1>3 DEF ReaderReturns, Returned
    <2>2. QED
      BY <2>1 DEF InSequence, NoneMissing, HandledInOrder
  <1>4. CASE \E f \in peer.got : PeerAnswers(f)
    <2>1. PICK f \in peer.got : PeerAnswers(f)
      BY <1>4
    <2>2. Frame("answer", f.id, f.by) \in Frames /\ Frame("answer", f.id, f.by).type # "call"
      BY DEF TypeOK, Peers, Frame, Frames
    <2>3. peer'.calls = peer.calls /\ PeerSends(Frame("answer", f.id, f.by))
      BY <2>1 DEF PeerAnswers, TypeOK, Peers
    <2>4. QED
      BY <2>2, <2>3, PeerSendsOrder
  <1>5. CASE PeerCalls
    <2> DEFINE f == Frame("call", peer.calls + 1, NoCaller)
    <2>1. peer.calls \in Nat /\ peer'.calls = peer.calls + 1 /\ PeerSends(f)
      BY <1>5 DEF PeerCalls, TypeOK, Peers
    <2>2. f \in Frames /\ f.type = "call" /\ f.id = peer.calls + 1
      BY <2>1 DEF Frame, Frames
    <2> HIDE DEF f
    <2>3. QED
      BY <2>1, <2>2, PeerSendsOrder
  <1>6. CASE PeerGarbles
    <2>1. Frame("garbage", 0, NoCaller) \in Frames /\ Frame("garbage", 0, NoCaller).type # "call"
      BY DEF Frame, Frames
    <2>2. peer'.calls = peer.calls /\ PeerSends(Frame("garbage", 0, NoCaller))
      BY <1>6 DEF PeerGarbles, TypeOK, Peers
    <2>3. QED
      BY <2>1, <2>2, PeerSendsOrder
  <1>7. QED
    BY <1>1, <1>2, <1>3, <1>4, <1>5, <1>6, ReadFrameOrder, ReaderPutsOrder, HandleCallOrder
    DEF Next, ReaderStep, HandlerStep
-----------------------------------------------------------------------------
LEMMA InitConnInv == Init => ConnInv
  <1> SUFFICES ASSUME Init PROVE ConnInv
    OBVIOUS
  <1>1. Correlation
    BY DEF Init, Correlation, IdsUnique, PendingOwned, FramesTraced, ChannelOwn, NoCall, Quiet, NoFrame
  <1>2. Taken = 0
    BY DEF Init, Taken, Quiet
  <1>3. InSequence /\ NoneMissing
    BY <1>2 DEF Init, InSequence, NoneMissing, HandledInOrder, Quiet
  <1>4. QED
    BY <1>1, <1>3, InitType DEF ConnInv

(* ConnInv holds in every reachable state: whatever the peer answers, calls,  *)
(* garbles or leaves out, and wherever the connection closes.                 *)
THEOREM ConnInvariant == Spec => []ConnInv
  <1>1. ConnInv /\ [Next]_vars => ConnInv'
    BY NextType, NextCorrelation, NextOrder DEF ConnInv
  <1>2. QED
    BY InitConnInv, <1>1, PTL DEF Spec

(* A Call returns the answer to that Call, although answers come late, twice  *)
(* or in any order.                                                           *)
THEOREM CallsGetOwnAnswer == Spec => []OwnAnswer
  <1>1. ConnInv => OwnAnswer
    BY DEF ConnInv, Correlation, ChannelOwn, OwnAnswer
  <1>2. QED
    BY ConnInvariant, <1>1, PTL

(* Every entry in the map of pending calls has a Call that still waits.       *)
THEOREM PendingBelongsToRunningCall == Spec => []NoPendingLeak
  <1>1. ConnInv => NoPendingLeak
    BY DEF ConnInv, Correlation, PendingOwned, NoPendingLeak
  <1>2. QED
    BY ConnInvariant, <1>1, PTL

(* The handler sees the peer's calls in the order it made them, none twice    *)
(* and none left out.                                                         *)
THEOREM PeerCallsInOrder == Spec => []HandledInOrder
  <1>1. ConnInv => HandledInOrder
    BY DEF ConnInv, InSequence
  <1>2. QED
    BY ConnInvariant, <1>1, PTL
=============================================================================
