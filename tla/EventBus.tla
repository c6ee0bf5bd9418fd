------------------------------ MODULE EventBus ------------------------------
(***************************************************************************)
(* core's event bus (internal/core/event.go): publishers fan events out    *)
(* under the read lock, without ever blocking on a subscriber; a           *)
(* subscriber leaves by deleting itself under the write lock and then      *)
(* closing its channel.                                                    *)
(***************************************************************************)
EXTENDS Integers, Sequences, FiniteSets

CONSTANTS
  Subs,        \* subscriptions
  Publishers,  \* goroutines that publish
  Buffer,      \* subscriberBuffer
  MaxEvents    \* bound on the number of events

ASSUME EventBusAssumption == Buffer \in Nat \ {0} /\ MaxEvents \in Nat

VARIABLES
  subs,       \* bus.subs
  sub,        \* each subscription: "new", "subscribed", "cancelling", "deleted", "closed"
  ch,         \* its channel: the events it holds
  drops,      \* its drop counter
  readers,    \* publishers that hold mu for reading
  left,       \* subscribers each publisher has yet to serve in this round
  event,      \* the event it publishes; 0 when it is not publishing
  count,      \* history: events published
  offered,    \* history: events each subscriber was due
  received    \* history: what each subscriber's consumer has read

vars == <<subs, sub, ch, drops, readers, left, event, count, offered, received>>

Subscribe(s) ==
  /\ sub[s] = "new"
  /\ readers = {}
  /\ subs' = subs \cup {s}
  /\ sub' = [sub EXCEPT ![s] = "subscribed"]
  /\ UNCHANGED <<ch, drops, readers, left, event, count, offered, received>>

\* publish takes the read lock ...
Publish(p) ==
  /\ event[p] = 0
  /\ count < MaxEvents
  /\ count' = count + 1
  /\ event' = [event EXCEPT ![p] = count + 1]
  /\ readers' = readers \cup {p}
  /\ left' = [left EXCEPT ![p] = subs]
  /\ offered' = [s \in Subs |-> IF s \in subs THEN offered[s] \cup {count + 1} ELSE offered[s]]
  /\ UNCHANGED <<subs, sub, ch, drops, received>>

\* Mutant: what does not fit is dropped without counting it.
OfferSilently(p, s) ==
  /\ s \in left[p]
  /\ left' = [left EXCEPT ![p] = @ \ {s}]
  /\ ch' = IF Len(ch[s]) < Buffer THEN [ch EXCEPT ![s] = Append(@, event[p])] ELSE ch
  /\ UNCHANGED <<subs, sub, drops, readers, event, count, offered, received>>

\* Mutant: publish waits for room.
OfferWaits(p, s) ==
  /\ s \in left[p]
  /\ Len(ch[s]) < Buffer
  /\ left' = [left EXCEPT ![p] = @ \ {s}]
  /\ ch' = [ch EXCEPT ![s] = Append(@, event[p])]
  /\ UNCHANGED <<subs, sub, drops, readers, event, count, offered, received>>

\* ... serves the subscribers in any order, dropping where the channel is full ...
Offer(p, s) ==
  /\ s \in left[p]
  /\ left' = [left EXCEPT ![p] = @ \ {s}]
  /\ \/ /\ Len(ch[s]) < Buffer
        /\ ch' = [ch EXCEPT ![s] = Append(@, event[p])]
        /\ UNCHANGED drops
     \/ /\ Len(ch[s]) >= Buffer
        /\ drops' = [drops EXCEPT ![s] = @ + 1]
        /\ UNCHANGED ch
  /\ UNCHANGED <<subs, sub, readers, event, count, offered, received>>

\* ... and releases it.
Published(p) ==
  /\ event[p] # 0
  /\ left[p] = {}
  /\ event' = [event EXCEPT ![p] = 0]
  /\ readers' = readers \ {p}
  /\ UNCHANGED <<subs, sub, ch, drops, left, count, offered, received>>

\* cancel runs once; deleting needs the write lock.
Cancel(s) ==
  /\ sub[s] = "subscribed"
  /\ sub' = [sub EXCEPT ![s] = "cancelling"]
  /\ UNCHANGED <<subs, ch, drops, readers, left, event, count, offered, received>>

\* Mutant: the subscriber is deleted without the write lock.
DeleteUnlocked(s) ==
  /\ sub[s] = "cancelling"
  /\ subs' = subs \ {s}
  /\ sub' = [sub EXCEPT ![s] = "deleted"]
  /\ UNCHANGED <<ch, drops, readers, left, event, count, offered, received>>

Delete(s) ==
  /\ sub[s] = "cancelling"
  /\ readers = {}
  /\ subs' = subs \ {s}
  /\ sub' = [sub EXCEPT ![s] = "deleted"]
  /\ UNCHANGED <<ch, drops, readers, left, event, count, offered, received>>

CloseChannel(s) ==
  /\ sub[s] = "deleted"
  /\ sub' = [sub EXCEPT ![s] = "closed"]
  /\ UNCHANGED <<subs, ch, drops, readers, left, event, count, offered, received>>

\* The consumer ranges over the channel; it may also stop reading.
Receive(s) ==
  /\ ch[s] # <<>>
  /\ received' = [received EXCEPT ![s] = Append(@, Head(ch[s]))]
  /\ ch' = [ch EXCEPT ![s] = Tail(@)]
  /\ UNCHANGED <<subs, sub, drops, readers, left, event, count, offered>>

Init ==
  /\ subs = {}
  /\ sub = [s \in Subs |-> "new"]
  /\ ch = [s \in Subs |-> <<>>]
  /\ drops = [s \in Subs |-> 0]
  /\ readers = {}
  /\ left = [p \in Publishers |-> {}]
  /\ event = [p \in Publishers |-> 0]
  /\ count = 0
  /\ offered = [s \in Subs |-> {}]
  /\ received = [s \in Subs |-> <<>>]

PublishStep(p) == (\E s \in Subs : Offer(p, s)) \/ Published(p)
CancelStep(s) == Delete(s) \/ CloseChannel(s)

Next ==
  \/ \E s \in Subs : Subscribe(s) \/ Cancel(s) \/ CancelStep(s) \/ Receive(s)
  \/ \E p \in Publishers : Publish(p) \/ PublishStep(p)

Spec == Init /\ [][Next]_vars

\* Publishing goroutines run; consumers need not.
Fairness == \A p \in Publishers : WF_vars(PublishStep(p))

LiveSpec == Spec /\ Fairness
-----------------------------------------------------------------------------
(* A send on a closed channel panics.  No publisher still has to serve a      *)
(* subscriber whose cancel has got to closing its channel: delete waits for   *)
(* the readers, and close comes after it (event.go:135).                      *)
NoSendOnClosed ==
  \A p \in Publishers : \A s \in left[p] : sub[s] \in {"subscribed", "cancelling"}

\* What a subscriber has got, in order, and what it should have got so far.
Got(s) == received[s] \o ch[s]
Served(s) == offered[s] \ {event[p] : p \in {q \in Publishers : s \in left[q]}}

(* Nothing is lost silently and nothing comes twice: every event a subscriber *)
(* was due was received, waits in its channel, or is in its drop counter      *)
(* (event.go:110).                                                            *)
DropsAccountForLoss ==
  \A s \in Subs :
    /\ Len(Got(s)) + drops[s] = Cardinality(Served(s))
    /\ \A i \in DOMAIN Got(s) : Got(s)[i] \in Served(s)
    /\ \A i, j \in DOMAIN Got(s) : Got(s)[i] = Got(s)[j] => i = j

(* "Publishing never blocks" (event.go:110): publish returns although no      *)
(* subscriber reads.                                                          *)
PublishReturns == \A p \in Publishers : event[p] # 0 ~> event[p] = 0
=============================================================================
