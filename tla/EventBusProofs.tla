--------------------------- MODULE EventBusProofs ---------------------------
(***************************************************************************)
(* The event bus for every number of publishers, subscribers and events    *)
(* and every buffer: no send on a closed channel, and every loss counted.  *)
(***************************************************************************)
EXTENDS EventBus, SequenceTheorems, FiniteSetTheorems, TLAPS

States == {"new", "subscribed", "cancelling", "deleted", "closed"}

TypeOK ==
  /\ subs \subseteq Subs
  /\ sub \in [Subs -> States]
  /\ ch \in [Subs -> Seq(Nat)]
  /\ drops \in [Subs -> Nat]
  /\ readers \subseteq Publishers
  /\ left \in [Publishers -> SUBSET Subs]
  /\ event \in [Publishers -> Nat]
  /\ count \in Nat
  /\ offered \in [Subs -> SUBSET Nat]
  /\ received \in [Subs -> Seq(Nat)]

\* The read lock is held exactly by those who are publishing.
ReadersPublish == \A p \in Publishers : event[p] # 0 <=> p \in readers

\* Who is to be served was subscribed when publishing began, and still is: a
\* cancel has to wait for the readers.
LeftSubscribed ==
  /\ \A s \in Subs : s \in subs => sub[s] \in {"subscribed", "cancelling"}
  /\ \A p \in Publishers : left[p] \subseteq subs /\ (left[p] # {} => event[p] # 0)

\* An event has one publisher, and is due to the subscribers it has yet to serve.
EventsDistinct ==
  /\ \A p \in Publishers : event[p] <= count
  /\ \A p, q \in Publishers : event[p] = event[q] /\ event[p] # 0 => p = q
  /\ \A s \in Subs : \A e \in offered[s] : e # 0 /\ e <= count
  /\ \A p \in Publishers : \A s \in left[p] : event[p] \in offered[s]

BusInv == TypeOK /\ ReadersPublish /\ LeftSubscribed /\ EventsDistinct /\ DropsAccountForLoss

(* What a step that does not touch a subscriber's own state keeps of it.     *)
LEMMA SameAccount ==
  ASSUME BusInv, NEW s \in Subs, Got(s)' = Got(s), drops'[s] = drops[s], Served(s)' = Served(s)
  PROVE  /\ Len(Got(s)') + drops'[s] = Cardinality(Served(s)')
         /\ \A i \in DOMAIN Got(s)' : Got(s)'[i] \in Served(s)'
         /\ \A i, j \in DOMAIN Got(s)' : Got(s)'[i] = Got(s)'[j] => i = j
  BY DEF BusInv, DropsAccountForLoss

LEMMA AppendAtEnd ==
  ASSUME NEW S, NEW a \in Seq(S), NEW b \in Seq(S), NEW x \in S
  PROVE  a \o Append(b, x) = Append(a \o b, x)
  <1>1. <<x>> \in Seq(S) /\ a \o b \in Seq(S)
    BY ConcatProperties
  <1>2. Append(b, x) = b \o <<x>> /\ Append(a \o b, x) = (a \o b) \o <<x>>
    BY <1>1, AppendIsConcat
  <1>3. QED
    BY <1>1, <1>2, ConcatAssociative

LEMMA ServedFinite ==
  ASSUME BusInv, NEW s \in Subs
  PROVE  IsFiniteSet(Served(s)) /\ Cardinality(Served(s)) \in Nat
  <1>1. Served(s) \in SUBSET Nat /\ count \in Nat /\ \A e \in Served(s) : e <= count
    BY DEF BusInv, TypeOK, EventsDistinct, Served
  <1>2. IsFiniteSet(Served(s))
    BY <1>1, FS_BoundedSetOfNaturals
  <1>3. QED
    BY <1>2, FS_CardinalityType

LEMMA InitBusInv == Init => BusInv
  <1> SUFFICES ASSUME Init PROVE BusInv
    OBVIOUS
  <1>1. <<>> \in Seq(Nat)
    OBVIOUS
  <1>2. TypeOK
    BY <1>1 DEF Init, TypeOK, States
  <1>3. ReadersPublish /\ LeftSubscribed /\ EventsDistinct
    BY DEF Init, ReadersPublish, LeftSubscribed, EventsDistinct
  <1>4. DropsAccountForLoss
    <2> SUFFICES ASSUME NEW s \in Subs
                 PROVE  Got(s) = <<>> /\ drops[s] = 0 /\ Served(s) = {}
      BY FS_EmptySet DEF DropsAccountForLoss
    <2>1. Got(s) = <<>> \o <<>>
      BY DEF Init, Got
    <2>2. QED
      BY <2>1, <1>1, ConcatEmptySeq DEF Init, Served
  <1>5. QED
    BY <1>2, <1>3, <1>4 DEF BusInv

LEMMA PublishInv ==
  ASSUME BusInv, NEW p \in Publishers, Publish(p)
  PROVE  BusInv'
  <1> USE DEF BusInv, TypeOK, Publish
  <1>1. TypeOK'
    OBVIOUS
  <1>2. ReadersPublish'
    BY DEF ReadersPublish
  <1>3. LeftSubscribed'
    BY DEF LeftSubscribed
  <1>4. EventsDistinct'
    <2>1. \A q \in Publishers : event'[q] <= count'
      BY DEF EventsDistinct
    <2>2. \A q, r \in Publishers : event'[q] = event'[r] /\ event'[q] # 0 => q = r
      BY DEF EventsDistinct
    <2>3. \A s \in Subs : \A e \in offered'[s] : e # 0 /\ e <= count'
      BY DEF EventsDistinct
    <2>4. \A q \in Publishers : \A s \in left'[q] : event'[q] \in offered'[s]
      BY DEF EventsDistinct
    <2>5. QED
      BY <2>1, <2>2, <2>3, <2>4 DEF EventsDistinct
  <1>5. ASSUME NEW s \in Subs PROVE Served(s)' = Served(s)
    <2> DEFINE Due == {event[q] : q \in {r \in Publishers : s \in left[r]}}
    <2>1. left[p] = {} /\ event[p] = 0
      BY DEF LeftSubscribed
    <2>2. Due' = IF s \in subs THEN Due \cup {count + 1} ELSE Due
      BY <2>1 DEF LeftSubscribed
    <2>3. offered'[s] = IF s \in subs THEN offered[s] \cup {count + 1} ELSE offered[s]
      OBVIOUS
    <2>4. count + 1 \notin offered[s]
      BY DEF EventsDistinct
    <2>5. QED
      BY <2>2, <2>3, <2>4 DEF Served
  <1>6. DropsAccountForLoss'
    BY <1>5, SameAccount DEF DropsAccountForLoss, Got
  <1>7. QED
    BY <1>1, <1>2, <1>3, <1>4, <1>6

LEMMA OfferInv ==
  ASSUME BusInv, NEW p \in Publishers, NEW s \in Subs, Offer(p, s)
  PROVE  BusInv'
  <1> DEFINE e == event[p]
  <1>1. /\ s \in left[p] /\ left' = [left EXCEPT ![p] = @ \ {s}]
        /\ e \in Nat /\ e # 0 /\ e \in offered[s]
        /\ UNCHANGED <<subs, sub, readers, event, count, offered, received>>
    BY DEF BusInv, TypeOK, Offer, LeftSubscribed, EventsDistinct
  <1>2. \/ ch' = [ch EXCEPT ![s] = Append(@, e)] /\ drops' = drops
        \/ drops' = [drops EXCEPT ![s] = @ + 1] /\ ch' = ch
    BY DEF Offer
  <1>3. TypeOK'
    <2>1. ch[s] \in Seq(Nat) /\ Append(ch[s], e) \in Seq(Nat) /\ drops[s] + 1 \in Nat
      BY <1>1, AppendProperties DEF BusInv, TypeOK
    <2>2. ch' \in [Subs -> Seq(Nat)] /\ drops' \in [Subs -> Nat]
      <3>1. CASE ch' = [ch EXCEPT ![s] = Append(@, e)] /\ drops' = drops
        BY <2>1, <3>1 DEF BusInv, TypeOK
      <3>2. CASE drops' = [drops EXCEPT ![s] = @ + 1] /\ ch' = ch
        BY <2>1, <3>2 DEF BusInv, TypeOK
      <3>3. QED
        BY <1>2, <3>1, <3>2
    <2>3. QED
      BY <1>1, <2>2 DEF BusInv, TypeOK
  <1>4. ReadersPublish' /\ LeftSubscribed' /\ EventsDistinct'
    BY <1>1 DEF BusInv, TypeOK, ReadersPublish, LeftSubscribed, EventsDistinct
  <1>5. Served(s)' = Served(s) \cup {e} /\ e \notin Served(s)
    <2> DEFINE Due == {event[q] : q \in {r \in Publishers : s \in left[r]}}
    <2>1. e \in Due /\ Due' = Due \ {e}
      BY <1>1 DEF BusInv, TypeOK, EventsDistinct
    <2>2. QED
      BY <1>1, <2>1 DEF Served
  <1>6. ASSUME NEW o \in Subs, o # s
        PROVE  Served(o)' = Served(o) /\ Got(o)' = Got(o) /\ drops'[o] = drops[o]
    <2>1. {r \in Publishers : o \in left'[r]} = {r \in Publishers : o \in left[r]}
      BY <1>1, <1>6 DEF BusInv, TypeOK
    <2>2. Served(o)' = Served(o)
      BY <1>1, <2>1 DEF Served
    <2>3. ch'[o] = ch[o] /\ drops'[o] = drops[o]
      BY <1>2, <1>6 DEF BusInv, TypeOK
    <2>4. QED
      BY <1>1, <2>2, <2>3 DEF Got
  <1>7. /\ IsFiniteSet(Served(s)) /\ Cardinality(Served(s)) \in Nat
        /\ Cardinality(Served(s)') = Cardinality(Served(s)) + 1
    BY <1>5, ServedFinite, FS_AddElement
  <1>8. Got(s) \in Seq(Nat) /\ drops[s] \in Nat
    BY ConcatProperties DEF BusInv, TypeOK, Got
  <1>9. CASE ch' = [ch EXCEPT ![s] = Append(@, e)] /\ drops' = drops
    <2>1. Got(s)' = Append(Got(s), e)
      <3>1. ch'[s] = Append(ch[s], e) /\ received'[s] = received[s]
              /\ ch[s] \in Seq(Nat) /\ received[s] \in Seq(Nat)
        BY <1>1, <1>9 DEF BusInv, TypeOK
      <3>2. received[s] \o Append(ch[s], e) = Append(received[s] \o ch[s], e)
        <4>1. ch[s] \in Seq(Nat) /\ received[s] \in Seq(Nat) /\ e \in Nat
          BY <1>1, <3>1
        <4>2. \A a, b \in Seq(Nat) : \A x \in Nat : a \o Append(b, x) = Append(a \o b, x)
          BY AppendAtEnd
        <4>3. QED
          BY <4>1, <4>2, Zenon
      <3>3. QED
        BY <3>1, <3>2 DEF Got
    <2>2. /\ Len(Got(s)') = Len(Got(s)) + 1
          /\ \A i \in DOMAIN Got(s)' : Got(s)'[i] = IF i = Len(Got(s)) + 1 THEN e ELSE Got(s)[i]
          /\ \A i \in DOMAIN Got(s)' : i # Len(Got(s)) + 1 => i \in DOMAIN Got(s)
      BY <1>1, <1>8, <2>1
    <2>3. Len(Got(s)') + drops'[s] = Cardinality(Served(s)')
      BY <1>7, <1>8, <1>9, <2>2 DEF BusInv, DropsAccountForLoss
    <2>4. /\ \A i \in DOMAIN Got(s)' : Got(s)'[i] \in Served(s)'
          /\ \A i, j \in DOMAIN Got(s)' : Got(s)'[i] = Got(s)'[j] => i = j
      BY <1>5, <2>2 DEF BusInv, DropsAccountForLoss
    <2>5. DropsAccountForLoss'
      BY <1>6, <2>3, <2>4, SameAccount DEF DropsAccountForLoss
    <2>6. QED
      BY <1>3, <1>4, <2>5 DEF BusInv
  <1>10. CASE drops' = [drops EXCEPT ![s] = @ + 1] /\ ch' = ch
    <2>1. Got(s)' = Got(s) /\ drops'[s] = drops[s] + 1
      BY <1>1, <1>10 DEF Got, BusInv, TypeOK
    <2>2. /\ Len(Got(s)') + drops'[s] = Cardinality(Served(s)')
          /\ \A i \in DOMAIN Got(s)' : Got(s)'[i] \in Served(s)'
          /\ \A i, j \in DOMAIN Got(s)' : Got(s)'[i] = Got(s)'[j] => i = j
      <3>1. /\ Len(Got(s)) + drops[s] = Cardinality(Served(s))
            /\ \A i \in DOMAIN Got(s) : Got(s)[i] \in Served(s)
            /\ \A i, j \in DOMAIN Got(s) : Got(s)[i] = Got(s)[j] => i = j
        BY DEF BusInv, DropsAccountForLoss
      <3>2. Len(Got(s)) \in Nat
        BY <1>8, LenProperties
      <3>3. Len(Got(s)') + drops'[s] = Cardinality(Served(s)')
        BY <1>7, <1>8, <2>1, <3>1, <3>2
      <3>4. QED
        BY <1>5, <2>1, <3>1, <3>3
    <2>3. DropsAccountForLoss'
      BY <1>6, <2>2, SameAccount DEF DropsAccountForLoss
    <2>4. QED
      BY <1>3, <1>4, <2>3 DEF BusInv
  <1>11. QED
    BY <1>2, <1>9, <1>10

LEMMA PublishedInv ==
  ASSUME BusInv, NEW p \in Publishers, Published(p)
  PROVE  BusInv'
  <1> USE DEF BusInv, TypeOK, Published
  <1>1. TypeOK' /\ ReadersPublish' /\ LeftSubscribed' /\ EventsDistinct'
    BY DEF ReadersPublish, LeftSubscribed, EventsDistinct
  <1>2. ASSUME NEW s \in Subs PROVE Served(s)' = Served(s)
    BY DEF Served
  <1>3. DropsAccountForLoss'
    BY <1>2, SameAccount DEF DropsAccountForLoss, Got
  <1>4. QED
    BY <1>1, <1>3

(* The steps of a subscription: its own state changes, and nobody is being   *)
(* served when it joins or leaves.                                           *)
LEMMA SubscriptionInv ==
  ASSUME BusInv, NEW s \in Subs,
         Subscribe(s) \/ Cancel(s) \/ Delete(s) \/ CloseChannel(s)
  PROVE  BusInv'
  <1> USE DEF BusInv, TypeOK, Subscribe, Cancel, Delete, CloseChannel
  <1>1. TypeOK'
    BY DEF States
  <1>2. ReadersPublish' /\ EventsDistinct'
    BY DEF ReadersPublish, EventsDistinct
  <1>3. LeftSubscribed'
    BY DEF LeftSubscribed, ReadersPublish
  <1>4. ASSUME NEW o \in Subs PROVE Served(o)' = Served(o) /\ Got(o)' = Got(o)
    <2>1. UNCHANGED <<ch, received, left, event, offered>>
      OBVIOUS
    <2>2. QED
      BY <2>1 DEF Served, Got
  <1>5. DropsAccountForLoss'
    BY <1>4, SameAccount DEF DropsAccountForLoss
  <1>6. QED
    BY <1>1, <1>2, <1>3, <1>5

LEMMA ReceiveInv ==
  ASSUME BusInv, NEW s \in Subs, Receive(s)
  PROVE  BusInv'
  <1>1. /\ ch[s] \in Seq(Nat) /\ ch[s] # <<>> /\ received[s] \in Seq(Nat)
        /\ received' = [received EXCEPT ![s] = Append(@, Head(ch[s]))]
        /\ ch' = [ch EXCEPT ![s] = Tail(@)]
        /\ UNCHANGED <<subs, sub, drops, readers, left, event, count, offered>>
    BY DEF BusInv, TypeOK, Receive
  <1>2. Head(ch[s]) \in Nat /\ Tail(ch[s]) \in Seq(Nat)
    BY <1>1, HeadTailProperties
  <1>3. Append(received[s], Head(ch[s])) \in Seq(Nat)
    BY <1>1, <1>2, AppendProperties
  <1>4. TypeOK'
    BY <1>1, <1>2, <1>3 DEF BusInv, TypeOK
  <1>5. ReadersPublish' /\ LeftSubscribed' /\ EventsDistinct'
    BY <1>1 DEF BusInv, ReadersPublish, LeftSubscribed, EventsDistinct
  <1>6. Got(s)' = Got(s)
    <2> DEFINE r == received[s]
               c == ch[s]
    <2>1. received'[s] = Append(r, Head(c)) /\ ch'[s] = Tail(c)
      BY <1>1 DEF BusInv, TypeOK
    <2>2. \A a, b \in Seq(Nat) : b # <<>> => Append(a, Head(b)) \o Tail(b) = a \o b
      OBVIOUS
    <2>3. QED
      BY <1>1, <2>1, <2>2 DEF Got
  <1>7. ASSUME NEW o \in Subs, o # s PROVE Got(o)' = Got(o)
    BY <1>1, <1>7 DEF BusInv, TypeOK, Got
  <1>8. ASSUME NEW o \in Subs PROVE Served(o)' = Served(o) /\ drops'[o] = drops[o]
    BY <1>1 DEF Served
  <1>9. DropsAccountForLoss'
    BY <1>6, <1>7, <1>8, SameAccount DEF DropsAccountForLoss
  <1>10. QED
    BY <1>4, <1>5, <1>9 DEF BusInv

LEMMA NextBusInv == BusInv /\ [Next]_vars => BusInv'
  <1> SUFFICES ASSUME BusInv, [Next]_vars PROVE BusInv'
    OBVIOUS
  <1>1. CASE \E s \in Subs : Subscribe(s) \/ Cancel(s) \/ CancelStep(s) \/ Receive(s)
    BY <1>1, SubscriptionInv, ReceiveInv DEF CancelStep
  <1>2. CASE \E p \in Publishers : Publish(p) \/ PublishStep(p)
    BY <1>2, PublishInv, OfferInv, PublishedInv DEF PublishStep
  <1>3. CASE UNCHANGED vars
    <2>1. /\ UNCHANGED <<subs, sub, ch, drops, readers, left, event, count, offered, received>>
          /\ \A s \in Subs : Got(s)' = Got(s) /\ Served(s)' = Served(s)
      BY <1>3 DEF vars, Got, Served
    <2>2. DropsAccountForLoss'
      BY <2>1, SameAccount DEF DropsAccountForLoss
    <2>3. QED
      BY <2>1, <2>2 DEF BusInv, TypeOK, ReadersPublish, LeftSubscribed, EventsDistinct
  <1>4. QED
    BY <1>1, <1>2, <1>3 DEF Next

(* BusInv holds in every reachable state, however publishers, consumers and  *)
(* cancels interleave.                                                       *)
THEOREM BusInvariant == Spec => []BusInv
  BY InitBusInv, NextBusInv, PTL DEF Spec

(* publish never sends on a channel that its subscriber's cancel has closed. *)
THEOREM SendsOnOpenChannels == Spec => []NoSendOnClosed
  <1>1. BusInv => NoSendOnClosed
    BY DEF BusInv, TypeOK, LeftSubscribed, NoSendOnClosed
  <1>2. QED
    BY BusInvariant, <1>1, PTL

(* Every event a subscriber was due was delivered once or counted as dropped.*)
THEOREM LossIsCounted == Spec => []DropsAccountForLoss
  <1>1. BusInv => DropsAccountForLoss
    BY DEF BusInv
  <1>2. QED
    BY BusInvariant, <1>1, PTL
=============================================================================
