----------------------------- MODULE CoreProofs -----------------------------
(***************************************************************************)
(* The invariants of Core hold for every number of goroutines, EVSEs and   *)
(* tags and for all bounds.  CoreInv is inductive; there is one lemma per  *)
(* action, and under it one step per part that the action can disturb.     *)
(* The second part goes on to the ledger that core implements, the third   *)
(* to the commands over core, module Control: ControlSpec implements       *)
(* core's specification, so what is proved of core holds under them.       *)
(***************************************************************************)
EXTENDS Control, FiniteSetTheorems, SequenceTheorems, TLAPS

(* A restart continues at the counter of the file, which is above every id  *)
(* the file holds, and at 1 when there is no file.                          *)
LEMMA AtLeastCounter ==
  ASSUME NEW n \in Nat, NEW ids \in SUBSET Nat, \A i \in ids : i < n
  PROVE  AtLeast(n, ids) = IF n = 0 THEN 1 ELSE n
  <1> DEFINE S == {n, 1} \cup {i + 1 : i \in ids}
             m == IF n = 0 THEN 1 ELSE n
  <1>1. m \in S /\ S \subseteq Nat /\ \A k \in S : k <= m
    OBVIOUS
  <1>2. \A k \in S : (\A j \in S : j <= k) => k = m
    BY <1>1
  <1>3. QED
    BY <1>1, <1>2 DEF AtLeast

(* The numbers behind the types, in the form the later steps need them.     *)
LEMMA Typed ==
  ASSUME TypeOK
  PROVE  /\ next.reservation \in Nat /\ disk.next.reservation \in Nat
         /\ next.transaction \in Nat /\ disk.next.transaction \in Nat
         /\ next.remoteStart \in Nat /\ disk.next.remoteStart \in Nat
         /\ \A t \in Threads : /\ snap[t].next.reservation \in Nat
                               /\ snap[t].next.transaction \in Nat
                               /\ snap[t].next.remoteStart \in Nat
         /\ \A r \in reservations \cup disk.reservations : r.id \in Nat
         /\ \A x \in transactions \cup disk.transactions : x.id \in Nat
         /\ \A t \in Threads : /\ \A r \in snap[t].reservations : r.id \in Nat
                               /\ \A x \in snap[t].transactions : x.id \in Nat
         /\ \A i \in ReservationIds : i \in Nat /\ i # 0
         /\ \A g \in granted : g[2] \in Nat
         /\ \A i \in gone : i \in Nat
  <1> USE CoreAssumption DEF TypeOK
  <1>1. \A i \in ReservationIds \cup TransactionIds : i \in Nat /\ i # 0
    BY DEF ReservationIds, TransactionIds
  <1>2. \A f \in File : /\ f.next.reservation \in Nat /\ f.next.transaction \in Nat
                        /\ f.next.remoteStart \in Nat
                        /\ \A r \in f.reservations : r.id \in Nat
                        /\ \A x \in f.transactions : x.id \in Nat
    BY <1>1 DEF File, Counters, StoredReservation, Transaction
  <1>3. next.reservation \in Nat /\ next.transaction \in Nat /\ next.remoteStart \in Nat
    BY DEF Counters
  <1>4. (\A r \in reservations : r.id \in Nat) /\ (\A x \in transactions : x.id \in Nat)
    BY <1>1 DEF Reservation, Transaction
  <1>5. \A g \in granted : g[2] \in Nat
    BY <1>1
  <1>6. QED
    BY <1>1, <1>2, <1>3, <1>4, <1>5

LEMMA InitCoreInv == Init => CoreInv
  <1> SUFFICES ASSUME Init PROVE CoreInv
    OBVIOUS
  <1> USE CoreAssumption DEF Init
  <1>1. TypeOK
    <2>1. EmptyFile \in File
      BY DEF File, EmptyFile, Counters
    <2>2. Idle \in Thread
      BY DEF Thread, Idle, Ops, Phases
    <2>3. next \in Counters /\ 0 \in Epochs /\ 0 \in 0..MaxFailures
      BY DEF Counters, Epochs
    <2>4. QED
      BY <2>1, <2>2, <2>3 DEF TypeOK
  <1>2. DownIsEmpty /\ LockMatchesWriter /\ CountersAhead /\ IdsCounted /\ RecordsUnique
    BY DEF DownIsEmpty, LockMatchesWriter, CountersAhead, IdsCounted, RecordsUnique,
           Counted, Unique, Writing, Idle, EmptyFile, NotAhead, Threads
  <1>3. BeginsFresh /\ GrantedRecorded /\ TransactionIdsTaken /\ OnlyActiveWritten
    BY DEF BeginsFresh, GrantedRecorded, TransactionIdsTaken, OnlyActiveWritten, Idle
  <1>4. EndsRecorded /\ GoneForGood /\ ReservationIdsNeverReused
    BY DEF EndsRecorded, Ending, GoneForGood, ReservationIdsNeverReused, Idle
  <1>5. QED
    BY <1>1, <1>2, <1>3, <1>4 DEF CoreInv

LEMMA BeginReservationInv ==
  ASSUME CoreInv, NEW t \in Workers, NEW e \in EVSEs, NEW tag \in Tags,
         BeginReservation(t, e, tag)
  PROVE  CoreInv'
  <1> DEFINE n == next.reservation
             new == [id |-> n, evse |-> e, tag |-> tag, status |-> "pending"]
             w == [op |-> "begin", phase |-> "persist", id |-> n, ends |-> 0]
  <1>1. /\ n \in ReservationIds /\ new \in Reservation
        /\ t \in Threads /\ th \in [Threads -> Thread] /\ th[t] = Idle /\ up
    BY CoreAssumption DEF BeginReservation, Ready, CoreInv, TypeOK, CountersAhead,
       Counters, ReservationIds, Reservation, Statuses, Threads
  <1>2. /\ reservations' = reservations \cup {new}
        /\ next' = [next EXCEPT !.reservation = n + 1]
        /\ th' = [th EXCEPT ![t] = w]
        /\ \A r \in reservations : r.evse # e
        /\ UNCHANGED <<transactions, armed, fired, persistMu, snap, disk, up, epoch,
                       failures, dirty, granted, txGranted, gone, ends>>
    BY DEF BeginReservation, Enter, process, history, ReservationsOn
  <1>3. \A u \in Threads : /\ Writing(u)' <=> Writing(u)
                           /\ th'[u].phase = "done" <=> th[u].phase = "done"
                           /\ u # t => th'[u] = th[u]
    BY <1>1, <1>2 DEF Writing, Idle
  <1>4. next'.reservation = n + 1 /\ next'.transaction = next.transaction
          /\ next'.remoteStart = next.remoteStart
    BY <1>2 DEF CoreInv, TypeOK, Counters
  <1>5. TypeOK'
    <2>1. w \in Thread
      BY <1>1, CoreAssumption DEF Thread, Ops, Phases, ReservationIds
    <2>2. next' \in Counters
      <3>1. n + 1 \in 0..MaxReservationID + 1
        BY <1>1, CoreAssumption DEF ReservationIds
      <3>2. next \in Counters
        BY DEF CoreInv, TypeOK
      <3>3. QED
        BY <1>2, <3>1, <3>2 DEF Counters
    <2>3. reservations' \subseteq Reservation /\ th' \in [Threads -> Thread]
      BY <1>1, <1>2, <2>1 DEF CoreInv, TypeOK
    <2>4. QED
      BY <1>2, <2>2, <2>3 DEF CoreInv, TypeOK
  <1>6. DownIsEmpty' /\ LockMatchesWriter' /\ TransactionIdsTaken'
    BY <1>1, <1>2, <1>3 DEF CoreInv, DownIsEmpty, LockMatchesWriter, TransactionIdsTaken
  <1>7. CountersAhead'
    BY <1>1, <1>2, <1>3, <1>4, Typed DEF CoreInv, CountersAhead, NotAhead
  <1>8. IdsCounted'
    BY <1>1, <1>2, <1>3, <1>4, Typed DEF CoreInv, IdsCounted, Counted
  <1>9. RecordsUnique'
    BY <1>1, <1>2, <1>3, Typed DEF CoreInv, RecordsUnique, Unique, IdsCounted, Counted
  <1>10. BeginsFresh'
    <2>1. \A g \in granted : g[2] # n
      BY <1>1, Typed DEF CoreInv, GrantedRecorded, CountersAhead, NotAhead
    <2>2. \A u \in Threads \ {t} : th[u].op = "begin" => th[u].id \in Nat /\ th[u].id < n
      BY Typed DEF CoreInv, BeginsFresh
    <2>3. ASSUME NEW u \in Threads, th'[u].op = "begin", u # t
          PROVE  /\ th'[u].id \in ReservationIds /\ th'[u].id < next'.reservation
                 /\ \A g \in granted' : g[2] # th'[u].id
                 /\ \A v \in Threads \ {u} : th'[v].op = "begin" => th'[v].id # th'[u].id
                 /\ Writing(u)' => th'[u].id < snap'[u].next.reservation
                 /\ th'[u].phase = "done" => th'[u].id < disk'.next.reservation
      BY <1>1, <1>2, <1>3, <1>4, <2>2, <2>3, Typed DEF CoreInv, BeginsFresh
    <2>4. th'[t] = w /\ ~Writing(t)' /\ th'[t].id = n /\ th'[t].phase # "done"
      BY <1>1, <1>2 DEF Writing
    <2>5. /\ n < next'.reservation
          /\ \A g \in granted' : g[2] # n
          /\ \A v \in Threads \ {t} : th'[v].op = "begin" => th'[v].id # n
      BY <1>1, <1>2, <1>3, <1>4, <2>1, <2>2, Typed DEF CoreInv
    <2>6. QED
      BY <1>1, <2>3, <2>4, <2>5 DEF BeginsFresh
  <1>11. GrantedRecorded'
    BY <1>1, <1>2, <1>3 DEF CoreInv, GrantedRecorded, Known, Idle
  <1>12. OnlyActiveWritten'
    <2>1. Absent(n, disk.reservations) /\ \A u \in Threads : Writing(u) => Absent(n, snap[u].reservations)
      BY <1>1, Typed DEF CoreInv, IdsCounted, Counted, CountersAhead, NotAhead, Absent
    <2>2. QED
      BY <1>1, <1>2, <1>3, <2>1 DEF CoreInv, OnlyActiveWritten, Absent
  <1>13. EndsRecorded'
    BY <1>1, <1>2, <1>3, <1>4, Typed DEF CoreInv, EndsRecorded, Ending, Absent
  <1>14. GoneForGood'
    BY <1>1, <1>2, <1>3, Typed DEF CoreInv, GoneForGood, Absent, CountersAhead, NotAhead
  <1>15. ReservationIdsNeverReused'
    BY <1>2 DEF CoreInv, ReservationIdsNeverReused
  <1> QED
    BY <1>5, <1>6, <1>7, <1>8, <1>9, <1>10, <1>11, <1>12, <1>13, <1>14, <1>15 DEF CoreInv

(* A section under s.mu that adds no record.  t goes from idle to w (or     *)
(* stays idle), records only disappear or move on in their status, and      *)
(* whatever is said to have ended is gone from memory.                      *)
LEMMA SectionInv ==
  ASSUME CoreInv, TypeOK', up,
         NEW t \in Threads, th[t] = Idle, NEW w \in Thread,
         th' = [th EXCEPT ![t] = w],
         w.op # "begin",
         w.op = "nextTransaction" => w.id \in TransactionIds,
         w.phase # "write",
         w.op \in {"end", "startTransaction"} =>
           /\ w.phase # "done"
           /\ w.ends # 0 => w.ends < next.reservation /\ Absent(w.ends, reservations'),
         \A r \in reservations' : \E q \in reservations :
           r.id = q.id /\ r.evse = q.evse /\ (r.status # "active" => q.status # "active"),
         Unique(reservations'),
         NotAhead(next, next'), next'.reservation = next.reservation,
         \A x \in transactions' : x.id < next'.transaction,
         \A i \in gone' \ gone :
           /\ i < disk.next.reservation
           /\ Absent(i, reservations') /\ Absent(i, disk.reservations)
           /\ \A u \in Threads : Writing(u) => Absent(i, snap[u].reservations),
         UNCHANGED <<persistMu, snap, disk, up, epoch, granted>>
  PROVE  CoreInv'
  <1>1. th \in [Threads -> Thread]
    BY DEF CoreInv, TypeOK
  <1>2. \A u \in Threads : /\ Writing(u)' <=> Writing(u)
                           /\ u # t => th'[u] = th[u]
    BY <1>1 DEF Writing, Idle
  <1>3. th'[t] = w
    BY <1>1
  <1>4. DownIsEmpty' /\ LockMatchesWriter' /\ TransactionIdsTaken'
    BY <1>1, <1>2, <1>3 DEF CoreInv, DownIsEmpty, LockMatchesWriter, TransactionIdsTaken
  <1>5. TypeOK
    BY DEF CoreInv
  <1>6. /\ next.reservation \in Nat /\ next'.reservation \in Nat
        /\ next.transaction \in Nat /\ next'.transaction \in Nat
        /\ next.remoteStart \in Nat /\ next'.remoteStart \in Nat
    BY <1>5 DEF TypeOK, Counters
  <1>7. CountersAhead'
    BY <1>2, <1>5, <1>6, Typed DEF CoreInv, CountersAhead, NotAhead
  <1>8. IdsCounted'
    BY <1>2, <1>5, <1>6, Typed DEF CoreInv, IdsCounted, Counted
  <1>9. RecordsUnique'
    BY <1>2 DEF CoreInv, RecordsUnique, Unique
  <1>10. BeginsFresh'
    BY <1>1, <1>2, <1>3 DEF CoreInv, BeginsFresh
  <1>11. GrantedRecorded'
    <2>1. \A r \in reservations', q \in reservations : r.id = q.id /\ Known(r)' => Known(q)
      BY <1>1, <1>2, <1>3 DEF Known, Idle
    <2>2. QED
      BY <2>1 DEF CoreInv, GrantedRecorded
  <1>12. OnlyActiveWritten'
    BY <1>2 DEF CoreInv, OnlyActiveWritten, Absent
  <1>13. EndsRecorded'
    <2>1. ASSUME NEW u \in Threads, NEW i \in ReservationIds, Ending(u, i)', u # t
          PROVE  /\ i < next'.reservation
                 /\ Absent(i, reservations')
                 /\ Writing(u)' => /\ Absent(i, snap'[u].reservations)
                                   /\ i < snap'[u].next.reservation
                 /\ th'[u].phase = "done" =>
                      /\ i < disk'.next.reservation
                      /\ Absent(i, disk'.reservations)
                      /\ \A v \in Threads : Writing(v)' => Absent(i, snap'[v].reservations)
      BY <1>2, <2>1 DEF CoreInv, EndsRecorded, Ending, Absent
    <2>2. ASSUME NEW i \in ReservationIds, Ending(t, i)'
          PROVE  /\ i < next'.reservation
                 /\ Absent(i, reservations')
                 /\ ~Writing(t)' /\ th'[t].phase # "done"
      BY <1>3, <1>5, <2>2, Typed DEF Ending, Writing
    <2>3. QED
      BY <2>1, <2>2 DEF EndsRecorded
  <1>14. GoneForGood'
    BY <1>2 DEF CoreInv, GoneForGood, Absent
  <1>15. ReservationIdsNeverReused'
    BY DEF CoreInv, ReservationIdsNeverReused
  <1> QED
    BY <1>4, <1>7, <1>8, <1>9, <1>10, <1>11, <1>12, <1>13, <1>14, <1>15 DEF CoreInv

(* What the section of a method has at hand when it gets the lock.          *)
LEMMA AtEntry ==
  ASSUME CoreInv, NEW t, Ready(t)
  PROVE  /\ TypeOK /\ up /\ t \in Threads /\ t \in Workers /\ th \in [Threads -> Thread]
         /\ th[t] = Idle /\ NotAhead(next, next)
         /\ \A r \in reservations : r \in Reservation /\ r.id < next.reservation
         /\ \A x \in transactions : x.id < next.transaction
  BY Typed DEF CoreInv, Ready, Threads, TypeOK, IdsCounted, Counted, NotAhead

LEMMA ActivateReservationInv ==
  ASSUME CoreInv, NEW t \in Workers, NEW r \in reservations, ActivateReservation(t, r)
  PROVE  CoreInv'
  <1> DEFINE w == [op |-> "activate", phase |-> "persist", id |-> r.id, ends |-> 0]
             act == [r EXCEPT !.status = "active"]
  <1> USE DEF ActivateReservation, Enter, process, history
  <1>1. Ready(t) /\ th' = [th EXCEPT ![t] = w] /\ Unique(reservations)
    BY DEF CoreInv, RecordsUnique
  <1>2. /\ r \in Reservation /\ act \in Reservation /\ w \in Thread
        /\ act.id = r.id /\ act.evse = r.evse /\ act.status = "active"
    BY <1>1, AtEntry, CoreAssumption
       DEF Reservation, Statuses, Thread, Ops, Phases, ReservationIds
  <1>3. TypeOK'
    BY <1>1, <1>2, AtEntry DEF TypeOK, Reservation
  <1>4. Unique(reservations')
    <2> SUFFICES ASSUME NEW a \in reservations', NEW b \in reservations',
                        a.evse = b.evse \/ a.id = b.id
                 PROVE  a = b
      BY DEF Unique
    <2>1. \A c \in reservations' : c = act \/ (c \in reservations /\ c # r)
      OBVIOUS
    <2>2. \A c, d \in reservations : c.evse = d.evse \/ c.id = d.id => c = d
      BY <1>1 DEF Unique
    <2>3. QED
      BY <1>2, <2>1, <2>2
  <1>5. \A s \in reservations' : \E q \in reservations :
          s.id = q.id /\ s.evse = q.evse /\ (s.status # "active" => q.status # "active")
    BY <1>2
  <1>6. QED
    BY <1>1, <1>2, <1>3, <1>4, <1>5, AtEntry, SectionInv

LEMMA OrphanReservationInv ==
  ASSUME CoreInv, NEW t \in Workers, NEW r \in reservations, OrphanReservation(t, r)
  PROVE  CoreInv'
  <1> DEFINE w == [op |-> "orphan", phase |-> "done", id |-> r.id, ends |-> r.id]
             orphan == [r EXCEPT !.status = "cancelling"]
  <1> USE DEF OrphanReservation, process, history
  <1>1. Ready(t) /\ th' = [th EXCEPT ![t] = w] /\ Unique(reservations)
    BY DEF CoreInv, RecordsUnique
  <1>2. /\ r \in Reservation /\ orphan \in Reservation /\ w \in Thread
        /\ orphan.id = r.id /\ orphan.evse = r.evse /\ r.status # "active"
    BY <1>1, AtEntry, CoreAssumption
       DEF Reservation, Statuses, Thread, Ops, Phases, ReservationIds
  <1>3. TypeOK'
    BY <1>1, <1>2, AtEntry DEF TypeOK
  <1>4. Unique(reservations')
    <2> SUFFICES ASSUME NEW a \in reservations', NEW b \in reservations',
                        a.evse = b.evse \/ a.id = b.id
                 PROVE  a = b
      BY DEF Unique
    <2>1. \A c \in reservations' : c = orphan \/ (c \in reservations /\ c # r)
      OBVIOUS
    <2>2. \A c, d \in reservations : c.evse = d.evse \/ c.id = d.id => c = d
      BY <1>1 DEF Unique
    <2>3. QED
      BY <1>2, <2>1, <2>2
  <1>5. \A s \in reservations' : \E q \in reservations :
          s.id = q.id /\ s.evse = q.evse /\ (s.status # "active" => q.status # "active")
    BY <1>2
  <1>6. QED
    BY <1>1, <1>2, <1>3, <1>4, <1>5, AtEntry, SectionInv

(* endLocked leaves no record with the id it ends. *)
LEMMA EndLockedFacts ==
  ASSUME CoreInv, NEW r \in reservations, EndLocked(r)
  PROVE  /\ r.id \in ReservationIds /\ r.id # 0 /\ r.id < next.reservation
         /\ r.id \in 0..MaxReservationID
         /\ reservations' \subseteq reservations
         /\ armed' \subseteq armed
         /\ Absent(r.id, reservations') /\ Unique(reservations')
         /\ \A s \in reservations' : \E q \in reservations :
              s.id = q.id /\ s.evse = q.evse /\ (s.status # "active" => q.status # "active")
  <1>1. r.id \in ReservationIds /\ r.id # 0 /\ r.id < next.reservation
    BY Typed DEF CoreInv, TypeOK, Reservation, IdsCounted, Counted
  <1>2. QED
    BY <1>1, CoreAssumption DEF EndLocked, CoreInv, RecordsUnique, Unique, Absent, ReservationIds

LEMMA EndReservationInv ==
  ASSUME CoreInv, NEW t \in Workers, NEW r \in reservations, EndReservation(t, r)
  PROVE  CoreInv'
  <1> USE DEF EndReservation, EnterEnding, process, history
  <1>1. Ready(t) /\ EndLocked(r)
    OBVIOUS
  <1>2. CASE r.status = "cancelling" /\ gone' = gone \cup {r.id} /\ UNCHANGED th
    <2>1. /\ th' = [th EXCEPT ![t] = Idle] /\ Idle \in Thread
          /\ Idle.op = "none" /\ Idle.phase = "idle"
      BY <1>1, <1>2, AtEntry DEF Idle, Thread, Ops, Phases
    <2>2. TypeOK'
      BY <1>1, <1>2, AtEntry, EndLockedFacts DEF TypeOK
    <2>3. /\ r.id < disk.next.reservation /\ Absent(r.id, disk.reservations)
          /\ \A u \in Threads : Writing(u) => Absent(r.id, snap[u].reservations)
      BY <1>2 DEF CoreInv, GrantedRecorded, OnlyActiveWritten
    <2>4. QED
      BY <1>1, <1>2, <2>1, <2>2, <2>3, AtEntry, EndLockedFacts, SectionInv
  <1>3. CASE r.status # "cancelling" /\ gone' = gone
    <2> DEFINE w == [op |-> "end", phase |-> "persist", id |-> r.id, ends |-> r.id]
    <2>1. th' = [th EXCEPT ![t] = w] /\ w \in Thread
      BY <1>1, <1>3, EndLockedFacts, CoreAssumption DEF Thread, Ops, Phases
    <2>2. TypeOK'
      BY <1>1, <1>3, <2>1, AtEntry, EndLockedFacts DEF TypeOK
    <2>3. QED
      BY <1>1, <1>3, <2>1, <2>2, AtEntry, EndLockedFacts, SectionInv
  <1>4. QED
    BY <1>2, <1>3

LEMMA ExpireInv ==
  ASSUME CoreInv, NEW t \in Workers, NEW i \in fired, Expire(t, i)
  PROVE  CoreInv'
  <1> USE DEF Expire, EnterEnding, process, history
  <1>1. /\ TypeOK /\ up /\ t \in Threads /\ th \in [Threads -> Thread] /\ th[t] = Idle
        /\ NotAhead(next, next) /\ \A x \in transactions : x.id < next.transaction
    BY Typed DEF CoreInv, TypeOK, Threads, NotAhead, IdsCounted, Counted
  <1>2. CASE UNCHANGED <<reservations, armed, th>>
    <2>1. /\ th' = [th EXCEPT ![t] = Idle] /\ Idle \in Thread
          /\ Idle.op = "none" /\ Idle.phase = "idle"
      BY <1>1, <1>2 DEF Idle, Thread, Ops, Phases
    <2>2. TypeOK'
      BY <1>1, <1>2 DEF TypeOK
    <2>3. QED
      BY <1>1, <1>2, <2>1, <2>2, SectionInv DEF CoreInv, RecordsUnique
  <1>3. ASSUME NEW r \in Expirable(i), EndLocked(r), EnterEnding(t, "end", i, i)
        PROVE  CoreInv'
    <2> DEFINE w == [op |-> "end", phase |-> "persist", id |-> i, ends |-> i]
    <2>1. r \in reservations /\ r.id = i
      BY <1>3 DEF Expirable
    <2>2. th' = [th EXCEPT ![t] = w] /\ w \in Thread
      BY <1>3, <2>1, EndLockedFacts, CoreAssumption DEF Thread, Ops, Phases, ReservationIds
    <2>3. TypeOK'
      BY <1>1, <1>3, <2>1, <2>2, EndLockedFacts DEF TypeOK
    <2>4. QED
      BY <1>1, <1>3, <2>1, <2>2, <2>3, EndLockedFacts, SectionInv
  <1>4. QED
    BY <1>2, <1>3

LEMMA NextTransactionIDInv ==
  ASSUME CoreInv, NEW t \in Workers, NextTransactionID(t)
  PROVE  CoreInv'
  <1> DEFINE n == next.transaction
             w == [op |-> "nextTransaction", phase |-> "persist", id |-> n, ends |-> 0]
  <1>1. /\ Ready(t) /\ th' = [th EXCEPT ![t] = w] /\ next' = [next EXCEPT !.transaction = n + 1]
        /\ n <= MaxTransactionID
        /\ UNCHANGED <<reservations, transactions, armed, fired, persistMu, snap, disk, up,
                       epoch, failures, dirty, granted, txGranted, gone, ends>>
    BY DEF NextTransactionID, Enter, process, history
  <1>2. n \in TransactionIds /\ w \in Thread
    BY <1>1, CoreAssumption DEF CoreInv, TypeOK, CountersAhead, Counters, TransactionIds, Ready,
       Thread, Ops, Phases
  <1>3. next' \in Counters /\ NotAhead(next, next') /\ next'.reservation = next.reservation
          /\ next'.transaction = n + 1
    BY <1>1, <1>2, CoreAssumption DEF CoreInv, TypeOK, Counters, NotAhead, TransactionIds
  <1>4. TypeOK'
    BY <1>1, <1>2, <1>3, AtEntry DEF TypeOK
  <1>5. \A x \in transactions' : x.id < next'.transaction
    BY <1>1, <1>3, AtEntry, Typed
  <1>6. QED
    <2>1. Unique(reservations')
      BY <1>1 DEF CoreInv, RecordsUnique, Unique
    <2>2. w.op # "begin" /\ w.phase # "write" /\ w.op \notin {"end", "startTransaction"}
      OBVIOUS
    <2>3. \A r \in reservations' : \E q \in reservations :
            r.id = q.id /\ r.evse = q.evse /\ (r.status # "active" => q.status # "active")
      BY <1>1
    <2>4. w.op = "nextTransaction" => w.id \in TransactionIds
      BY <1>2
    <2> HIDE DEF w
    <2>5. QED
      BY <1>1, <1>2, <1>3, <1>4, <1>5, <2>1, <2>2, <2>3, <2>4, AtEntry, SectionInv

LEMMA NextRemoteStartIDInv ==
  ASSUME CoreInv, NEW t \in Workers, NextRemoteStartID(t)
  PROVE  CoreInv'
  <1> DEFINE n == next.remoteStart
             w == [op |-> "nextRemoteStart", phase |-> "persist", id |-> n, ends |-> 0]
  <1>1. /\ Ready(t) /\ th' = [th EXCEPT ![t] = w] /\ next' = [next EXCEPT !.remoteStart = n + 1]
        /\ n <= MaxRemoteStartID
        /\ UNCHANGED <<reservations, transactions, armed, fired, persistMu, snap, disk, up,
                       epoch, failures, dirty, granted, txGranted, gone, ends>>
    BY DEF NextRemoteStartID, Enter, process, history
  <1>2. w \in Thread
    BY CoreAssumption DEF CoreInv, TypeOK, Counters, Thread, Ops, Phases
  <1>3. next' \in Counters /\ NotAhead(next, next') /\ next'.reservation = next.reservation
          /\ next'.transaction = next.transaction
    BY <1>1, CoreAssumption DEF CoreInv, TypeOK, Counters, NotAhead
  <1>4. TypeOK'
    BY <1>1, <1>2, <1>3, AtEntry DEF TypeOK
  <1>5. \A x \in transactions' : x.id < next'.transaction
    BY <1>1, <1>3, AtEntry
  <1>6. QED
    <2>1. Unique(reservations')
      BY <1>1 DEF CoreInv, RecordsUnique, Unique
    <2>2. w.op # "begin" /\ w.phase # "write" /\ w.op \notin {"end", "startTransaction"}
      OBVIOUS
    <2>3. \A r \in reservations' : \E q \in reservations :
            r.id = q.id /\ r.evse = q.evse /\ (r.status # "active" => q.status # "active")
      BY <1>1
    <2>4. w.op = "nextTransaction" => w.id \in TransactionIds
      BY <1>2
    <2> HIDE DEF w
    <2>5. QED
      BY <1>1, <1>2, <1>3, <1>4, <1>5, <2>1, <2>2, <2>3, <2>4, AtEntry, SectionInv

LEMMA StartTransactionInv ==
  ASSUME CoreInv, NEW t \in Workers, NEW i \in TransactionIds, NEW e \in EVSEs, NEW tag \in Tags,
         NEW named \in 0..MaxReservationID, StartTransaction(t, i, e, tag, named)
  PROVE  CoreInv'
  <1> DEFINE Started(res) == [id |-> i, evse |-> e, tag |-> tag, reservation |-> res]
  <1>1. /\ Ready(t) /\ i \in 1..next.transaction - 1
        /\ UNCHANGED <<next, fired, persistMu, snap, disk, up, epoch, failures, dirty, granted,
                       txGranted, gone, ends>>
    BY DEF StartTransaction, process, history
  <1>2. PICK res \in 0..MaxReservationID :
          transactions' = {x \in transactions : x.id # i} \cup {Started(res)}
    <2>1. \A r \in Redeemed(e, tag, named) : r \in reservations
      BY DEF Redeemed
    <2>2. \A r \in reservations : r.id \in 0..MaxReservationID
      BY <1>1, AtEntry, CoreAssumption DEF Reservation, ReservationIds
    <2>3. QED
      BY <2>1, <2>2 DEF StartTransaction
  <1>3. /\ transactions' \subseteq Transaction
        /\ \A x \in transactions' : x.id < next'.transaction
    <2>1. Started(res) \in Transaction /\ i < next.transaction
      BY <1>1, AtEntry, Typed DEF Transaction, TransactionIds
    <2>2. QED
      BY <1>1, <1>2, <2>1, AtEntry DEF TypeOK
  <1>4. ASSUME NEW r \in reservations, EndLocked(r), EnterEnding(t, "startTransaction", i, r.id)
        PROVE  CoreInv'
    <2> DEFINE w == [op |-> "startTransaction", phase |-> "persist", id |-> i, ends |-> r.id]
    <2>1. th' = [th EXCEPT ![t] = w] /\ w \in Thread
      BY <1>4, EndLockedFacts, CoreAssumption DEF EnterEnding, Thread, Ops, Phases, TransactionIds
    <2>2. TypeOK'
      BY <1>1, <1>3, <1>4, <2>1, AtEntry, EndLockedFacts DEF TypeOK
    <2>3. QED
      BY <1>1, <1>3, <1>4, <2>1, <2>2, AtEntry, EndLockedFacts, SectionInv
  <1>5. ASSUME Enter(t, "startTransaction", i, "persist"), UNCHANGED <<reservations, armed>>
        PROVE  CoreInv'
    <2> DEFINE w == [op |-> "startTransaction", phase |-> "persist", id |-> i, ends |-> 0]
    <2>1. th' = [th EXCEPT ![t] = w] /\ w \in Thread
      BY <1>5, CoreAssumption DEF Enter, Thread, Ops, Phases, TransactionIds
    <2>2. TypeOK'
      BY <1>1, <1>3, <1>5, <2>1, AtEntry DEF TypeOK
    <2>3. QED
      BY <1>1, <1>3, <1>5, <2>1, <2>2, AtEntry, SectionInv DEF CoreInv, RecordsUnique
  <1>6. QED
    BY <1>4, <1>5 DEF StartTransaction, Redeemed, ActiveOn

LEMMA StopTransactionInv ==
  ASSUME CoreInv, NEW t \in Workers, NEW x \in transactions, StopTransaction(t, x)
  PROVE  CoreInv'
  <1> DEFINE w == [op |-> "stopTransaction", phase |-> "persist", id |-> x.id, ends |-> 0]
  <1> USE DEF StopTransaction, Enter, process, history
  <1>1. Ready(t) /\ th' = [th EXCEPT ![t] = w]
    OBVIOUS
  <1>2. w \in Thread
    BY <1>1, AtEntry, Typed, CoreAssumption DEF Thread, Ops, Phases
  <1>3. TypeOK'
    BY <1>1, <1>2, AtEntry DEF TypeOK
  <1>4. QED
    BY <1>1, <1>2, <1>3, AtEntry, SectionInv DEF CoreInv, RecordsUnique

LEMMA TimerFiresInv ==
  ASSUME CoreInv, NEW i \in armed, TimerFires(i)
  PROVE  CoreInv'
  <1>1. UNCHANGED <<reservations, transactions, next, th, persistMu, snap, disk, up, epoch,
                    failures, dirty, granted, txGranted, gone, ends>>
    BY DEF TimerFires, process, history
  <1>2. TypeOK'
    BY <1>1 DEF TimerFires, CoreInv, TypeOK
  <1>3. QED
    BY <1>1, <1>2 DEF CoreInv, DownIsEmpty, LockMatchesWriter, CountersAhead, IdsCounted,
       RecordsUnique, BeginsFresh, GrantedRecorded, TransactionIdsTaken, OnlyActiveWritten,
       EndsRecorded, GoneForGood, ReservationIdsNeverReused, Writing, Ending, Known

(* What persist writes is made of the active records and the counters. *)
LEMMA PersistableFacts ==
  ASSUME CoreInv
  PROVE  /\ Persistable \in File
         /\ Persistable.next = next /\ Persistable.transactions = transactions
         /\ \A p \in Persistable.reservations : \E r \in reservations :
              r.status = "active" /\ p = [id |-> r.id, evse |-> r.evse, tag |-> r.tag]
         /\ Unique(Persistable.reservations)
         /\ \A i : Absent(i, reservations) => Absent(i, Persistable.reservations)
         /\ \A r \in reservations : r.status # "active" => Absent(r.id, Persistable.reservations)
  <1> DEFINE ps == {[id |-> r.id, evse |-> r.evse, tag |-> r.tag] :
                      r \in {q \in reservations : q.status = "active"}}
  <1>1. /\ Persistable = [reservations |-> ps, transactions |-> transactions, next |-> next]
        /\ Persistable.reservations = ps
        /\ Persistable.next = next /\ Persistable.transactions = transactions
    BY DEF Persistable
  <1>2. \A p \in ps : \E r \in reservations :
          r.status = "active" /\ p = [id |-> r.id, evse |-> r.evse, tag |-> r.tag]
    OBVIOUS
  <1>3. ps \subseteq StoredReservation
    BY DEF CoreInv, TypeOK, Reservation, StoredReservation
  <1> HIDE DEF ps
  <1>4. Persistable \in File
    BY <1>1, <1>3 DEF CoreInv, TypeOK, File
  <1>5. \A r, q \in reservations : r.evse = q.evse \/ r.id = q.id => r = q
    BY DEF CoreInv, RecordsUnique, Unique
  <1>6. Unique(ps)
    <2> SUFFICES ASSUME NEW a \in ps, NEW b \in ps, a.evse = b.evse \/ a.id = b.id PROVE a = b
      BY DEF Unique
    <2>1. PICK r \in reservations : a = [id |-> r.id, evse |-> r.evse, tag |-> r.tag]
      BY <1>2
    <2>2. PICK q \in reservations : b = [id |-> q.id, evse |-> q.evse, tag |-> q.tag]
      BY <1>2
    <2>3. r = q
      BY <1>5, <2>1, <2>2
    <2>4. QED
      BY <2>1, <2>2, <2>3
  <1>7. \A p \in ps : \E r \in reservations : r.status = "active" /\ p.id = r.id
    BY <1>2
  <1>8. \A i : Absent(i, reservations) => Absent(i, ps)
    BY <1>7 DEF Absent
  <1>9. \A r \in reservations : r.status # "active" => Absent(r.id, ps)
    BY <1>5, <1>7 DEF Absent
  <1>10. QED
    BY <1>1, <1>2, <1>4, <1>6, <1>8, <1>9

LEMMA PersistSnapshotInv ==
  ASSUME CoreInv, NEW t \in Threads, PersistSnapshot(t)
  PROVE  CoreInv'
  <1> DEFINE w == [th[t] EXCEPT !.phase = "write"]
  <1>1. /\ th[t].phase = "persist" /\ persistMu' = t
        /\ snap' = [snap EXCEPT ![t] = Persistable] /\ th' = [th EXCEPT ![t] = w]
        /\ UNCHANGED <<reservations, transactions, next, armed, fired, disk, up, epoch,
                       failures, dirty, granted, txGranted, gone, ends>>
    BY DEF PersistSnapshot, memory, process, history
  <1>2. th \in [Threads -> Thread] /\ snap \in [Threads -> File] /\ TypeOK
    BY DEF CoreInv, TypeOK
  <1>3. \A u \in Threads : ~Writing(u)
    BY CoreAssumption DEF PersistSnapshot, CoreInv, LockMatchesWriter, Threads
  <1>4. /\ w \in Thread /\ w.phase = "write" /\ w.op = th[t].op /\ w.id = th[t].id
        /\ w.ends = th[t].ends
    BY <1>2 DEF Thread, Phases
  <1> HIDE DEF w
  <1>5. th'[t] = w /\ snap'[t] = Persistable /\ \A u \in Threads \ {t} : th'[u] = th[u]
    BY <1>1, <1>2
  <1>6. \A u \in Threads : Writing(u)' <=> u = t
    BY <1>3, <1>4, <1>5 DEF Writing
  <1>7. up
    BY <1>1 DEF CoreInv, DownIsEmpty, Idle
  <1>8. TypeOK'
    BY <1>1, <1>2, <1>4, PersistableFacts DEF TypeOK
  <1>9. DownIsEmpty' /\ LockMatchesWriter'
    BY <1>1, <1>6, <1>7 DEF DownIsEmpty, LockMatchesWriter
  <1>10. TransactionIdsTaken'
    BY <1>1, <1>4, <1>5 DEF CoreInv, TransactionIdsTaken
  <1>11. CountersAhead'
    BY <1>1, <1>2, <1>5, <1>6, <1>7, PersistableFacts, Typed DEF CoreInv, CountersAhead, NotAhead
  <1>12. IdsCounted'
    <2>1. Counted(Persistable.reservations, transactions, next)
      BY PersistableFacts DEF CoreInv, IdsCounted, Counted
    <2>2. QED
      BY <1>1, <1>5, <1>6, <2>1, PersistableFacts DEF CoreInv, IdsCounted, Counted
  <1>13. RecordsUnique'
    BY <1>1, <1>5, <1>6, PersistableFacts DEF CoreInv, RecordsUnique
  <1>14. BeginsFresh'
    <2>1. \A u \in Threads : /\ th'[u].op = th[u].op /\ th'[u].id = th[u].id
                             /\ th'[u].phase = "done" => th[u].phase = "done"
      BY <1>4, <1>5
    <2>2. QED
      BY <1>1, <1>5, <1>6, <2>1, PersistableFacts DEF CoreInv, BeginsFresh
  <1>15. GrantedRecorded'
    BY <1>1, <1>4, <1>5 DEF CoreInv, GrantedRecorded, Known
  <1>16. OnlyActiveWritten'
    BY <1>1, <1>5, <1>6, PersistableFacts DEF CoreInv, OnlyActiveWritten
  <1>17. EndsRecorded'
    <2>1. \A u \in Threads, i \in ReservationIds :
            /\ Ending(u, i)' => Ending(u, i)
            /\ th'[u].phase = "done" => th[u].phase = "done"
      BY <1>4, <1>5 DEF Ending
    <2>2. QED
      BY <1>1, <1>5, <1>6, <2>1, PersistableFacts DEF CoreInv, EndsRecorded
  <1>18. GoneForGood' /\ ReservationIdsNeverReused'
    BY <1>1, <1>5, <1>6, PersistableFacts DEF CoreInv, GoneForGood, ReservationIdsNeverReused
  <1> QED
    BY <1>8, <1>9, <1>10, <1>11, <1>12, <1>13, <1>14, <1>15, <1>16, <1>17, <1>18 DEF CoreInv

(* The end of a write: nobody writes any more, and t has its verdict. *)
LEMMA WriteEnds ==
  ASSUME CoreInv, NEW t \in Threads, Writing(t), NEW p \in {"done", "failed"},
         persistMu' = NoThread, snap' = [snap EXCEPT ![t] = EmptyFile],
         th' = [th EXCEPT ![t].phase = p]
  PROVE  /\ th' \in [Threads -> Thread] /\ snap' \in [Threads -> File] /\ up
         /\ \A u \in Threads : ~Writing(u)' /\ (Writing(u) <=> u = t)
         /\ \A u \in Threads : /\ th'[u].op = th[u].op /\ th'[u].id = th[u].id
                               /\ th'[u].ends = th[u].ends
                               /\ u # t => th'[u] = th[u]
         /\ th'[t].phase = p /\ LockMatchesWriter'
  <1>1. th \in [Threads -> Thread] /\ snap \in [Threads -> File]
    BY DEF CoreInv, TypeOK
  <1>2. EmptyFile \in File
    BY CoreAssumption DEF EmptyFile, File, Counters
  <1>3. \A u \in Threads : /\ th'[u].op = th[u].op /\ th'[u].id = th[u].id
                           /\ th'[u].ends = th[u].ends /\ u # t => th'[u] = th[u]
    BY <1>1
  <1>4. th'[t].phase = p /\ th' \in [Threads -> Thread] /\ snap' \in [Threads -> File]
    BY <1>1, <1>2 DEF Thread, Phases
  <1>5. \A u \in Threads : Writing(u) <=> u = t
    BY DEF CoreInv, LockMatchesWriter
  <1>6. \A u \in Threads : ~Writing(u)'
    BY <1>3, <1>4, <1>5 DEF Writing
  <1>7. up
    BY DEF CoreInv, DownIsEmpty, Idle, Writing
  <1>8. QED
    BY <1>3, <1>4, <1>5, <1>6, <1>7, CoreAssumption DEF LockMatchesWriter, Threads

LEMMA PersistWriteInv ==
  ASSUME CoreInv, NEW t \in Threads, PersistWrite(t)
  PROVE  CoreInv' /\ NotAhead(disk.next, disk'.next)
  <1>1. /\ Writing(t) /\ disk' = snap[t] /\ dirty' = FALSE
        /\ persistMu' = NoThread /\ snap' = [snap EXCEPT ![t] = EmptyFile]
        /\ th' = [th EXCEPT ![t].phase = "done"]
        /\ UNCHANGED <<reservations, transactions, next, armed, fired, up, epoch, failures,
                       granted, txGranted, gone, ends>>
    BY DEF PersistWrite, Writing, memory, process
  <1>2. /\ th' \in [Threads -> Thread] /\ snap' \in [Threads -> File] /\ up
        /\ \A u \in Threads : ~Writing(u)' /\ (Writing(u) <=> u = t)
        /\ \A u \in Threads : /\ th'[u].op = th[u].op /\ th'[u].id = th[u].id
                              /\ th'[u].ends = th[u].ends
                              /\ u # t => th'[u] = th[u]
        /\ th'[t].phase = "done" /\ LockMatchesWriter'
    BY <1>1, WriteEnds
  <1>3. TypeOK /\ snap[t] \in File
    BY DEF CoreInv, TypeOK
  <1>4. NotAhead(disk.next, disk'.next) /\ NotAhead(disk'.next, next)
    BY <1>1 DEF CoreInv, CountersAhead
  <1>5. disk'.next.reservation \in Nat /\ disk.next.reservation <= disk'.next.reservation
    BY <1>1, <1>3, <1>4, Typed DEF NotAhead
  <1>6. TypeOK'
    BY <1>1, <1>2, <1>3, CoreAssumption DEF TypeOK, Threads
  <1>7. DownIsEmpty' /\ TransactionIdsTaken' /\ CountersAhead'
    BY <1>1, <1>2, <1>4 DEF CoreInv, DownIsEmpty, TransactionIdsTaken, CountersAhead
  <1>8. IdsCounted' /\ RecordsUnique'
    BY <1>1, <1>2 DEF CoreInv, IdsCounted, RecordsUnique
  <1>9. BeginsFresh'
    BY <1>1, <1>2, <1>3, <1>5, Typed DEF CoreInv, BeginsFresh
  <1>10. GrantedRecorded'
    BY <1>1, <1>2, <1>3, <1>5, Typed DEF CoreInv, GrantedRecorded, Known
  <1>11. OnlyActiveWritten'
    BY <1>1, <1>2 DEF CoreInv, OnlyActiveWritten
  <1>12. EndsRecorded'
    <2>1. \A u \in Threads, i \in ReservationIds : Ending(u, i)' => Ending(u, i)
      BY <1>2 DEF Ending
    <2>2. QED
      BY <1>1, <1>2, <1>3, <1>5, <2>1, Typed DEF CoreInv, EndsRecorded
  <1>13. GoneForGood' /\ ReservationIdsNeverReused'
    BY <1>1, <1>2, <1>3, <1>5, Typed DEF CoreInv, GoneForGood, ReservationIdsNeverReused
  <1> QED
    BY <1>2, <1>4, <1>6, <1>7, <1>8, <1>9, <1>10, <1>11, <1>12, <1>13 DEF CoreInv

LEMMA PersistFailInv ==
  ASSUME CoreInv, NEW t \in Threads, PersistFail(t)
  PROVE  CoreInv'
  <1>1. /\ Writing(t) /\ failures' = failures + 1 /\ failures < MaxFailures /\ dirty' = TRUE
        /\ persistMu' = NoThread /\ snap' = [snap EXCEPT ![t] = EmptyFile]
        /\ th' = [th EXCEPT ![t].phase = "failed"]
        /\ UNCHANGED <<reservations, transactions, next, armed, fired, disk, up, epoch,
                       granted, txGranted, gone, ends>>
    BY DEF PersistFail, Writing, memory, process
  <1>2. /\ th' \in [Threads -> Thread] /\ snap' \in [Threads -> File] /\ up
        /\ \A u \in Threads : ~Writing(u)'
        /\ \A u \in Threads : /\ th'[u].op = th[u].op /\ th'[u].id = th[u].id
                              /\ th'[u].ends = th[u].ends
                              /\ u # t => th'[u] = th[u]
        /\ th'[t].phase = "failed" /\ LockMatchesWriter'
    BY <1>1, WriteEnds
  <1>3. TypeOK'
    BY <1>1, <1>2, CoreAssumption DEF CoreInv, TypeOK, Threads
  <1>4. \A u \in Threads : th'[u].phase = "done" => th[u].phase = "done"
    BY <1>2
  <1>5. DownIsEmpty' /\ TransactionIdsTaken' /\ CountersAhead' /\ IdsCounted' /\ RecordsUnique'
    BY <1>1, <1>2 DEF CoreInv, DownIsEmpty, TransactionIdsTaken, CountersAhead, IdsCounted, RecordsUnique
  <1>6. BeginsFresh' /\ GrantedRecorded' /\ OnlyActiveWritten'
    BY <1>1, <1>2, <1>4 DEF CoreInv, BeginsFresh, GrantedRecorded, Known, OnlyActiveWritten
  <1>7. EndsRecorded' /\ GoneForGood' /\ ReservationIdsNeverReused'
    BY <1>1, <1>2, <1>4 DEF CoreInv, EndsRecorded, Ending, GoneForGood, ReservationIdsNeverReused
  <1> QED
    BY <1>2, <1>3, <1>5, <1>6, <1>7 DEF CoreInv

(* A goroutine that leaves core. *)
LEMMA Leaves ==
  ASSUME CoreInv, NEW t \in Threads, th[t].phase \in {"done", "failed"},
         th' = [th EXCEPT ![t] = Idle]
  PROVE  /\ th' \in [Threads -> Thread] /\ up /\ th'[t] = Idle
         /\ th'[t].op = "none" /\ th'[t].phase = "idle"
         /\ \A u \in Threads : u # t => th'[u] = th[u]
         /\ \A u \in Threads : Writing(u)' <=> Writing(u)
  <1>1. th \in [Threads -> Thread] /\ Idle \in Thread
    BY CoreAssumption DEF CoreInv, TypeOK, Idle, Thread, Ops, Phases
  <1>2. up
    BY DEF CoreInv, DownIsEmpty, Idle
  <1>3. QED
    BY <1>1, <1>2 DEF Writing, Idle

LEMMA BeginReturnInv ==
  ASSUME CoreInv, NEW t \in Threads, BeginReturn(t)
  PROVE  CoreInv'
  <1> DEFINE n == th[t].id
  <1>1. /\ th[t].op = "begin" /\ th' = [th EXCEPT ![t] = Idle] /\ th[t].phase \in {"done", "failed"}
        /\ UNCHANGED <<transactions, next, armed, fired, persistMu, snap, disk, up, epoch,
                       failures, dirty, txGranted, gone, ends>>
    BY DEF BeginReturn, process
  <1>2. /\ th' \in [Threads -> Thread] /\ up /\ th'[t].op = "none" /\ th'[t].phase = "idle"
        /\ \A u \in Threads : u # t => th'[u] = th[u]
        /\ \A u \in Threads : Writing(u)' <=> Writing(u)
    BY <1>1, Leaves
  <1>3. n \in ReservationIds /\ \A g \in granted : g[2] # n
    BY <1>1 DEF CoreInv, BeginsFresh
  <1>4. DownIsEmpty' /\ LockMatchesWriter' /\ TransactionIdsTaken' /\ CountersAhead'
    BY <1>1, <1>2 DEF CoreInv, DownIsEmpty, LockMatchesWriter, TransactionIdsTaken, CountersAhead
  <1>5. reservations' \subseteq reservations
    BY DEF BeginReturn
  <1>6. IdsCounted' /\ RecordsUnique' /\ OnlyActiveWritten' /\ GoneForGood'
    BY <1>1, <1>2, <1>5 DEF CoreInv, IdsCounted, Counted, RecordsUnique, Unique,
       OnlyActiveWritten, GoneForGood, Absent
  <1>7. EndsRecorded'
    BY <1>1, <1>2, <1>5 DEF CoreInv, EndsRecorded, Ending, Absent
  <1>8. CASE th[t].phase = "done"
    <2>1. granted' = granted \cup {<<epoch, n>>} /\ reservations' = reservations
      BY <1>8 DEF BeginReturn
    <2>2. TypeOK'
      BY <1>1, <1>2, <1>3, <2>1 DEF CoreInv, TypeOK
    <2>3. n < disk.next.reservation
      BY <1>1, <1>8 DEF CoreInv, BeginsFresh
    <2>4. BeginsFresh'
      BY <1>1, <1>2, <2>1 DEF CoreInv, BeginsFresh
    <2>5. GrantedRecorded'
      <3>1. \A r \in reservations : Known(r)' => Known(r) \/ r.id = n
        BY <1>2 DEF Known
      <3>2. QED
        BY <1>1, <2>1, <2>3, <3>1 DEF CoreInv, GrantedRecorded
    <2>6. ReservationIdsNeverReused'
      BY <1>3, <2>1 DEF CoreInv, ReservationIdsNeverReused
    <2>7. QED
      BY <1>4, <1>6, <1>7, <2>2, <2>4, <2>5, <2>6 DEF CoreInv
  <1>9. CASE th[t].phase = "failed"
    <2>1. granted' = granted /\ reservations' = {r \in reservations : r.id # n}
      BY <1>9 DEF BeginReturn
    <2>2. TypeOK'
      BY <1>1, <1>2, <1>5, <2>1 DEF CoreInv, TypeOK
    <2>3. BeginsFresh' /\ ReservationIdsNeverReused'
      BY <1>1, <1>2, <2>1 DEF CoreInv, BeginsFresh, ReservationIdsNeverReused
    <2>4. GrantedRecorded'
      <3>1. \A r \in reservations' : Known(r)' => Known(r)
        BY <1>2, <2>1 DEF Known
      <3>2. QED
        BY <1>1, <2>1, <3>1 DEF CoreInv, GrantedRecorded
    <2>5. QED
      BY <1>4, <1>6, <1>7, <2>2, <2>3, <2>4 DEF CoreInv
  <1>10. QED
    BY <1>1, <1>8, <1>9

LEMMA ReturnInv ==
  ASSUME CoreInv, NEW t \in Threads, Return(t)
  PROVE  CoreInv'
  <1> DEFINE w == th[t]
             NewTx == {[epoch |-> epoch, id |-> w.id, written |-> w.phase = "done"]}
  <1>1. /\ w.op # "begin" /\ th' = [th EXCEPT ![t] = Idle] /\ w.phase \in {"done", "failed"}
        /\ ends' = [i \in ReservationIds |-> IF i = w.ends THEN ends[i] + 1 ELSE ends[i]]
        /\ gone' = IF w.phase = "done" /\ w.op \in {"end", "startTransaction"}
                   THEN gone \cup ({w.ends} \ {0}) ELSE gone
        /\ txGranted' = IF w.op = "nextTransaction" THEN txGranted \cup NewTx ELSE txGranted
        /\ UNCHANGED <<reservations, transactions, next, armed, fired, persistMu, snap, disk,
                       up, epoch, failures, dirty, granted>>
    BY DEF Return, memory, process
  <1>2. /\ th' \in [Threads -> Thread] /\ up /\ th'[t].op = "none" /\ th'[t].phase = "idle"
        /\ \A u \in Threads : u # t => th'[u] = th[u]
        /\ \A u \in Threads : Writing(u)' <=> Writing(u)
    BY <1>1, Leaves
  <1>3. \A i \in gone' \ gone : i \in ReservationIds /\ Ending(t, i) /\ w.phase = "done"
    <2>1. w \in Thread
      BY DEF CoreInv, TypeOK
    <2>2. \A i \in 0..MaxReservationID : i # 0 => i \in ReservationIds
      BY CoreAssumption DEF ReservationIds
    <2>3. QED
      BY <1>1, <2>1, <2>2 DEF Ending, Thread
  <1>4. TypeOK'
    <2>1. ends' \in [ReservationIds -> Nat]
      BY <1>1 DEF CoreInv, TypeOK
    <2>2. gone' \subseteq ReservationIds
      BY <1>3 DEF CoreInv, TypeOK
    <2>3. txGranted' \subseteq [epoch : Epochs, id : TransactionIds, written : BOOLEAN]
      <3>1. w.op = "nextTransaction" =>
              NewTx \subseteq [epoch : Epochs, id : TransactionIds, written : BOOLEAN]
        BY DEF CoreInv, TypeOK, TransactionIdsTaken
      <3> HIDE DEF NewTx
      <3>2. QED
        BY <1>1, <3>1 DEF CoreInv, TypeOK
    <2>4. QED
      BY <1>1, <1>2, <2>1, <2>2, <2>3 DEF CoreInv, TypeOK
  <1>5. DownIsEmpty' /\ LockMatchesWriter' /\ TransactionIdsTaken' /\ CountersAhead'
    BY <1>1, <1>2 DEF CoreInv, DownIsEmpty, LockMatchesWriter, TransactionIdsTaken, CountersAhead
  <1>6. IdsCounted' /\ RecordsUnique' /\ OnlyActiveWritten' /\ ReservationIdsNeverReused'
    BY <1>1, <1>2 DEF CoreInv, IdsCounted, RecordsUnique, OnlyActiveWritten, ReservationIdsNeverReused
  <1>7. BeginsFresh'
    BY <1>1, <1>2 DEF CoreInv, BeginsFresh
  <1>8. GrantedRecorded'
    <2>1. \A r \in reservations : Known(r)' => Known(r)
      BY <1>1, <1>2 DEF Known
    <2>2. QED
      BY <1>1, <2>1 DEF CoreInv, GrantedRecorded
  <1>9. EndsRecorded'
    BY <1>1, <1>2 DEF CoreInv, EndsRecorded, Ending
  <1>10. GoneForGood'
    <2>1. \A i \in gone' \ gone : /\ i < disk.next.reservation
                                  /\ Absent(i, reservations) /\ Absent(i, disk.reservations)
                                  /\ \A u \in Threads : Writing(u) => Absent(i, snap[u].reservations)
      BY <1>3 DEF CoreInv, EndsRecorded
    <2>2. QED
      BY <1>1, <1>2, <2>1 DEF CoreInv, GoneForGood
  <1> QED
    BY <1>4, <1>5, <1>6, <1>7, <1>8, <1>9, <1>10 DEF CoreInv

LEMMA CrashInv ==
  ASSUME CoreInv, Crash
  PROVE  CoreInv'
  <1>1. \A t \in Threads : th'[t] = Idle /\ th'[t].op = "none" /\ ~Writing(t)'
    BY DEF Crash, Writing, Idle
  <1>2. TypeOK'
    <2>1. EmptyFile \in File /\ EmptyFile.next \in Counters /\ Idle \in Thread
      BY CoreAssumption DEF EmptyFile, File, Counters, Idle, Thread, Ops, Phases
    <2>2. QED
      BY <2>1 DEF Crash, CoreInv, TypeOK
  <1>3. DownIsEmpty' /\ LockMatchesWriter' /\ TransactionIdsTaken' /\ CountersAhead'
    BY <1>1, CoreAssumption DEF Crash, CoreInv, DownIsEmpty, LockMatchesWriter, TransactionIdsTaken,
       CountersAhead, TypeOK, Epochs, Threads
  <1>4. IdsCounted' /\ RecordsUnique' /\ OnlyActiveWritten' /\ ReservationIdsNeverReused'
    BY <1>1 DEF Crash, CoreInv, IdsCounted, Counted, RecordsUnique, Unique, OnlyActiveWritten,
       ReservationIdsNeverReused
  <1>5. BeginsFresh' /\ GrantedRecorded' /\ EndsRecorded' /\ GoneForGood'
    BY <1>1 DEF Crash, CoreInv, BeginsFresh, GrantedRecorded, EndsRecorded, Ending, GoneForGood, Absent
  <1> QED
    BY <1>2, <1>3, <1>4, <1>5 DEF CoreInv

LEMMA RestartInv ==
  ASSUME CoreInv, NEW dropped \in SUBSET disk.reservations, Restart(dropped)
  PROVE  CoreInv'
  <1> DEFINE kept == disk.reservations \ dropped
             Loaded(r) == [id |-> r.id, evse |-> r.evse, tag |-> r.tag, status |-> "active"]
             up1(n) == IF n = 0 THEN 1 ELSE n
  <1>1. /\ ~up /\ up' = TRUE /\ epoch' = epoch + 1 /\ dirty' = FALSE
        /\ reservations' = {Loaded(r) : r \in kept}
        /\ armed' = {r.id : r \in kept}
        /\ transactions' = disk.transactions
        /\ UNCHANGED <<fired, persistMu, snap, disk, failures, granted, txGranted, gone, ends>>
    BY DEF Restart
  <1>2. /\ TypeOK /\ disk \in File /\ persistMu = NoThread
        /\ \A t \in Threads : th[t] = Idle
    BY <1>1 DEF CoreInv, DownIsEmpty, TypeOK
  <1>3. \A t \in Threads : /\ th'[t].op \in {"none", "load"} /\ th'[t].ends = 0
                           /\ th'[t].phase \in {"idle", "persist"} /\ ~Writing(t)'
                           /\ th'[t] \in Thread
    <2>1. \A t \in Threads : th[t] \in Thread /\ th[t].op = "none" /\ th[t].ends = 0 /\ th[t].phase = "idle"
      BY <1>2 DEF Idle, TypeOK
    <2>2. [op |-> "load", phase |-> "persist", id |-> 0, ends |-> 0] \in Thread
      BY CoreAssumption DEF Thread, Ops, Phases
    <2>3. QED
      BY <1>2, <2>1, <2>2 DEF Restart, Enter, Writing, TypeOK
  <1>4. th' \in [Threads -> Thread]
    <2>1. th \in [Threads -> Thread] /\ Main \in Threads
      BY <1>2 DEF TypeOK, Threads
    <2>2. QED
      BY <1>3, <2>1 DEF Restart, Enter
  <1>5. \A r \in kept : r \in StoredReservation /\ r.id < disk.next.reservation
    BY <1>2 DEF CoreInv, IdsCounted, Counted, File
  <1>6. next' = [reservation |-> up1(disk.next.reservation),
                 transaction |-> up1(disk.next.transaction),
                 remoteStart |-> up1(disk.next.remoteStart)]
    <2>1. AtLeast(disk.next.reservation, {r.id : r \in kept}) = up1(disk.next.reservation)
      BY <1>2, <1>5, Typed, AtLeastCounter
    <2>2. AtLeast(disk.next.transaction, {x.id : x \in disk.transactions}) = up1(disk.next.transaction)
      BY <1>2, Typed, AtLeastCounter DEF CoreInv, IdsCounted, Counted
    <2>3. AtLeast(disk.next.remoteStart, {}) = up1(disk.next.remoteStart)
      BY <1>2, Typed, AtLeastCounter
    <2>4. QED
      BY <2>1, <2>2, <2>3 DEF Restart
  <1>7. next' \in Counters /\ NotAhead(disk.next, next')
          /\ 1 <= next'.reservation /\ 1 <= next'.transaction /\ 1 <= next'.remoteStart
    BY <1>2, <1>6, CoreAssumption DEF File, Counters, NotAhead
  <1>8. \A q \in reservations' : \E r \in kept :
          q = Loaded(r) /\ q.id = r.id /\ q.evse = r.evse /\ q.status = "active"
    BY <1>1
  <1>9. TypeOK'
    <2>1. reservations' \subseteq Reservation /\ armed' \subseteq ReservationIds
      BY <1>1, <1>5 DEF StoredReservation, Reservation, Statuses
    <2>2. epoch' \in Epochs /\ transactions' \subseteq Transaction
      BY <1>1, <1>2, CoreAssumption DEF CoreInv, DownIsEmpty, TypeOK, Epochs, File
    <2>3. QED
      BY <1>1, <1>2, <1>4, <1>7, <2>1, <2>2 DEF TypeOK
  <1>10. DownIsEmpty' /\ LockMatchesWriter' /\ TransactionIdsTaken' /\ CountersAhead'
    BY <1>1, <1>2, <1>3, <1>7, CoreAssumption DEF DownIsEmpty, LockMatchesWriter, TransactionIdsTaken,
       CountersAhead, Threads
  <1>11. \A q \in reservations' : q.id < next'.reservation /\ q.id < disk.next.reservation
    BY <1>2, <1>5, <1>7, <1>8, <1>9, Typed DEF NotAhead, TypeOK, Counters
  <1>12. IdsCounted'
    <2>1. \A x \in transactions' : x.id < next'.transaction
      BY <1>1, <1>2, <1>7, Typed DEF CoreInv, IdsCounted, Counted, NotAhead, Counters
    <2>2. QED
      BY <1>1, <1>3, <1>11, <2>1 DEF CoreInv, IdsCounted, Counted
  <1>13. RecordsUnique'
    <2>1. \A a, b \in kept : a.evse = b.evse \/ a.id = b.id => a = b
      BY DEF CoreInv, RecordsUnique, Unique
    <2>2. Unique(reservations')
      BY <1>8, <2>1 DEF Unique
    <2>3. QED
      BY <1>1, <1>3, <2>2 DEF CoreInv, RecordsUnique, Unique
  <1>14. BeginsFresh' /\ OnlyActiveWritten' /\ ReservationIdsNeverReused'
    BY <1>1, <1>3, <1>8 DEF CoreInv, BeginsFresh, OnlyActiveWritten, ReservationIdsNeverReused
  <1>15. GrantedRecorded'
    BY <1>1, <1>11 DEF CoreInv, GrantedRecorded
  <1>16. EndsRecorded'
    BY <1>3 DEF EndsRecorded, Ending
  <1>17. GoneForGood'
    BY <1>1, <1>3, <1>8 DEF CoreInv, GoneForGood, Absent
  <1> QED
    BY <1>9, <1>10, <1>12, <1>13, <1>14, <1>15, <1>16, <1>17 DEF CoreInv

\* CoreInv is inductive: one step per action.
LEMMA NextCoreInv == CoreInv /\ [Next]_vars => CoreInv'
  <1> SUFFICES ASSUME CoreInv, [Next]_vars PROVE CoreInv'
    OBVIOUS
  <1>1. CASE \E t \in Workers : Call(t)
    <2>1. PICK t \in Workers : Call(t)
      BY <1>1
    <2>2. t \in Threads
      BY DEF Threads
    <2>3. CASE \E e \in EVSEs, tag \in Tags : BeginReservation(t, e, tag)
      BY <2>2, <2>3, BeginReservationInv
    <2>4. CASE \E r \in reservations : \/ ActivateReservation(t, r)
                                       \/ EndReservation(t, r)
                                       \/ OrphanReservation(t, r)
      BY <2>2, <2>4, ActivateReservationInv, EndReservationInv, OrphanReservationInv
    <2>5. CASE \E i \in fired : Expire(t, i)
      BY <2>2, <2>5, ExpireInv
    <2>6. CASE NextTransactionID(t) \/ NextRemoteStartID(t)
      BY <2>2, <2>6, NextTransactionIDInv, NextRemoteStartIDInv
    <2>7. CASE \E i \in TransactionIds, e \in EVSEs, tag \in Tags, named \in 0..MaxReservationID :
                 StartTransaction(t, i, e, tag, named)
      BY <2>2, <2>7, StartTransactionInv
    <2>8. CASE \E x \in transactions : StopTransaction(t, x)
      BY <2>2, <2>8, StopTransactionInv
    <2>9. QED
      BY <2>1, <2>3, <2>4, <2>5, <2>6, <2>7, <2>8 DEF Call
  <1>2. CASE \E t \in Threads : Step(t)
    BY <1>2, PersistSnapshotInv, PersistWriteInv, PersistFailInv, BeginReturnInv, ReturnInv DEF Step
  <1>3. CASE \E i \in armed : TimerFires(i)
    BY <1>3, TimerFiresInv
  <1>4. CASE Crash \/ \E dropped \in SUBSET disk.reservations : Restart(dropped)
    BY <1>4, CrashInv, RestartInv
  <1>5. CASE UNCHANGED vars
    <2>1. UNCHANGED <<reservations, transactions, next, armed, fired, th, persistMu, snap, disk,
                      up, epoch, failures, dirty, granted, txGranted, gone, ends>>
      BY <1>5 DEF vars, memory, process, history
    <2>2. QED
      BY <2>1 DEF CoreInv, TypeOK, DownIsEmpty, LockMatchesWriter, CountersAhead, IdsCounted,
         RecordsUnique, BeginsFresh, GrantedRecorded, TransactionIdsTaken, OnlyActiveWritten,
         EndsRecorded, GoneForGood, ReservationIdsNeverReused, Writing, Ending, Known
  <1>6. QED
    BY <1>1, <1>2, <1>3, <1>4, <1>5 DEF Next

(* CoreInv is an invariant: whatever the callers of core.Service do, however *)
(* their locked sections, their writes and crashes interleave.              *)
THEOREM CoreInvariant == Spec => []CoreInv
  BY InitCoreInv, NextCoreInv, PTL DEF Spec

(* Every variable of Core keeps its type; in particular the loaded counters  *)
(* stay within the bounds that the guards enforce.                          *)
THEOREM TypeCorrect == Spec => []TypeOK
  <1>1. CoreInv => TypeOK
    BY DEF CoreInv
  <1>2. QED
    BY CoreInvariant, <1>1, PTL

(* One record per EVSE: BeginReservation's check and insertion, and what a   *)
(* restart loads from the file.                                             *)
THEOREM OneReservation == Spec => []OneReservationPerEVSE
  <1>1. CoreInv => OneReservationPerEVSE
    BY DEF CoreInv, RecordsUnique, OneReservationPerEVSE
  <1>2. QED
    BY CoreInvariant, <1>1, PTL

(* No reservation id that BeginReservation returned is returned again, over  *)
(* failed writes and crashes.                                               *)
THEOREM IdsNeverReused == Spec => []ReservationIdsNeverReused
  <1>1. CoreInv => ReservationIdsNeverReused
    BY DEF CoreInv
  <1>2. QED
    BY CoreInvariant, <1>1, PTL

(* A reservation whose end reached the file is never loaded again.           *)
THEOREM GoneStaysGone == Spec => []NoResurrection
  <1>1. CoreInv => NoResurrection
    BY DEF CoreInv, GoneForGood, Absent, NoResurrection
  <1>2. QED
    BY CoreInvariant, <1>1, PTL

(* Only PersistWrite changes the file. *)
LEMMA OnlyWriteChangesFile ==
  ASSUME [Next]_vars, ~(\E t \in Threads : PersistWrite(t))
  PROVE  disk' = disk
  <1>1. CASE \E t \in Workers : Call(t)
    BY <1>1 DEF Call, BeginReservation, ActivateReservation, EndReservation, OrphanReservation,
       Expire, NextTransactionID, NextRemoteStartID, StartTransaction, StopTransaction
  <1>2. CASE \E t \in Threads : Step(t)
    BY <1>2 DEF Step, PersistSnapshot, PersistFail, BeginReturn, Return
  <1>3. CASE (\E i \in armed : TimerFires(i)) \/ Crash
    BY <1>3 DEF TimerFires, Crash
  <1>4. CASE \E dropped \in SUBSET disk.reservations : Restart(dropped)
    BY <1>4 DEF Restart
  <1>5. CASE UNCHANGED vars
    BY <1>5 DEF vars
  <1>6. QED
    BY <1>1, <1>2, <1>3, <1>4, <1>5 DEF Next

(* The counters in the state file never go back: persistMu is held from the  *)
(* snapshot to the rename, so writes land in the order of their snapshots.   *)
THEOREM FileCountersMonotone == Spec => FileCountersNeverDecrease
  <1>1. CoreInv /\ [Next]_vars => [NotAhead(disk.next, disk'.next)]_vars
    <2> SUFFICES ASSUME CoreInv, [Next]_vars PROVE NotAhead(disk.next, disk'.next)
      OBVIOUS
    <2>1. CASE \E t \in Threads : PersistWrite(t)
      BY <2>1, PersistWriteInv
    <2>2. CASE ~(\E t \in Threads : PersistWrite(t))
      BY <2>2, OnlyWriteChangesFile, Typed DEF CoreInv, NotAhead
    <2>3. QED
      BY <2>1, <2>2
  <1>2. QED
    BY CoreInvariant, <1>1, PTL DEF Spec, FileCountersNeverDecrease
-----------------------------------------------------------------------------
(* The ledger.  What CoreInv does not say by itself: every end is told once, *)
(* the file follows memory, transaction ids, and that core implements the    *)
(* ledger.  Each has a further invariant, inductive relative to CoreInv.     *)
(* The locked sections of core.Service make, move, remove or spare a record, *)
(* and a timer waits; the proofs go through these kinds (Makes, Moves,       *)
(* Removes, Spares, Waits) rather than through the methods.                  *)

(* The record of a BeginReservation that has not returned is in memory and   *)
(* pending: nobody else can have the id.                                    *)
BeginPending ==
  \A t \in Threads : th[t].op = "begin" =>
    \E r \in reservations : r.id = th[t].id /\ r.status = "pending"

\* The end of reservation i was published, or some goroutine is about to.
Told(i) == ends[i] # 0 \/ \E t \in Threads : th[t].ends = i

\* An end about to be published has not been, and by one goroutine only.
Untold ==
  \A t \in Threads : th[t].ends # 0 =>
    /\ th[t].ends < next.reservation
    /\ ends[th[t].ends] = 0
    /\ \A u \in Threads : th[u].ends = th[t].ends => u = t

(* Every end is told once: a record whose end is told can only leave.  The   *)
(* counter keeps a new record from taking the id of one that ended.         *)
EndsInv ==
  /\ Untold
  /\ \A i \in ReservationIds : ends[i] # 0 => i < next.reservation
  /\ \A r \in reservations : Told(r.id) => r.status = "cancelling"
  /\ ~up => \A i \in ReservationIds : ends[i] = 0
  /\ EndedOnce

Numbering(t) == th[t].op = "nextTransaction"

(* An id handed out, or about to be, is below the counter of memory in the   *)
(* epoch it was handed out in, and below the counter of the file if it was   *)
(* written.                                                                 *)
TxInv ==
  /\ \A g \in txGranted : /\ g.epoch <= epoch
                          /\ up /\ g.epoch = epoch => g.id < next.transaction
                          /\ g.written => g.id < disk.next.transaction
  /\ \A t \in Threads : Numbering(t) =>
       /\ th[t].id < next.transaction
       /\ Writing(t) => th[t].id < snap[t].next.transaction
       /\ th[t].phase = "done" => th[t].id < disk.next.transaction
       /\ \A u \in Threads : Numbering(u) /\ th[u].id = th[t].id => u = t
       /\ \A g \in txGranted : g.id = th[t].id => g.epoch < epoch /\ ~g.written
  /\ TransactionIdsReusedOnlyIfUnwritten

\* The file is what a restart would make the present memory of.
Matching ==
  /\ disk.reservations = Persistable.reservations
  /\ disk.transactions = transactions
  /\ \A c \in DOMAIN next : next[c] = (IF disk.next[c] = 0 THEN 1 ELSE disk.next[c])

(* Once no goroutine is on its way to a snapshot, the snapshot that is being *)
(* written is memory; and if none is being written, the file is, unless the  *)
(* last write failed.                                                       *)
StepInv ==
  up /\ (\A t \in Threads : th[t].phase # "persist") =>
    /\ \A t \in Threads : Writing(t) => snap[t] = Persistable
    /\ ~dirty /\ (\A t \in Threads : ~Writing(t)) => Matching

(* A record keeps its data from memory over the snapshot to the file.        *)
SameData ==
  \A r \in reservations :
    /\ \A s \in disk.reservations : r.id = s.id => Stored(r) = s
    /\ \A t \in Threads : Writing(t) => \A s \in snap[t].reservations : r.id = s.id => Stored(r) = s

(* What the file has and the coming write leaves out has ended.              *)
NotCarried ==
  \A t \in Threads : Writing(t) =>
    \A s \in disk.reservations \ snap[t].reservations : Absent(s.id, reservations)

(* Two callers never know of two reservations of one EVSE, not even while    *)
(* the first is still on its way to the file: the second was written after.  *)
OneIsOpen ==
  \A t \in Threads, r \in reservations : Writing(t) =>
    /\ Known(r) => \A s \in snap[t].reservations : r.evse = s.evse => r.id = s.id
    /\ \A u \in Threads : th[u].op = "begin" /\ th[u].id = r.id /\ th[u].phase \in {"write", "done"}
                            => \A s \in snap[t].reservations : r.evse # s.evse

LedgerInv == SameData /\ NotCarried /\ OneIsOpen
-----------------------------------------------------------------------------
(* The kinds of locked section. *)

\* A section of t, which is doing w after it.
Section(t, w) ==
  /\ t \in Threads /\ up /\ th[t] = Idle /\ w \in Thread
  /\ th' = [th EXCEPT ![t] = w]
  /\ UNCHANGED <<persistMu, snap, disk, up, epoch, dirty, granted, txGranted, ends>>

\* It makes a record with the next id, on an EVSE that has none.
Makes(t, w, r) ==
  /\ Section(t, w)
  /\ w.op = "begin" /\ w.phase = "persist" /\ w.ends = 0 /\ w.id = r.id
  /\ r \in Reservation /\ r.id = next.reservation /\ r.status = "pending"
  /\ \A q \in reservations : q.evse # r.evse
  /\ reservations' = reservations \cup {r}
  /\ next'.reservation = next.reservation + 1 /\ next'.transaction = next.transaction
  /\ UNCHANGED transactions

\* It takes a pending record on to its next status.
Moves(t, w, r, q) ==
  /\ Section(t, w)
  /\ w.op \notin {"begin", "nextTransaction"}
  /\ r \in reservations /\ Known(r) /\ r.status = "pending"
  /\ q.id = r.id /\ Stored(q) = Stored(r)
  /\ \/ q.status = "active" /\ w.phase = "persist" /\ w.ends = 0
     \/ q.status = "cancelling" /\ w.phase = "done" /\ w.ends = r.id
  /\ reservations' = (reservations \ {r}) \cup {q}
  /\ UNCHANGED <<transactions, next>>

\* It removes a record.  Only the end of a cancelling one is not written.
Removes(t, w, r) ==
  /\ Section(t, w)
  /\ w.op \notin {"begin", "nextTransaction"}
  /\ r \in reservations /\ Known(r)
  /\ \/ r.status = "cancelling" /\ w = Idle /\ UNCHANGED transactions
     \/ r.status # "cancelling" /\ w.phase = "persist" /\ w.ends = r.id
  /\ reservations' = reservations \ {r}
  /\ UNCHANGED next

\* It leaves the records alone; w is Idle when there was nothing to do.
Spares(t, w) ==
  /\ Section(t, w)
  /\ w.op # "begin" /\ w.ends = 0
  /\ \/ w = Idle /\ UNCHANGED <<transactions, next>>
     \/ w.phase = "persist"
  /\ \/ w.op # "nextTransaction" /\ next'.transaction = next.transaction
     \/ w.op = "nextTransaction" /\ w.id = next.transaction /\ next'.transaction = next.transaction + 1
  /\ next'.reservation = next.reservation
  /\ UNCHANGED reservations

\* Timers and their goroutines change nothing else.
Waits ==
  UNCHANGED <<reservations, transactions, next, th, persistMu, snap, disk, up, epoch, dirty,
              granted, txGranted, ends>>

(* Of two goroutines in BeginReservation neither has the other's record, and *)
(* what is active is known: its BeginReservation has returned.              *)
LEMMA ActiveKnown ==
  ASSUME CoreInv, BeginPending, NEW r \in reservations, r.status = "active"
  PROVE  Known(r)
  BY DEF CoreInv, RecordsUnique, Unique, BeginPending, Known

\* Every call of core is a section of one of the kinds.
LEMMA CallSections ==
  ASSUME CoreInv, BeginPending, NEW t \in Workers, Call(t)
  PROVE  \E w \in Thread : \/ \E r \in Reservation : Makes(t, w, r)
                           \/ \E r \in reservations, q \in Reservation : Moves(t, w, r, q)
                           \/ \E r \in reservations : Removes(t, w, r)
                           \/ Spares(t, w)
  <1>1. TypeOK /\ t \in Threads /\ th \in [Threads -> Thread] /\ next \in Counters
    BY DEF CoreInv, TypeOK, Threads
  <1>2. \A r \in reservations : r.id \in ReservationIds /\ r.id \in 0..MaxReservationID /\ r.id \in Nat
    BY <1>1, CoreAssumption DEF TypeOK, Reservation, ReservationIds
  <1>3. Idle \in Thread /\ Idle.op = "none" /\ Idle.ends = 0
    BY CoreAssumption DEF Idle, Thread, Ops, Phases
  <1>4. ASSUME NEW e \in EVSEs, NEW tag \in Tags, BeginReservation(t, e, tag)
        PROVE  \E w \in Thread, r \in Reservation : Makes(t, w, r)
    <2> DEFINE n == next.reservation
               r == [id |-> n, evse |-> e, tag |-> tag, status |-> "pending"]
               w == [op |-> "begin", phase |-> "persist", id |-> n, ends |-> 0]
    <2>1. n \in ReservationIds /\ n \in Nat /\ up /\ th[t] = Idle
      BY <1>1, <1>4, CoreAssumption DEF BeginReservation, Ready, CoreInv, CountersAhead, Counters,
         ReservationIds
    <2>2. r \in Reservation /\ w \in Thread
      BY <2>1, CoreAssumption DEF Reservation, Statuses, Thread, Ops, Phases
    <2>3. next'.reservation = n + 1 /\ next'.transaction = next.transaction
      BY <1>1, <1>4 DEF BeginReservation, Counters
    <2>4. Section(t, w)
      BY <1>1, <1>4, <2>1, <2>2 DEF BeginReservation, Section, Enter, process, history
    <2>5. Makes(t, w, r)
      BY <1>4, <2>2, <2>3, <2>4 DEF BeginReservation, Makes, ReservationsOn
    <2>6. QED
      BY <2>2, <2>5
  <1>5. ASSUME NEW r \in reservations, NEW s \in {"active", "cancelling"}
        PROVE  LET q == [r EXCEPT !.status = s]
               IN q \in Reservation /\ q.id = r.id /\ Stored(q) = Stored(r) /\ q.status = s
    BY <1>1 DEF TypeOK, Reservation, Statuses, Stored
  <1>6. ASSUME NEW r \in reservations, ActivateReservation(t, r)
        PROVE  \E w \in Thread, q \in Reservation : Moves(t, w, r, q)
    <2> DEFINE w == [op |-> "activate", phase |-> "persist", id |-> r.id, ends |-> 0]
               q == [r EXCEPT !.status = "active"]
    <2>1. w \in Thread
      BY <1>2, CoreAssumption DEF Thread, Ops, Phases
    <2>2. Section(t, w)
      BY <1>1, <1>6, <2>1 DEF ActivateReservation, Ready, Section, Enter, process, history
    <2>3. q \in Reservation /\ Moves(t, w, r, q)
      BY <1>5, <1>6, <2>2 DEF ActivateReservation, Moves
    <2>4. QED
      BY <2>1, <2>3
  <1>7. ASSUME NEW r \in reservations, OrphanReservation(t, r)
        PROVE  \E w \in Thread, q \in Reservation : Moves(t, w, r, q)
    <2> DEFINE w == [op |-> "orphan", phase |-> "done", id |-> r.id, ends |-> r.id]
               q == [r EXCEPT !.status = "cancelling"]
    <2>1. w \in Thread
      BY <1>2, CoreAssumption DEF Thread, Ops, Phases
    <2>2. Section(t, w)
      BY <1>1, <1>7, <2>1 DEF OrphanReservation, Ready, Section, process, history
    <2>3. q \in Reservation /\ Moves(t, w, r, q)
      BY <1>5, <1>7, <2>2 DEF OrphanReservation, Moves
    <2>4. QED
      BY <2>1, <2>3
  <1>8. ASSUME NEW r \in reservations, Known(r), r.status # "cancelling", EndLocked(r),
               NEW o \in {"end", "startTransaction"}, NEW i \in Nat, EnterEnding(t, o, i, r.id),
               up, th[t] = Idle,
               UNCHANGED <<next, persistMu, snap, disk, up, epoch, dirty, granted, txGranted, ends>>
        PROVE  \E w \in Thread : Removes(t, w, r)
    <2> DEFINE w == [op |-> o, phase |-> "persist", id |-> i, ends |-> r.id]
    <2>1. w \in Thread /\ w.op \notin {"begin", "nextTransaction"}
      BY <1>2, CoreAssumption DEF Thread, Ops, Phases
    <2>2. Section(t, w)
      BY <1>1, <1>8, <2>1 DEF Section, EnterEnding
    <2>3. Removes(t, w, r)
      BY <1>8, <2>1, <2>2 DEF Removes, EndLocked
    <2>4. QED
      BY <2>1, <2>3
  <1>9. ASSUME NEW r \in reservations, EndReservation(t, r)
        PROVE  \E w \in Thread : Removes(t, w, r)
    <2>1. up /\ th[t] = Idle /\ Known(r) /\ EndLocked(r)
          /\ UNCHANGED <<transactions, next, persistMu, snap, disk, up, epoch, dirty, granted, txGranted, ends>>
      BY <1>9 DEF EndReservation, Ready, process, history
    <2>2. CASE r.status = "cancelling" /\ UNCHANGED th
      <3>1. th' = [th EXCEPT ![t] = Idle]
        BY <1>1, <2>1, <2>2
      <3>2. Section(t, Idle)
        BY <1>1, <1>3, <2>1, <3>1 DEF Section
      <3>3. QED
        BY <1>3, <2>1, <2>2, <3>2 DEF Removes, EndLocked
    <2>3. CASE r.status # "cancelling" /\ EnterEnding(t, "end", r.id, r.id)
      BY <1>2, <1>8, <2>1, <2>3
    <2>4. QED
      BY <1>9, <2>2, <2>3 DEF EndReservation
  <1>10. ASSUME up, th[t] = Idle,
                NEW o \in Ops \ {"begin", "nextTransaction"}, NEW i \in Nat, Enter(t, o, i, "persist"),
                next'.transaction = next.transaction, next'.reservation = next.reservation,
                UNCHANGED <<reservations, persistMu, snap, disk, up, epoch, dirty, granted, txGranted, ends>>
         PROVE  \E w \in Thread : Spares(t, w)
    <2> DEFINE w == [op |-> o, phase |-> "persist", id |-> i, ends |-> 0]
    <2>1. w \in Thread /\ w.op \notin {"begin", "nextTransaction"}
      BY CoreAssumption DEF Thread, Phases
    <2>2. Section(t, w)
      BY <1>1, <1>10, <2>1 DEF Section, Enter
    <2>3. Spares(t, w)
      BY <1>10, <2>1, <2>2 DEF Spares
    <2>4. QED
      BY <2>1, <2>3
  <1>11. ASSUME NEW i \in fired, Expire(t, i)
         PROVE  \E w \in Thread : (\E r \in reservations : Removes(t, w, r)) \/ Spares(t, w)
    <2>1. up /\ th[t] = Idle
          /\ UNCHANGED <<transactions, next, persistMu, snap, disk, up, epoch, dirty, granted, txGranted, ends>>
      BY <1>11 DEF Expire, process, history
    <2>2. CASE UNCHANGED <<reservations, armed, th>>
      <3>1. th' = [th EXCEPT ![t] = Idle]
        BY <1>1, <2>1, <2>2
      <3>2. Section(t, Idle)
        BY <1>1, <1>3, <2>1, <3>1 DEF Section
      <3>3. QED
        BY <1>3, <2>1, <2>2, <3>2 DEF Spares
    <2>3. ASSUME NEW r \in Expirable(i), EndLocked(r), EnterEnding(t, "end", i, i)
          PROVE  \E w \in Thread : Removes(t, w, r)
      <3>1. r \in reservations /\ r.id = i /\ r.status = "active"
        BY DEF Expirable
      <3>2. Known(r)
        BY <3>1, ActiveKnown
      <3>3. QED
        BY <1>2, <1>8, <2>1, <2>3, <3>1, <3>2
    <2>4. QED
      BY <1>11, <2>2, <2>3 DEF Expire, Expirable
  <1>12. ASSUME NextTransactionID(t)
         PROVE  \E w \in Thread : Spares(t, w)
    <2> DEFINE n == next.transaction
               w == [op |-> "nextTransaction", phase |-> "persist", id |-> n, ends |-> 0]
    <2>1. w \in Thread
      BY <1>1, CoreAssumption DEF Counters, Thread, Ops, Phases
    <2>2. next'.transaction = n + 1 /\ next'.reservation = next.reservation
      BY <1>1, <1>12 DEF NextTransactionID, Counters
    <2>3. Section(t, w)
      BY <1>1, <1>12, <2>1 DEF NextTransactionID, Ready, Section, Enter, process, history
    <2>4. Spares(t, w)
      BY <1>12, <2>2, <2>3 DEF NextTransactionID, Spares
    <2>5. QED
      BY <2>1, <2>4
  <1>13. ASSUME NextRemoteStartID(t)
         PROVE  \E w \in Thread : Spares(t, w)
    <2>1. next'.transaction = next.transaction /\ next'.reservation = next.reservation
            /\ next.remoteStart \in Nat
      BY <1>1, <1>13, CoreAssumption DEF NextRemoteStartID, Counters
    <2>2. QED
      BY <1>10, <1>13, <2>1 DEF NextRemoteStartID, Ready, Ops, process, history
  <1>14. ASSUME NEW i \in TransactionIds, NEW e \in EVSEs, NEW tag \in Tags,
                NEW named \in 0..MaxReservationID, StartTransaction(t, i, e, tag, named)
         PROVE  \E w \in Thread : (\E r \in reservations : Removes(t, w, r)) \/ Spares(t, w)
    <2>1. /\ up /\ th[t] = Idle /\ i \in Nat
          /\ UNCHANGED <<next, persistMu, snap, disk, up, epoch, dirty, granted, txGranted, ends>>
      BY <1>14, CoreAssumption DEF StartTransaction, Ready, process, history, TransactionIds
    <2>2. \A r \in Redeemed(e, tag, named) \cup ActiveOn(e) : r \in reservations /\ r.status = "active" /\ Known(r)
      BY ActiveKnown DEF Redeemed, ActiveOn
    <2>3. ASSUME NEW r \in Redeemed(e, tag, named) \cup ActiveOn(e),
                 EndLocked(r), EnterEnding(t, "startTransaction", i, r.id)
          PROVE  \E w \in Thread : Removes(t, w, r)
      BY <1>8, <2>1, <2>2, <2>3
    <2>4. CASE Enter(t, "startTransaction", i, "persist") /\ UNCHANGED <<reservations, armed>>
      BY <1>10, <2>1, <2>4 DEF Ops
    <2>5. QED
      BY <1>14, <2>2, <2>3, <2>4 DEF StartTransaction
  <1>15. ASSUME NEW x \in transactions, StopTransaction(t, x)
         PROVE  \E w \in Thread : Spares(t, w)
    <2>1. x.id \in Nat
      BY <1>1, Typed
    <2>2. QED
      BY <1>10, <1>15, <2>1 DEF StopTransaction, Ready, Ops, process, history
  <1>16. QED
    BY <1>4, <1>6, <1>7, <1>9, <1>11, <1>12, <1>13, <1>14, <1>15 DEF Call

(* Every step of Core, sorted by what it does to records and file. *)
LEMMA Steps ==
  ASSUME CoreInv, BeginPending, [Next]_vars
  PROVE  \/ \E t \in Threads, w \in Thread, r \in Reservation : Makes(t, w, r)
         \/ \E t \in Threads, w \in Thread, r \in reservations, q \in Reservation : Moves(t, w, r, q)
         \/ \E t \in Threads, w \in Thread, r \in reservations : Removes(t, w, r)
         \/ \E t \in Threads, w \in Thread : Spares(t, w)
         \/ \E t \in Threads : Step(t)
         \/ Waits
         \/ Crash
         \/ \E dropped \in SUBSET disk.reservations : Restart(dropped)
  <1>1. CASE \E t \in Workers : Call(t)
    BY <1>1, CallSections DEF Threads
  <1>2. CASE \E i \in armed : TimerFires(i)
    BY <1>2 DEF TimerFires, Waits, process, history
  <1>3. CASE UNCHANGED vars
    BY <1>3 DEF vars, memory, process, history, Waits
  <1>4. QED
    BY <1>1, <1>2, <1>3 DEF Next

(* What a section, and a stage of persist, does to the goroutines. *)
LEMMA SectionFacts ==
  ASSUME CoreInv, NEW t, NEW w, Section(t, w), w.phase # "write"
  PROVE  /\ t \in Threads /\ w \in Thread /\ up /\ th[t] = Idle
         /\ th[t].op = "none" /\ th[t].phase = "idle" /\ th[t].ends = 0
         /\ th'[t] = w /\ \A u \in Threads \ {t} : th'[u] = th[u]
         /\ \A u \in Threads : Writing(u)' <=> Writing(u)
         /\ UNCHANGED <<persistMu, snap, disk, up, epoch, dirty, granted, txGranted, ends>>
  BY DEF Section, CoreInv, TypeOK, Writing, Idle

\* A snapshot is memory, taken by the only goroutine that will write.
LEMMA SnapshotFacts ==
  ASSUME CoreInv, NEW t \in Threads, PersistSnapshot(t)
  PROVE  /\ th[t].phase = "persist" /\ up /\ th'[t].phase = "write" /\ snap'[t] = Persistable
         /\ \A u \in Threads : /\ th'[u].op = th[u].op /\ th'[u].id = th[u].id
                               /\ th'[u].ends = th[u].ends
                               /\ u # t => th'[u] = th[u]
                               /\ ~Writing(u) /\ (Writing(u)' <=> u = t)
         /\ UNCHANGED <<reservations, transactions, next, disk, up, epoch, dirty, granted, txGranted, ends>>
  <1>1. /\ th[t].phase = "persist" /\ persistMu = NoThread /\ persistMu' = t
        /\ snap' = [snap EXCEPT ![t] = Persistable] /\ th' = [th EXCEPT ![t].phase = "write"]
        /\ UNCHANGED <<reservations, transactions, next, disk, up, epoch, dirty, granted, txGranted, ends>>
    BY DEF PersistSnapshot, memory, process, history
  <1>2. th \in [Threads -> Thread] /\ snap \in [Threads -> File]
    BY DEF CoreInv, TypeOK
  <1>3. \A u \in Threads : ~Writing(u)
    BY <1>1, CoreAssumption DEF CoreInv, LockMatchesWriter, Threads
  <1>4. up
    BY <1>1 DEF CoreInv, DownIsEmpty, Idle
  <1>5. /\ \A u \in Threads : /\ th'[u].op = th[u].op /\ th'[u].id = th[u].id
                              /\ th'[u].ends = th[u].ends
                              /\ u # t => th'[u] = th[u]
        /\ th'[t].phase = "write" /\ snap'[t] = Persistable
    BY <1>1, <1>2 DEF Thread
  <1>6. QED
    BY <1>1, <1>3, <1>4, <1>5 DEF Writing

\* A write replaces the file by the snapshot, or fails and leaves it.
LEMMA WriteFacts ==
  ASSUME CoreInv, NEW t \in Threads, PersistWrite(t) \/ PersistFail(t)
  PROVE  /\ up /\ Writing(t) /\ th'[t].phase \in {"done", "failed"}
         /\ \A u \in Threads : /\ th'[u].op = th[u].op /\ th'[u].id = th[u].id
                               /\ th'[u].ends = th[u].ends
                               /\ u # t => th'[u] = th[u]
                               /\ ~Writing(u)' /\ (Writing(u) <=> u = t)
         /\ UNCHANGED <<reservations, transactions, next, up, epoch, granted, txGranted, ends>>
         /\ up'
         /\ PersistWrite(t) => disk' = snap[t] /\ dirty' = FALSE /\ th'[t].phase = "done"
         /\ ~PersistWrite(t) => disk' = disk /\ dirty' = TRUE /\ th'[t].phase = "failed"
  <1>1. CASE PersistWrite(t)
    BY <1>1, WriteEnds DEF PersistWrite, Writing, memory, process
  <1>2. CASE PersistFail(t) /\ ~PersistWrite(t)
    BY <1>2, WriteEnds DEF PersistFail, Writing, memory, process
  <1>3. QED
    BY <1>1, <1>2

\* A method that returns touches neither the counters nor the file.
LEMMA ReturnFacts ==
  ASSUME CoreInv, NEW t \in Threads, BeginReturn(t) \/ Return(t)
  PROVE  /\ up /\ th[t].phase \in {"done", "failed"}
         /\ th'[t] = Idle /\ th'[t].op = "none" /\ th'[t].phase = "idle" /\ th'[t].ends = 0
         /\ \A u \in Threads : u # t => th'[u] = th[u]
         /\ \A u \in Threads : Writing(u)' <=> Writing(u)
         /\ UNCHANGED <<transactions, next, snap, disk, up, epoch, dirty>>
  BY Leaves DEF BeginReturn, Return, process, memory, Idle

\* Nobody moves or removes a record before its BeginReservation returns.
LEMMA BeginPendingNext ==
  ASSUME CoreInv, BeginPending, [Next]_vars
  PROVE  BeginPending'
  <1>1. ASSUME NEW t \in Threads, NEW w \in Thread, NEW r \in Reservation, Makes(t, w, r)
        PROVE  BeginPending'
    BY <1>1, SectionFacts DEF Makes, BeginPending
  <1>2. ASSUME NEW t \in Threads, NEW w \in Thread, NEW r \in reservations, NEW q, Moves(t, w, r, q)
        PROVE  BeginPending'
    BY <1>2, SectionFacts DEF Moves, BeginPending, Known
  <1>3. ASSUME NEW t \in Threads, NEW w \in Thread, NEW r \in reservations, Removes(t, w, r)
        PROVE  BeginPending'
    <2>1. w.phase # "write"
      BY <1>3 DEF Removes, Idle
    <2>2. QED
      BY <1>3, <2>1, SectionFacts DEF Removes, BeginPending, Known
  <1>4. ASSUME NEW t \in Threads, NEW w \in Thread, Spares(t, w)
        PROVE  BeginPending'
    <2>1. w.phase # "write"
      BY <1>4 DEF Spares, Idle
    <2>2. QED
      BY <1>4, <2>1, SectionFacts DEF Spares, BeginPending
  <1>5. ASSUME NEW t \in Threads, Step(t)
        PROVE  BeginPending'
    <2>1. CASE PersistSnapshot(t)
      BY <2>1, SnapshotFacts DEF BeginPending
    <2>2. CASE PersistWrite(t) \/ PersistFail(t)
      <3>1. /\ \A u \in Threads : th'[u].op = th[u].op /\ th'[u].id = th[u].id
            /\ reservations' = reservations
        BY <2>2, WriteFacts
      <3>2. QED
        BY <3>1 DEF BeginPending
    <2>3. CASE Return(t)
      <3>1. /\ \A u \in Threads : th'[u].op = "begin" => th'[u] = th[u]
            /\ reservations' = reservations
        BY <2>3, ReturnFacts DEF Return, memory
      <3>2. QED
        BY <3>1 DEF BeginPending
    <2>4. CASE BeginReturn(t)
      <3>1. /\ \A u \in Threads : th'[u].op = "begin" => u # t /\ th'[u] = th[u]
            /\ \A r \in reservations : r.id # th[t].id => r \in reservations'
            /\ th[t].op = "begin"
        BY <2>4, ReturnFacts DEF BeginReturn
      <3>2. \A u \in Threads : th[u].op = "begin" /\ u # t => th[u].id # th[t].id
        BY <3>1 DEF CoreInv, BeginsFresh
      <3>3. QED
        BY <3>1, <3>2 DEF BeginPending
    <2>5. QED
      BY <1>5, <2>1, <2>2, <2>3, <2>4 DEF Step
  <1>6. CASE Waits
    BY <1>6 DEF Waits, BeginPending
  <1>7. CASE Crash
    BY <1>7 DEF Crash, BeginPending, Idle
  <1>8. CASE \E dropped \in SUBSET disk.reservations : Restart(dropped)
    <2>1. \A t \in Threads : th[t] = Idle
      BY <1>8 DEF Restart, CoreInv, DownIsEmpty
    <2>2. \A t \in Threads : th'[t].op # "begin"
      BY <1>8, <2>1 DEF Restart, Enter, Idle, CoreInv, TypeOK
    <2>3. QED
      BY <2>2 DEF BeginPending
  <1>9. QED
    BY <1>1, <1>2, <1>3, <1>4, <1>5, <1>6, <1>7, <1>8, Steps

(* A section that says of r, which leaves or is cancelling, that it ended. *)
LEMMA TellsNew ==
  ASSUME CoreInv, EndsInv, NEW t, NEW w, Section(t, w), w.phase # "write",
         next'.reservation = next.reservation,
         NEW r \in reservations, r.status # "cancelling", w.ends = r.id,
         \A q \in reservations' : q \in reservations \/ q.id = r.id,
         \A q \in reservations' : q.id = r.id => q.status = "cancelling"
  PROVE  EndsInv'
  <1>1. /\ t \in Threads /\ th[t].ends = 0 /\ th'[t] = w
        /\ \A u \in Threads \ {t} : th'[u] = th[u]
        /\ up /\ UNCHANGED <<ends, up>>
    BY SectionFacts
  <1>2. r.id \in ReservationIds /\ r.id # 0 /\ r.id < next.reservation
    BY Typed DEF CoreInv, TypeOK, Reservation, IdsCounted, Counted
  <1>3. ends[r.id] = 0 /\ \A u \in Threads : th[u].ends # r.id
    BY DEF EndsInv, Told
  <1>4. Untold'
    BY <1>1, <1>2, <1>3 DEF EndsInv, Untold
  <1>5. \A i : Told(i)' => Told(i) \/ i = r.id
    BY <1>1 DEF Told
  <1>6. QED
    BY <1>1, <1>4, <1>5 DEF EndsInv, EndedOnce

(* A step that tells nothing new: only goroutines with nothing to tell and   *)
(* records nobody has told of come into being.                              *)
LEMMA TellsNothing ==
  ASSUME EndsInv, TypeOK, TypeOK',
         \A t \in Threads : th'[t].ends # 0 => th'[t].ends = th[t].ends,
         next.reservation <= next'.reservation,
         \A r \in reservations' : \/ ~Told(r.id)
                                  \/ \E q \in reservations : q.id = r.id /\ q.status = r.status,
         up', ends' = ends
  PROVE  EndsInv'
  <1>1. next.reservation \in Nat /\ next'.reservation \in Nat
    BY DEF TypeOK, Counters
  <1>2. \A t \in Threads : th[t].ends \in Nat /\ th'[t].ends \in Nat
    BY CoreAssumption DEF TypeOK, Thread
  <1>3. Untold'
    BY <1>1, <1>2 DEF EndsInv, Untold
  <1>4. \A i \in ReservationIds : i \in Nat /\ i # 0
    BY CoreAssumption DEF ReservationIds
  <1>5. \A i \in ReservationIds : Told(i)' => Told(i)
    BY <1>4 DEF Told
  <1>6. \A r \in reservations' : r.id \in ReservationIds
    BY DEF TypeOK, Reservation
  <1>7. \A r \in reservations' : Told(r.id)' => r.status = "cancelling"
    BY <1>5, <1>6 DEF EndsInv
  <1>8. QED
    BY <1>1, <1>3, <1>4, <1>7 DEF EndsInv, EndedOnce

\* A second end of the same record finds it gone or cancelling.
LEMMA EndsNext ==
  ASSUME CoreInv, CoreInv', BeginPending, EndsInv, [Next]_vars
  PROVE  EndsInv'
  <1>1. /\ TypeOK /\ TypeOK' /\ next.reservation \in Nat /\ next.reservation <= next.reservation
        /\ \A r, q \in reservations : r.id = q.id => r = q
        /\ \A r \in reservations : r.id < next.reservation
    BY Typed DEF CoreInv, RecordsUnique, Unique, IdsCounted, Counted
  <1>2. ASSUME NEW t \in Threads, NEW w \in Thread, NEW r \in Reservation, Makes(t, w, r)
        PROVE  EndsInv'
    <2>1. /\ th'[t] = w /\ \A u \in Threads \ {t} : th'[u] = th[u]
          /\ up' /\ ends' = ends /\ w.ends = 0 /\ next.reservation <= next'.reservation
          /\ reservations' = reservations \cup {r} /\ r.id = next.reservation
      BY <1>1, <1>2, SectionFacts DEF Makes
    <2>2. r.id \in ReservationIds /\ r.id # 0
      BY CoreAssumption DEF Reservation, ReservationIds
    <2>3. ~Told(r.id)
      BY <1>1, <2>1, <2>2 DEF EndsInv, Untold, Told
    <2>4. QED
      BY <1>1, <2>1, <2>3, TellsNothing
  <1>3. ASSUME NEW t \in Threads, NEW w \in Thread, NEW r \in reservations, NEW q \in Reservation,
               Moves(t, w, r, q)
        PROVE  EndsInv'
    <2>1. /\ Section(t, w) /\ w.phase # "write" /\ next' = next /\ q.id = r.id
          /\ r.status = "pending" /\ reservations' = (reservations \ {r}) \cup {q}
      BY <1>3 DEF Moves
    <2>2. CASE q.status = "cancelling" /\ w.ends = r.id
      BY <1>1, <2>1, <2>2, TellsNew
    <2>3. CASE w.ends = 0
      <3>1. ~Told(r.id)
        BY <2>1 DEF EndsInv
      <3>2. QED
        BY <1>1, <2>1, <2>3, <3>1, SectionFacts, TellsNothing
    <2>4. QED
      BY <1>3, <2>2, <2>3 DEF Moves
  <1>4. ASSUME NEW t \in Threads, NEW w \in Thread, NEW r \in reservations, Removes(t, w, r)
        PROVE  EndsInv'
    <2>1. /\ Section(t, w) /\ w.phase # "write" /\ next' = next /\ reservations' = reservations \ {r}
      BY <1>4 DEF Removes, Idle
    <2>2. CASE r.status # "cancelling" /\ w.ends = r.id
      BY <1>1, <2>1, <2>2, TellsNew
    <2>3. CASE w = Idle
      <3>1. w.ends = 0
        BY <2>3 DEF Idle
      <3>2. QED
        BY <1>1, <2>1, <3>1, SectionFacts, TellsNothing
    <2>4. QED
      BY <1>4, <2>2, <2>3 DEF Removes
  <1>5. ASSUME NEW t \in Threads, NEW w \in Thread, Spares(t, w)
        PROVE  EndsInv'
    <2>1. /\ Section(t, w) /\ w.phase # "write" /\ w.ends = 0 /\ reservations' = reservations
          /\ next'.reservation = next.reservation
      BY <1>5 DEF Spares, Idle
    <2>2. QED
      BY <1>1, <2>1, SectionFacts, TellsNothing
  <1>6. ASSUME NEW t \in Threads, PersistSnapshot(t) \/ PersistWrite(t) \/ PersistFail(t)
        PROVE  EndsInv'
    <2>1. /\ \A u \in Threads : th'[u].ends = th[u].ends
          /\ up' /\ UNCHANGED <<reservations, next, ends>>
      <3>1. CASE PersistSnapshot(t)
        BY <3>1, SnapshotFacts
      <3>2. CASE PersistWrite(t) \/ PersistFail(t)
        BY <3>2, WriteFacts
      <3>3. QED
        BY <1>6, <3>1, <3>2
    <2>2. QED
      BY <1>1, <2>1, TellsNothing
  <1>7. ASSUME NEW t \in Threads, BeginReturn(t)
        PROVE  EndsInv'
    <2>1. /\ \A u \in Threads : th'[u].ends # 0 => th'[u].ends = th[u].ends
          /\ up' /\ next' = next
      BY <1>7, ReturnFacts
    <2>2. reservations' \subseteq reservations /\ ends' = ends
      BY <1>7 DEF BeginReturn
    <2>3. QED
      BY <1>1, <2>1, <2>2, TellsNothing
  <1>8. ASSUME NEW t \in Threads, Return(t)
        PROVE  EndsInv'
    <2> DEFINE k == th[t].ends
    <2>1. /\ th'[t].ends = 0 /\ \A u \in Threads \ {t} : th'[u] = th[u]
          /\ up' /\ next' = next
      BY <1>8, ReturnFacts
    <2>2. /\ reservations' = reservations
          /\ ends' = [i \in ReservationIds |-> IF i = k THEN ends[i] + 1 ELSE ends[i]]
      BY <1>8 DEF Return, memory
    <2>3. CASE k = 0
      <3>1. \A i \in ReservationIds : i # 0 /\ ends'[i] = ends[i]
        BY <2>2, <2>3, CoreAssumption DEF ReservationIds
      <3>2. ends' = ends
        BY <1>1, <2>2, <3>1 DEF TypeOK
      <3>3. QED
        BY <1>1, <2>1, <2>2, <3>2, TellsNothing
    <2>4. CASE k # 0
      <3>1. k \in ReservationIds /\ k < next.reservation /\ ends[k] = 0
        BY <1>1, <2>4, CoreAssumption DEF EndsInv, Untold, TypeOK, Thread, ReservationIds
      <3>2. /\ \A i \in ReservationIds : i # k => ends'[i] = ends[i]
            /\ ends'[k] = 1
        BY <2>2, <3>1
      <3>3. \A u \in Threads \ {t} : th[u].ends # k /\ th[u].ends \in 0..MaxReservationID
        BY <1>1, <2>4 DEF EndsInv, Untold, TypeOK, Thread
      <3>4. Untold'
        BY <2>1, <3>2, <3>3, CoreAssumption DEF EndsInv, Untold, ReservationIds
      <3>5. \A i \in ReservationIds : Told(i)' => Told(i)
        <4>1. \A i \in ReservationIds : i # 0
          BY CoreAssumption DEF ReservationIds
        <4>2. QED
          BY <2>1, <3>2, <4>1 DEF Told
      <3>6. \A r \in reservations' : Told(r.id)' => r.status = "cancelling"
        BY <1>1, <2>2, <3>5 DEF EndsInv, TypeOK, Reservation
      <3>7. EndedOnce'
        BY <3>1, <3>2 DEF EndsInv, EndedOnce
      <3>8. QED
        BY <2>1, <3>1, <3>2, <3>4, <3>6, <3>7 DEF EndsInv
    <2>5. QED
      BY <2>3, <2>4
  <1>9. CASE Waits
    <2>1. UNCHANGED <<th, next, reservations, ends, up>>
      BY <1>9 DEF Waits
    <2>2. QED
      BY <2>1 DEF EndsInv, Untold, Told, EndedOnce
  <1>10. CASE Crash
    <2>1. /\ \A u \in Threads : th'[u].ends = 0
          /\ \A i \in ReservationIds : ends'[i] = 0
          /\ reservations' = {}
      BY <1>10 DEF Crash, Idle
    <2>2. QED
      BY <2>1 DEF EndsInv, Untold, EndedOnce
  <1>11. CASE \E dropped \in SUBSET disk.reservations : Restart(dropped)
    <2>1. ~up /\ ends' = ends /\ up' = TRUE
      BY <1>11 DEF Restart
    <2>2. \A t \in Threads : th[t] = Idle
      BY <2>1 DEF CoreInv, DownIsEmpty
    <2>3. \A t \in Threads : th'[t].ends = 0
      BY <1>1, <1>11, <2>2 DEF Restart, Enter, Idle, TypeOK
    <2>4. \A i \in ReservationIds : i # 0 /\ ends'[i] = 0
      BY <2>1, CoreAssumption DEF EndsInv, ReservationIds
    <2>5. \A r \in reservations' : r.id \in ReservationIds
      BY <1>1 DEF TypeOK, Reservation
    <2>6. QED
      BY <2>1, <2>3, <2>4, <2>5 DEF EndsInv, Untold, Told, EndedOnce
  <1>12. QED
    BY <1>2, <1>3, <1>4, <1>5, <1>6, <1>7, <1>8, <1>9, <1>10, <1>11, Steps DEF Step

(* The numbers behind transaction ids. *)
LEMMA TxTyped ==
  ASSUME TypeOK
  PROVE  /\ next.transaction \in Nat /\ disk.next.transaction \in Nat /\ epoch \in Nat
         /\ \A t \in Threads : th[t].id \in Nat /\ snap[t].next.transaction \in Nat
         /\ \A g \in txGranted : g.epoch \in Nat /\ g.id \in Nat /\ g.written \in BOOLEAN
  <1>1. \A t \in Threads : th[t].id \in Nat
    BY DEF TypeOK, Thread
  <1>2. epoch \in Nat
    BY CoreAssumption DEF TypeOK, Epochs
  <1>3. \A g \in txGranted : g.epoch \in Nat /\ g.id \in Nat /\ g.written \in BOOLEAN
    BY CoreAssumption DEF TypeOK, Epochs, TransactionIds
  <1>4. QED
    BY <1>1, <1>2, <1>3, Typed

(* A step that hands no transaction id out and takes none. *)
LEMMA NumbersNothing ==
  ASSUME TxInv, TypeOK, TypeOK', NotAhead(disk.next, disk'.next),
         up' => up /\ next.transaction <= next'.transaction,
         \A t \in Threads : Numbering(t)' =>
           /\ up' /\ Numbering(t) /\ th'[t].id = th[t].id
           /\ Writing(t)' => th[t].id < snap'[t].next.transaction
           /\ th'[t].phase = "done" => th[t].id < disk'.next.transaction,
         UNCHANGED <<epoch, txGranted>>
  PROVE  TxInv'
  <1>1. /\ next.transaction \in Nat /\ next'.transaction \in Nat
        /\ disk.next.transaction \in Nat /\ disk'.next.transaction \in Nat
        /\ disk.next.transaction <= disk'.next.transaction
        /\ \A g \in txGranted : g.id \in Nat
        /\ \A t \in Threads : th[t].id \in Nat
    BY TxTyped, Typed DEF NotAhead, TypeOK, File, Counters
  <1>2. \A g \in txGranted' : /\ g.epoch <= epoch'
                              /\ up' /\ g.epoch = epoch' => g.id < next'.transaction
                              /\ g.written => g.id < disk'.next.transaction
    BY <1>1 DEF TxInv
  <1>3. \A t \in Threads : Numbering(t)' =>
          /\ th'[t].id < next'.transaction
          /\ \A u \in Threads : Numbering(u)' /\ th'[u].id = th'[t].id => u = t
          /\ \A g \in txGranted' : g.id = th'[t].id => g.epoch < epoch' /\ ~g.written
    BY <1>1 DEF TxInv
  <1>4. \A t \in Threads : Numbering(t)' =>
          /\ Writing(t)' => th'[t].id < snap'[t].next.transaction
          /\ th'[t].phase = "done" => th'[t].id < disk'.next.transaction
    OBVIOUS
  <1>5. QED
    BY <1>2, <1>3, <1>4 DEF TxInv, TransactionIdsReusedOnlyIfUnwritten

\* A number is handed out once per process and, if written, once for all.
LEMMA TxNext ==
  ASSUME CoreInv, CoreInv', BeginPending, TxInv, [Next]_vars
  PROVE  TxInv'
  <1>1. /\ TypeOK /\ TypeOK' /\ NotAhead(disk.next, disk.next)
        /\ next.transaction \in Nat /\ next.transaction <= next.transaction
    BY Typed DEF CoreInv, NotAhead
  <1>2. ASSUME NEW t, NEW w, Section(t, w), w.phase \in {"idle", "persist", "done"},
               w.op # "nextTransaction", next'.transaction = next.transaction
        PROVE  TxInv'
    <2>1. /\ th'[t] = w /\ \A u \in Threads \ {t} : th'[u] = th[u]
          /\ \A u \in Threads : Writing(u)' <=> Writing(u)
          /\ up /\ UNCHANGED <<snap, disk, up, epoch, txGranted>>
      BY <1>2, SectionFacts
    <2>2. \A u \in Threads : Numbering(u)' =>
            /\ Numbering(u) /\ th'[u].id = th[u].id
            /\ Writing(u)' => th[u].id < snap'[u].next.transaction
            /\ th'[u].phase = "done" => th[u].id < disk'.next.transaction
      BY <1>2, <2>1 DEF Numbering, TxInv
    <2>3. QED
      BY <1>1, <1>2, <2>1, <2>2, NumbersNothing
  <1>3. ASSUME NEW t \in Threads, NEW w \in Thread, Spares(t, w), w.op = "nextTransaction"
        PROVE  TxInv'
    <2> DEFINE n == next.transaction
    <2>1. w.phase = "persist" /\ w.id = n /\ next'.transaction = n + 1
      BY <1>3 DEF Spares, Idle
    <2>2. /\ th'[t] = w /\ \A u \in Threads \ {t} : th'[u] = th[u]
          /\ \A u \in Threads : Writing(u)' <=> Writing(u)
          /\ up /\ UNCHANGED <<snap, disk, up, epoch, txGranted>>
          /\ th[t].op = "none" /\ th[t].phase = "idle"
      BY <1>3, <2>1, SectionFacts DEF Spares
    <2>3. disk.next.transaction <= n
      BY <2>2 DEF CoreInv, CountersAhead, NotAhead
    <2>4. \A g \in txGranted : g.id = n => g.epoch < epoch /\ ~g.written
      BY <1>1, <2>2, <2>3, TxTyped DEF TxInv
    <2>5. \A u \in Threads \ {t} : Numbering(u)' => Numbering(u) /\ th'[u].id = th[u].id /\ th[u].id < n
                                                     /\ th[u].id \in Nat
      BY <1>1, <2>2, TxTyped DEF Numbering, TxInv
    <2>6. \A g \in txGranted' : /\ g.epoch <= epoch'
                                /\ up' /\ g.epoch = epoch' => g.id < next'.transaction
                                /\ g.written => g.id < disk'.next.transaction
      BY <1>1, <2>1, <2>2, TxTyped DEF TxInv
    <2>7. th'[t].id = n /\ th'[t].phase = "persist" /\ ~Writing(t)'
      BY <2>1, <2>2 DEF Writing
    <2>8. \A u \in Threads \ {t} : Numbering(u)' =>
            /\ th'[u].id < next'.transaction
            /\ Writing(u)' => th'[u].id < snap'[u].next.transaction
            /\ th'[u].phase = "done" => th'[u].id < disk'.next.transaction
            /\ \A v \in Threads : Numbering(v)' /\ th'[v].id = th'[u].id => v = u
            /\ \A g \in txGranted' : g.id = th'[u].id => g.epoch < epoch' /\ ~g.written
      BY <1>1, <2>1, <2>2, <2>5, <2>7 DEF TxInv
    <2>9. /\ th'[t].id < next'.transaction
          /\ \A v \in Threads : Numbering(v)' /\ th'[v].id = th'[t].id => v = t
          /\ \A g \in txGranted' : g.id = th'[t].id => g.epoch < epoch' /\ ~g.written
      BY <1>1, <2>1, <2>2, <2>4, <2>5, <2>7
    <2>10. QED
      BY <2>2, <2>6, <2>7, <2>8, <2>9 DEF TxInv, TransactionIdsReusedOnlyIfUnwritten
  <1>4. ASSUME NEW t \in Threads, PersistSnapshot(t)
        PROVE  TxInv'
    <2>1. /\ up /\ snap'[t] = Persistable /\ th'[t].phase = "write"
          /\ \A u \in Threads : /\ th'[u].op = th[u].op /\ th'[u].id = th[u].id
                                /\ u # t => th'[u] = th[u]
                                /\ (Writing(u)' <=> u = t)
          /\ UNCHANGED <<next, disk, up, epoch, txGranted>>
      BY <1>4, SnapshotFacts
    <2>2. Persistable.next = next
      BY DEF Persistable
    <2>3. \A u \in Threads : Numbering(u)' =>
            /\ Numbering(u) /\ th'[u].id = th[u].id
            /\ Writing(u)' => th[u].id < snap'[u].next.transaction
            /\ th'[u].phase = "done" => th[u].id < disk'.next.transaction
      BY <2>1, <2>2 DEF Numbering, TxInv
    <2>4. QED
      BY <1>1, <2>1, <2>3, NumbersNothing
  <1>5. ASSUME NEW t \in Threads, PersistWrite(t) \/ PersistFail(t)
        PROVE  TxInv'
    <2>1. /\ up /\ up' /\ Writing(t)
          /\ \A u \in Threads : /\ th'[u].op = th[u].op /\ th'[u].id = th[u].id
                                /\ u # t => th'[u] = th[u]
                                /\ ~Writing(u)'
          /\ UNCHANGED <<next, epoch, txGranted>>
          /\ th'[t].phase = "done" => disk' = snap[t]
      BY <1>5, WriteFacts
    <2>2. NotAhead(disk.next, disk'.next)
      BY <1>1, <1>5, WriteFacts, PersistWriteInv
    <2>3. disk.next.transaction <= disk'.next.transaction /\ disk.next.transaction \in Nat
            /\ disk'.next.transaction \in Nat /\ \A u \in Threads : th[u].id \in Nat
      BY <1>1, <2>2, TxTyped DEF NotAhead, TypeOK, File, Counters
    <2>4. \A u \in Threads : Numbering(u)' =>
            /\ Numbering(u) /\ th'[u].id = th[u].id
            /\ th'[u].phase = "done" => th[u].id < disk'.next.transaction
      BY <2>1, <2>3 DEF Numbering, TxInv
    <2>5. QED
      BY <1>1, <2>1, <2>2, <2>4, NumbersNothing
  <1>6. ASSUME NEW t \in Threads, BeginReturn(t) \/ (Return(t) /\ ~Numbering(t))
        PROVE  TxInv'
    <2>1. /\ up /\ up' = up /\ th'[t].op = "none"
          /\ \A u \in Threads : u # t => th'[u] = th[u]
          /\ \A u \in Threads : Writing(u)' <=> Writing(u)
          /\ UNCHANGED <<next, snap, disk, epoch>>
      BY <1>6, ReturnFacts
    <2>2. txGranted' = txGranted
      BY <1>6 DEF BeginReturn, Return, Numbering
    <2>3. \A u \in Threads : Numbering(u)' =>
            /\ Numbering(u) /\ th'[u].id = th[u].id
            /\ Writing(u)' => th[u].id < snap'[u].next.transaction
            /\ th'[u].phase = "done" => th[u].id < disk'.next.transaction
      BY <2>1 DEF Numbering, TxInv
    <2>4. QED
      BY <1>1, <2>1, <2>2, <2>3, NumbersNothing
  <1>7. ASSUME NEW t \in Threads, Return(t), Numbering(t)
        PROVE  TxInv'
    <2> DEFINE new == [epoch |-> epoch, id |-> th[t].id, written |-> th[t].phase = "done"]
    <2>1. /\ up /\ up' = up /\ th'[t].op = "none"
          /\ \A u \in Threads : u # t => th'[u] = th[u]
          /\ \A u \in Threads : Writing(u)' <=> Writing(u)
          /\ UNCHANGED <<next, snap, disk, epoch>>
      BY <1>7, ReturnFacts
    <2>2. txGranted' = txGranted \cup {new}
      BY <1>7 DEF Return, Numbering
    <2>3. /\ new.epoch = epoch /\ new.id = th[t].id /\ (new.written <=> th[t].phase = "done")
          /\ th[t].id < next.transaction /\ epoch \in Nat
          /\ th[t].phase = "done" => th[t].id < disk.next.transaction
          /\ \A g \in txGranted : g.id = th[t].id => g.epoch < epoch /\ ~g.written
          /\ \A u \in Threads : Numbering(u) /\ th[u].id = th[t].id => u = t
      BY <1>1, <1>7, TxTyped DEF TxInv
    <2> HIDE DEF new
    <2>4. \A g \in txGranted' : /\ g.epoch <= epoch'
                                /\ up' /\ g.epoch = epoch' => g.id < next'.transaction
                                /\ g.written => g.id < disk'.next.transaction
      BY <2>1, <2>2, <2>3 DEF TxInv
    <2>5. \A u \in Threads : Numbering(u)' => u # t /\ Numbering(u) /\ th'[u] = th[u] /\ th[u].id # th[t].id
      BY <2>1, <2>3 DEF Numbering
    <2>6. \A u \in Threads : Numbering(u)' =>
            /\ th'[u].id < next'.transaction
            /\ Writing(u)' => th'[u].id < snap'[u].next.transaction
            /\ th'[u].phase = "done" => th'[u].id < disk'.next.transaction
            /\ \A v \in Threads : Numbering(v)' /\ th'[v].id = th'[u].id => v = u
            /\ \A g \in txGranted' : g.id = th'[u].id => g.epoch < epoch' /\ ~g.written
      BY <2>1, <2>2, <2>3, <2>5 DEF TxInv
    <2>7. TransactionIdsReusedOnlyIfUnwritten'
      BY <1>1, <2>2, <2>3, TxTyped DEF TxInv, TransactionIdsReusedOnlyIfUnwritten
    <2>8. QED
      BY <2>4, <2>6, <2>7 DEF TxInv
  <1>8. CASE Waits
    <2>1. UNCHANGED <<th, next, snap, disk, up, epoch, txGranted>>
      BY <1>8 DEF Waits
    <2>2. QED
      BY <2>1 DEF TxInv, Numbering, Writing, TransactionIdsReusedOnlyIfUnwritten
  <1>9. CASE Crash
    <2>1. /\ up' = FALSE /\ UNCHANGED <<disk, epoch, txGranted>>
          /\ \A u \in Threads : ~Numbering(u)'
      BY <1>9 DEF Crash, Numbering, Idle
    <2>2. QED
      BY <1>1, <2>1, NumbersNothing
  <1>10. CASE \E dropped \in SUBSET disk.reservations : Restart(dropped)
    <2>1. ~up /\ UNCHANGED <<disk, txGranted>> /\ epoch' = epoch + 1
      BY <1>10 DEF Restart
    <2>2. \A t \in Threads : th[t] = Idle
      BY <2>1 DEF CoreInv, DownIsEmpty
    <2>3. \A t \in Threads : ~Numbering(t)'
      BY <1>1, <1>10, <2>2 DEF Restart, Enter, Idle, TypeOK, Numbering
    <2>4. \A g \in txGranted : g.epoch < epoch'
      BY <1>1, <2>1, TxTyped DEF TxInv
    <2>5. QED
      BY <1>1, <2>1, <2>3, <2>4, TxTyped DEF TxInv, TransactionIdsReusedOnlyIfUnwritten
  <1>11. ASSUME NEW t \in Threads, NEW w \in Thread,
                \/ \E r \in Reservation : Makes(t, w, r)
                \/ \E r \in reservations, q \in Reservation : Moves(t, w, r, q)
                \/ \E r \in reservations : Removes(t, w, r)
                \/ Spares(t, w)
         PROVE  TxInv'
    <2>1. Section(t, w) /\ w.phase \in {"idle", "persist", "done"}
      BY <1>11 DEF Makes, Moves, Removes, Spares, Idle
    <2>2. CASE w.op # "nextTransaction"
      <3>1. next'.transaction = next.transaction
        BY <1>11, <2>2 DEF Makes, Moves, Removes, Spares
      <3>2. QED
        BY <1>2, <2>1, <2>2, <3>1
    <2>3. CASE w.op = "nextTransaction"
      BY <1>3, <1>11, <2>3 DEF Makes, Moves, Removes
    <2>4. QED
      BY <2>2, <2>3
  <1>12. QED
    BY <1>4, <1>5, <1>6, <1>7, <1>8, <1>9, <1>10, <1>11, Steps DEF Step

(* persist would write the same again unless an active record, a session or *)
(* a counter has changed.                                                   *)
LEMMA SamePersistable ==
  ASSUME UNCHANGED <<transactions, next>>,
         \A r : r.status = "active" => (r \in reservations' <=> r \in reservations)
  PROVE  Persistable' = Persistable
  <1>1. {q \in reservations : q.status = "active"}' = {q \in reservations : q.status = "active"}
    OBVIOUS
  <1>2. QED
    BY <1>1 DEF Persistable

\* No goroutine has changed memory and not yet taken its snapshot.
Settled == up /\ \A t \in Threads : th[t].phase # "persist"

(* A step that changes neither what persist would write, nor who writes what. *)
LEMMA StaysInStep ==
  ASSUME StepInv, Persistable' = Persistable,
         Settled' => Settled,
         \A t \in Threads : Writing(t)' <=> Writing(t),
         UNCHANGED <<next, snap, disk, dirty, transactions>>
  PROVE  StepInv'
  <1>1. Matching => Matching'
    BY DEF Matching
  <1>2. QED
    BY <1>1 DEF StepInv, Settled

\* Whoever changes memory goes on to a snapshot of its own.
LEMMA StepNext ==
  ASSUME CoreInv, CoreInv', BeginPending, StepInv, [Next]_vars
  PROVE  StepInv'
  <1>1. TypeOK /\ TypeOK' /\ \A r, q \in reservations : r.id = q.id => r = q
    BY DEF CoreInv, RecordsUnique, Unique
  <1>2. ASSUME NEW t, NEW w, Section(t, w), w.phase = "persist"
        PROVE  StepInv'
    BY <1>2, SectionFacts DEF StepInv
  <1>3. ASSUME NEW t, NEW w, Section(t, w), w.phase \in {"idle", "done"},
               UNCHANGED <<transactions, next>>,
               \A r : r.status = "active" => (r \in reservations' <=> r \in reservations)
        PROVE  StepInv'
    <2>1. /\ \A u \in Threads : Writing(u)' <=> Writing(u)
          /\ th[t].phase # "persist" /\ up /\ \A u \in Threads \ {t} : th'[u] = th[u]
          /\ UNCHANGED <<snap, disk, dirty, up>>
      BY <1>3, SectionFacts
    <2>2. Persistable' = Persistable
      BY <1>3, SamePersistable
    <2>3. Settled' => Settled
      BY <2>1 DEF Settled
    <2>4. QED
      BY <1>3, <2>1, <2>2, <2>3, StaysInStep
  <1>4. ASSUME NEW t \in Threads, NEW w \in Thread,
               \/ \E r \in Reservation : Makes(t, w, r)
               \/ \E r \in reservations, q \in Reservation : Moves(t, w, r, q)
               \/ \E r \in reservations : Removes(t, w, r)
               \/ Spares(t, w)
        PROVE  StepInv'
    <2>1. Section(t, w)
      BY <1>4 DEF Makes, Moves, Removes, Spares
    <2>2. CASE w.phase = "persist"
      BY <1>2, <2>1, <2>2
    <2>3. CASE w.phase # "persist"
      <3>1. w.phase \in {"idle", "done"} /\ UNCHANGED <<transactions, next>>
        BY <1>4, <2>3 DEF Makes, Moves, Removes, Spares, Idle
      <3>2. \A r : r.status = "active" => (r \in reservations' <=> r \in reservations)
        BY <1>4, <2>3 DEF Makes, Moves, Removes, Spares
      <3>3. QED
        BY <1>3, <2>1, <3>1, <3>2
    <2>4. QED
      BY <2>2, <2>3
  <1>5. ASSUME NEW t \in Threads, PersistSnapshot(t)
        PROVE  StepInv'
    <2>1. /\ snap'[t] = Persistable /\ \A u \in Threads : Writing(u)' <=> u = t
          /\ UNCHANGED <<reservations, transactions, next>>
      BY <1>5, SnapshotFacts
    <2>2. Persistable' = Persistable
      BY <2>1, SamePersistable
    <2>3. QED
      BY <2>1, <2>2 DEF StepInv
  <1>6. ASSUME NEW t \in Threads, PersistWrite(t) \/ PersistFail(t)
        PROVE  StepInv'
    <2>1. /\ up /\ Writing(t) /\ th'[t].phase # "persist" /\ th[t].phase # "persist"
          /\ \A u \in Threads : ~Writing(u)' /\ (u # t => th'[u] = th[u])
          /\ UNCHANGED <<reservations, transactions, next>>
          /\ ~dirty' => disk' = snap[t]
      <3>1. th[t].phase # "persist"
        BY <1>6 DEF PersistWrite, PersistFail
      <3>2. ~dirty' => disk' = snap[t]
        BY <1>6 DEF PersistWrite, PersistFail
      <3>3. QED
        BY <1>6, <3>1, <3>2, WriteFacts
    <2>2. Persistable' = Persistable
      BY <2>1, SamePersistable
    <2>3. ASSUME Settled', ~dirty'
          PROVE  Matching'
      <3>1. Settled
        BY <2>1, <2>3 DEF Settled
      <3>2. disk' = Persistable
        BY <2>1, <2>3, <3>1 DEF StepInv, Settled
      <3>3. /\ Persistable.transactions = transactions /\ Persistable.next = next
        BY DEF Persistable
      <3>4. \A c \in DOMAIN next : next[c] # 0
        <4>1. DOMAIN next = {"reservation", "transaction", "remoteStart"}
          BY <1>1 DEF TypeOK, Counters
        <4>2. next.reservation # 0 /\ next.transaction # 0 /\ next.remoteStart # 0
          BY <2>1 DEF CoreInv, CountersAhead
        <4>3. QED
          BY <4>1, <4>2
      <3>5. QED
        BY <2>1, <2>2, <3>2, <3>3, <3>4 DEF Matching
    <2>4. QED
      BY <2>1, <2>3 DEF StepInv, Settled
  <1>7. ASSUME NEW t \in Threads, BeginReturn(t) \/ Return(t)
        PROVE  StepInv'
    <2>1. /\ up /\ up' = up /\ th[t].phase # "persist"
          /\ \A u \in Threads : u # t => th'[u] = th[u]
          /\ \A u \in Threads : Writing(u)' <=> Writing(u)
          /\ UNCHANGED <<transactions, next, snap, disk, dirty>>
      BY <1>7, ReturnFacts
    <2>2. \A r : r.status = "active" => (r \in reservations' <=> r \in reservations)
      <3>1. CASE BeginReturn(t)
        <4>1. PICK p \in reservations : p.id = th[t].id /\ p.status = "pending"
          BY <3>1 DEF BeginReturn, BeginPending
        <4>2. \A r \in reservations : r.id = th[t].id => r.status = "pending"
          BY <1>1, <4>1
        <4>3. QED
          BY <3>1, <4>2 DEF BeginReturn
      <3>2. CASE Return(t)
        BY <3>2 DEF Return, memory
      <3>3. QED
        BY <1>7, <3>1, <3>2
    <2>3. Persistable' = Persistable
      BY <2>1, <2>2, SamePersistable
    <2>4. Settled' => Settled
      BY <2>1 DEF Settled
    <2>5. QED
      BY <2>1, <2>3, <2>4, StaysInStep
  <1>8. CASE Waits
    <2>1. UNCHANGED <<reservations, transactions, next, th, snap, disk, up, dirty>>
      BY <1>8 DEF Waits
    <2>2. Persistable' = Persistable
      BY <2>1, SamePersistable
    <2>3. QED
      BY <2>1, <2>2, StaysInStep DEF Settled, Writing
  <1>9. CASE Crash
    BY <1>9 DEF Crash, StepInv
  <1>10. ASSUME NEW dropped \in SUBSET disk.reservations, Restart(dropped)
         PROVE  StepInv'
    <2>1. /\ ~up /\ transactions' = disk.transactions /\ disk' = disk
          /\ \A u \in Threads : th[u] = Idle
      BY <1>10 DEF Restart, CoreInv, DownIsEmpty
    <2>2. CASE dropped # {}
      <3>1. th'[Main].phase = "persist" /\ Main \in Threads
        BY <1>1, <1>10, <2>2 DEF Restart, Enter, TypeOK, Threads
      <3>2. QED
        BY <3>1 DEF StepInv
    <2>3. CASE dropped = {}
      <3> DEFINE Loaded(r) == [id |-> r.id, evse |-> r.evse, tag |-> r.tag, status |-> "active"]
      <3>1. reservations' = {Loaded(r) : r \in disk.reservations}
        BY <1>10, <2>3 DEF Restart
      <3>2. Persistable.reservations' = disk.reservations
        <4>1. Persistable.reservations' =
                {[id |-> q.id, evse |-> q.evse, tag |-> q.tag] : q \in {p \in reservations' : p.status = "active"}}
          BY DEF Persistable
        <4>2. {p \in reservations' : p.status = "active"} = reservations'
          BY <3>1
        <4>3. disk.reservations \subseteq StoredReservation
          BY <1>1 DEF TypeOK, File
        <4>4. \A r \in StoredReservation : r = [id |-> r.id, evse |-> r.evse, tag |-> r.tag]
          BY DEF StoredReservation
        <4>5. \A r : Loaded(r).id = r.id /\ Loaded(r).evse = r.evse /\ Loaded(r).tag = r.tag
          OBVIOUS
        <4> HIDE DEF Loaded
        <4>6. QED
          BY <3>1, <4>1, <4>2, <4>3, <4>4, <4>5
      <3>3. \A u \in Threads : ~Writing(u)'
        BY <1>10, <2>1, <2>3 DEF Restart, Writing, Idle
      <3>4. \A c \in DOMAIN next' : next'[c] = (IF disk.next[c] = 0 THEN 1 ELSE disk.next[c])
        <4>1. \A r \in disk.reservations : r.id < disk.next.reservation
          BY DEF CoreInv, IdsCounted, Counted
        <4>2. AtLeast(disk.next.reservation, {r.id : r \in disk.reservations})
                = IF disk.next.reservation = 0 THEN 1 ELSE disk.next.reservation
          BY <1>1, <4>1, Typed, AtLeastCounter
        <4>3. AtLeast(disk.next.transaction, {x.id : x \in disk.transactions})
                = IF disk.next.transaction = 0 THEN 1 ELSE disk.next.transaction
          BY <1>1, Typed, AtLeastCounter DEF CoreInv, IdsCounted, Counted
        <4>4. AtLeast(disk.next.remoteStart, {})
                = IF disk.next.remoteStart = 0 THEN 1 ELSE disk.next.remoteStart
          BY <1>1, Typed, AtLeastCounter
        <4>5. next' = [reservation |-> AtLeast(disk.next.reservation, {r.id : r \in disk.reservations}),
                       transaction |-> AtLeast(disk.next.transaction, {x.id : x \in disk.transactions}),
                       remoteStart |-> AtLeast(disk.next.remoteStart, {})]
          BY <1>10, <2>3 DEF Restart
        <4>6. QED
          BY <4>2, <4>3, <4>4, <4>5
      <3>5. Matching'
        BY <2>1, <3>2, <3>4 DEF Matching
      <3>6. QED
        BY <3>3, <3>5 DEF StepInv
    <2>4. QED
      BY <2>2, <2>3
  <1>11. QED
    BY <1>4, <1>5, <1>6, <1>7, <1>8, <1>9, <1>10, Steps DEF Step

LEMMA StoredFields == \A r : Stored(r).id = r.id /\ Stored(r).evse = r.evse
  BY DEF Stored

(* What Persistable says in terms of Stored. *)
LEMMA PersistableStored ==
  ASSUME NEW s
  PROVE  s \in Persistable.reservations <=>
           \E r \in reservations : r.status = "active" /\ s = Stored(r)
  BY DEF Persistable, Stored

\* The goroutine is about to return i to its caller.
Granting(i) ==
  \E u \in Threads : th[u].op = "begin" /\ th[u].id = i /\ th[u].phase \in {"write", "done"}

(* A step that makes no record and touches neither snapshots nor the file. *)
LEMMA LedgerKept ==
  ASSUME LedgerInv,
         \A r \in reservations' : \E q \in reservations :
           /\ r.id = q.id /\ Stored(r) = Stored(q)
           /\ Known(r)' => Known(q) \/ Granting(q.id),
         \A u \in Threads : th'[u].op = "begin" => th'[u] = th[u],
         \A u \in Threads : Writing(u)' <=> Writing(u),
         UNCHANGED <<snap, disk>>
  PROVE  LedgerInv'
  <1>1. \A r \in reservations' : \E q \in reservations :
          /\ r.id = q.id /\ r.evse = q.evse /\ Stored(r) = Stored(q)
          /\ Known(r)' => Known(q) \/ Granting(q.id)
    BY StoredFields
  <1>2. SameData'
    <2>1. \A r : Stored(r)' = Stored(r)
      BY DEF Stored
    <2>2. QED
      BY <1>1, <2>1 DEF LedgerInv, SameData
  <1>3. NotCarried'
    BY <1>1 DEF LedgerInv, NotCarried, Absent
  <1>4. OneIsOpen'
    <2> SUFFICES ASSUME NEW t \in Threads, NEW r \in reservations', Writing(t)',
                        NEW s \in snap'[t].reservations, r.evse = s.evse
                 PROVE  /\ Known(r)' => r.id = s.id
                        /\ \A u \in Threads : ~(/\ th'[u].op = "begin" /\ th'[u].id = r.id
                                                /\ th'[u].phase \in {"write", "done"})
      BY DEF OneIsOpen
    <2>1. PICK q \in reservations : /\ r.id = q.id /\ r.evse = q.evse
                                    /\ Known(r)' => Known(q) \/ Granting(q.id)
      BY <1>1
    <2>2. Writing(t) /\ s \in snap[t].reservations
      OBVIOUS
    <2>3. q.evse = s.evse
      BY <2>1
    <2>4. Known(q) => q.id = s.id
      BY <2>2, <2>3 DEF LedgerInv, OneIsOpen
    <2>5. \A u \in Threads : ~(/\ th[u].op = "begin" /\ th[u].id = q.id
                               /\ th[u].phase \in {"write", "done"})
      BY <2>2, <2>3 DEF LedgerInv, OneIsOpen
    <2>6. ~Granting(q.id)
      BY <2>5 DEF Granting
    <2>7. QED
      BY <2>1, <2>4, <2>5, <2>6
  <1>5. QED
    BY <1>2, <1>3, <1>4 DEF LedgerInv

\* What a write carries to the file, and leaves out of it, is settled.
LEMMA LedgerNext ==
  ASSUME CoreInv, CoreInv', BeginPending, LedgerInv, [Next]_vars
  PROVE  LedgerInv'
  <1>1. /\ TypeOK /\ TypeOK'
        /\ \A r, q \in reservations : r.id = q.id \/ r.evse = q.evse => r = q
    BY DEF CoreInv, RecordsUnique, Unique
  <1>2. \A r : Stored(r)' = Stored(r)
    BY DEF Stored
  <1>3. ASSUME NEW t \in Threads, NEW w \in Thread, NEW r \in Reservation, Makes(t, w, r)
        PROVE  LedgerInv'
    <2>1. /\ th'[t] = w /\ \A u \in Threads \ {t} : th'[u] = th[u]
          /\ \A u \in Threads : Writing(u)' <=> Writing(u)
          /\ UNCHANGED <<snap, disk>> /\ up
          /\ reservations' = reservations \cup {r} /\ r.id = next.reservation
          /\ w.op = "begin" /\ w.phase = "persist" /\ w.id = r.id /\ th[t].op = "none"
      BY <1>3, SectionFacts DEF Makes
    <2>2. /\ Absent(r.id, disk.reservations)
          /\ \A u \in Threads : Writing(u) => Absent(r.id, snap[u].reservations)
      BY <1>1, <2>1, Typed DEF CoreInv, IdsCounted, Counted, CountersAhead, NotAhead, Absent
    <2>3. SameData'
      BY <1>2, <2>1, <2>2 DEF LedgerInv, SameData, Absent
    <2>4. NotCarried'
      BY <2>1, <2>2 DEF LedgerInv, NotCarried, Absent
    <2>5. ~Known(r)' /\ \A q \in reservations : Known(q)' => Known(q)
      BY <2>1 DEF Known
    <2>6. \A u \in Threads : th'[u].op = "begin" /\ th'[u].phase \in {"write", "done"}
            => th'[u] = th[u] /\ th[u].id # r.id
      BY <1>1, <2>1, Typed DEF CoreInv, BeginsFresh
    <2>7. OneIsOpen'
      BY <2>1, <2>5, <2>6 DEF LedgerInv, OneIsOpen
    <2>8. QED
      BY <2>3, <2>4, <2>7 DEF LedgerInv
  <1>4. ASSUME NEW t, NEW w, Section(t, w), w.phase # "write", w.op # "begin",
               \A r \in reservations' : \E q \in reservations : r.id = q.id /\ Stored(r) = Stored(q)
        PROVE  LedgerInv'
    <2>1. /\ th'[t] = w /\ \A u \in Threads \ {t} : th'[u] = th[u]
          /\ \A u \in Threads : Writing(u)' <=> Writing(u)
          /\ UNCHANGED <<snap, disk>> /\ th[t].op = "none"
      BY <1>4, SectionFacts
    <2>2. \A r, q : r.id = q.id /\ Known(r)' => Known(q)
      BY <2>1 DEF Known
    <2>3. \A u \in Threads : th'[u].op = "begin" => th'[u] = th[u]
      BY <1>4, <2>1
    <2>4. QED
      BY <1>4, <2>1, <2>2, <2>3, LedgerKept
  <1>5. ASSUME NEW t \in Threads, NEW w \in Thread,
               \/ \E r \in reservations, q \in Reservation : Moves(t, w, r, q)
               \/ \E r \in reservations : Removes(t, w, r)
               \/ Spares(t, w)
        PROVE  LedgerInv'
    <2>1. Section(t, w) /\ w.phase # "write" /\ w.op # "begin"
      BY <1>5 DEF Moves, Removes, Spares, Idle
    <2>2. \A r \in reservations' : \E q \in reservations : r.id = q.id /\ Stored(r) = Stored(q)
      BY <1>5 DEF Moves, Removes, Spares
    <2>3. QED
      BY <1>4, <2>1, <2>2
  <1>6. ASSUME NEW t \in Threads, PersistSnapshot(t)
        PROVE  LedgerInv'
    <2>1. /\ snap'[t].reservations = Persistable.reservations
          /\ \A u \in Threads : /\ th'[u].op = th[u].op /\ th'[u].id = th[u].id
                                /\ Writing(u)' <=> u = t
          /\ UNCHANGED <<reservations, disk>>
      BY <1>6, SnapshotFacts
    <2>2. SameData'
      BY <1>1, <1>2, <2>1, PersistableStored, StoredFields DEF LedgerInv, SameData
    <2>3. ASSUME NEW s \in disk.reservations, NEW r \in reservations, r.id = s.id
          PROVE  s \in Persistable.reservations
      <3>1. Stored(r) = s
        BY <2>3 DEF LedgerInv, SameData
      <3>2. r.status = "active"
        BY <2>3 DEF CoreInv, OnlyActiveWritten, Absent
      <3>3. QED
        BY <3>1, <3>2, PersistableStored
    <2>4. NotCarried'
      BY <2>1, <2>3 DEF NotCarried, Absent
    <2>5. ASSUME NEW r \in reservations, NEW s \in Persistable.reservations, r.evse = s.evse
          PROVE  r.id = s.id /\ r.status = "active"
      <3>1. PICK q \in reservations : q.status = "active" /\ s = Stored(q)
        BY PersistableStored
      <3>2. QED
        BY <1>1, <2>5, <3>1, StoredFields
    <2>6. \A u \in Threads, r \in reservations : th[u].op = "begin" /\ th[u].id = r.id => r.status = "pending"
      BY <1>1 DEF BeginPending
    <2>7. OneIsOpen'
      BY <2>1, <2>5, <2>6 DEF OneIsOpen
    <2>8. QED
      BY <2>2, <2>4, <2>7 DEF LedgerInv
  <1>7. ASSUME NEW t \in Threads, PersistWrite(t) \/ PersistFail(t)
        PROVE  LedgerInv'
    <2>1. /\ Writing(t) /\ (disk' = snap[t] \/ disk' = disk) /\ reservations' = reservations
          /\ \A u \in Threads : ~Writing(u)'
      BY <1>7, WriteFacts
    <2>2. SameData'
      BY <1>2, <2>1 DEF LedgerInv, SameData
    <2>3. QED
      BY <2>1, <2>2 DEF LedgerInv, NotCarried, OneIsOpen
  <1>8. ASSUME NEW t \in Threads, BeginReturn(t) \/ Return(t)
        PROVE  LedgerInv'
    <2>1. /\ \A u \in Threads : u # t => th'[u] = th[u]
          /\ \A u \in Threads : Writing(u)' <=> Writing(u)
          /\ UNCHANGED <<snap, disk>> /\ th'[t].op = "none"
      BY <1>8, ReturnFacts
    <2>2. reservations' \subseteq reservations
      BY <1>8 DEF BeginReturn, Return, memory
    <2>3. \A r \in reservations' : Known(r)' => Known(r) \/ Granting(r.id)
      <3>1. CASE Return(t)
        BY <2>1, <3>1 DEF Return, Known
      <3>2. CASE BeginReturn(t) /\ th[t].phase = "done"
        BY <2>1, <3>2 DEF BeginReturn, Known, Granting
      <3>3. CASE BeginReturn(t) /\ th[t].phase = "failed"
        BY <2>1, <3>3 DEF BeginReturn, Known
      <3>4. QED
        BY <1>8, <3>1, <3>2, <3>3 DEF BeginReturn
    <2>4. \A u \in Threads : th'[u].op = "begin" => th'[u] = th[u]
      BY <2>1
    <2>5. QED
      BY <2>1, <2>2, <2>3, <2>4, LedgerKept
  <1>9. CASE Waits
    <2>1. UNCHANGED <<reservations, th, snap, disk>>
      BY <1>9 DEF Waits
    <2>2. \A r : Known(r)' => Known(r)
      BY <2>1 DEF Known
    <2>3. QED
      BY <2>1, <2>2, LedgerKept DEF Writing
  <1>10. CASE Crash
    <2>1. reservations' = {} /\ \A u \in Threads : ~Writing(u)'
      BY <1>10 DEF Crash, Writing, Idle
    <2>2. QED
      BY <2>1 DEF LedgerInv, SameData, NotCarried, OneIsOpen
  <1>11. ASSUME NEW dropped \in SUBSET disk.reservations, Restart(dropped)
         PROVE  LedgerInv'
    <2>1. \A u \in Threads : th[u] = Idle
      BY <1>11 DEF Restart, CoreInv, DownIsEmpty
    <2>2. \A u \in Threads : ~Writing(u)'
      BY <1>1, <1>11, <2>1 DEF Restart, Enter, Writing, Idle, TypeOK
    <2>3. \A r \in reservations' : \E k \in disk.reservations : r.id = k.id /\ Stored(r) = k
      <3>1. \A k \in disk.reservations : k \in StoredReservation
        BY <1>1 DEF TypeOK, File
      <3>2. \A k \in StoredReservation : k = [id |-> k.id, evse |-> k.evse, tag |-> k.tag]
        BY DEF StoredReservation
      <3>3. QED
        BY <1>11, <3>1, <3>2 DEF Restart, Stored
    <2>4. disk' = disk /\ \A k, s \in disk.reservations : k.id = s.id => k = s
      BY <1>11 DEF Restart, CoreInv, RecordsUnique, Unique
    <2>5. SameData'
      BY <1>2, <2>2, <2>3, <2>4 DEF SameData
    <2>6. QED
      BY <2>2, <2>5 DEF LedgerInv, NotCarried, OneIsOpen
  <1>12. QED
    BY <1>3, <1>5, <1>6, <1>7, <1>8, <1>9, <1>10, <1>11, Steps DEF Step
-----------------------------------------------------------------------------
(* Core implements the ledger: one lemma per kind of step. *)

\* A caller knows the reservation, or a write of it is under way.
InHand(s) == \/ \E r \in reservations : Known(r) /\ s = Stored(r)
             \/ \E t \in Threads : Writing(t) /\ s \in snap[t].reservations

LEMMA OpenMember ==
  \A s : s \in OpenRecords <=> InHand(s) /\ s \notin disk.reservations
  BY DEF OpenRecords, InHand, Writing

LEMMA NextOpenMember ==
  \A s : s \in OpenRecords' <=> InHand(s)' /\ s \notin disk'.reservations
  <1>1. \A s : Stored(s)' = Stored(s)
    BY DEF Stored
  <1>2. QED
    BY <1>1 DEF OpenRecords, InHand, Writing

LEMMA StruckMember ==
  \A s : s \in StruckRecords <=> up /\ s \in disk.reservations /\ Absent(s.id, reservations)
  BY DEF StruckRecords, Absent

LEMMA NextStruckMember ==
  \A s : s \in StruckRecords' <=> up' /\ s \in disk'.reservations /\ Absent(s.id, reservations')
  BY DEF StruckRecords, Absent

\* A step that keeps what is open and struck is a stutter of the ledger.
LEMMA LedgerStutters ==
  ASSUME \A s : InHand(s)' <=> InHand(s),
         \A s \in disk.reservations : Absent(s.id, reservations') <=> Absent(s.id, reservations),
         UNCHANGED <<disk, granted, up>>
  PROVE  UNCHANGED ReservationLedger!vars
  <1>1. OpenRecords' = OpenRecords
    BY OpenMember, NextOpenMember
  <1>2. StruckRecords' = StruckRecords
    BY StruckMember, NextStruckMember
  <1>3. QED
    BY <1>1, <1>2 DEF ReservationLedger!vars

(* Of all that is in hand, each EVSE has one. *)
LEMMA InHandExclusive ==
  ASSUME CoreInv, LedgerInv, NEW a, NEW b, InHand(a), InHand(b), a.evse = b.evse
  PROVE  a = b
  <1>1. \A r, q \in reservations : r.id = q.id \/ r.evse = q.evse => r = q
    BY DEF CoreInv, RecordsUnique, Unique
  <1>2. ASSUME NEW r \in reservations, Known(r), NEW t \in Threads, Writing(t),
               NEW s \in snap[t].reservations, r.evse = s.evse
        PROVE  s = Stored(r)
    BY <1>2 DEF LedgerInv, OneIsOpen, SameData
  <1>3. ASSUME NEW t \in Threads, Writing(t), NEW u \in Threads, Writing(u)
        PROVE  t = u /\ \A r, s \in snap[t].reservations : r.evse = s.evse => r = s
    BY <1>3 DEF CoreInv, LockMatchesWriter, RecordsUnique, Unique
  <1>4. CASE (\E r \in reservations : Known(r) /\ a = Stored(r)) /\ (\E r \in reservations : Known(r) /\ b = Stored(r))
    BY <1>1, <1>4, StoredFields
  <1>5. CASE (\E r \in reservations : Known(r) /\ a = Stored(r))
             /\ (\E t \in Threads : Writing(t) /\ b \in snap[t].reservations)
    BY <1>2, <1>5, StoredFields
  <1>6. CASE (\E r \in reservations : Known(r) /\ b = Stored(r))
             /\ (\E t \in Threads : Writing(t) /\ a \in snap[t].reservations)
    BY <1>2, <1>6, StoredFields
  <1>7. CASE (\E t \in Threads : Writing(t) /\ a \in snap[t].reservations)
             /\ (\E t \in Threads : Writing(t) /\ b \in snap[t].reservations)
    BY <1>3, <1>7
  <1>8. QED
    BY <1>4, <1>5, <1>6, <1>7 DEF InHand

LEMMA NextInHandExclusive ==
  CoreInv' /\ LedgerInv' => (\A a, b : InHand(a) /\ InHand(b) /\ a.evse = b.evse => a = b)'
  <1>1. CoreInv /\ LedgerInv => \A a, b : InHand(a) /\ InHand(b) /\ a.evse = b.evse => a = b
    BY InHandExclusive
  <1>2. QED
    BY <1>1, PTL

(* BeginReservation returns: the caller learns the id. *)
LEMMA ReturnGives ==
  ASSUME CoreInv, CoreInv', BeginPending, LedgerInv, LedgerInv', NEW t \in Threads, BeginReturn(t),
         th[t].phase = "done"
  PROVE  ReservationLedger!Next
  <1>1. /\ \A u \in Threads : u # t => th'[u] = th[u]
        /\ \A u \in Threads : Writing(u)' <=> Writing(u)
        /\ UNCHANGED <<snap, disk, up>> /\ th'[t].op = "none"
    BY ReturnFacts
  <1>2. th[t].op = "begin" /\ reservations' = reservations /\ granted' = granted \cup {<<epoch, th[t].id>>}
    BY DEF BeginReturn
  <1>3. PICK p \in reservations : p.id = th[t].id /\ p.status = "pending"
    BY <1>2 DEF BeginPending
  <1>4. Stored(p) \in StoredReservation /\ Stored(p).id = th[t].id
    BY <1>3 DEF CoreInv, TypeOK, Reservation, StoredReservation, Stored
  <1>5. Stored(p).id \notin {g[2] : g \in granted}
    BY <1>2, <1>4 DEF CoreInv, BeginsFresh
  <1>6. {g[2] : g \in granted'} = {g[2] : g \in granted} \cup {Stored(p).id}
    <2> DEFINE new == <<epoch, th[t].id>>
    <2>1. new[2] = Stored(p).id
      BY <1>4
    <2> HIDE DEF new
    <2>2. granted' = granted \cup {new}
      BY <1>2 DEF new
    <2>3. QED
      BY <2>1, <2>2
  <1>7. \A r \in reservations : r.id = p.id => r = p
    BY DEF CoreInv, RecordsUnique, Unique
  <1>8. \A r \in reservations : Known(r)' <=> Known(r) \/ r = p
    <2>1. Known(p)'
      BY <1>1, <1>2, <1>3 DEF CoreInv, BeginsFresh, Known
    <2>2. \A r \in reservations : r.id # p.id => (Known(r)' <=> Known(r))
      BY <1>1, <1>3 DEF Known
    <2>3. QED
      BY <1>7, <2>1, <2>2
  <1>9. \A s : InHand(s)' <=> InHand(s) \/ s = Stored(p)
    <2>1. \A s : Stored(s)' = Stored(s)
      BY DEF Stored
    <2>2. QED
      BY <1>1, <1>2, <1>8, <2>1 DEF InHand
  <1>10. Stored(p) \notin disk.reservations
    BY <1>3, <1>4 DEF CoreInv, OnlyActiveWritten, Absent
  <1>11. OpenRecords' = OpenRecords \cup {Stored(p)}
    BY <1>1, <1>9, <1>10, OpenMember, NextOpenMember
  <1>12. StruckRecords' = StruckRecords
    BY <1>1, <1>2, StruckMember, NextStruckMember
  <1>13. \A a, b \in OpenRecords' : a.evse = b.evse => a = b
    BY NextInHandExclusive, NextOpenMember
  <1>14. ReservationLedger!Give(Stored(p))
    BY <1>1, <1>5, <1>6, <1>11, <1>12, <1>13 DEF ReservationLedger!Give, ReservationLedger!Exclusive
  <1>15. QED
    BY <1>4, <1>14 DEF ReservationLedger!Next

(* A record leaves memory: it is struck out if the file has it, and dropped  *)
(* if nothing is about to put it there.                                     *)
LEMMA RemovalStrikes ==
  ASSUME CoreInv, LedgerInv, NEW t, NEW w, NEW r, Removes(t, w, r)
  PROVE  ReservationLedger!Next
  <1>1. w.phase # "write"
    BY DEF Removes, Idle
  <1>2. /\ th'[t] = w /\ \A u \in Threads \ {t} : th'[u] = th[u]
        /\ \A u \in Threads : Writing(u)' <=> Writing(u)
        /\ UNCHANGED <<snap, disk, granted, up>> /\ th[t].op = "none" /\ up
        /\ w.op # "begin" /\ r \in reservations /\ Known(r) /\ reservations' = reservations \ {r}
    BY <1>1, SectionFacts DEF Removes
  <1>3. \A q : Known(q)' <=> Known(q)
    BY <1>2 DEF Known
  <1>4. \A q \in reservations : q.id = r.id => q = r
    BY <1>2 DEF CoreInv, RecordsUnique, Unique
  <1>5. \A s : Absent(s.id, reservations') <=> Absent(s.id, reservations) \/ s.id = r.id
    BY <1>2, <1>4 DEF Absent
  <1>6. \A s \in disk.reservations : s.id = r.id => s = Stored(r)
    BY <1>2 DEF LedgerInv, SameData
  <1>7. \A s : Stored(s)' = Stored(s)
    BY DEF Stored
  <1>8. \A s : /\ InHand(s)' => InHand(s)
               /\ InHand(s) => InHand(s)' \/ s = Stored(r)
    BY <1>2, <1>3, <1>7 DEF InHand
  <1>9. CASE Stored(r) \in disk.reservations
    <2>1. OpenRecords' = OpenRecords
      BY <1>2, <1>8, <1>9, OpenMember, NextOpenMember
    <2>2. StruckRecords' = StruckRecords \cup {Stored(r)}
      BY <1>2, <1>5, <1>6, <1>9, StruckMember, NextStruckMember, StoredFields
    <2>3. ReservationLedger!Strike({Stored(r)})
      BY <1>2, <1>9, <2>1, <2>2 DEF ReservationLedger!Strike
    <2>4. {Stored(r)} \in SUBSET disk.reservations
      BY <1>9
    <2>5. QED
      BY <2>3, <2>4 DEF ReservationLedger!Next
  <1>10. CASE Stored(r) \notin disk.reservations
    <2> DEFINE lost == {s \in OpenRecords : ~InHand(s)'}
    <2>1. OpenRecords' = OpenRecords \ lost
      BY <1>2, <1>8, OpenMember, NextOpenMember
    <2>2. StruckRecords' = StruckRecords
      BY <1>2, <1>5, <1>6, <1>10, StruckMember, NextStruckMember
    <2>3. ReservationLedger!Drop(lost)
      BY <1>2, <2>1, <2>2 DEF ReservationLedger!Drop
    <2>4. QED
      BY <2>3 DEF ReservationLedger!Next
  <1>11. QED
    BY <1>9, <1>10

(* The rename of the state file: the ledger takes up what the snapshot has,  *)
(* and lets go of what it leaves out.                                       *)
LEMMA WriteCommits ==
  ASSUME CoreInv, CoreInv', LedgerInv, NEW t \in Threads, PersistWrite(t)
  PROVE  ReservationLedger!Next
  <1> DEFINE kept == disk.reservations
             coming == snap[t].reservations
             added == coming \ kept
             dropped == kept \ coming
             late == {s \in added : Absent(s.id, reservations)}
  <1>1. /\ up /\ up' /\ Writing(t) /\ disk'.reservations = coming
        /\ \A u \in Threads : /\ th'[u].op = th[u].op /\ th'[u].id = th[u].id
                              /\ ~Writing(u)' /\ (Writing(u) <=> u = t)
        /\ UNCHANGED <<reservations, granted>>
    BY WriteFacts
  <1>2. added \subseteq OpenRecords
    BY <1>1, OpenMember DEF InHand
  <1>3. \A s \in dropped : Absent(s.id, reservations)
    BY <1>1 DEF LedgerInv, NotCarried
  <1>4. dropped \subseteq StruckRecords
    BY <1>1, <1>3, StruckMember
  <1>5. \A q : Known(q)' <=> Known(q)
    BY <1>1 DEF Known
  <1>6. \A s : Stored(s)' = Stored(s)
    BY DEF Stored
  <1>7. \A s : /\ InHand(s)' => InHand(s) /\ ~Absent(s.id, reservations)
               /\ InHand(s) => InHand(s)' \/ s \in coming
    BY <1>1, <1>5, <1>6, StoredFields DEF InHand, Absent
  <1>8. OpenRecords' = OpenRecords \ added
    BY <1>1, <1>3, <1>7, OpenMember, NextOpenMember
  <1>9. StruckRecords' = (StruckRecords \ dropped) \cup late
    BY <1>1, StruckMember, NextStruckMember
  <1>10. disk'.reservations = (kept \ dropped) \cup added
    BY <1>1
  <1>11. ReservationLedger!Exclusive(disk.reservations)'
    BY DEF CoreInv, RecordsUnique, Unique, ReservationLedger!Exclusive
  <1>12. ReservationLedger!Commit(added, dropped)
    BY <1>1, <1>2, <1>4, <1>8, <1>9, <1>10, <1>11 DEF ReservationLedger!Commit, ReservationLedger!Exclusive
  <1>13. QED
    BY <1>2, <1>4, <1>12 DEF ReservationLedger!Next

(* A write that failed: what it would have saved and memory no longer has is *)
(* lost.                                                                    *)
LEMMA FailureDrops ==
  ASSUME CoreInv, NEW t \in Threads, PersistFail(t)
  PROVE  ReservationLedger!Next
  <1> DEFINE lost == {s \in OpenRecords : ~InHand(s)'}
  <1>1. /\ up /\ up' /\ disk' = disk
        /\ \A u \in Threads : th'[u].op = th[u].op /\ th'[u].id = th[u].id /\ ~Writing(u)'
        /\ UNCHANGED <<reservations, granted>>
    BY WriteFacts DEF PersistFail
  <1>2. \A s : InHand(s)' => InHand(s)
    <2>1. \A s : Stored(s)' = Stored(s)
      BY DEF Stored
    <2>2. \A q : Known(q)' <=> Known(q)
      BY <1>1 DEF Known
    <2>3. QED
      BY <1>1, <2>1, <2>2 DEF InHand
  <1>3. OpenRecords' = OpenRecords \ lost
    BY <1>1, <1>2, OpenMember, NextOpenMember
  <1>4. StruckRecords' = StruckRecords
    BY <1>1, StruckMember, NextStruckMember
  <1>5. ReservationLedger!Drop(lost)
    BY <1>1, <1>3, <1>4 DEF ReservationLedger!Drop
  <1>6. QED
    BY <1>5 DEF ReservationLedger!Next

\* A crash loses what was open and revives what was struck.
LEMMA CrashLoses ==
  ASSUME Crash
  PROVE  ReservationLedger!Next
  <1>1. /\ up' = FALSE /\ reservations' = {} /\ UNCHANGED <<disk, granted>>
        /\ \A u \in Threads : ~Writing(u)'
    BY DEF Crash, Writing, Idle
  <1>2. OpenRecords' = {} /\ StruckRecords' = {}
    BY <1>1, NextOpenMember, NextStruckMember DEF InHand
  <1>3. ReservationLedger!Lose
    BY <1>1, <1>2 DEF ReservationLedger!Lose
  <1>4. QED
    BY <1>3 DEF ReservationLedger!Next

(* load: what expired while the process was down is struck out. *)
LEMMA RestartStrikes ==
  ASSUME CoreInv, NEW dropped \in SUBSET disk.reservations, Restart(dropped)
  PROVE  ReservationLedger!Next
  <1>1. /\ ~up /\ up' = TRUE /\ UNCHANGED <<disk, granted, snap>>
        /\ reservations = {} /\ \A u \in Threads : th[u] = Idle
    BY DEF Restart, CoreInv, DownIsEmpty
  <1>2. \A u \in Threads : ~Writing(u) /\ ~Writing(u)'
    BY <1>1 DEF Restart, Enter, Writing, Idle, CoreInv, TypeOK
  <1>3. \A k \in disk.reservations : k = [id |-> k.id, evse |-> k.evse, tag |-> k.tag]
    BY DEF CoreInv, TypeOK, File, StoredReservation
  <1> DEFINE Loaded(k) == [id |-> k.id, evse |-> k.evse, tag |-> k.tag, status |-> "active"]
  <1>4. /\ \A r \in reservations' : \E k \in disk.reservations \ dropped : r.id = k.id /\ Stored(r) = k
        /\ \A k \in disk.reservations \ dropped : \E r \in reservations' : r.id = k.id
    <2>1. reservations' = {Loaded(k) : k \in disk.reservations \ dropped}
      BY DEF Restart
    <2>2. \A k \in disk.reservations : Loaded(k).id = k.id /\ Stored(Loaded(k)) = k
      BY <1>3 DEF Stored
    <2> HIDE DEF Loaded
    <2>3. QED
      BY <2>1, <2>2
  <1>5. OpenRecords = {} /\ OpenRecords' = {}
    <2>1. \A s : Stored(s)' = Stored(s)
      BY DEF Stored
    <2>2. QED
      BY <1>1, <1>2, <1>4, <2>1, OpenMember, NextOpenMember DEF InHand
  <1>6. StruckRecords = {}
    BY <1>1, StruckMember
  <1>7. \A k, s \in disk.reservations : k.id = s.id => k = s
    BY DEF CoreInv, RecordsUnique, Unique
  <1>8. StruckRecords' = dropped
    <2>1. \A s \in dropped : Absent(s.id, reservations')
      BY <1>4, <1>7 DEF Absent
    <2>2. \A s \in disk.reservations \ dropped : ~Absent(s.id, reservations')
      BY <1>4 DEF Absent
    <2>3. \A s : s \in StruckRecords' <=> s \in dropped
      BY <1>1, <2>1, <2>2, NextStruckMember
    <2>4. QED
      BY <2>3
  <1>9. ReservationLedger!Strike(dropped)
    BY <1>1, <1>5, <1>6, <1>8 DEF ReservationLedger!Strike
  <1>10. QED
    BY <1>9 DEF ReservationLedger!Next

\* Every step of core is a step of the ledger or a stutter.
LEMMA LedgerStep ==
  ASSUME CoreInv, CoreInv', BeginPending, LedgerInv, LedgerInv', [Next]_vars
  PROVE  [ReservationLedger!Next]_ReservationLedger!vars
  <1>1. \A s : Stored(s)' = Stored(s)
    BY DEF Stored
  <1>2. \A r, q \in reservations : r.id = q.id => r = q
    BY DEF CoreInv, RecordsUnique, Unique
  <1>3. ASSUME NEW t \in Threads, NEW w \in Thread, NEW r \in Reservation, Makes(t, w, r)
        PROVE  UNCHANGED ReservationLedger!vars
    <2>1. /\ th'[t] = w /\ \A u \in Threads \ {t} : th'[u] = th[u]
          /\ \A u \in Threads : Writing(u)' <=> Writing(u)
          /\ UNCHANGED <<snap, disk, granted, up>> /\ up
          /\ reservations' = reservations \cup {r} /\ r.id = next.reservation
          /\ w.op = "begin" /\ w.id = r.id /\ th[t].op = "none"
      BY <1>3, SectionFacts DEF Makes
    <2>2. \A q \in reservations : q.id # r.id
      BY <2>1, Typed DEF CoreInv, IdsCounted, Counted
    <2>3. ~Known(r)' /\ \A q \in reservations : Known(q)' <=> Known(q)
      BY <2>1, <2>2 DEF Known
    <2>4. \A s : InHand(s)' <=> InHand(s)
      BY <1>1, <2>1, <2>3 DEF InHand
    <2>5. \A s \in disk.reservations : s.id # r.id
      BY <2>1, Typed DEF CoreInv, IdsCounted, Counted, CountersAhead, NotAhead
    <2>6. QED
      BY <2>1, <2>4, <2>5, LedgerStutters DEF Absent
  <1>4. ASSUME NEW t \in Threads, NEW w \in Thread, NEW r \in reservations, NEW q \in Reservation,
               Moves(t, w, r, q)
        PROVE  UNCHANGED ReservationLedger!vars
    <2>1. /\ th'[t] = w /\ \A u \in Threads \ {t} : th'[u] = th[u]
          /\ \A u \in Threads : Writing(u)' <=> Writing(u)
          /\ UNCHANGED <<snap, disk, granted, up>>
          /\ reservations' = (reservations \ {r}) \cup {q}
          /\ q.id = r.id /\ Stored(q) = Stored(r) /\ Known(r)
          /\ w.op # "begin" /\ th[t].op = "none"
      BY <1>4, SectionFacts DEF Moves
    <2>2. \A p : Known(p)' <=> Known(p)
      BY <2>1 DEF Known
    <2>3. Known(q)
      BY <2>1 DEF Known
    <2>4. \A s : InHand(s)' <=> InHand(s)
      BY <1>1, <2>1, <2>2, <2>3 DEF InHand
    <2>5. QED
      BY <2>1, <2>4, LedgerStutters DEF Absent
  <1>5. ASSUME NEW t \in Threads, NEW w \in Thread, Spares(t, w)
        PROVE  UNCHANGED ReservationLedger!vars
    <2>1. w.phase # "write"
      BY <1>5 DEF Spares, Idle
    <2>2. /\ th'[t] = w /\ \A u \in Threads \ {t} : th'[u] = th[u]
          /\ \A u \in Threads : Writing(u)' <=> Writing(u)
          /\ UNCHANGED <<snap, disk, granted, up, reservations>>
          /\ w.op # "begin" /\ th[t].op = "none"
      BY <1>5, <2>1, SectionFacts DEF Spares
    <2>3. \A p : Known(p)' <=> Known(p)
      BY <2>2 DEF Known
    <2>4. \A s : InHand(s)' <=> InHand(s)
      BY <1>1, <2>2, <2>3 DEF InHand
    <2>5. QED
      BY <2>2, <2>4, LedgerStutters
  <1>6. ASSUME NEW t \in Threads, PersistSnapshot(t)
        PROVE  UNCHANGED ReservationLedger!vars
    <2>1. /\ snap'[t].reservations = Persistable.reservations
          /\ \A u \in Threads : /\ th'[u].op = th[u].op /\ th'[u].id = th[u].id
                                /\ ~Writing(u) /\ (Writing(u)' <=> u = t)
          /\ UNCHANGED <<reservations, disk, granted, up>>
      BY <1>6, SnapshotFacts
    <2>2. \A p : Known(p)' <=> Known(p)
      BY <2>1 DEF Known
    <2>3. \A s \in Persistable.reservations : \E r \in reservations : Known(r) /\ s = Stored(r)
      BY PersistableStored, ActiveKnown
    <2>4. \A s : InHand(s)' <=> InHand(s)
      BY <1>1, <2>1, <2>2, <2>3 DEF InHand
    <2>5. QED
      BY <2>1, <2>4, LedgerStutters
  <1>7. ASSUME NEW t \in Threads, Return(t)
        PROVE  UNCHANGED ReservationLedger!vars
    <2>1. /\ \A u \in Threads : u # t => th'[u] = th[u]
          /\ \A u \in Threads : Writing(u)' <=> Writing(u)
          /\ UNCHANGED <<snap, disk, up>> /\ th'[t].op = "none"
      BY <1>7, ReturnFacts
    <2>2. UNCHANGED <<reservations, granted>> /\ th[t].op # "begin"
      BY <1>7 DEF Return, memory
    <2>3. \A p : Known(p)' <=> Known(p)
      BY <2>1, <2>2 DEF Known
    <2>4. \A s : InHand(s)' <=> InHand(s)
      BY <1>1, <2>1, <2>2, <2>3 DEF InHand
    <2>5. QED
      BY <2>1, <2>2, <2>4, LedgerStutters
  <1>8. ASSUME NEW t \in Threads, BeginReturn(t), th[t].phase # "done"
        PROVE  UNCHANGED ReservationLedger!vars
    <2>1. /\ \A u \in Threads : u # t => th'[u] = th[u]
          /\ \A u \in Threads : Writing(u)' <=> Writing(u)
          /\ UNCHANGED <<snap, disk, up>> /\ th'[t].op = "none"
      BY <1>8, ReturnFacts
    <2>2. /\ reservations' = {r \in reservations : r.id # th[t].id} /\ granted' = granted
          /\ th[t].op = "begin"
      BY <1>8 DEF BeginReturn
    <2>3. PICK p \in reservations : p.id = th[t].id /\ p.status = "pending"
      BY <2>2 DEF BeginPending
    <2>4. \A r \in reservations' : Known(r)' <=> Known(r)
      BY <2>1, <2>2 DEF Known
    <2>5. \A r \in reservations : r \notin reservations' => ~Known(r)
      BY <2>2 DEF Known
    <2>6. \A s : InHand(s)' <=> InHand(s)
      BY <1>1, <2>1, <2>2, <2>4, <2>5 DEF InHand
    <2>7. \A s \in disk.reservations : s.id # th[t].id
      BY <2>3 DEF CoreInv, OnlyActiveWritten, Absent
    <2>8. QED
      BY <2>1, <2>2, <2>6, <2>7, LedgerStutters DEF Absent
  <1>9. CASE Waits
    <2>1. UNCHANGED <<reservations, th, snap, disk, granted, up>>
      BY <1>9 DEF Waits
    <2>2. \A p : Known(p)' <=> Known(p)
      BY <2>1 DEF Known
    <2>3. \A s : InHand(s)' <=> InHand(s)
      BY <1>1, <2>1, <2>2 DEF InHand, Writing
    <2>4. QED
      BY <2>1, <2>3, LedgerStutters
  <1>10. ASSUME NEW t \in Threads, Step(t)
         PROVE  [ReservationLedger!Next]_ReservationLedger!vars
    BY <1>6, <1>7, <1>8, <1>10, WriteCommits, FailureDrops, ReturnGives DEF Step
  <1>11. QED
    BY <1>3, <1>4, <1>5, <1>9, <1>10, RemovalStrikes, CrashLoses, RestartStrikes, Steps
-----------------------------------------------------------------------------
(* The invariants together. *)
LEMMA InitMore == Init => BeginPending /\ EndsInv /\ TxInv /\ StepInv /\ LedgerInv
  <1> SUFFICES ASSUME Init PROVE BeginPending /\ EndsInv /\ TxInv /\ StepInv /\ LedgerInv
    OBVIOUS
  <1>1. /\ \A t \in Threads : th[t].op = "none" /\ th[t].ends = 0 /\ ~Writing(t)
        /\ \A i \in ReservationIds : ends[i] = 0
        /\ reservations = {} /\ transactions = {} /\ txGranted = {} /\ disk = EmptyFile
        /\ next = [reservation |-> 1, transaction |-> 1, remoteStart |-> 1]
    BY DEF Init, Idle, Writing
  <1>2. BeginPending /\ EndsInv
    BY <1>1 DEF BeginPending, EndsInv, Untold, EndedOnce
  <1>3. TxInv
    BY <1>1 DEF TxInv, Numbering, TransactionIdsReusedOnlyIfUnwritten
  <1>4. LedgerInv
    BY <1>1 DEF LedgerInv, SameData, NotCarried, OneIsOpen
  <1>5. Persistable.reservations = {}
    BY <1>1 DEF Persistable
  <1>6. Matching
    BY <1>1, <1>5 DEF Matching, EmptyFile
  <1>7. QED
    BY <1>1, <1>2, <1>3, <1>4, <1>6 DEF StepInv

(* CoreInv and what it does not say by itself hold in every state.           *)
THEOREM LedgerInvariant ==
  Spec => [](CoreInv /\ BeginPending /\ EndsInv /\ TxInv /\ StepInv /\ LedgerInv)
  BY InitCoreInv, NextCoreInv, InitMore, BeginPendingNext, EndsNext, TxNext, StepNext, LedgerNext,
     PTL DEF Spec

(* Of all that may race to end a reservation (expiry, cancellation, a        *)
(* starting session, an orphaned ReserveNow), one publishes its end.         *)
THEOREM EndPublishedOnce == Spec => []EndedOnce
  <1>1. EndsInv => EndedOnce
    BY DEF EndsInv
  <1>2. QED
    BY LedgerInvariant, <1>1, PTL

(* NextTransactionID repeats an id only over a crash, and only one whose     *)
(* write had failed.                                                        *)
THEOREM TransactionIdsReused == Spec => []TransactionIdsReusedOnlyIfUnwritten
  <1>1. TxInv => TransactionIdsReusedOnlyIfUnwritten
    BY DEF TxInv
  <1>2. QED
    BY LedgerInvariant, <1>1, PTL

(* A process with no method under way, whose last write did not fail, would  *)
(* load from the file exactly what it holds.                                *)
THEOREM FileFollowsMemory == Spec => []FileInStep
  <1>1. StepInv => FileInStep
    BY DEF StepInv, FileInStep, Matching, Writing
  <1>2. QED
    BY LedgerInvariant, <1>1, PTL

(* Core implements the ledger: goroutines, snapshots, failed writes and      *)
(* crashes add nothing a caller could tell from it.                         *)
THEOREM CoreImplementsLedger == Spec => ImplementsLedger
  <1>1. Init => ReservationLedger!Init
    <2> SUFFICES ASSUME Init PROVE ReservationLedger!Init
      OBVIOUS
    <2>1. /\ granted = {} /\ disk.reservations = {} /\ reservations = {}
          /\ \A t \in Threads : ~Writing(t)
      BY DEF Init, EmptyFile, Writing, Idle
    <2>2. OpenRecords = {} /\ StruckRecords = {}
      BY <2>1, OpenMember, StruckMember DEF InHand
    <2>3. QED
      BY <2>1, <2>2 DEF ReservationLedger!Init
  <1>2. QED
    BY LedgerInvariant, LedgerStep, <1>1, PTL DEF Spec, ImplementsLedger, ReservationLedger!Spec
-----------------------------------------------------------------------------
(* The commands over core.  A pending or cancelling record belongs to the    *)
(* Reserve that made it; what is on the wire to the station is in the order  *)
(* of the records; a session the station has an id for is in the file.       *)

\* Reserves under way; inflight counts them.
Busy == {t \in Reservers : flow[t].pc \notin {"idle", "returned", "abandoned"}}

InflightInv ==
  /\ inflight = Cardinality(Busy)
  /\ closing = "closed" => Busy = {}

\* The Reserve holds its record, pending or, once it has given up, cancelling.
Pends(t) == flow[t].pc \in {"begin", "send", "wait"}
Cancels(t) == flow[t].pc \in {"orphaned", "cancelWait", "cancelEnd", "lapsed"}
Owns(t, s) == \E r \in reservations : r.id = flow[t].id /\ r.evse = flow[t].evse /\ r.status = s

RecordInv ==
  /\ \A t \in Reservers : /\ Pends(t) => Owns(t, "pending")
                          /\ Cancels(t) => Owns(t, "cancelling")
                          /\ flow[t].pc = "begin" => th[t].op = "begin" /\ th[t].id = flow[t].id
                          /\ flow[t].pc = "send" => flow[t].id < disk.next.reservation
                          /\ flow[t].pc # "vanished"
  /\ \A r \in reservations : r.status # "active" =>
       \E t \in Reservers : (Pends(t) \/ Cancels(t)) /\ flow[t].id = r.id
  /\ \A t, u \in Reservers : /\ Pends(t) \/ Cancels(t)
                             /\ Pends(u) \/ Cancels(u)
                             /\ flow[t].id = flow[u].id
                             => t = u
  /\ \A t \in Operators :
       /\ flow[t].op # "ReserveNow"
       /\ flow[t].op = "CancelReservation" => flow[t].pc # "begin"
       /\ flow[t].op = "CancelReservation" /\ flow[t].pc \in {"send", "wait"} =>
            /\ up = TRUE /\ flow[t].id < next.reservation
            /\ \A r \in reservations : r.id = flow[t].id => r.status = "active"

\* The Reserves that began on the present connection, which is up.
Here(t) == t \in Reservers /\ conn.open = TRUE /\ flow[t].conn = conn.n

HereInv ==
  /\ conn.n # 0 /\ \A t \in Clients : flow[t].conn <= conn.n
  /\ \A t \in Reservers : flow[t].pc \in {"idle", "entered"} => flow[t].conn = 0
  /\ conn.open = TRUE => up = TRUE
  /\ conn.open = FALSE => wire = <<>> /\ calls = <<>>
  /\ \A t \in Reservers : Here(t) => flow[t].id \in ReservationIds /\ flow[t].id < next.reservation
  /\ \A t, u \in Reservers : Here(t) /\ Here(u) /\ flow[t].id = flow[u].id => t = u
  /\ \A t \in Reservers, r \in reservations :
       Here(t) /\ r.evse = flow[t].evse => flow[t].id <= r.id

\* Position k of the wire is a ReserveNow; position l the cancel of Reserve t.
Asks(k) == k \in DOMAIN wire /\ wire[k].kind = "ReserveNow"
Undoes(l, t) == /\ l \in DOMAIN wire /\ wire[l].kind = "CancelReservation"
                /\ wire[l].id = flow[t].id /\ wire[l].evse = flow[t].evse

WireInv ==
  /\ \A k \in DOMAIN wire : Asks(k) =>
       LET t == wire[k].by IN
       /\ Here(t) /\ wire[k].id = flow[t].id /\ wire[k].evse = flow[t].evse
       /\ flow[t].pc \notin {"begin", "send"}
       /\ wire[k].id < disk.next.reservation
       /\ held[wire[k].evse] < wire[k].id
  /\ \A k, l \in DOMAIN wire : Asks(k) /\ Asks(l) /\ k < l /\ wire[k].evse = wire[l].evse =>
       wire[k].id < wire[l].id
  /\ \A e \in EVSEs : held[e] # 0 => held[e] < disk.next.reservation
  /\ \A t \in Reservers : Here(t) =>
       /\ flow[t].pc \in {"begin", "send"} => held[flow[t].evse] < flow[t].id
       /\ \A e \in EVSEs : held[e] = flow[t].id => e = flow[t].evse

\* What a Reserve that gave up has left at the station, or may yet leave, is
\* followed by its cancel, before the next ReserveNow for the EVSE.
Settles(t) ==
  /\ flow[t].pc \in {"cancelWait", "cancelEnd", "cancelled", "abandoned"} =>
       /\ held[flow[t].evse] = flow[t].id => \E l \in DOMAIN wire : Undoes(l, t)
       /\ \A k \in DOMAIN wire : Asks(k) /\ wire[k].id = flow[t].id =>
            \E l \in DOMAIN wire : k < l /\ Undoes(l, t)
  /\ Orphaned(t) => \A k \in DOMAIN wire :
       Asks(k) /\ wire[k].evse = flow[t].evse /\ wire[k].id > flow[t].id =>
         /\ held[flow[t].evse] = flow[t].id => \E l \in DOMAIN wire : l < k /\ Undoes(l, t)
         /\ \A j \in DOMAIN wire : Asks(j) /\ j < k /\ wire[j].id = flow[t].id =>
              \E l \in DOMAIN wire : j < l /\ l < k /\ Undoes(l, t)

OrphanInv == \A t \in Reservers : Here(t) => Settles(t)

\* A report on the present connection is about the session as it is.
Matches(m) ==
  /\ m.conn = conn.n /\ m.kind # "none"
  /\ sess[m.evse].sent = conn.n
  /\ m.kind = "StartTransaction" => sess[m.evse].state = "starting"
  /\ m.kind = "StopTransaction" => sess[m.evse].state = "ending" /\ sess[m.evse].id = m.id

\* Handler h works for the present connection.
Serves(h) == handling[h].pc # "idle" /\ handling[h].msg.conn = conn.n /\ conn.open = TRUE

CallsInv ==
  /\ \A k \in DOMAIN calls : Matches(calls[k])
  /\ \A j, k \in DOMAIN calls : calls[j].evse = calls[k].evse => j = k
  /\ \A h \in Handlers : handling[h].pc # "idle" =>
       /\ handling[h].msg.conn <= conn.n /\ handling[h].msg.kind # "none"
       /\ handling[h].msg.kind = "StopTransaction" => handling[h].pc = "reply"
       /\ \A g \in Handlers : handling[g].pc # "idle" /\ handling[g].msg.conn = handling[h].msg.conn => g = h
  /\ \A h \in Handlers : Serves(h) =>
       /\ Matches(handling[h].msg)
       /\ \A k \in DOMAIN calls : calls[k].evse # handling[h].msg.evse
  /\ \A e \in EVSEs : sess[e].sent <= conn.n

\* Handler h has an id for the session it was told of.
Numbered(h) == handling[h].pc \in {"allocated", "reply"} /\ handling[h].msg.kind = "StartTransaction"
HasId(e) == sess[e].state \in {"running", "ending"}

In(xs, i, e) == \E x \in xs : x.id = i /\ x.evse = e
\* In the file, and in what is being written to it.
Filed(i, e) == /\ In(disk.transactions, i, e)
               /\ \A t \in Threads : Writing(t) => In(snap[t].transactions, i, e)

SessionsInv ==
  failures = 0 =>
    /\ \A t \in Threads : th[t].phase # "failed"
    /\ \A h \in Handlers : Numbered(h) =>
         /\ up = TRUE /\ handling[h].id < next.transaction
         /\ \A g \in Handlers : Numbered(g) /\ handling[g].id = handling[h].id => g = h
         /\ \A e \in EVSEs : HasId(e) => sess[e].id # handling[h].id
         /\ handling[h].pc = "reply" =>
              /\ In(transactions, handling[h].id, handling[h].msg.evse)
              /\ th[h].phase = "write" => In(snap[h].transactions, handling[h].id, handling[h].msg.evse)
              /\ th[h].phase \in {"idle", "done"} => Filed(handling[h].id, handling[h].msg.evse)
    /\ \A e \in EVSEs : HasId(e) =>
         /\ sess[e].id < disk.next.transaction
         /\ \A d \in EVSEs : HasId(d) /\ sess[d].id = sess[e].id => d = e
    /\ \A e \in EVSEs : sess[e].state = "running" =>
         /\ Filed(sess[e].id, e)
         /\ up = TRUE => In(transactions, sess[e].id, e)

CommandsInv ==
  /\ InflightInv /\ RecordInv /\ HereInv /\ WireInv /\ OrphanInv /\ CallsInv /\ SessionsInv

ControlInv == CoreInv /\ BeginPending /\ ControlTypeOK /\ CommandsInv
-----------------------------------------------------------------------------
(* Types *)

\* The goroutines of the commands are goroutines of core.
LEMMA Roles ==
  /\ Reservers \subseteq Clients /\ Operators \subseteq Clients
  /\ Clients \subseteq Workers /\ Handlers \subseteq Workers /\ Timers \subseteq Workers
  /\ Workers \subseteq Threads /\ Main \notin Workers /\ Main \in Threads
  /\ \A t \in Reservers : t \notin Operators /\ t \notin Handlers /\ t \notin Timers
  /\ \A t \in Operators : t \notin Handlers /\ t \notin Timers
  /\ \A t \in Handlers : t \notin Timers
  BY ControlAssumption, CoreAssumption DEF Clients, Threads

LEMMA Nothings ==
  /\ NoFlow \in Flows /\ NoFlow.conn = 0
  /\ NoReport \in Reports /\ NoReport.kind = "none"
  /\ NoWork \in Works /\ NoWork.pc = "idle" /\ NoWork.msg = NoReport
  /\ NoSession \in Sessions /\ NoSession.state = "none" /\ NoSession.sent = 0
  <1>1. (CHOOSE e \in EVSEs : TRUE) \in EVSEs
    BY ControlAssumption
  <1>2. DefaultTag \in Tags /\ 0 \in 0..MaxReservationID
    BY ControlAssumption, CoreAssumption
  <1>3. NoFlow \in Flows /\ NoFlow.conn = 0
    BY <1>1, <1>2 DEF NoFlow, Flows, OpKinds, PCs
  <1>4. NoReport \in Reports /\ NoReport.kind = "none"
    BY <1>1, <1>2 DEF NoReport, Reports
  <1>5. NoWork \in Works /\ NoWork.pc = "idle" /\ NoWork.msg = NoReport
    BY <1>4 DEF NoWork, Works
  <1>6. NoSession \in Sessions /\ NoSession.state = "none" /\ NoSession.sent = 0
    BY <1>2 DEF NoSession, Sessions, SessionStates
  <1>7. QED
    BY <1>3, <1>4, <1>5, <1>6

(* What is left of client t's flow when it goes to p. *)
Gone(t, p) ==
  /\ flow' \in [Clients -> Flows] /\ flow'[t].pc = p
  /\ flow'[t].op = flow[t].op /\ flow'[t].evse = flow[t].evse /\ flow'[t].id = flow[t].id
  /\ flow'[t].conn = flow[t].conn
  /\ \A u \in Clients : u # t => flow'[u] = flow[u]

LEMMA GotoFacts ==
  ASSUME ControlTypeOK, NEW t \in Clients, NEW p \in PCs, Goto(t, p)
  PROVE  Gone(t, p)
  <1> DEFINE w == [flow[t] EXCEPT !.pc = p]
  <1>1. flow' = [flow EXCEPT ![t] = w] /\ flow \in [Clients -> Flows]
    BY DEF Goto, ControlTypeOK
  <1>2. flow[t] \in Flows
    BY <1>1
  <1>3. /\ w \in Flows /\ w.pc = p /\ w.op = flow[t].op /\ w.evse = flow[t].evse
        /\ w.id = flow[t].id /\ w.conn = flow[t].conn
    BY <1>2 DEF Flows
  <1> HIDE DEF w
  <1>4. QED
    BY <1>1, <1>3 DEF Gone

LEMMA AllPCs ==
  /\ "entered" \in PCs /\ "begin" \in PCs /\ "send" \in PCs /\ "wait" \in PCs /\ "orphaned" \in PCs
  /\ "cancelWait" \in PCs /\ "cancelEnd" \in PCs /\ "cancelled" \in PCs /\ "return" \in PCs
  /\ "lapsed" \in PCs /\ "vanished" \in PCs /\ "returned" \in PCs /\ "abandoned" \in PCs /\ "idle" \in PCs
  BY DEF PCs

(* A new flow for client t. *)
LEMMA NewFlow ==
  ASSUME ControlTypeOK, NEW t \in Clients, NEW w \in Flows, flow' = [flow EXCEPT ![t] = w]
  PROVE  /\ flow' \in [Clients -> Flows] /\ flow'[t] = w
         /\ \A u \in Clients : u # t => flow'[u] = flow[u]
  BY DEF ControlTypeOK

\* The parts of the type, by what changes together.
LEMMA FlowTyped ==
  ASSUME ControlTypeOK, flow' \in [Clients -> Flows], UNCHANGED <<ans, link, station>>,
         closing' \in {"open", "closing", "closed"}, inflight' \in Int
  PROVE  ControlTypeOK'
  BY DEF ControlTypeOK, link, station, NamesReservation

\* A request goes to the end of the wire of the connection it was begun on.
LEMMA CallSendFacts ==
  ASSUME ControlTypeOK, NEW t \in Clients, NEW k \in OpKinds, NEW i \in Nat, NEW p \in PCs,
         CallSend(t, k, i, p), UNCHANGED <<conn, calls, handling, station, shut>>
  PROVE  /\ ControlTypeOK' /\ Gone(t, p)
         /\ conn.open /\ flow[t].conn = conn.n
         /\ Request(k, t, i) = [kind |-> k, by |-> t, id |-> i, evse |-> flow[t].evse]
         /\ DOMAIN wire = 1..Len(wire) /\ DOMAIN wire' = 1..(Len(wire) + 1) /\ Len(wire) \in Nat
         /\ wire'[Len(wire) + 1] = Request(k, t, i)
         /\ \A l \in DOMAIN wire : wire'[l] = wire[l]
  <1>1. Gone(t, p)
    BY GotoFacts DEF CallSend
  <1> DEFINE q == Request(k, t, i)
  <1>2. q \in WireRequests /\ q = [kind |-> k, by |-> t, id |-> i, evse |-> flow[t].evse]
    BY DEF Request, WireRequests, ControlTypeOK, Flows
  <1>3. wire \in Seq(WireRequests) /\ wire' = Append(wire, q)
    BY DEF CallSend, ControlTypeOK
  <1> HIDE DEF q
  <1>4. /\ wire' \in Seq(WireRequests)
        /\ DOMAIN wire = 1..Len(wire) /\ DOMAIN wire' = 1..(Len(wire) + 1) /\ Len(wire) \in Nat
        /\ wire'[Len(wire) + 1] = q
        /\ \A l \in DOMAIN wire : wire'[l] = wire[l]
    <2> HIDE DEF WireRequests
    <2>1. QED
      BY <1>2, <1>3
  <1>5. ans' \in [Clients -> Answers]
    BY DEF CallSend, ControlTypeOK, Answers
  <1>6. ControlTypeOK'
    BY <1>1, <1>4, <1>5 DEF ControlTypeOK, Gone, station, shut, NamesReservation
  <1>7. QED
    BY <1>1, <1>2, <1>4, <1>6 DEF CallSend, Bound, q

(* The head of the wire is answered. *)
LEMMA ReplyFacts ==
  ASSUME ControlTypeOK, wire # <<>>, NEW s \in Answers, Reply(s)
  PROVE  /\ ans' \in [Clients -> Answers] /\ wire' \in Seq(WireRequests)
         /\ Head(wire) = wire[1] /\ wire[1] \in WireRequests
         /\ Len(wire) \in Nat /\ Len(wire) >= 1 /\ DOMAIN wire = 1..Len(wire)
         /\ DOMAIN wire' = 1..(Len(wire) - 1)
         /\ \A l \in DOMAIN wire' : wire'[l] = wire[l + 1]
  <1>1. wire \in Seq(WireRequests) /\ wire' = Tail(wire)
    BY DEF ControlTypeOK, Reply
  <1>2. /\ wire' \in Seq(WireRequests)
        /\ Head(wire) = wire[1] /\ wire[1] \in WireRequests
        /\ Len(wire) \in Nat /\ Len(wire) >= 1 /\ DOMAIN wire = 1..Len(wire)
        /\ DOMAIN wire' = 1..(Len(wire) - 1)
        /\ \A l \in DOMAIN wire' : wire'[l] = wire[l + 1]
    <2> HIDE DEF WireRequests
    <2>1. QED
      BY <1>1
  <1>3. ans \in [Clients -> Answers]
    BY DEF ControlTypeOK
  <1>4. ans' \in [Clients -> Answers]
    BY <1>3 DEF Reply
  <1>5. QED
    BY <1>2, <1>4

(* A handler takes the head of the calls. *)
LEMMA TakeFacts ==
  ASSUME ControlTypeOK, NEW h \in Handlers, calls # <<>>,
         NEW p \in {"allocated", "invalid", "reply"}, NEW i \in Nat, Take(h, p, i)
  PROVE  /\ calls' \in Seq(Reports) /\ handling' \in [Handlers -> Works]
         /\ Report = calls[1] /\ calls[1] \in Reports
         /\ Len(calls) \in Nat /\ Len(calls) >= 1 /\ DOMAIN calls = 1..Len(calls)
         /\ DOMAIN calls' = 1..(Len(calls) - 1)
         /\ \A k \in DOMAIN calls' : calls'[k] = calls[k + 1]
         /\ handling'[h].pc = p /\ handling'[h].id = i /\ handling'[h].msg = calls[1]
         /\ \A g \in Handlers : g # h => handling'[g] = handling[g]
         /\ (\A k \in DOMAIN calls : NamesReservation(calls[k]))'
         /\ (\A g \in Handlers : NamesReservation(handling[g].msg))'
  <1>1. calls \in Seq(Reports) /\ calls' = Tail(calls) /\ Report = Head(calls)
    BY DEF ControlTypeOK, Take, Report
  <1>2. /\ calls' \in Seq(Reports)
        /\ Report = calls[1] /\ calls[1] \in Reports
        /\ Len(calls) \in Nat /\ Len(calls) >= 1 /\ DOMAIN calls = 1..Len(calls)
        /\ DOMAIN calls' = 1..(Len(calls) - 1)
        /\ \A l \in DOMAIN calls' : calls'[l] = calls[l + 1]
    <2> HIDE DEF Reports
    <2>1. QED
      BY <1>1
  <1> DEFINE w == [pc |-> p, id |-> i, msg |-> Report]
  <1>3. w \in Works /\ w.pc = p /\ w.id = i /\ w.msg = calls[1]
    BY <1>2 DEF Works
  <1>4. handling' = [handling EXCEPT ![h] = w] /\ handling \in [Handlers -> Works]
    BY DEF Take, ControlTypeOK
  <1> HIDE DEF w
  <1>5. /\ handling' \in [Handlers -> Works] /\ handling'[h] = w
        /\ \A g \in Handlers : g # h => handling'[g] = handling[g]
    BY <1>3, <1>4
  <1>6. \A k \in DOMAIN calls : NamesReservation(calls[k])
    BY DEF ControlTypeOK
  <1>7. \A k \in DOMAIN calls' : NamesReservation(calls'[k])
    BY <1>2, <1>6
  <1>8. \A g \in Handlers : NamesReservation(handling'[g].msg)
    <2>1. \A g \in Handlers : NamesReservation(handling[g].msg)
      BY DEF ControlTypeOK
    <2>2. NamesReservation(calls[1]) /\ handling'[h].msg = calls[1]
      BY <1>2, <1>3, <1>5, <1>6
    <2>3. QED
      BY <1>5, <2>1, <2>2
  <1>9. QED
    BY <1>2, <1>3, <1>5, <1>7, <1>8 DEF NamesReservation
-----------------------------------------------------------------------------
(* Every step of the commands is a step of core, or leaves core alone. *)

LEMMA Unmoved == UNCHANGED vars <=>
  UNCHANGED <<reservations, transactions, next, armed, fired, th, persistMu, snap, disk,
              up, epoch, failures, dirty, granted, txGranted, gone, ends>>
  BY DEF vars, memory, process, history

\* What a step of Control does to core is a step of core or a stutter.
LEMMA CommandsAreCore ==
  ASSUME CoreInv, ControlTypeOK, CallsInv, [ControlNext]_allVars
  PROVE  [Next]_vars
  <1>1. ASSUME NEW t \in Reservers, ReserveStep(t)
        PROVE  [Next]_vars
    <2>1. t \in Workers /\ t \in Threads /\ t \in Clients
      BY Roles
    <2>2. flow[t].evse \in EVSEs /\ flow[t].tag \in Tags
      BY <2>1 DEF ControlTypeOK, Flows
    <2>3. CASE ReserveBegin(t)
      BY <2>1, <2>2, <2>3 DEF ReserveBegin, Next, Call
    <2>4. CASE ReserveBegun(t)
      BY <2>1, <2>4 DEF ReserveBegun, Next, Step
    <2>5. CASE ReserveFails(t)
      BY <2>1, <2>5 DEF ReserveFails, ForgetReserve, Mine, Next, Call
    <2>6. CASE ReserveRejected(t) \/ OrphanEnd(t)
      BY <2>1, <2>6 DEF ReserveRejected, OrphanEnd, Mine, Next, Call
    <2>7. CASE ReserveAccepted(t)
      BY <2>1, <2>7 DEF ReserveAccepted, Mine, Next, Call
    <2>8. CASE \/ ReserveRefused(t) \/ ReserveSend(t) \/ OrphanSend(t) \/ OrphanUnsent(t)
               \/ OrphanAnswered(t) \/ ReserveReturn(t)
      BY <2>8 DEF ReserveRefused, ReserveSend, OrphanSend, OrphanUnsent, OrphanAnswered, ReserveReturn
    <2>9. QED
      BY <1>1, <2>3, <2>4, <2>5, <2>6, <2>7, <2>8 DEF ReserveStep
  <1>2. ASSUME NEW t \in Operators, NEW e \in Configured,
               \/ CancelBegin(t, e) \/ StopBegin(t, e)
               \/ \E tag \in Tags : StartBegin(t, e, tag)
               \/ \E k \in Plain : PlainBegin(t, e, k)
        PROVE  [Next]_vars
    <2>1. t \in Workers
      BY Roles
    <2>2. QED
      BY <1>2, <2>1 DEF CancelBegin, StopBegin, StartBegin, PlainBegin, Next, Call
  <1>3. ASSUME NEW t \in Operators,
               StartBegun(t) \/ CommandSend(t) \/ CancelAnswered(t) \/ CommandAnswered(t) \/ CommandFails(t)
        PROVE  [Next]_vars
    <2>1. t \in Workers /\ t \in Threads
      BY Roles
    <2>2. CASE StartBegun(t)
      BY <2>1, <2>2 DEF StartBegun, Next, Step
    <2>3. CASE CancelAnswered(t)
      BY <2>1, <2>3 DEF CancelAnswered, Mine, Next, Call
    <2>4. CASE CommandSend(t) \/ CommandAnswered(t) \/ CommandFails(t)
      BY <2>4 DEF CommandSend, CommandAnswered, CommandFails
    <2>5. QED
      BY <1>3, <2>2, <2>3, <2>4
  <1>4. ASSUME NEW h \in Handlers, HandlerStep(h)
        PROVE  [Next]_vars
    <2>1. h \in Workers
      BY Roles
    <2>2. CASE HandleStart(h)
      BY <2>1, <2>2 DEF HandleStart, Next, Call
    <2>3. CASE HandleStarted(h)
      <3> DEFINE m == handling[h].msg
                 i == handling[h].id
      <3>1. m \in Reports /\ i \in Nat /\ NamesReservation(m)
        BY DEF ControlTypeOK, Works
      <3>2. StartTransaction(h, i, m.evse, m.tag, m.id)
        BY <2>3 DEF HandleStarted
      <3>3. i \in 1..next.transaction - 1 /\ next.transaction \in 0..MaxTransactionID + 1
        BY <3>2 DEF StartTransaction, CoreInv, TypeOK, Counters
      <3>4. i \in TransactionIds
        BY <3>3, CoreAssumption DEF TransactionIds
      <3>5. m.evse \in EVSEs /\ m.tag \in Tags
        BY <3>1 DEF Reports
      <3>6. m.id \in 0..MaxReservationID
        <4>1. handling[h].pc = "allocated"
          BY <2>3 DEF HandleStarted
        <4>2. m.kind # "none" /\ m.kind # "StopTransaction"
          BY <4>1 DEF CallsInv
        <4>3. m.kind = "StartTransaction"
          BY <3>1, <4>2 DEF Reports
        <4>4. QED
          BY <3>1, <4>3 DEF NamesReservation
      <3>7. QED
        BY <2>1, <3>2, <3>4, <3>5, <3>6 DEF Next, Call
    <2>4. CASE HandleStop(h)
      BY <2>1, <2>4 DEF HandleStop, Next, Call
    <2>5. CASE HandleReply(h)
      BY <2>5 DEF HandleReply
    <2>6. QED
      BY <1>4, <2>2, <2>3, <2>4, <2>5 DEF HandlerStep
  <1>5. CASE \/ \E t \in Reservers, e \in EVSEs, tag \in Tags : ReserveEnter(t, e, tag)
             \/ CloseBegin \/ CloseDone \/ StationAnswers \/ Drop \/ Reconnect
             \/ \E e \in EVSEs : \/ \E tag \in Tags : StationPlugIn(e, tag)
                                 \/ StationUnplug(e) \/ StationReports(e) \/ StationExpires(e)
    BY <1>5 DEF ReserveEnter, CloseBegin, CloseDone, StationAnswers, StationReserve, StationCancel,
       StationRemoteStart, StationRemoteStop, StationPlain, Drop, Reconnect, StationPlugIn,
       StationUnplug, StationReports, StationExpires
  <1>6. CASE \E t \in Threads : CoreStep(t)
    BY <1>6 DEF CoreStep, Next, Step
  <1>7. CASE TimerStep
    BY <1>7, Roles DEF TimerStep, Next, Call
  <1>8. CASE ProcessCrash \/ ProcessRestart
    BY <1>8 DEF ProcessCrash, ProcessRestart, Next
  <1>9. CASE UNCHANGED allVars
    BY <1>9 DEF allVars
  <1>10. QED
    BY <1>1, <1>2, <1>3, <1>4, <1>5, <1>6, <1>7, <1>8, <1>9 DEF ControlNext
-----------------------------------------------------------------------------
(* What a step leaves alone.  Most steps leave the Reserves and their        *)
(* records alone; the lemmas below carry the invariants over these.          *)

\* Core: no record is made, the counters do not go back.
Shrinks ==
  /\ \A r \in reservations' : \E q \in reservations : q.id = r.id /\ q.evse = r.evse
  /\ next'.reservation = next.reservation
  /\ disk.next.reservation <= disk'.next.reservation
  /\ up' = up

\* Core: moreover only active records leave, and no Reserve is disturbed.
Kept ==
  /\ Shrinks
  /\ reservations' \subseteq reservations
  /\ \A r \in reservations : r \notin reservations' => r.status = "active"
  /\ \A t \in Reservers : flow[t].pc = "begin" => th'[t].op = th[t].op /\ th'[t].id = th[t].id

\* Reserve t keeps its record, or goes on without one.
Holds(t) ==
  /\ flow'[t].pc # "vanished"
  /\ Pends(t)' <=> Pends(t)
  /\ Cancels(t)' <=> Cancels(t)
  /\ flow[t].pc # "idle" => flow'[t].id = flow[t].id /\ flow'[t].evse = flow[t].evse
  /\ flow'[t].pc = "begin" => flow[t].pc = "begin"
  /\ flow'[t].pc = "send" => flow[t].pc = "send"

Undone == {"cancelWait", "cancelEnd", "cancelled", "abandoned"}

\* Reserve t goes on, on its connection.
Stays(t) ==
  /\ flow'[t].conn = flow[t].conn
  /\ flow[t].pc # "idle" => flow'[t].id = flow[t].id /\ flow'[t].evse = flow[t].evse
  /\ flow'[t].pc \in {"idle", "entered"} => flow'[t].conn = 0
  /\ flow'[t].pc \in {"begin", "send"} => flow[t].pc \in {"begin", "send"}

\* Moreover its cancel is not sent; if it gives up it held its record.
Goes(t) ==
  /\ Stays(t)
  /\ Here(t) /\ flow'[t].pc \in Undone => flow[t].pc \in Undone
  /\ Orphaned(t)' => Orphaned(t) \/ Owns(t, "pending")

\* Command t of an operator does not end a record it should not.
Apart(t) ==
  /\ flow'[t].op # "ReserveNow"
  /\ flow'[t].op = "CancelReservation" => flow'[t].pc # "begin"
  /\ flow'[t].conn <= conn.n
  /\ flow'[t].op = "CancelReservation" /\ flow'[t].pc \in {"send", "wait"} =>
       \/ flow'[t].id = flow[t].id /\ flow[t].op = "CancelReservation" /\ flow[t].pc \in {"send", "wait"}
       \/ /\ up = TRUE /\ flow'[t].id < next.reservation
          /\ \A r \in reservations : r.id = flow'[t].id => r.status = "active"

AllNumbers ==
  /\ next.reservation \in Nat /\ disk.next.reservation \in Nat
  /\ next.transaction \in Nat /\ disk.next.transaction \in Nat
  /\ \A r \in reservations : r.id \in Nat
  /\ \A t \in Clients : flow[t].id \in Nat /\ flow[t].conn \in Nat /\ flow[t].evse \in EVSEs
  /\ conn.n \in Nat
  /\ \A k \in DOMAIN wire : wire[k].id \in Nat /\ wire[k].by \in Clients /\ wire[k].evse \in EVSEs
  /\ DOMAIN wire = 1..Len(wire) /\ Len(wire) \in Nat
  /\ \A e \in EVSEs : held[e] \in Nat /\ sess[e].sent \in Nat

LEMMA Numbers ==
  ASSUME TypeOK, ControlTypeOK
  PROVE  AllNumbers
  <1>1. /\ next.reservation \in Nat /\ disk.next.reservation \in Nat
        /\ next.transaction \in Nat /\ disk.next.transaction \in Nat
        /\ \A r \in reservations : r.id \in Nat
    BY CoreAssumption DEF TypeOK, Counters, File, Reservation, ReservationIds
  <1>2. \A t \in Clients : flow[t].id \in Nat /\ flow[t].conn \in Nat /\ flow[t].evse \in EVSEs
    BY DEF ControlTypeOK, Flows
  <1>3. conn.n \in Nat /\ \A e \in EVSEs : held[e] \in Nat /\ sess[e].sent \in Nat
    BY CoreAssumption DEF ControlTypeOK, Sessions
  <1>4. /\ DOMAIN wire = 1..Len(wire) /\ Len(wire) \in Nat
        /\ \A k \in DOMAIN wire : wire[k] \in WireRequests
    <2> HIDE DEF WireRequests
    <2>1. QED
      BY DEF ControlTypeOK
  <1>5. \A k \in DOMAIN wire : wire[k].id \in Nat /\ wire[k].by \in Clients /\ wire[k].evse \in EVSEs
    BY <1>4 DEF WireRequests
  <1>6. QED
    BY <1>1, <1>2, <1>3, <1>4, <1>5 DEF AllNumbers

LEMMA NextNumbers ==
  ASSUME TypeOK', ControlTypeOK'
  PROVE  AllNumbers'
  <1>1. /\ next'.reservation \in Nat /\ disk'.next.reservation \in Nat
        /\ next'.transaction \in Nat /\ disk'.next.transaction \in Nat
        /\ \A r \in reservations' : r.id \in Nat
    BY CoreAssumption DEF TypeOK, Counters, File, Reservation, ReservationIds
  <1>2. \A t \in Clients : flow'[t].id \in Nat /\ flow'[t].conn \in Nat /\ flow'[t].evse \in EVSEs
    BY DEF ControlTypeOK, Flows
  <1>3. conn'.n \in Nat /\ \A e \in EVSEs : held'[e] \in Nat /\ sess'[e].sent \in Nat
    BY CoreAssumption DEF ControlTypeOK, Sessions
  <1>4. /\ DOMAIN wire' = 1..Len(wire') /\ Len(wire') \in Nat
        /\ \A k \in DOMAIN wire' : wire'[k] \in WireRequests
    <2> HIDE DEF WireRequests
    <2>1. QED
      BY DEF ControlTypeOK
  <1>5. \A k \in DOMAIN wire' : wire'[k].id \in Nat /\ wire'[k].by \in Clients /\ wire'[k].evse \in EVSEs
    BY <1>4 DEF WireRequests
  <1>6. QED
    BY <1>1, <1>2, <1>3, <1>4, <1>5 DEF AllNumbers

LEMMA FlowStays ==
  ASSUME RecordInv, HereInv, flow' = flow
  PROVE  /\ \A t \in Reservers : Holds(t) /\ Goes(t)
         /\ \A t \in Operators : Apart(t)
  <1>1. \A t \in Reservers : Holds(t)
    BY DEF RecordInv, Holds, Pends, Cancels
  <1>2. \A t \in Reservers : Goes(t)
    BY DEF HereInv, Stays, Goes, Orphaned
  <1>3. \A t \in Operators : Apart(t)
    BY Roles DEF RecordInv, HereInv, Apart
  <1>4. QED
    BY <1>1, <1>2, <1>3

\* Each Reserve keeps its record while the others keep theirs.
LEMMA RecordKept ==
  ASSUME TypeOK, TypeOK', ControlTypeOK, ControlTypeOK', RecordInv, Kept,
         \A t \in Reservers : Holds(t), \A t \in Operators : Apart(t)
  PROVE  RecordInv'
  <1>1. ASSUME NEW t \in Reservers
        PROVE  /\ Pends(t)' => Owns(t, "pending")'
               /\ Cancels(t)' => Owns(t, "cancelling")'
               /\ flow'[t].pc = "begin" => th'[t].op = "begin" /\ th'[t].id = flow'[t].id
               /\ flow'[t].pc = "send" => flow'[t].id < disk'.next.reservation
               /\ flow'[t].pc # "vanished"
    <2>1. Holds(t) /\ t \in Clients
      BY Roles
    <2>2. ASSUME NEW s \in {"pending", "cancelling"}, Owns(t, s),
                 flow'[t].id = flow[t].id, flow'[t].evse = flow[t].evse
          PROVE  Owns(t, s)'
      BY <2>2 DEF Owns, Kept
    <2>3. CASE Pends(t)
      <3>1. Pends(t)' /\ flow[t].pc # "idle" /\ ~Cancels(t)'
        BY <2>1, <2>3 DEF Holds, Pends, Cancels
      <3>2. Owns(t, "pending")'
        BY <2>1, <2>2, <2>3, <3>1 DEF Holds, RecordInv
      <3>3. flow'[t].pc = "begin" => th'[t].op = "begin" /\ th'[t].id = flow'[t].id
        BY <2>1, <3>1 DEF Holds, RecordInv, Kept
      <3>4. flow'[t].pc = "send" => flow'[t].id < disk'.next.reservation
        BY <2>1, <3>1, Numbers, NextNumbers DEF Holds, RecordInv, Kept, Shrinks, AllNumbers
      <3>5. QED
        BY <2>1, <3>1, <3>2, <3>3, <3>4 DEF Holds
    <2>4. CASE Cancels(t)
      <3>1. Cancels(t)' /\ flow[t].pc # "idle" /\ ~Pends(t)'
        BY <2>1, <2>4 DEF Holds, Pends, Cancels
      <3>2. Owns(t, "cancelling")'
        BY <2>1, <2>2, <2>4, <3>1 DEF Holds, RecordInv
      <3>3. QED
        BY <2>1, <3>1, <3>2 DEF Holds, Pends
    <2>5. CASE ~Pends(t) /\ ~Cancels(t)
      BY <2>1, <2>5 DEF Holds, Pends, Cancels
    <2>6. QED
      BY <2>3, <2>4, <2>5
  <1>2. \A r \in reservations' : r.status # "active" =>
          \E t \in Reservers : (Pends(t)' \/ Cancels(t)') /\ flow'[t].id = r.id
    BY DEF RecordInv, Kept, Holds, Pends, Cancels
  <1>3. \A t, u \in Reservers : /\ Pends(t)' \/ Cancels(t)'
                                /\ Pends(u)' \/ Cancels(u)'
                                /\ flow'[t].id = flow'[u].id
                                => t = u
    BY DEF RecordInv, Holds, Pends, Cancels
  <1>4. ASSUME NEW t \in Operators
        PROVE  /\ flow'[t].op # "ReserveNow"
               /\ flow'[t].op = "CancelReservation" => flow'[t].pc # "begin"
               /\ flow'[t].op = "CancelReservation" /\ flow'[t].pc \in {"send", "wait"} =>
                    /\ up' = TRUE /\ flow'[t].id < next'.reservation
                    /\ \A r \in reservations' : r.id = flow'[t].id => r.status = "active"
    BY DEF RecordInv, Kept, Shrinks, Apart
  <1>5. QED
    BY <1>1, <1>2, <1>3, <1>4 DEF RecordInv

LEMMA StaysHere ==
  ASSUME HereInv, conn' = conn, NEW t \in Reservers, Stays(t)
  PROVE  /\ Here(t)' <=> Here(t)
         /\ Here(t) => flow'[t].id = flow[t].id /\ flow'[t].evse = flow[t].evse
  BY DEF HereInv, Stays, Here

\* A Reserve stays with the connection it began on.
LEMMA HereKept ==
  ASSUME HereInv, Shrinks, conn' = conn,
         conn.open = FALSE => wire' = <<>> /\ calls' = <<>>,
         \A t \in Reservers : Stays(t), \A t \in Operators : Apart(t)
  PROVE  HereInv'
  <1>1. \A t \in Reservers : /\ Here(t)' <=> Here(t)
                             /\ Here(t) => flow'[t].id = flow[t].id /\ flow'[t].evse = flow[t].evse
    BY StaysHere
  <1>2. conn'.n # 0 /\ \A t \in Clients : flow'[t].conn <= conn'.n
    BY DEF HereInv, Stays, Apart, Clients
  <1>3. \A t \in Reservers : flow'[t].pc \in {"idle", "entered"} => flow'[t].conn = 0
    BY DEF Stays
  <1>4. /\ conn'.open = TRUE => up' = TRUE
        /\ conn'.open = FALSE => wire' = <<>> /\ calls' = <<>>
    BY DEF HereInv, Shrinks
  <1>5. \A t \in Reservers : Here(t)' => flow'[t].id \in ReservationIds /\ flow'[t].id < next'.reservation
    BY <1>1 DEF HereInv, Shrinks
  <1>6. \A t, u \in Reservers : Here(t)' /\ Here(u)' /\ flow'[t].id = flow'[u].id => t = u
    BY <1>1 DEF HereInv
  <1>7. ASSUME NEW t \in Reservers, NEW r \in reservations', Here(t)', r.evse = flow'[t].evse
        PROVE  flow'[t].id <= r.id
    <2>1. PICK q \in reservations : q.id = r.id /\ q.evse = r.evse
      BY DEF Shrinks
    <2>2. QED
      BY <1>1, <1>7, <2>1 DEF HereInv
  <1>8. QED
    BY <1>2, <1>3, <1>4, <1>5, <1>6, <1>7 DEF HereInv

\* The order on the wire is not disturbed by steps beside it.
LEMMA WireKept ==
  ASSUME TypeOK, TypeOK', ControlTypeOK, ControlTypeOK', HereInv, WireInv, Shrinks,
         UNCHANGED <<conn, wire>>, \A e \in EVSEs : held'[e] \in {0, held[e]},
         \A t \in Reservers : Stays(t)
  PROVE  WireInv'
  <1>1. \A t \in Reservers : /\ Here(t)' <=> Here(t)
                             /\ Here(t) => flow'[t].id = flow[t].id /\ flow'[t].evse = flow[t].evse
    BY StaysHere
  <1>2. AllNumbers /\ AllNumbers'
    BY Numbers, NextNumbers
  <1>3. \A k \in DOMAIN wire : Asks(k)' <=> Asks(k)
    BY DEF Asks
  <1>4. ASSUME NEW k \in DOMAIN wire, Asks(k)
        PROVE  LET t == wire[k].by IN
               /\ Here(t)' /\ wire[k].id = flow'[t].id /\ wire[k].evse = flow'[t].evse
               /\ flow'[t].pc \notin {"begin", "send"}
               /\ wire[k].id < disk'.next.reservation
               /\ held'[wire[k].evse] < wire[k].id
    <2> DEFINE t == wire[k].by
    <2>1. /\ Here(t) /\ wire[k].id = flow[t].id /\ wire[k].evse = flow[t].evse
          /\ flow[t].pc \notin {"begin", "send"}
          /\ wire[k].id < disk.next.reservation
          /\ held[wire[k].evse] < wire[k].id
      BY <1>4 DEF WireInv
    <2>2. t \in Reservers /\ wire[k].evse \in EVSEs /\ wire[k].id \in Nat
      BY <1>2, <2>1 DEF Here, AllNumbers
    <2>3. Here(t)' /\ wire[k].id = flow'[t].id /\ wire[k].evse = flow'[t].evse
      BY <1>1, <2>1, <2>2
    <2>4. flow'[t].pc \notin {"begin", "send"}
      BY <2>1, <2>2 DEF Stays
    <2>5. wire[k].id < disk'.next.reservation
      BY <1>2, <2>1, <2>2 DEF AllNumbers, Shrinks
    <2>6. held'[wire[k].evse] < wire[k].id
      <3>1. ASSUME NEW e \in EVSEs, held[e] < wire[k].id
            PROVE  held'[e] < wire[k].id
        <4>1. held[e] \in Nat /\ held'[e] \in {0, held[e]}
          BY <1>2 DEF AllNumbers
        <4>2. \A a, b, c \in Nat : a < b /\ c \in {0, a} => c < b
          OBVIOUS
        <4>3. QED
          BY <2>2, <3>1, <4>1, <4>2
      <3>2. QED
        BY <2>1, <2>2, <3>1
    <2>7. QED
      BY <2>3, <2>4, <2>5, <2>6
  <1>5. \A k, l \in DOMAIN wire : Asks(k) /\ Asks(l) /\ k < l /\ wire[k].evse = wire[l].evse =>
          wire[k].id < wire[l].id
    BY DEF WireInv
  <1>6. \A e \in EVSEs : held'[e] # 0 => held'[e] < disk'.next.reservation
    BY <1>2 DEF WireInv, AllNumbers, Shrinks
  <1>7. ASSUME NEW t \in Reservers, Here(t)'
        PROVE  /\ flow'[t].pc \in {"begin", "send"} => held'[flow'[t].evse] < flow'[t].id
               /\ \A e \in EVSEs : held'[e] = flow'[t].id => e = flow'[t].evse
    <2>1. /\ Here(t) /\ flow'[t].id = flow[t].id /\ flow'[t].evse = flow[t].evse
          /\ flow[t].evse \in EVSEs /\ flow[t].id \in ReservationIds
      BY <1>1, <1>2, <1>7, Roles DEF AllNumbers, HereInv
    <2>2. flow[t].id \in Nat /\ flow[t].id # 0
      BY <2>1, Typed
    <2>3. \A e \in EVSEs : held'[e] = flow'[t].id => e = flow'[t].evse
      BY <2>1, <2>2 DEF WireInv
    <2>4. flow'[t].pc \in {"begin", "send"} => held[flow[t].evse] < flow[t].id
      BY <2>1 DEF WireInv, Stays
    <2>5. held[flow[t].evse] \in Nat /\ held'[flow[t].evse] \in {0, held[flow[t].evse]}
      BY <1>2, <2>1 DEF AllNumbers
    <2>6. \A a, b, c \in Nat : a < b /\ c \in {0, a} => c < b
      OBVIOUS
    <2>7. QED
      BY <2>1, <2>2, <2>3, <2>4, <2>5, <2>6
  <1>8. QED
    BY <1>3, <1>4, <1>5, <1>6, <1>7 DEF WireInv

(* A Reserve that owns a record is the last one that asked for its EVSE. *)
LEMMA LastToAsk ==
  ASSUME TypeOK, ControlTypeOK, HereInv, WireInv, NEW t \in Reservers, NEW s, Owns(t, s)
  PROVE  \A k \in DOMAIN wire : Asks(k) /\ wire[k].evse = flow[t].evse => wire[k].id <= flow[t].id
  <1>1. PICK r \in reservations : r.id = flow[t].id /\ r.evse = flow[t].evse
    BY DEF Owns
  <1>2. QED
    BY <1>1 DEF WireInv, HereInv, Here

\* A cancel that follows its orphan stays behind it.
LEMMA OrphanKept ==
  ASSUME TypeOK, TypeOK', ControlTypeOK, ControlTypeOK', HereInv, WireInv, OrphanInv,
         UNCHANGED <<conn, wire>>, \A e \in EVSEs : held'[e] \in {0, held[e]},
         \A t \in Reservers : Goes(t)
  PROVE  OrphanInv'
  <1> SUFFICES ASSUME NEW t \in Reservers, Here(t)'
               PROVE  Settles(t)'
    BY DEF OrphanInv
  <1>1. AllNumbers /\ AllNumbers' /\ t \in Clients
    BY Numbers, NextNumbers, Roles
  <1>2. /\ Here(t) /\ flow'[t].id = flow[t].id /\ flow'[t].evse = flow[t].evse
        /\ flow[t].id \in Nat /\ flow[t].id # 0 /\ flow[t].evse \in EVSEs
    BY <1>1, StaysHere, Typed DEF AllNumbers, HereInv, Goes
  <1>3. \A k \in DOMAIN wire : (Asks(k)' <=> Asks(k)) /\ (Undoes(k, t)' <=> Undoes(k, t))
    BY <1>2 DEF Asks, Undoes
  <1>4. held'[flow[t].evse] = flow[t].id => held[flow[t].evse] = flow[t].id
    BY <1>2
  <1>5. flow'[t].pc \in Undone => flow[t].pc \in Undone
    BY <1>2 DEF Goes
  <1>6. CASE Orphaned(t)
    BY <1>2, <1>3, <1>4, <1>5, <1>6 DEF OrphanInv, Settles, Undone
  <1>7. CASE ~Orphaned(t)
    <2>1. flow'[t].pc \notin Undone
      BY <1>5, <1>7 DEF Undone, Orphaned
    <2>2. Orphaned(t)' => \A k \in DOMAIN wire : Asks(k) /\ wire[k].evse = flow[t].evse => wire[k].id <= flow[t].id
      BY <1>7, LastToAsk DEF Goes
    <2>3. Orphaned(t)' => \A k \in DOMAIN wire : ~(Asks(k) /\ wire[k].evse = flow[t].evse /\ wire[k].id > flow[t].id)
      BY <1>1, <1>2, <2>2 DEF AllNumbers
    <2>4. QED
      BY <1>2, <1>3, <2>1, <2>3 DEF Undone, Settles
  <1>8. QED
    BY <1>6, <1>7

(* A request joins the wire. *)
Sent(q) ==
  /\ Len(wire) \in Nat /\ DOMAIN wire = 1..Len(wire) /\ DOMAIN wire' = 1..(Len(wire) + 1)
  /\ wire'[Len(wire) + 1] = q
  /\ \A l \in DOMAIN wire : wire'[l] = wire[l]
  /\ q.kind = "ReserveNow" =>
       /\ Here(q.by) /\ flow[q.by].pc = "send" /\ flow'[q.by].pc = "wait"
       /\ q.id = flow[q.by].id /\ q.evse = flow[q.by].evse

\* A ReserveNow is sent behind those with smaller ids for its EVSE.
LEMMA WireGrows ==
  ASSUME TypeOK, TypeOK', ControlTypeOK, ControlTypeOK', RecordInv, HereInv, WireInv, Shrinks,
         UNCHANGED <<conn, held>>, NEW q, Sent(q), \A t \in Reservers : Stays(t)
  PROVE  WireInv'
  <1>1. \A t \in Reservers : /\ Here(t)' <=> Here(t)
                             /\ Here(t) => flow'[t].id = flow[t].id /\ flow'[t].evse = flow[t].evse
    BY StaysHere
  <1>2. AllNumbers /\ AllNumbers'
    BY Numbers, NextNumbers
  <1>n. PICK n \in Nat : n = Len(wire) + 1
    BY DEF Sent
  <1>3. /\ n \in DOMAIN wire' /\ wire'[n] = q /\ n \in Nat
        /\ \A k \in DOMAIN wire' : k = n \/ (k \in DOMAIN wire /\ k < n /\ wire'[k] = wire[k])
        /\ \A k \in DOMAIN wire : k \in Nat
    BY <1>n DEF Sent
  <1>4. \A k \in DOMAIN wire' : Asks(k)' => (k = n /\ q.kind = "ReserveNow") \/ (k # n /\ Asks(k))
    BY <1>3 DEF Asks
  <1>5. ASSUME NEW k \in DOMAIN wire', Asks(k)'
        PROVE  \E t \in Reservers :
                 /\ t = wire'[k].by /\ Here(t)'
                 /\ wire'[k].id = flow'[t].id /\ wire'[k].evse = flow'[t].evse
                 /\ flow'[t].pc \notin {"begin", "send"}
                 /\ wire'[k].id < disk'.next.reservation
                 /\ held'[wire'[k].evse] < wire'[k].id
    <2>1. \E t \in Reservers :
            /\ t = wire'[k].by /\ Here(t) /\ wire'[k].id = flow[t].id /\ wire'[k].evse = flow[t].evse
            /\ wire'[k].id < disk.next.reservation /\ held[wire'[k].evse] < wire'[k].id
            /\ flow'[t].pc \notin {"begin", "send"}
      <3>1. CASE k = n
        <4>1. wire'[k] = q /\ q.kind = "ReserveNow"
          BY <1>3, <1>4, <1>5, <3>1
        <4>2. /\ q.by \in Reservers /\ Here(q.by) /\ flow[q.by].pc = "send" /\ flow'[q.by].pc = "wait"
              /\ q.id = flow[q.by].id /\ q.evse = flow[q.by].evse
          BY <4>1 DEF Sent, Here
        <4>3. QED
          BY <4>1, <4>2 DEF RecordInv, WireInv
      <3>2. CASE k # n
        <4>1. k \in DOMAIN wire /\ Asks(k) /\ wire'[k] = wire[k]
          BY <1>3, <1>4, <1>5, <3>2
        <4> DEFINE u == wire[k].by
        <4>2. /\ Here(u) /\ wire[k].id = flow[u].id /\ wire[k].evse = flow[u].evse
              /\ wire[k].id < disk.next.reservation /\ held[wire[k].evse] < wire[k].id
              /\ flow[u].pc \notin {"begin", "send"}
          BY <4>1 DEF WireInv
        <4>3. u \in Reservers /\ flow'[u].pc \notin {"begin", "send"}
          BY <4>2 DEF Stays, Here
        <4>4. QED
          BY <4>1, <4>2, <4>3
      <3>3. QED
        BY <3>1, <3>2
    <2>2. PICK t \in Reservers :
            /\ t = wire'[k].by /\ Here(t) /\ wire'[k].id = flow[t].id /\ wire'[k].evse = flow[t].evse
            /\ wire'[k].id < disk.next.reservation /\ held[wire'[k].evse] < wire'[k].id
            /\ flow'[t].pc \notin {"begin", "send"}
      BY <2>1
    <2>3. Here(t)' /\ wire'[k].id = flow'[t].id /\ wire'[k].evse = flow'[t].evse
      BY <1>1, <2>2
    <2>4. wire'[k].id < disk'.next.reservation
      BY <1>2, <2>2 DEF AllNumbers, Shrinks
    <2>5. QED
      BY <2>2, <2>3, <2>4
  <1>6. ASSUME NEW k \in DOMAIN wire', NEW l \in DOMAIN wire', Asks(k)', Asks(l)', k < l,
               wire'[k].evse = wire'[l].evse
        PROVE  wire'[k].id < wire'[l].id
    <2>1. k # n /\ k \in DOMAIN wire /\ Asks(k) /\ wire'[k] = wire[k]
      BY <1>3, <1>4, <1>6
    <2>2. CASE l = n
      <3> DEFINE t == q.by
                 u == wire[k].by
      <3>1. /\ wire'[l] = q /\ t \in Reservers /\ Here(t) /\ flow[t].pc = "send"
            /\ q.id = flow[t].id /\ q.evse = flow[t].evse
        BY <1>3, <1>4, <1>6, <2>2 DEF Sent, Here
      <3>2. PICK r \in reservations : r.id = flow[t].id /\ r.evse = flow[t].evse
        BY <3>1 DEF RecordInv, Pends, Owns
      <3>3. /\ u \in Reservers /\ Here(u) /\ wire[k].id = flow[u].id /\ wire[k].evse = flow[u].evse
            /\ flow[u].pc \notin {"begin", "send"}
        BY <2>1 DEF WireInv, Here
      <3>4. flow[u].id <= flow[t].id /\ flow[u].id # flow[t].id
        BY <1>6, <2>1, <3>1, <3>2, <3>3 DEF HereInv
      <3>5. QED
        BY <1>2, <2>1, <3>1, <3>3, <3>4, Roles DEF AllNumbers
    <2>3. CASE l # n
      BY <1>3, <1>4, <1>6, <2>1, <2>3 DEF WireInv
    <2>4. QED
      BY <2>2, <2>3
  <1>7. \A e \in EVSEs : held'[e] # 0 => held'[e] < disk'.next.reservation
    BY <1>2 DEF WireInv, AllNumbers, Shrinks
  <1>8. ASSUME NEW t \in Reservers, Here(t)'
        PROVE  /\ flow'[t].pc \in {"begin", "send"} => held'[flow'[t].evse] < flow'[t].id
               /\ \A e \in EVSEs : held'[e] = flow'[t].id => e = flow'[t].evse
    BY <1>1, <1>8 DEF WireInv, Stays
  <1>9. \A k \in DOMAIN wire' : Asks(k)' =>
          /\ Here(wire[k].by)' /\ wire'[k].id = flow'[wire'[k].by].id
          /\ wire'[k].evse = flow'[wire'[k].by].evse
          /\ flow'[wire'[k].by].pc \notin {"begin", "send"}
          /\ wire'[k].id < disk'.next.reservation
          /\ held'[wire'[k].evse] < wire'[k].id
    BY <1>5 DEF Here
  <1>10. QED
    BY <1>6, <1>7, <1>8, <1>9 DEF WireInv

\* A ReserveNow for the EVSE of an orphan is sent behind the orphan's cancel.
LEMMA OrphanGrows ==
  ASSUME TypeOK, TypeOK', ControlTypeOK, ControlTypeOK', CoreInv, RecordInv, HereInv, WireInv, OrphanInv,
         UNCHANGED <<conn, held>>, NEW q, Sent(q),
         \A t \in Reservers : \/ Goes(t)
                              \/ /\ Stays(t) /\ Orphaned(t)
                                 /\ q.kind = "CancelReservation" /\ q.id = flow[t].id
                                 /\ q.evse = flow[t].evse
  PROVE  OrphanInv'
  <1> SUFFICES ASSUME NEW t \in Reservers, Here(t)'
               PROVE  Settles(t)'
    BY DEF OrphanInv
  <1>1. AllNumbers /\ AllNumbers' /\ t \in Clients /\ Stays(t)
    BY Numbers, NextNumbers, Roles DEF Goes
  <1>2. /\ Here(t) /\ flow'[t].id = flow[t].id /\ flow'[t].evse = flow[t].evse
        /\ flow[t].id \in Nat /\ flow[t].id # 0 /\ flow[t].evse \in EVSEs
    BY <1>1, StaysHere, Typed DEF AllNumbers, HereInv
  <1>n. PICK n \in Nat : n = Len(wire) + 1
    BY DEF Sent
  <1>3. /\ n \in DOMAIN wire' /\ wire'[n] = q /\ n \in Nat
        /\ \A k \in DOMAIN wire' : k = n \/ (k \in DOMAIN wire /\ k < n /\ wire'[k] = wire[k])
        /\ \A k \in DOMAIN wire : k \in Nat /\ k \in DOMAIN wire' /\ k < n /\ wire'[k] = wire[k]
    BY <1>n DEF Sent
  <1>4. /\ \A k \in DOMAIN wire' : Asks(k)' => (k = n /\ q.kind = "ReserveNow") \/ (k # n /\ Asks(k) /\ k \in DOMAIN wire)
        /\ \A k \in DOMAIN wire : Undoes(k, t) => Undoes(k, t)'
    BY <1>2, <1>3 DEF Asks, Undoes
  <1>5. CASE Goes(t)
    <2>1. flow'[t].pc \in Undone => flow[t].pc \in Undone
      BY <1>2, <1>5 DEF Goes
    <2>2. ASSUME q.kind = "ReserveNow", q.id = flow[t].id
          PROVE  flow'[t].pc = "wait"
      BY <1>2, <2>2 DEF Sent, HereInv, Here
    <2>3. ASSUME flow'[t].pc \in Undone
          PROVE  /\ held'[flow'[t].evse] = flow'[t].id => \E l \in DOMAIN wire' : Undoes(l, t)'
                 /\ \A k \in DOMAIN wire' : Asks(k)' /\ wire'[k].id = flow'[t].id =>
                      \E l \in DOMAIN wire' : k < l /\ Undoes(l, t)'
      <3>1. flow[t].pc \in {"cancelWait", "cancelEnd", "cancelled", "abandoned"} /\ Settles(t)
        BY <1>2, <2>1, <2>3 DEF Undone, OrphanInv
      <3>2. ~(q.kind = "ReserveNow" /\ q.id = flow[t].id)
        BY <2>2, <2>3 DEF Undone
      <3>3. held'[flow'[t].evse] = flow'[t].id => \E l \in DOMAIN wire' : Undoes(l, t)'
        BY <1>2, <1>3, <1>4, <3>1 DEF Settles
      <3>4. \A k \in DOMAIN wire' : Asks(k)' /\ wire'[k].id = flow'[t].id =>
              \E l \in DOMAIN wire' : k < l /\ Undoes(l, t)'
        BY <1>2, <1>3, <1>4, <3>1, <3>2 DEF Settles
      <3>5. QED
        BY <3>3, <3>4
    <2>4. ASSUME Orphaned(t)', NEW k \in DOMAIN wire', Asks(k)', wire'[k].evse = flow'[t].evse,
                 wire'[k].id > flow'[t].id
          PROVE  /\ held'[flow'[t].evse] = flow'[t].id => \E l \in DOMAIN wire' : l < k /\ Undoes(l, t)'
                 /\ \A j \in DOMAIN wire' : Asks(j)' /\ j < k /\ wire'[j].id = flow'[t].id =>
                      \E l \in DOMAIN wire' : j < l /\ l < k /\ Undoes(l, t)'
      <3>1. CASE k # n
        <4>1. k \in DOMAIN wire /\ Asks(k) /\ wire'[k] = wire[k] /\ wire[k].id \in Nat
          BY <1>1, <1>3, <1>4, <2>4, <3>1 DEF AllNumbers
        <4>2. Orphaned(t)
          BY <1>2, <1>5, <2>4, <4>1, LastToAsk DEF Goes
        <4>3. Settles(t)
          BY <1>2 DEF OrphanInv
        <4>4. held'[flow'[t].evse] = flow'[t].id => \E l \in DOMAIN wire' : l < k /\ Undoes(l, t)'
          BY <1>2, <1>3, <1>4, <2>4, <4>1, <4>2, <4>3 DEF Settles
        <4>5. \A j \in DOMAIN wire' : Asks(j)' /\ j < k /\ wire'[j].id = flow'[t].id =>
                \E l \in DOMAIN wire' : j < l /\ l < k /\ Undoes(l, t)'
          BY <1>2, <1>3, <1>4, <2>4, <4>1, <4>2, <4>3 DEF Settles
        <4>6. QED
          BY <4>4, <4>5
      <3>2. CASE k = n
        <4> DEFINE u == q.by
        <4>1. /\ u \in Reservers /\ Here(u) /\ flow[u].pc = "send" /\ flow'[u].pc = "wait"
              /\ flow[u].evse = flow[t].evse /\ flow[u].id > flow[t].id /\ u # t
          BY <1>2, <1>3, <1>4, <2>4, <3>2 DEF Sent, Here, Orphaned
        <4>2. Owns(u, "pending")
          BY <4>1 DEF RecordInv, Pends
        <4>3. \A s : ~Owns(t, s)
          BY <1>2, <4>1, <4>2 DEF Owns, CoreInv, RecordsUnique, Unique
        <4>4. Orphaned(t) /\ ~Cancels(t)
          BY <1>5, <2>4, <4>3 DEF Goes, RecordInv
        <4>5. flow[t].pc \in {"cancelWait", "cancelEnd", "cancelled", "abandoned"} /\ Settles(t)
          BY <1>2, <4>4 DEF Orphaned, Cancels, OrphanInv
        <4>6. held'[flow'[t].evse] = flow'[t].id => \E l \in DOMAIN wire' : l < k /\ Undoes(l, t)'
          BY <1>2, <1>3, <1>4, <3>2, <4>5 DEF Settles
        <4>7. \A j \in DOMAIN wire' : Asks(j)' /\ j < k /\ wire'[j].id = flow'[t].id =>
                \E l \in DOMAIN wire' : j < l /\ l < k /\ Undoes(l, t)'
          BY <1>2, <1>3, <1>4, <3>2, <4>5 DEF Settles
        <4>8. QED
          BY <4>6, <4>7
      <3>3. QED
        BY <3>1, <3>2
    <2>5. QED
      BY <2>3, <2>4 DEF Settles, Undone
  <1>6. CASE /\ Stays(t) /\ Orphaned(t)
             /\ q.kind = "CancelReservation" /\ q.id = flow[t].id /\ q.evse = flow[t].evse
    <2>1. Undoes(n, t)' /\ \A k \in DOMAIN wire' : Asks(k)' => k \in DOMAIN wire /\ Asks(k) /\ k < n
      BY <1>2, <1>3, <1>4, <1>6 DEF Undoes
    <2>2. Settles(t)
      BY <1>2 DEF OrphanInv
    <2>3. ASSUME NEW k \in DOMAIN wire', Asks(k)', wire'[k].evse = flow'[t].evse,
                 wire'[k].id > flow'[t].id
          PROVE  /\ held'[flow'[t].evse] = flow'[t].id => \E l \in DOMAIN wire' : l < k /\ Undoes(l, t)'
                 /\ \A j \in DOMAIN wire' : Asks(j)' /\ j < k /\ wire'[j].id = flow'[t].id =>
                      \E l \in DOMAIN wire' : j < l /\ l < k /\ Undoes(l, t)'
      <3>1. k \in DOMAIN wire /\ Asks(k) /\ wire'[k] = wire[k]
        BY <1>3, <2>1, <2>3
      <3>2. held'[flow'[t].evse] = flow'[t].id => \E l \in DOMAIN wire' : l < k /\ Undoes(l, t)'
        BY <1>2, <1>3, <1>4, <1>6, <2>2, <2>3, <3>1 DEF Settles
      <3>3. \A j \in DOMAIN wire' : Asks(j)' /\ j < k /\ wire'[j].id = flow'[t].id =>
              \E l \in DOMAIN wire' : j < l /\ l < k /\ Undoes(l, t)'
        BY <1>2, <1>3, <1>4, <1>6, <2>1, <2>2, <2>3, <3>1 DEF Settles
      <3>4. QED
        BY <3>2, <3>3
    <2>4. QED
      BY <1>3, <2>1, <2>3 DEF Settles
  <1>7. QED
    BY <1>5, <1>6

(* The station takes the head of the wire.  It may now hold the EVSE for a   *)
(* ReserveNow; it does not for what a CancelReservation names.               *)
Taken ==
  /\ Len(wire) \in Nat /\ Len(wire) >= 1 /\ DOMAIN wire = 1..Len(wire)
  /\ DOMAIN wire' = 1..(Len(wire) - 1)
  /\ \A l \in DOMAIN wire' : wire'[l] = wire[l + 1]
  /\ \A e \in EVSEs :
       \/ held'[e] = 0
       \/ /\ held'[e] = held[e]
          /\ ~(wire[1].kind = "CancelReservation" /\ wire[1].evse = e /\ wire[1].id = held[e])
       \/ Asks(1) /\ wire[1].evse = e /\ held'[e] = wire[1].id

\* The station takes requests from the front, so the order remains.
LEMMA WireShrinks ==
  ASSUME TypeOK, ControlTypeOK, ControlTypeOK', RecordInv, HereInv, WireInv, Taken,
         UNCHANGED <<flow, conn, disk>>
  PROVE  WireInv'
  <1>1. AllNumbers
    BY Numbers
  <1>2. \A t \in Reservers : Here(t)' <=> Here(t)
    BY DEF Here
  <1>3. 1 \in DOMAIN wire /\ \A k \in DOMAIN wire' : k \in Nat /\ k + 1 \in DOMAIN wire /\ 1 < k + 1
    BY DEF Taken
  <1>4. \A k \in DOMAIN wire' : wire'[k] = wire[k + 1] /\ (Asks(k)' => Asks(k + 1))
    BY <1>3 DEF Asks, Taken
  <1>5. ASSUME NEW e \in EVSEs, held'[e] # 0, held'[e] # held[e]
        PROVE  Asks(1) /\ wire[1].evse = e /\ held'[e] = wire[1].id
    BY <1>5 DEF Taken
  <1>6. ASSUME NEW k \in DOMAIN wire', Asks(k)'
        PROVE  held'[wire'[k].evse] < wire'[k].id
    <2> DEFINE m == wire[k + 1]
    <2>1. m = wire'[k] /\ Asks(k + 1) /\ m.evse \in EVSEs /\ m.id \in Nat /\ held[m.evse] \in Nat
      BY <1>1, <1>3, <1>4, <1>6 DEF AllNumbers
    <2>2. held[m.evse] < m.id
      BY <1>3, <2>1 DEF WireInv
    <2>3. CASE held'[m.evse] = 0 \/ held'[m.evse] = held[m.evse]
      BY <2>1, <2>2, <2>3
    <2>4. CASE held'[m.evse] # 0 /\ held'[m.evse] # held[m.evse]
      <3>1. Asks(1) /\ wire[1].evse = m.evse /\ held'[m.evse] = wire[1].id
        BY <1>5, <2>1, <2>4
      <3>2. wire[1].id < m.id
        BY <1>3, <2>1, <3>1 DEF WireInv
      <3>3. QED
        BY <2>1, <3>1, <3>2
    <2>5. QED
      BY <2>3, <2>4
  <1>7. \A k \in DOMAIN wire' : Asks(k)' =>
          /\ Here(wire[k].by)' /\ wire'[k].id = flow'[wire'[k].by].id
          /\ wire'[k].evse = flow'[wire'[k].by].evse
          /\ flow'[wire'[k].by].pc \notin {"begin", "send"}
          /\ wire'[k].id < disk'.next.reservation
    BY <1>3, <1>4 DEF WireInv, Here
  <1>8. ASSUME NEW k \in DOMAIN wire', NEW l \in DOMAIN wire', Asks(k)', Asks(l)', k < l,
               wire'[k].evse = wire'[l].evse
        PROVE  wire'[k].id < wire'[l].id
    <2>1. k + 1 < l + 1
      BY <1>3, <1>8
    <2>2. QED
      BY <1>3, <1>4, <1>8, <2>1 DEF WireInv
  <1>9. \A e \in EVSEs : held'[e] # 0 => held'[e] < disk'.next.reservation
    <2>1. Asks(1) => wire[1].id < disk.next.reservation
      BY <1>3 DEF WireInv
    <2>2. QED
      BY <1>5, <2>1 DEF WireInv
  <1>10. ASSUME NEW t \in Reservers, Here(t)'
         PROVE  /\ flow'[t].pc \in {"begin", "send"} => held'[flow'[t].evse] < flow'[t].id
                /\ \A e \in EVSEs : held'[e] = flow'[t].id => e = flow'[t].evse
    <2>1. Here(t) /\ t \in Clients /\ flow[t].id \in Nat /\ flow[t].id # 0 /\ flow[t].evse \in EVSEs
      BY <1>1, <1>2, <1>10, Roles, Typed DEF AllNumbers, HereInv
    <2>2. ASSUME NEW e \in EVSEs, held'[e] = flow[t].id PROVE e = flow[t].evse
      <3>1. CASE held'[e] = held[e]
        BY <2>1, <2>2, <3>1 DEF WireInv
      <3>2. CASE held'[e] # held[e]
        <4>1. Asks(1) /\ wire[1].evse = e /\ wire[1].id = flow[t].id
          BY <1>5, <2>1, <2>2, <3>2
        <4>2. Here(wire[1].by) /\ wire[1].id = flow[wire[1].by].id /\ wire[1].evse = flow[wire[1].by].evse
          BY <1>3, <4>1 DEF WireInv
        <4>3. wire[1].by = t
          BY <2>1, <4>1, <4>2 DEF HereInv, Here
        <4>4. QED
          BY <4>1, <4>2, <4>3
      <3>3. QED
        BY <3>1, <3>2
    <2>3. ASSUME flow[t].pc \in {"begin", "send"} PROVE held'[flow[t].evse] < flow[t].id
      <3> DEFINE e == flow[t].evse
      <3>1. held[e] < flow[t].id /\ held[e] \in Nat
        BY <1>1, <2>1, <2>3 DEF WireInv, AllNumbers
      <3>2. CASE held'[e] = 0 \/ held'[e] = held[e]
        BY <2>1, <3>1, <3>2
      <3>3. CASE held'[e] # 0 /\ held'[e] # held[e]
        <4>1. Asks(1) /\ wire[1].evse = e /\ held'[e] = wire[1].id
          BY <1>5, <2>1, <3>3
        <4>2. wire[1].id <= flow[t].id
          BY <1>3, <2>3, <4>1, LastToAsk DEF RecordInv, Pends
        <4>3. /\ Here(wire[1].by) /\ wire[1].id = flow[wire[1].by].id
              /\ flow[wire[1].by].pc \notin {"begin", "send"}
          BY <1>3, <4>1 DEF WireInv
        <4>4. wire[1].id # flow[t].id
          BY <2>1, <2>3, <4>3 DEF HereInv, Here
        <4>5. QED
          BY <1>1, <1>3, <2>1, <4>1, <4>2, <4>4 DEF AllNumbers
      <3>4. QED
        BY <3>2, <3>3
    <2>4. QED
      BY <2>2, <2>3
  <1>11. QED
    BY <1>6, <1>7, <1>8, <1>9, <1>10 DEF WireInv

\* When the station takes an orphan's ReserveNow, its cancel is still to come.
LEMMA OrphanShrinks ==
  ASSUME TypeOK, ControlTypeOK, ControlTypeOK', HereInv, WireInv, OrphanInv, Taken,
         UNCHANGED <<flow, conn>>
  PROVE  OrphanInv'
  <1> SUFFICES ASSUME NEW t \in Reservers, Here(t)'
               PROVE  Settles(t)'
    BY DEF OrphanInv
  <1>1. AllNumbers /\ t \in Clients
    BY Numbers, Roles
  <1>2. /\ Here(t) /\ Settles(t)
        /\ flow[t].id \in Nat /\ flow[t].id # 0 /\ flow[t].evse \in EVSEs
    BY <1>1, Typed DEF AllNumbers, HereInv, Here, OrphanInv
  <1>3. /\ 1 \in DOMAIN wire
        /\ \A k \in DOMAIN wire' : k \in Nat /\ k + 1 \in DOMAIN wire /\ 1 < k + 1
        /\ \A k \in DOMAIN wire : k \in Int /\ (1 < k => k - 1 \in DOMAIN wire' /\ (k - 1) + 1 = k)
    BY DEF Taken
  <1>4. \A k \in DOMAIN wire' : wire'[k] = wire[k + 1] /\ (Asks(k)' => Asks(k + 1))
    BY <1>3 DEF Asks, Taken
  <1>5. ASSUME NEW l \in DOMAIN wire, 1 < l, Undoes(l, t)
        PROVE  \E j \in DOMAIN wire' : j + 1 = l /\ Undoes(j, t)'
    <2>1. PICK j \in DOMAIN wire' : j = l - 1
      BY <1>3, <1>5
    <2>2. j + 1 = l /\ wire'[j] = wire[l]
      BY <1>3, <1>4, <1>5, <2>1
    <2>3. Undoes(j, t)'
      BY <1>5, <2>2 DEF Undoes
    <2>4. QED
      BY <2>2, <2>3
  <1>6. ASSUME held'[flow[t].evse] = flow[t].id
        PROVE  \/ held[flow[t].evse] = flow[t].id /\ ~Undoes(1, t)
               \/ Asks(1) /\ wire[1].evse = flow[t].evse /\ wire[1].id = flow[t].id
    BY <1>2, <1>6 DEF Taken, Undoes
  <1>7. ASSUME flow[t].pc \in {"cancelWait", "cancelEnd", "cancelled", "abandoned"}
        PROVE  /\ held'[flow[t].evse] = flow[t].id => \E l \in DOMAIN wire' : Undoes(l, t)'
               /\ \A k \in DOMAIN wire' : Asks(k)' /\ wire'[k].id = flow[t].id =>
                    \E l \in DOMAIN wire' : k < l /\ Undoes(l, t)'
    <2>1. /\ held[flow[t].evse] = flow[t].id => \E l \in DOMAIN wire : Undoes(l, t)
          /\ \A k \in DOMAIN wire : Asks(k) /\ wire[k].id = flow[t].id =>
               \E l \in DOMAIN wire : k < l /\ Undoes(l, t)
      BY <1>2, <1>7 DEF Settles
    <2>2. ASSUME held'[flow[t].evse] = flow[t].id
          PROVE  \E l \in DOMAIN wire' : Undoes(l, t)'
      <3>1. \E l \in DOMAIN wire : 1 < l /\ Undoes(l, t)
        <4>1. \A l \in DOMAIN wire : l # 1 => 1 < l
          BY DEF Taken
        <4>2. QED
          BY <1>3, <1>6, <2>1, <2>2, <4>1
      <3>2. QED
        BY <1>5, <3>1
    <2>3. ASSUME NEW k \in DOMAIN wire', Asks(k)', wire'[k].id = flow[t].id
          PROVE  \E l \in DOMAIN wire' : k < l /\ Undoes(l, t)'
      <3>1. PICK l \in DOMAIN wire : k + 1 < l /\ Undoes(l, t)
        BY <1>3, <1>4, <2>1, <2>3
      <3>2. 1 < l
        BY <1>3, <3>1
      <3>3. PICK j \in DOMAIN wire' : j + 1 = l /\ Undoes(j, t)'
        BY <1>5, <3>1, <3>2
      <3>4. k < j
        BY <1>3, <3>1, <3>3
      <3>5. QED
        BY <3>3, <3>4
    <2>4. QED
      BY <2>2, <2>3
  <1>8. ASSUME Orphaned(t), NEW k \in DOMAIN wire', Asks(k)', wire'[k].evse = flow[t].evse,
               wire'[k].id > flow[t].id
        PROVE  /\ held'[flow[t].evse] = flow[t].id => \E l \in DOMAIN wire' : l < k /\ Undoes(l, t)'
               /\ \A j \in DOMAIN wire' : Asks(j)' /\ j < k /\ wire'[j].id = flow[t].id =>
                    \E l \in DOMAIN wire' : j < l /\ l < k /\ Undoes(l, t)'
    <2>1. /\ held[flow[t].evse] = flow[t].id => \E l \in DOMAIN wire : l < k + 1 /\ Undoes(l, t)
          /\ \A j \in DOMAIN wire : Asks(j) /\ j < k + 1 /\ wire[j].id = flow[t].id =>
               \E l \in DOMAIN wire : j < l /\ l < k + 1 /\ Undoes(l, t)
      BY <1>2, <1>3, <1>4, <1>8 DEF Settles
    <2>2. ASSUME held'[flow[t].evse] = flow[t].id
          PROVE  \E l \in DOMAIN wire' : l < k /\ Undoes(l, t)'
      <3>1. \E l \in DOMAIN wire : 1 < l /\ l < k + 1 /\ Undoes(l, t)
        <4>1. \A l \in DOMAIN wire : l # 1 => 1 < l
          BY DEF Taken
        <4>2. QED
          BY <1>3, <1>6, <2>1, <2>2, <4>1
      <3>2. PICK l \in DOMAIN wire : 1 < l /\ l < k + 1 /\ Undoes(l, t)
        BY <3>1
      <3>3. PICK j \in DOMAIN wire' : j + 1 = l /\ Undoes(j, t)'
        BY <1>5, <3>2
      <3>4. j < k
        BY <1>3, <3>2, <3>3
      <3>5. QED
        BY <3>3, <3>4
    <2>3. ASSUME NEW j \in DOMAIN wire', Asks(j)', j < k, wire'[j].id = flow[t].id
          PROVE  \E l \in DOMAIN wire' : j < l /\ l < k /\ Undoes(l, t)'
      <3>1. j + 1 < k + 1
        BY <1>3, <2>3
      <3>2. PICK l \in DOMAIN wire : j + 1 < l /\ l < k + 1 /\ Undoes(l, t)
        BY <1>3, <1>4, <2>1, <2>3, <3>1
      <3>3. 1 < l
        BY <1>3, <3>2
      <3>4. PICK i \in DOMAIN wire' : i + 1 = l /\ Undoes(i, t)'
        BY <1>5, <3>2, <3>3
      <3>5. j < i /\ i < k
        BY <1>3, <3>2, <3>4
      <3>6. QED
        BY <3>4, <3>5
    <2>4. QED
      BY <2>2, <2>3
  <1>9. QED
    BY <1>7, <1>8 DEF Settles, Orphaned
-----------------------------------------------------------------------------
(* Reports of sessions *)

LEMMA ReportsTyped ==
  ASSUME ControlTypeOK
  PROVE  /\ DOMAIN calls = 1..Len(calls) /\ Len(calls) \in Nat
         /\ \A k \in DOMAIN calls : calls[k] \in Reports /\ calls[k].evse \in EVSEs /\ calls[k].conn \in Nat
         /\ \A h \in Handlers : /\ handling[h].msg \in Reports /\ handling[h].msg.evse \in EVSEs
                                /\ handling[h].msg.conn \in Nat /\ handling[h].id \in Nat
         /\ \A e \in EVSEs : sess[e] \in Sessions /\ sess[e].sent \in Nat /\ sess[e].id \in Nat
         /\ conn.n \in Nat
         /\ \A m \in Reports : m.kind \in {"none", "StartTransaction", "StopTransaction"}
  <1>1. /\ DOMAIN calls = 1..Len(calls) /\ Len(calls) \in Nat
        /\ \A k \in DOMAIN calls : calls[k] \in Reports
    <2> HIDE DEF Reports
    <2>1. QED
      BY DEF ControlTypeOK
  <1>2. \A m \in Reports : /\ m.evse \in EVSEs /\ m.conn \in Nat
                           /\ m.kind \in {"none", "StartTransaction", "StopTransaction"}
    BY DEF Reports
  <1>3. \A h \in Handlers : handling[h].msg \in Reports /\ handling[h].id \in Nat
    BY DEF ControlTypeOK, Works
  <1>4. \A e \in EVSEs : sess[e] \in Sessions /\ sess[e].sent \in Nat /\ sess[e].id \in Nat
    BY DEF ControlTypeOK, Sessions
  <1>5. conn.n \in Nat
    BY DEF ControlTypeOK
  <1>6. QED
    BY <1>1, <1>2, <1>3, <1>4, <1>5

(* A session that has nothing on its way may change. *)
LEMMA CallsKept ==
  ASSUME ControlTypeOK, CallsInv, UNCHANGED <<conn, calls, handling>>,
         \A e \in EVSEs : \/ sess'[e] = sess[e]
                          \/ sess[e].state \in {"none", "running"} /\ sess'[e].sent = 0
  PROVE  CallsInv'
  <1>1. ASSUME NEW m \in Reports, Matches(m)
        PROVE  Matches(m)'
    <2>1. m.evse \in EVSEs /\ m.kind \in {"none", "StartTransaction", "StopTransaction"}
      BY DEF Reports
    <2>2. sess[m.evse].state \in {"starting", "ending"}
      BY <1>1, <2>1 DEF Matches
    <2>3. sess'[m.evse] = sess[m.evse]
      BY <2>1, <2>2
    <2>4. QED
      BY <1>1, <2>3 DEF Matches
  <1>2. \A k \in DOMAIN calls : Matches(calls[k])'
    BY <1>1, ReportsTyped DEF CallsInv
  <1>3. \A h \in Handlers : Serves(h)' => Serves(h) /\ Matches(handling[h].msg)'
    BY <1>1, ReportsTyped DEF CallsInv, Serves
  <1>4. \A e \in EVSEs : sess'[e].sent <= conn'.n
    BY ReportsTyped DEF CallsInv
  <1>5. QED
    BY <1>2, <1>3, <1>4 DEF CallsInv

(* The handler of the connection takes the first report. *)
LEMMA CallsTaken ==
  ASSUME ControlTypeOK, HereInv, CallsInv, NEW h \in Handlers, Free(h),
         NEW p \in {"allocated", "invalid", "reply"}, NEW i \in Nat, Take(h, p, i),
         Report.kind = "StopTransaction" => p = "reply",
         UNCHANGED <<conn, sess>>
  PROVE  CallsInv'
  <1>1. calls # <<>> /\ handling[h].pc = "idle"
    BY DEF Free
  <1>2. /\ calls' \in Seq(Reports) /\ handling' \in [Handlers -> Works]
        /\ Report = calls[1] /\ calls[1] \in Reports
        /\ Len(calls) \in Nat /\ Len(calls) >= 1 /\ DOMAIN calls = 1..Len(calls)
        /\ DOMAIN calls' = 1..(Len(calls) - 1)
        /\ \A k \in DOMAIN calls' : calls'[k] = calls[k + 1]
        /\ handling'[h].pc = p /\ handling'[h].msg = calls[1]
        /\ \A g \in Handlers : g # h => handling'[g] = handling[g]
    BY <1>1, TakeFacts
  <1>3. /\ 1 \in DOMAIN calls
        /\ \A k \in DOMAIN calls' : k + 1 \in DOMAIN calls /\ k + 1 # 1
        /\ \A j, k \in DOMAIN calls' : j + 1 = k + 1 => j = k
    BY <1>2
  <1>4. \A m : Matches(m)' <=> Matches(m)
    BY DEF Matches
  <1>5. Matches(calls[1]) /\ \A g \in Handlers : handling[g].pc # "idle" => handling[g].msg.conn # calls[1].conn
    BY <1>2, <1>3 DEF CallsInv, Free
  <1>6. calls[1].conn = conn.n /\ calls[1].kind # "none" /\ (calls[1].kind = "StopTransaction" => p = "reply")
    BY <1>2, <1>5 DEF Matches
  <1>7. \A k \in DOMAIN calls' : Matches(calls'[k])
    BY <1>2, <1>3 DEF CallsInv
  <1>8. \A j, k \in DOMAIN calls' : calls'[j].evse = calls'[k].evse => j = k
    BY <1>2, <1>3 DEF CallsInv
  <1>9. ASSUME NEW g \in Handlers, handling'[g].pc # "idle"
        PROVE  /\ handling'[g].msg.conn <= conn.n /\ handling'[g].msg.kind # "none"
               /\ handling'[g].msg.kind = "StopTransaction" => handling'[g].pc = "reply"
    BY <1>2, <1>6, <1>9, ReportsTyped DEF CallsInv
  <1>10. ASSUME NEW f \in Handlers, NEW g \in Handlers, handling'[f].pc # "idle", handling'[g].pc # "idle",
                handling'[f].msg.conn = handling'[g].msg.conn
         PROVE  f = g
    BY <1>2, <1>5, <1>10 DEF CallsInv
  <1>11. ASSUME NEW g \in Handlers, Serves(g)'
         PROVE  g = h
    <2>1. handling'[g].pc # "idle" /\ handling'[g].msg.conn = conn.n
      BY <1>11 DEF Serves
    <2>2. QED
      BY <1>2, <1>5, <1>6, <2>1
  <1>12. \A k \in DOMAIN calls' : calls'[k].evse # calls[1].evse
    BY <1>2, <1>3 DEF CallsInv
  <1>13. \A g \in Handlers : Serves(g)' => /\ Matches(handling'[g].msg)
                                           /\ \A k \in DOMAIN calls' : calls'[k].evse # handling'[g].msg.evse
    BY <1>2, <1>5, <1>11, <1>12
  <1>14. \A k \in DOMAIN calls' : Matches(calls[k])'
    BY <1>7 DEF Matches
  <1>15. \A g \in Handlers : Serves(g)' => Matches(handling[g].msg)'
    BY <1>13 DEF Matches
  <1>16. \A e \in EVSEs : sess'[e].sent <= conn'.n
    BY DEF CallsInv
  <1>17. QED
    BY <1>8, <1>9, <1>10, <1>13, <1>14, <1>15, <1>16 DEF CallsInv

\* The station repeats a report once per connection and session.
LEMMA StationReportsFacts ==
  ASSUME ControlTypeOK, HereInv, CallsInv, NEW e \in EVSEs, StationReports(e)
  PROVE  /\ ControlTypeOK' /\ CallsInv'
         /\ \A d \in EVSEs : sess'[d].state = sess[d].state /\ sess'[d].id = sess[d].id
         /\ conn.open = TRUE
  <1> DEFINE s == [sess[e] EXCEPT !.sent = conn.n]
             start == sess[e].state = "starting"
             m == [kind |-> IF start THEN "StartTransaction" ELSE "StopTransaction",
                   evse |-> e, tag |-> sess[e].tag,
                   id |-> IF start THEN sess[e].named ELSE sess[e].id,
                   conn |-> conn.n]
  <1>1. /\ sess' = [sess EXCEPT ![e] = s] /\ sess \in [EVSEs -> Sessions]
        /\ calls' = Append(calls, m) /\ calls \in Seq(Reports)
        /\ sess[e].state \in {"starting", "ending"} /\ sess[e].sent # conn.n
        /\ conn.open = TRUE
        /\ UNCHANGED <<flow, ans, conn, wire, handling, held, closing, inflight>>
    BY DEF StationReports, ControlTypeOK, shut
  <1>2. /\ s \in Sessions /\ s.state = sess[e].state /\ s.id = sess[e].id /\ s.sent = conn.n
        /\ conn.n \in Nat
    BY <1>1 DEF Sessions, ControlTypeOK
  <1>3. sess[e].tag \in Tags /\ sess[e].named \in 0..MaxReservationID /\ sess[e].id \in Nat /\ sess[e].named \in Nat
    BY <1>1, CoreAssumption DEF Sessions
  <1>4. /\ m \in Reports /\ m.evse = e /\ m.conn = conn.n /\ m.kind # "none"
        /\ m.kind = "StartTransaction" => sess[e].state = "starting" /\ m.id = sess[e].named
        /\ m.kind = "StopTransaction" => sess[e].state = "ending" /\ m.id = sess[e].id
    BY <1>1, <1>2, <1>3 DEF Reports
  <1>5. NamesReservation(m)
    BY <1>3, <1>4 DEF NamesReservation
  <1> HIDE DEF s, m
  <1>6. /\ sess' \in [EVSEs -> Sessions] /\ sess'[e] = s
        /\ \A d \in EVSEs : d # e => sess'[d] = sess[d]
    BY <1>1, <1>2
  <1>n. PICK n \in Nat : n = Len(calls) + 1
    BY <1>1
  <1>7. /\ calls' \in Seq(Reports) /\ DOMAIN calls' = 1..n /\ calls'[n] = m
        /\ \A k \in DOMAIN calls' : k = n \/ (k \in DOMAIN calls /\ calls'[k] = calls[k])
    <2> HIDE DEF Reports
    <2>1. QED
      BY <1>1, <1>4, <1>n
  <1>8. ControlTypeOK'
    <2>1. \A k \in DOMAIN calls' : NamesReservation(calls'[k])
      BY <1>5, <1>7 DEF ControlTypeOK
    <2>2. QED
      BY <1>1, <1>6, <1>7, <2>1 DEF ControlTypeOK, NamesReservation
  <1>9. ASSUME NEW x \in Reports, Matches(x)
        PROVE  x.evse # e /\ sess'[x.evse] = sess[x.evse]
    BY <1>1, <1>6, <1>9 DEF Matches, Reports
  <1>10. \A k \in DOMAIN calls : calls[k].evse # e /\ Matches(calls[k])
    BY <1>9, ReportsTyped DEF CallsInv
  <1>11. ASSUME NEW k \in DOMAIN calls' PROVE Matches(calls[k])'
    <2>1. CASE k = n
      BY <1>1, <1>2, <1>4, <1>6, <1>7, <2>1 DEF Matches
    <2>2. CASE k # n
      <3>1. k \in DOMAIN calls /\ calls'[k] = calls[k] /\ calls[k] \in Reports /\ Matches(calls[k])
        BY <1>7, <1>10, <2>2, ReportsTyped
      <3>2. sess'[calls[k].evse] = sess[calls[k].evse]
        BY <1>9, <3>1
      <3>3. QED
        BY <1>1, <3>1, <3>2 DEF Matches
    <2>3. QED
      BY <2>1, <2>2
  <1>12. \A j, k \in DOMAIN calls' : calls'[j].evse = calls'[k].evse => j = k
    BY <1>4, <1>7, <1>10 DEF CallsInv
  <1>13. ASSUME NEW h \in Handlers, Serves(h)'
         PROVE  /\ Matches(handling[h].msg)'
                /\ \A k \in DOMAIN calls' : calls'[k].evse # handling'[h].msg.evse
    <2>1. Serves(h) /\ Matches(handling[h].msg) /\ handling[h].msg \in Reports
      BY <1>1, <1>13, ReportsTyped DEF Serves, CallsInv
    <2>2. handling[h].msg.evse # e /\ sess'[handling[h].msg.evse] = sess[handling[h].msg.evse]
      BY <1>9, <2>1
    <2>3. Matches(handling[h].msg)'
      BY <1>1, <2>1, <2>2 DEF Matches
    <2>4. \A k \in DOMAIN calls' : calls'[k].evse # handling'[h].msg.evse
      BY <1>1, <1>4, <1>7, <2>1, <2>2 DEF CallsInv
    <2>5. QED
      BY <2>3, <2>4
  <1>14. \A d \in EVSEs : sess'[d].sent <= conn'.n
    BY <1>1, <1>2, <1>6 DEF CallsInv
  <1>15. CallsInv'
    BY <1>1, <1>11, <1>12, <1>13, <1>14 DEF CallsInv
  <1>16. QED
    BY <1>1, <1>2, <1>6, <1>8, <1>15

LEMMA HandleStartedFacts ==
  ASSUME ControlTypeOK, CallsInv, NEW h \in Handlers, HandleStarted(h)
  PROVE  /\ ControlTypeOK' /\ CallsInv'
         /\ handling[h].pc = "allocated" /\ handling[h].msg.kind = "StartTransaction"
         /\ handling'[h].pc = "reply" /\ handling'[h].id = handling[h].id /\ handling'[h].msg = handling[h].msg
         /\ \A g \in Handlers : g # h => handling'[g] = handling[g]
  <1> DEFINE w == [handling[h] EXCEPT !.pc = "reply"]
  <1>1. /\ handling' = [handling EXCEPT ![h] = w] /\ handling \in [Handlers -> Works]
        /\ handling[h].pc = "allocated"
        /\ UNCHANGED <<flow, ans, conn, wire, calls, held, sess, closing, inflight>>
    BY DEF HandleStarted, ControlTypeOK, station, shut
  <1>2. w \in Works /\ w.pc = "reply" /\ w.id = handling[h].id /\ w.msg = handling[h].msg
    BY <1>1 DEF Works
  <1> HIDE DEF w
  <1>3. /\ handling' \in [Handlers -> Works] /\ handling'[h] = w
        /\ \A g \in Handlers : g # h => handling'[g] = handling[g]
    BY <1>1, <1>2
  <1>4. \A g \in Handlers : handling'[g].msg = handling[g].msg /\ (handling'[g].pc = "idle" <=> handling[g].pc = "idle")
    BY <1>1, <1>2, <1>3
  <1>5. ControlTypeOK'
    BY <1>1, <1>3, <1>4 DEF ControlTypeOK, NamesReservation
  <1>6. handling[h].msg.kind = "StartTransaction"
    <2>1. handling[h].msg.kind # "none" /\ handling[h].msg.kind # "StopTransaction"
      BY <1>1 DEF CallsInv
    <2>2. QED
      BY <2>1, ReportsTyped
  <1>7. CallsInv'
    <2>1. \A g \in Handlers : (Serves(g)' <=> Serves(g)) /\ (Matches(handling[g].msg)' <=> Matches(handling[g].msg))
      BY <1>1, <1>4 DEF Serves, Matches
    <2>2. \A k \in DOMAIN calls : Matches(calls[k])' <=> Matches(calls[k])
      BY <1>1 DEF Matches
    <2>3. \A g \in Handlers : handling'[g].msg.kind = "StopTransaction" => handling'[g].pc = handling[g].pc
      BY <1>2, <1>3, <1>6
    <2>4. QED
      BY <1>1, <1>4, <2>1, <2>2, <2>3 DEF CallsInv
  <1>8. QED
    BY <1>1, <1>2, <1>3, <1>5, <1>6, <1>7

\* The answer to a StartTransaction gives its session the handler's id.
LEMMA HandleReplyFacts ==
  ASSUME ControlTypeOK, CallsInv, NEW h \in Handlers, HandleReply(h)
  PROVE  /\ ControlTypeOK' /\ CallsInv'
         /\ handling'[h] = NoWork /\ \A g \in Handlers : g # h => handling'[g] = handling[g]
         /\ handling[h].pc \in {"reply", "invalid"} /\ th[h] = Idle
         /\ \A e \in EVSEs : \/ sess'[e] = sess[e]
                             \/ sess'[e] = NoSession
                             \/ /\ e = handling[h].msg.evse /\ handling[h].pc = "reply"
                                /\ handling[h].msg.kind = "StartTransaction"
                                /\ sess'[e].state = "running" /\ sess'[e].id = handling[h].id
  <1> DEFINE w == handling[h]
             e == w.msg.evse
             s == IF w.msg.kind = "StartTransaction" /\ w.pc = "reply"
                  THEN [sess[e] EXCEPT !.state = "running", !.id = w.id]
                  ELSE NoSession
  <1>1. /\ sess' = IF conn.open /\ conn.n = w.msg.conn THEN [sess EXCEPT ![e] = s] ELSE sess
        /\ handling' = [handling EXCEPT ![h] = NoWork]
        /\ w.pc \in {"reply", "invalid"} /\ th[h] = Idle
        /\ UNCHANGED <<flow, ans, conn, wire, calls, held, closing, inflight>>
    BY DEF HandleReply, shut
  <1>2. /\ sess \in [EVSEs -> Sessions] /\ handling \in [Handlers -> Works] /\ w.id \in Nat /\ e \in EVSEs
        /\ conn.open \in BOOLEAN
    BY ReportsTyped DEF ControlTypeOK
  <1>3. /\ s \in Sessions /\ s.sent \in {0, sess[e].sent}
        /\ \/ s = NoSession
           \/ /\ w.pc = "reply" /\ w.msg.kind = "StartTransaction"
              /\ s.state = "running" /\ s.id = w.id
    BY <1>2, Nothings DEF Sessions, SessionStates
  <1> HIDE DEF s
  <1>4. /\ sess' \in [EVSEs -> Sessions]
        /\ \A d \in EVSEs : sess'[d] = sess[d] \/ (d = e /\ sess'[d] = s /\ conn.open = TRUE /\ conn.n = w.msg.conn)
    BY <1>1, <1>2, <1>3
  <1>5. /\ handling' \in [Handlers -> Works] /\ handling'[h] = NoWork
        /\ \A g \in Handlers : g # h => handling'[g] = handling[g]
    BY <1>1, <1>2, Nothings
  <1>6. ControlTypeOK'
    <2>1. \A g \in Handlers : NamesReservation(handling'[g].msg)
      <3>1. \A g \in Handlers : NamesReservation(handling[g].msg)
        BY DEF ControlTypeOK
      <3>2. NamesReservation(NoWork.msg)
        BY Nothings DEF NamesReservation
      <3>3. QED
        BY <1>5, <3>1, <3>2
    <2>2. QED
      BY <1>1, <1>4, <1>5, <2>1 DEF ControlTypeOK, NamesReservation
  <1>7. CallsInv'
    <2>1. \A g \in Handlers : handling'[g].pc # "idle" => g # h /\ handling'[g] = handling[g]
      BY <1>5, Nothings
    <2>2. \A g \in Handlers : Serves(g)' => g # h /\ Serves(g) /\ handling'[g] = handling[g]
      BY <1>1, <2>1 DEF Serves
    <2>3. CASE \A d \in EVSEs : sess'[d] = sess[d]
      <3>1. \A k \in DOMAIN calls : Matches(calls[k])'
        BY <1>1, <2>3, ReportsTyped DEF CallsInv, Matches
      <3>2. \A g \in Handlers : Serves(g)' => Matches(handling[g].msg)'
        BY <1>1, <2>2, <2>3, ReportsTyped DEF CallsInv, Matches
      <3>3. \A d \in EVSEs : sess'[d].sent <= conn'.n
        BY <1>1, <2>3 DEF CallsInv
      <3>4. QED
        BY <1>1, <2>1, <2>2, <3>1, <3>2, <3>3 DEF CallsInv
    <2>4. CASE ~\A d \in EVSEs : sess'[d] = sess[d]
      <3>1. Serves(h)
        BY <1>1, <1>4, <2>4 DEF Serves
      <3>2. \A k \in DOMAIN calls : calls[k].evse # e
        BY <3>1 DEF CallsInv
      <3>3. \A g \in Handlers : ~Serves(g)'
        BY <2>2, <3>1 DEF CallsInv, Serves
      <3>4. \A k \in DOMAIN calls : sess'[calls[k].evse] = sess[calls[k].evse]
        BY <1>4, <3>2, ReportsTyped
      <3>5. \A k \in DOMAIN calls : Matches(calls[k])'
        BY <1>1, <3>4 DEF CallsInv, Matches
      <3>6. \A d \in EVSEs : sess'[d].sent <= conn'.n
        BY <1>1, <1>3, <1>4, ReportsTyped DEF CallsInv
      <3>7. QED
        BY <1>1, <2>1, <3>3, <3>5, <3>6 DEF CallsInv
    <2>5. QED
      BY <2>3, <2>4
  <1>8. QED
    BY <1>1, <1>3, <1>4, <1>5, <1>6, <1>7
-----------------------------------------------------------------------------
(* Sessions and their records *)

\* The session on e goes on as it is, is about to end, or has no id.
Continues(e) ==
  \/ sess'[e].state = sess[e].state /\ sess'[e].id = sess[e].id
  \/ sess[e].state = "running" /\ sess'[e].state = "ending" /\ sess'[e].id = sess[e].id
  \/ sess'[e].state \in {"none", "starting"}

\* Core keeps the transactions and what is on its way to the file.
Retains ==
  /\ UNCHANGED <<transactions, snap, disk, up>>
  /\ next.transaction <= next'.transaction
  /\ failures' = failures
  /\ \A t \in Threads : /\ Writing(t)' <=> Writing(t)
                        /\ th'[t].phase = "failed" => th[t].phase = "failed"

\* A step that removes no session from memory or file keeps SessionsInv.
LEMMA SessionsKept ==
  ASSUME TypeOK, TypeOK', ControlTypeOK, ControlTypeOK', SessionsInv, Retains,
         \A e \in EVSEs : Continues(e),
         \A h \in Handlers :
           \/ /\ handling'[h] = handling[h]
              /\ th'[h].phase \in {"idle", "done"} => th[h].phase \in {"idle", "done", "failed"}
           \/ ~Numbered(h)'
  PROVE  SessionsInv'
  <1> SUFFICES ASSUME failures' = 0
               PROVE  SessionsInv'
    BY DEF SessionsInv
  <1>1. failures = 0 /\ Handlers \subseteq Threads
    BY Roles DEF Retains
  <1>2. \A t \in Threads : th'[t].phase # "failed" /\ th[t].phase # "failed"
    BY <1>1 DEF SessionsInv, Retains
  <1>3. \A i, e : (Filed(i, e)' <=> Filed(i, e)) /\ (In(transactions, i, e)' <=> In(transactions, i, e))
    BY DEF Filed, In, Retains
  <1>4. \A e \in EVSEs : HasId(e)' => HasId(e) /\ sess'[e].id = sess[e].id
    BY DEF HasId, Continues
  <1>5. ASSUME NEW h \in Handlers, Numbered(h)'
        PROVE  Numbered(h) /\ handling'[h] = handling[h] /\ h \in Threads
    BY <1>1, <1>5 DEF Numbered
  <1>6. ASSUME NEW h \in Handlers, Numbered(h)'
        PROVE  /\ up' = TRUE /\ handling'[h].id < next'.transaction
               /\ \A g \in Handlers : Numbered(g)' /\ handling'[g].id = handling'[h].id => g = h
               /\ \A e \in EVSEs : HasId(e)' => sess'[e].id # handling'[h].id
               /\ handling'[h].pc = "reply" =>
                    /\ In(transactions, handling[h].id, handling[h].msg.evse)'
                    /\ th'[h].phase = "write" => In(snap'[h].transactions, handling'[h].id, handling'[h].msg.evse)
                    /\ th'[h].phase \in {"idle", "done"} => Filed(handling[h].id, handling[h].msg.evse)'
    <2>1. /\ up = TRUE /\ handling[h].id < next.transaction
          /\ \A g \in Handlers : Numbered(g) /\ handling[g].id = handling[h].id => g = h
          /\ \A e \in EVSEs : HasId(e) => sess[e].id # handling[h].id
          /\ handling[h].pc = "reply" =>
               /\ In(transactions, handling[h].id, handling[h].msg.evse)
               /\ th[h].phase = "write" => In(snap[h].transactions, handling[h].id, handling[h].msg.evse)
               /\ th[h].phase \in {"idle", "done"} => Filed(handling[h].id, handling[h].msg.evse)
      BY <1>1, <1>5, <1>6 DEF SessionsInv
    <2>2. handling'[h] = handling[h] /\ handling[h].id \in Nat
      BY <1>5, <1>6, ReportsTyped
    <2>3. up' = TRUE /\ handling'[h].id < next'.transaction
      BY <2>1, <2>2, Numbers, NextNumbers DEF Retains, AllNumbers
    <2>4. \A g \in Handlers : Numbered(g)' /\ handling'[g].id = handling'[h].id => g = h
      BY <1>5, <2>1, <2>2
    <2>5. \A e \in EVSEs : HasId(e)' => sess'[e].id # handling'[h].id
      BY <1>4, <2>1, <2>2
    <2>6. ASSUME handling'[h].pc = "reply"
          PROVE  /\ In(transactions, handling[h].id, handling[h].msg.evse)'
                 /\ th'[h].phase = "write" => In(snap'[h].transactions, handling'[h].id, handling'[h].msg.evse)
                 /\ th'[h].phase \in {"idle", "done"} => Filed(handling[h].id, handling[h].msg.evse)'
      <3>1. In(transactions, handling[h].id, handling[h].msg.evse)'
        BY <2>1, <2>2, <2>6 DEF In, Retains
      <3>2. th'[h].phase = "write" => In(snap'[h].transactions, handling'[h].id, handling'[h].msg.evse)
        BY <1>5, <1>6, <2>1, <2>2, <2>6 DEF Retains, Writing
      <3>3. ASSUME th'[h].phase \in {"idle", "done"} PROVE Filed(handling[h].id, handling[h].msg.evse)'
        <4>1. th[h].phase \in {"idle", "done"}
          BY <1>2, <1>5, <1>6, <3>3
        <4>2. Filed(handling[h].id, handling[h].msg.evse)
          BY <2>1, <2>2, <2>6, <4>1
        <4>3. QED
          BY <2>2, <4>2 DEF Filed, In, Retains
      <3>4. QED
        BY <3>1, <3>2, <3>3
    <2>7. QED
      BY <2>3, <2>4, <2>5, <2>6
  <1>7. \A e \in EVSEs : HasId(e)' =>
          /\ sess'[e].id < disk'.next.transaction
          /\ \A d \in EVSEs : HasId(d)' /\ sess'[d].id = sess'[e].id => d = e
    BY <1>1, <1>4 DEF SessionsInv, Retains
  <1>8. ASSUME NEW e \in EVSEs, sess'[e].state = "running"
        PROVE  Filed(sess[e].id, e)' /\ (up' = TRUE => In(transactions, sess[e].id, e)')
    <2>1. sess[e].state = "running" /\ sess'[e].id = sess[e].id
      BY <1>8 DEF Continues
    <2>2. Filed(sess[e].id, e) /\ (up = TRUE => In(transactions, sess[e].id, e))
      BY <1>1, <2>1 DEF SessionsInv
    <2>3. QED
      BY <2>1, <2>2 DEF Filed, In, Retains
  <1>9. QED
    BY <1>2, <1>6, <1>7, <1>8 DEF SessionsInv

(* The stages of persist. *)
LEMMA SessionsPersist ==
  ASSUME CoreInv, TypeOK', ControlTypeOK, ControlTypeOK', SessionsInv, UNCHANGED <<handling, sess>>,
         NEW t \in Threads, PersistSnapshot(t) \/ PersistWrite(t) \/ PersistFail(t)
  PROVE  SessionsInv'
  <1> SUFFICES ASSUME failures' = 0
               PROVE  SessionsInv'
    BY DEF SessionsInv
  <1>1. failures = 0 /\ ~PersistFail(t)
    BY DEF PersistSnapshot, PersistWrite, PersistFail, history, CoreInv, TypeOK
  <1>2. Handlers \subseteq Threads /\ TypeOK
    BY Roles DEF CoreInv
  <1>3. /\ up' = up /\ up /\ transactions' = transactions /\ next' = next
        /\ disk.next.transaction <= disk'.next.transaction
        /\ \A u \in Threads : u # t => th'[u] = th[u]
        /\ \A u \in Threads : th'[u].phase # "failed"
    <2>1. CASE PersistSnapshot(t)
      BY <1>1, <1>2, <2>1, SnapshotFacts, Typed DEF SessionsInv
    <2>2. CASE PersistWrite(t)
      <3>1. NotAhead(disk.next, disk'.next)
        BY <2>2, PersistWriteInv
      <3>2. QED
        BY <1>1, <2>2, <3>1, WriteFacts DEF SessionsInv, NotAhead
    <2>3. QED
      BY <1>1, <2>1, <2>2
  <1>4. ASSUME NEW i, NEW e, In(transactions, i, e), Filed(i, e) PROVE Filed(i, e)'
    <2>1. CASE PersistSnapshot(t)
      <3>1. disk' = disk /\ snap'[t] = Persistable /\ \A u \in Threads : Writing(u)' <=> u = t
        BY <2>1, SnapshotFacts
      <3>2. QED
        BY <1>4, <3>1 DEF Filed, In, Persistable
    <2>2. CASE PersistWrite(t)
      <3>1. disk' = snap[t] /\ Writing(t) /\ \A u \in Threads : ~Writing(u)'
        BY <2>2, WriteFacts
      <3>2. QED
        BY <1>4, <3>1 DEF Filed, In
    <2>3. QED
      BY <1>1, <2>1, <2>2
  <1>5. \A e \in EVSEs : HasId(e)' <=> HasId(e)
    BY DEF HasId
  <1>6. \A h \in Handlers : Numbered(h)' <=> Numbered(h)
    BY DEF Numbered
  <1>7. ASSUME NEW h \in Handlers, Numbered(h), handling[h].pc = "reply"
        PROVE  /\ In(transactions, handling[h].id, handling[h].msg.evse)'
               /\ th'[h].phase = "write" => In(snap'[h].transactions, handling'[h].id, handling'[h].msg.evse)
               /\ th'[h].phase \in {"idle", "done"} => Filed(handling[h].id, handling[h].msg.evse)'
    <2> DEFINE i == handling[h].id
               e == handling[h].msg.evse
    <2>1. /\ In(transactions, i, e)
          /\ th[h].phase = "write" => In(snap[h].transactions, i, e)
          /\ th[h].phase \in {"idle", "done"} => Filed(i, e)
      BY <1>1, <1>7 DEF SessionsInv
    <2>2. In(transactions, i, e)'
      BY <1>3, <2>1 DEF In
    <2>3. CASE PersistSnapshot(t)
      <3>1. snap'[t] = Persistable /\ th'[t].phase = "write" /\ (\A u \in Threads : ~Writing(u)) /\ h \in Threads
        BY <1>2, <2>3, SnapshotFacts
      <3>2. CASE h = t
        BY <2>1, <2>2, <3>1, <3>2 DEF Persistable
      <3>3. CASE h # t
        BY <1>3, <1>4, <2>1, <2>2, <3>1, <3>3 DEF Writing
      <3>4. QED
        BY <3>2, <3>3
    <2>4. CASE PersistWrite(t)
      <3>1. /\ disk' = snap[t] /\ Writing(t) /\ th'[t].phase = "done" /\ h \in Threads
            /\ \A u \in Threads : ~Writing(u)' /\ (Writing(u) <=> u = t)
        BY <1>2, <2>4, WriteFacts
      <3>2. CASE h = t
        BY <2>1, <2>2, <3>1, <3>2 DEF Writing, Filed, In
      <3>3. CASE h # t
        BY <1>3, <1>4, <2>1, <2>2, <3>1, <3>3 DEF Writing
      <3>4. QED
        BY <3>2, <3>3
    <2>5. QED
      BY <1>1, <2>3, <2>4
  <1>8. \A h \in Handlers : Numbered(h)' =>
          /\ up' = TRUE /\ handling'[h].id < next'.transaction
          /\ \A g \in Handlers : Numbered(g)' /\ handling'[g].id = handling'[h].id => g = h
          /\ \A e \in EVSEs : HasId(e)' => sess'[e].id # handling'[h].id
    BY <1>1, <1>3, <1>5, <1>6 DEF SessionsInv
  <1>9. \A e \in EVSEs : HasId(e)' =>
          /\ sess'[e].id < disk'.next.transaction
          /\ \A d \in EVSEs : HasId(d)' /\ sess'[d].id = sess'[e].id => d = e
    <2>1. \A e \in EVSEs : sess[e].id \in Nat
      BY ReportsTyped
    <2>2. AllNumbers /\ AllNumbers'
      BY <1>2, Numbers, NextNumbers
    <2>3. QED
      BY <1>1, <1>3, <1>5, <2>1, <2>2 DEF SessionsInv, AllNumbers
  <1>10. ASSUME NEW e \in EVSEs, sess'[e].state = "running"
         PROVE  Filed(sess[e].id, e)' /\ (up' = TRUE => In(transactions, sess[e].id, e)')
    <2>1. Filed(sess[e].id, e) /\ In(transactions, sess[e].id, e)
      BY <1>1, <1>3, <1>10 DEF SessionsInv
    <2>2. Filed(sess[e].id, e)'
      BY <1>4, <2>1
    <2>3. QED
      BY <1>3, <2>1, <2>2 DEF In
  <1>11. QED
    BY <1>3, <1>6, <1>7, <1>8, <1>9, <1>10 DEF SessionsInv

(* Handler h does something to one transaction, j. *)
Handled(h, j) ==
  /\ UNCHANGED <<snap, disk, up, failures, sess>>
  /\ next.transaction <= next'.transaction
  /\ th'[h].phase \in {"idle", "persist"} /\ th[h].phase = "idle"
  /\ \A t \in Threads : t # h => th'[t] = th[t]
  /\ \A g \in Handlers : g # h => handling'[g] = handling[g]
  /\ \A x \in transactions : x.id # j => x \in transactions'
  /\ \A g \in Handlers : g # h /\ Numbered(g) => handling[g].id # j
  /\ \A e \in EVSEs : sess[e].state = "running" => sess[e].id # j
  /\ failures = 0 /\ Numbered(h)' =>
       /\ up = TRUE /\ handling'[h].id < next'.transaction
       /\ \A g \in Handlers : g # h /\ Numbered(g) => handling[g].id # handling'[h].id
       /\ \A e \in EVSEs : HasId(e) => sess[e].id # handling'[h].id
       /\ handling'[h].pc = "reply" => /\ In(transactions', handling'[h].id, handling'[h].msg.evse)
                                       /\ th'[h].phase = "persist"

\* A session recorded by its handler is new, and on its way to the file.
LEMMA SessionsHandled ==
  ASSUME TypeOK, TypeOK', ControlTypeOK, ControlTypeOK', SessionsInv, NEW h \in Handlers, NEW j, Handled(h, j)
  PROVE  SessionsInv'
  <1> USE DEF Handled
  <1> SUFFICES ASSUME failures' = 0
               PROVE  SessionsInv'
    BY DEF SessionsInv
  <1>1. failures = 0 /\ Handlers \subseteq Threads /\ h \in Threads
    BY Roles
  <1>2. \A t \in Threads : th'[t].phase # "failed" /\ (Writing(t)' <=> Writing(t))
    BY <1>1 DEF SessionsInv, Writing
  <1>3. \A i, e : Filed(i, e) => /\ In(disk'.transactions, i, e)
                                 /\ \A t \in Threads : Writing(t)' => In(snap'[t].transactions, i, e)
    BY <1>2 DEF Filed, In
  <1>4. \A i, e : In(transactions, i, e) /\ i # j => In(transactions', i, e)
    BY DEF In
  <1>5. \A e \in EVSEs : HasId(e)' <=> HasId(e)
    BY DEF HasId
  <1>6. \A g \in Handlers : g # h => (Numbered(g)' <=> Numbered(g))
    BY DEF Numbered
  <1>7. ASSUME NEW g \in Handlers, Numbered(g)'
        PROVE  /\ up' = TRUE /\ handling'[g].id < next'.transaction
               /\ \A f \in Handlers : Numbered(f)' /\ handling'[f].id = handling'[g].id => f = g
               /\ \A e \in EVSEs : HasId(e)' => sess'[e].id # handling'[g].id
    <2>1. CASE g = h
      BY <1>1, <1>5, <1>6, <1>7, <2>1
    <2>2. CASE g # h
      <3>1. /\ handling'[g] = handling[g] /\ Numbered(g) /\ handling[g].id \in Nat
            /\ up = TRUE /\ handling[g].id < next.transaction
            /\ \A f \in Handlers : Numbered(f) /\ handling[f].id = handling[g].id => f = g
            /\ \A e \in EVSEs : HasId(e) => sess[e].id # handling[g].id
        BY <1>1, <1>6, <1>7, <2>2, ReportsTyped DEF SessionsInv
      <3>2. handling'[g].id < next'.transaction
        BY <3>1, Numbers, NextNumbers DEF AllNumbers
      <3>3. \A f \in Handlers : Numbered(f)' /\ handling'[f].id = handling'[g].id => f = g
        BY <1>1, <1>6, <2>2, <3>1
      <3>4. QED
        BY <1>5, <3>1, <3>2, <3>3
    <2>3. QED
      BY <2>1, <2>2
  <1>8. ASSUME NEW g \in Handlers, Numbered(g)', handling'[g].pc = "reply"
        PROVE  /\ In(transactions', handling'[g].id, handling'[g].msg.evse)
               /\ th'[g].phase = "write" => In(snap'[g].transactions, handling'[g].id, handling'[g].msg.evse)
               /\ th'[g].phase \in {"idle", "done"} =>
                    /\ In(disk'.transactions, handling'[g].id, handling'[g].msg.evse)
                    /\ \A t \in Threads : Writing(t)' => In(snap'[t].transactions, handling'[g].id, handling'[g].msg.evse)
    <2>1. CASE g = h
      BY <1>1, <1>8, <2>1
    <2>2. CASE g # h
      <3>1. handling'[g] = handling[g] /\ Numbered(g) /\ th'[g] = th[g] /\ handling[g].id # j
        BY <1>1, <1>6, <1>8, <2>2
      <3>2. /\ In(transactions, handling[g].id, handling[g].msg.evse)
            /\ th[g].phase = "write" => In(snap[g].transactions, handling[g].id, handling[g].msg.evse)
            /\ th[g].phase \in {"idle", "done"} => Filed(handling[g].id, handling[g].msg.evse)
        BY <1>1, <1>8, <3>1 DEF SessionsInv
      <3>3. QED
        BY <1>3, <1>4, <3>1, <3>2
    <2>3. QED
      BY <2>1, <2>2
  <1>9. \A e \in EVSEs : HasId(e)' =>
          /\ sess'[e].id < disk'.next.transaction
          /\ \A d \in EVSEs : HasId(d)' /\ sess'[d].id = sess'[e].id => d = e
    BY <1>1, <1>5 DEF SessionsInv
  <1>10. ASSUME NEW e \in EVSEs, sess'[e].state = "running"
         PROVE  /\ In(disk'.transactions, sess'[e].id, e)
                /\ \A t \in Threads : Writing(t)' => In(snap'[t].transactions, sess'[e].id, e)
                /\ up' = TRUE => In(transactions', sess'[e].id, e)
    <2>1. Filed(sess[e].id, e) /\ (up = TRUE => In(transactions, sess[e].id, e)) /\ sess[e].id # j
      BY <1>1, <1>10 DEF SessionsInv
    <2>2. QED
      BY <1>3, <1>4, <2>1
  <1>11. QED
    BY <1>2, <1>7, <1>8, <1>9, <1>10 DEF SessionsInv, Filed, In

(* The station is told the id of a session that is in the file. *)
LEMMA SessionsReplied ==
  ASSUME CoreInv, TypeOK', ControlTypeOK, ControlTypeOK', CallsInv, SessionsInv, UNCHANGED vars,
         NEW h \in Handlers, HandleReply(h)
  PROVE  SessionsInv'
  <1>1. /\ handling'[h] = NoWork /\ \A g \in Handlers : g # h => handling'[g] = handling[g]
        /\ th[h] = Idle
        /\ \A e \in EVSEs : \/ sess'[e] = sess[e]
                            \/ sess'[e] = NoSession
                            \/ /\ e = handling[h].msg.evse /\ handling[h].pc = "reply"
                               /\ handling[h].msg.kind = "StartTransaction"
                               /\ sess'[e].state = "running" /\ sess'[e].id = handling[h].id
    BY HandleReplyFacts
  <1>2. UNCHANGED <<transactions, snap, disk, up, next, failures, th>> /\ TypeOK
    BY Unmoved DEF CoreInv
  <1>3. Retains
    BY <1>2, Numbers DEF Retains, AllNumbers, Writing
  <1>4. \A g \in Handlers : Numbered(g)' => g # h /\ Numbered(g) /\ handling'[g] = handling[g]
    BY <1>1, Nothings DEF Numbered
  <1>5. CASE \A e \in EVSEs : sess'[e] = sess[e] \/ sess'[e] = NoSession
    <2>1. \A e \in EVSEs : Continues(e)
      BY <1>5, Nothings DEF Continues
    <2>2. QED
      BY <1>2, <1>3, <1>4, <2>1, SessionsKept
  <1>6. ASSUME NEW c \in EVSEs, ~(sess'[c] = sess[c] \/ sess'[c] = NoSession), failures' = 0
        PROVE  SessionsInv'
    <2> DEFINE i == handling[h].id
    <2>1. /\ c = handling[h].msg.evse /\ Numbered(h) /\ handling[h].pc = "reply"
          /\ sess'[c].state = "running" /\ sess'[c].id = i /\ failures = 0
          /\ \A e \in EVSEs : e # c => sess'[e] = sess[e] \/ sess'[e] = NoSession
      BY <1>1, <1>2, <1>6 DEF Numbered
    <2>2. /\ In(transactions, i, c) /\ Filed(i, c)
          /\ \A g \in Handlers : Numbered(g) /\ handling[g].id = i => g = h
          /\ \A e \in EVSEs : HasId(e) => sess[e].id # i
      BY <1>1, <2>1 DEF SessionsInv, Idle
    <2>3. i < disk.next.transaction
      BY <2>2 DEF Filed, In, CoreInv, IdsCounted, Counted
    <2>4. \A e \in EVSEs : HasId(e)' => \/ e = c /\ sess'[e].id = i
                                        \/ e # c /\ HasId(e) /\ sess'[e] = sess[e] /\ sess[e].id # i
      BY <2>1, <2>2, Nothings DEF HasId
    <2>5. \A k, e : (Filed(k, e)' <=> Filed(k, e)) /\ (In(transactions, k, e)' <=> In(transactions, k, e))
      BY <1>2 DEF Filed, In, Writing
    <2>6. \A e \in EVSEs : HasId(e)' =>
            /\ sess'[e].id < disk'.next.transaction
            /\ \A d \in EVSEs : HasId(d)' /\ sess'[d].id = sess'[e].id => d = e
      BY <1>2, <2>1, <2>3, <2>4 DEF SessionsInv
    <2>7. ASSUME NEW e \in EVSEs, sess'[e].state = "running"
          PROVE  Filed(sess[e].id, e)' /\ (up' = TRUE => In(transactions, sess[e].id, e)')
      <3>1. Filed(sess'[e].id, e) /\ (up = TRUE => In(transactions, sess'[e].id, e))
        <4>1. CASE e = c
          BY <2>1, <2>2, <4>1
        <4>2. CASE e # c
          <5>1. sess'[e] = sess[e]
            BY <2>1, <2>7, <4>2, Nothings
          <5>2. QED
            BY <2>1, <2>7, <5>1 DEF SessionsInv
        <4>3. QED
          BY <4>1, <4>2
      <3>2. QED
        BY <1>2, <3>1 DEF Filed, In, Writing
    <2>8. ASSUME NEW g \in Handlers, Numbered(g)'
          PROVE  /\ up' = TRUE /\ handling'[g].id < next'.transaction
                 /\ \A f \in Handlers : Numbered(f)' /\ handling'[f].id = handling'[g].id => f = g
                 /\ \A e \in EVSEs : HasId(e)' => sess'[e].id # handling'[g].id
      <3>1. /\ g # h /\ handling'[g] = handling[g] /\ Numbered(g)
            /\ up = TRUE /\ handling[g].id < next.transaction
            /\ \A f \in Handlers : Numbered(f) /\ handling[f].id = handling[g].id => f = g
            /\ \A e \in EVSEs : HasId(e) => sess[e].id # handling[g].id
            /\ handling[g].id # i
        BY <1>4, <2>1, <2>2, <2>8 DEF SessionsInv
      <3>2. QED
        BY <1>2, <1>4, <2>4, <3>1
    <2>9. ASSUME NEW g \in Handlers, Numbered(g)', handling'[g].pc = "reply"
          PROVE  /\ In(transactions', handling'[g].id, handling'[g].msg.evse)
                 /\ th'[g].phase = "write" => In(snap'[g].transactions, handling'[g].id, handling'[g].msg.evse)
                 /\ th'[g].phase \in {"idle", "done"} =>
                      /\ In(disk'.transactions, handling'[g].id, handling'[g].msg.evse)
                      /\ \A t \in Threads : Writing(t)' => In(snap'[t].transactions, handling'[g].id, handling'[g].msg.evse)
      <3>1. handling'[g] = handling[g] /\ Numbered(g)
        BY <1>4, <2>9
      <3>2. /\ In(transactions, handling[g].id, handling[g].msg.evse)
            /\ th[g].phase = "write" => In(snap[g].transactions, handling[g].id, handling[g].msg.evse)
            /\ th[g].phase \in {"idle", "done"} => Filed(handling[g].id, handling[g].msg.evse)
        BY <2>1, <2>9, <3>1 DEF SessionsInv
      <3>3. QED
        BY <1>2, <3>1, <3>2 DEF Filed, Writing
    <2>10. \A t \in Threads : th'[t].phase # "failed"
      BY <1>2, <2>1 DEF SessionsInv
    <2>11. QED
      BY <2>6, <2>7, <2>8, <2>9, <2>10 DEF SessionsInv, Filed, In
  <1>7. CASE failures' # 0
    BY <1>7 DEF SessionsInv
  <1>8. QED
    BY <1>5, <1>6, <1>7

\* A crash leaves the sessions that are in the file.
LEMMA SessionsCrash ==
  ASSUME CoreInv, SessionsInv, Crash, handling' = [h \in Handlers |-> NoWork], UNCHANGED sess
  PROVE  SessionsInv'
  <1>1. /\ up' = FALSE /\ th' = [t \in Threads |-> Idle] /\ disk' = disk /\ failures' = failures
        /\ Idle.phase = "idle"
    BY DEF Crash, Idle
  <1>2. \A h \in Handlers : ~Numbered(h)'
    BY Nothings DEF Numbered
  <1>3. \A t \in Threads : ~Writing(t)' /\ th'[t].phase # "failed"
    BY <1>1 DEF Writing
  <1>4. \A e \in EVSEs : HasId(e)' <=> HasId(e)
    BY DEF HasId
  <1>5. QED
    BY <1>1, <1>2, <1>3, <1>4 DEF SessionsInv, Filed, In

\* A restart loads every session the station has an id for.
LEMMA SessionsRestart ==
  ASSUME CoreInv, SessionsInv, NEW dropped, Restart(dropped), UNCHANGED <<handling, sess>>
  PROVE  SessionsInv'
  <1>1. /\ ~up /\ transactions' = disk.transactions /\ disk' = disk /\ failures' = failures
    BY DEF Restart
  <1>2. \A t \in Threads : th[t] = Idle
    BY <1>1 DEF CoreInv, DownIsEmpty
  <1>3. \A t \in Threads : ~Writing(t)' /\ th'[t].phase # "failed"
    BY <1>2 DEF Restart, Enter, Idle, CoreInv, TypeOK, Writing
  <1>4. failures = 0 => \A h \in Handlers : ~Numbered(h)'
    BY <1>1 DEF SessionsInv, Numbered
  <1>5. \A e \in EVSEs : HasId(e)' <=> HasId(e)
    BY DEF HasId
  <1>6. QED
    BY <1>1, <1>3, <1>4, <1>5 DEF SessionsInv, Filed, In
-----------------------------------------------------------------------------
(* What the calls of core leave alone. *)

LEMMA KeptAlone ==
  ASSUME TypeOK, UNCHANGED vars
  PROVE  Kept /\ (\A e \in EVSEs : sess'[e] = sess[e] => Continues(e)) /\ Retains
  BY Unmoved, Typed DEF Kept, Shrinks, Retains, Continues, Writing

LEMMA Entered ==
  ASSUME NEW t, NEW o, NEW i, NEW r
  PROVE  /\ Enter(t, o, i, "persist") => \E w : th' = [th EXCEPT ![t] = w] /\ w.phase = "persist"
         /\ EnterEnding(t, o, i, r) => \E w : th' = [th EXCEPT ![t] = w] /\ w.phase = "persist"
  <1> DEFINE v == [op |-> o, phase |-> "persist", id |-> i, ends |-> 0]
             w == [op |-> o, phase |-> "persist", id |-> i, ends |-> r]
  <1>1. v.phase = "persist" /\ w.phase = "persist"
    OBVIOUS
  <1>2. ASSUME Enter(t, o, i, "persist") PROVE th' = [th EXCEPT ![t] = v]
    BY <1>2 DEF Enter
  <1>3. ASSUME EnterEnding(t, o, i, r) PROVE th' = [th EXCEPT ![t] = w]
    BY <1>3 DEF EnterEnding
  <1> HIDE DEF v, w
  <1>4. QED
    BY <1>1, <1>2, <1>3

(* A locked section of t that at most ends active reservations. *)
LEMMA KeptSection ==
  ASSUME TypeOK, RecordInv, NEW t \in Workers, th[t] = Idle, NEW w, th' = th \/ th' = [th EXCEPT ![t] = w],
         next'.reservation = next.reservation, UNCHANGED <<disk, up>>,
         reservations' \subseteq reservations,
         \A r \in reservations : r \notin reservations' => r.status = "active"
  PROVE  Kept
  <1>1. \A u \in Reservers : flow[u].pc = "begin" => th[u].op = "begin" /\ u # t /\ u \in Threads
    BY Roles DEF RecordInv, Idle
  <1>2. \A u \in Reservers : flow[u].pc = "begin" => th'[u] = th[u]
    BY <1>1 DEF TypeOK
  <1>3. QED
    BY <1>2, Typed DEF Kept, Shrinks

LEMMA KeptNumber ==
  ASSUME CoreInv, RecordInv, NEW t \in Workers, NextTransactionID(t) \/ NextRemoteStartID(t)
  PROVE  /\ Kept
         /\ up /\ th[t] = Idle /\ th'[t].phase = "persist" /\ \A u \in Threads : u # t => th'[u] = th[u]
         /\ UNCHANGED <<transactions, snap, disk, up, failures>>
         /\ next.transaction <= next'.transaction
         /\ NextTransactionID(t) => next'.transaction = next.transaction + 1
  <1>1. TypeOK /\ t \in Threads
    BY DEF CoreInv, Threads
  <1>2. /\ up /\ th[t] = Idle
        /\ UNCHANGED <<reservations, transactions, snap, disk, up, failures>>
    BY DEF NextTransactionID, NextRemoteStartID, Ready, process, history
  <1>3. \E w : th' = [th EXCEPT ![t] = w] /\ w.phase = "persist"
    BY Entered DEF NextTransactionID, NextRemoteStartID
  <1>4. /\ next'.reservation = next.reservation /\ next.transaction <= next'.transaction
        /\ NextTransactionID(t) => next'.transaction = next.transaction + 1
    <2>1. next.transaction \in Nat /\ next \in Counters
      BY <1>1, Typed DEF TypeOK
    <2>2. QED
      BY <2>1 DEF NextTransactionID, NextRemoteStartID, Counters
  <1>5. Kept
    BY <1>1, <1>2, <1>3, <1>4, KeptSection
  <1>6. th'[t].phase = "persist" /\ \A u \in Threads : u # t => th'[u] = th[u]
    BY <1>1, <1>3 DEF TypeOK
  <1>7. QED
    BY <1>2, <1>4, <1>5, <1>6

LEMMA KeptStart ==
  ASSUME CoreInv, RecordInv, NEW t \in Workers, NEW i, NEW e, NEW tag, NEW named,
         StartTransaction(t, i, e, tag, named)
  PROVE  /\ Kept
         /\ up /\ th[t] = Idle /\ th'[t].phase = "persist" /\ \A u \in Threads : u # t => th'[u] = th[u]
         /\ UNCHANGED <<next, snap, disk, up, failures>>
         /\ i < next.transaction
         /\ \A x \in transactions : x.id # i => x \in transactions'
         /\ In(transactions', i, e)
  <1>1. TypeOK /\ t \in Threads /\ th \in [Threads -> Thread] /\ next.transaction \in Nat
    BY Typed DEF CoreInv, Threads, TypeOK
  <1>2. up /\ th[t] = Idle /\ UNCHANGED <<next, snap, disk, up, failures>> /\ i < next.transaction
    BY <1>1 DEF StartTransaction, Ready, process, history
  <1>3. \E w : th' = [th EXCEPT ![t] = w] /\ w.phase = "persist"
    BY Entered DEF StartTransaction
  <1>4. /\ reservations' \subseteq reservations
        /\ \A r \in reservations : r \notin reservations' => r.status = "active"
    BY DEF StartTransaction, EndLocked, Redeemed, ActiveOn
  <1>5. \E res : transactions' = {x \in transactions : x.id # i} \cup {[id |-> i, evse |-> e, tag |-> tag, reservation |-> res]}
    BY DEF StartTransaction
  <1>6. (\A x \in transactions : x.id # i => x \in transactions') /\ In(transactions', i, e)
    <2>1. PICK res : transactions' = {x \in transactions : x.id # i}
                       \cup {[id |-> i, evse |-> e, tag |-> tag, reservation |-> res]}
      BY <1>5
    <2>2. \E y \in transactions' : y.id = i /\ y.evse = e
      <3> DEFINE y == [id |-> i, evse |-> e, tag |-> tag, reservation |-> res]
      <3>1. y \in transactions' /\ y.id = i /\ y.evse = e
        BY <2>1
      <3> HIDE DEF y
      <3>2. QED
        BY <3>1
    <2>3. QED
      BY <2>1, <2>2 DEF In
  <1>7. Kept
    BY <1>1, <1>2, <1>3, <1>4, KeptSection
  <1>8. th'[t].phase = "persist" /\ \A u \in Threads : u # t => th'[u] = th[u]
    BY <1>1, <1>3
  <1>9. QED
    BY <1>2, <1>6, <1>7, <1>8

LEMMA KeptStop ==
  ASSUME CoreInv, RecordInv, NEW t \in Workers, NEW x \in transactions, StopTransaction(t, x)
  PROVE  /\ Kept
         /\ th[t] = Idle /\ th'[t].phase = "persist" /\ \A u \in Threads : u # t => th'[u] = th[u]
         /\ UNCHANGED <<next, snap, disk, up, failures>>
         /\ \A y \in transactions : y.id # x.id => y \in transactions'
  <1>1. TypeOK /\ t \in Threads /\ th \in [Threads -> Thread]
    BY DEF CoreInv, Threads, TypeOK
  <1>2. /\ th[t] = Idle /\ UNCHANGED <<reservations, next, snap, disk, up, failures>>
        /\ transactions' = transactions \ {x}
    BY DEF StopTransaction, Ready, process, history
  <1>3. \E w : th' = [th EXCEPT ![t] = w] /\ w.phase = "persist"
    BY Entered DEF StopTransaction
  <1>4. Kept
    BY <1>1, <1>2, <1>3, KeptSection
  <1>5. th'[t].phase = "persist" /\ \A u \in Threads : u # t => th'[u] = th[u]
    BY <1>1, <1>3
  <1>6. QED
    BY <1>2, <1>4, <1>5

(* The end of an active reservation. *)
LEMMA KeptEnd ==
  ASSUME CoreInv, RecordInv, NEW t \in Workers, NEW r \in reservations, r.status = "active", EndReservation(t, r)
  PROVE  /\ Kept /\ UNCHANGED <<transactions, next, snap, disk, up, failures>>
         /\ th[t] = Idle /\ th'[t].phase = "persist" /\ \A u \in Threads : u # t => th'[u] = th[u]
  <1>1. TypeOK /\ t \in Threads /\ th \in [Threads -> Thread]
    BY DEF CoreInv, Threads, TypeOK
  <1>2. /\ th[t] = Idle /\ UNCHANGED <<transactions, next, snap, disk, up, failures>>
        /\ reservations' = reservations \ {r}
    BY DEF EndReservation, EndLocked, Ready, process
  <1>3. \E w : th' = [th EXCEPT ![t] = w] /\ w.phase = "persist"
    BY Entered DEF EndReservation
  <1>4. Kept
    BY <1>1, <1>2, <1>3, KeptSection
  <1>5. th'[t].phase = "persist" /\ \A u \in Threads : u # t => th'[u] = th[u]
    BY <1>1, <1>3
  <1>6. QED
    BY <1>2, <1>4, <1>5

LEMMA KeptTimer ==
  ASSUME CoreInv, RecordInv,
         (\E i \in armed : TimerFires(i)) \/ (\E t \in Timers, i \in fired : Expire(t, i))
  PROVE  Kept /\ Retains /\ \A h \in Handlers : th'[h] = th[h]
  <1>1. TypeOK /\ th \in [Threads -> Thread] /\ next.transaction \in Nat
    BY Typed DEF CoreInv, TypeOK
  <1>2. CASE \E i \in armed : TimerFires(i)
    BY <1>1, <1>2, Typed DEF TimerFires, process, history, Kept, Shrinks, Retains, Writing
  <1>3. ASSUME NEW t \in Timers, NEW i \in fired, Expire(t, i)
        PROVE  Kept /\ Retains /\ \A h \in Handlers : th'[h] = th[h]
    <2>1. t \in Workers /\ t \in Threads /\ (\A h \in Handlers : h # t /\ h \in Threads)
      BY Roles
    <2>2. th[t] = Idle /\ UNCHANGED <<transactions, next, snap, disk, up, failures>>
      BY <1>3 DEF Expire, process, history
    <2>3. /\ reservations' \subseteq reservations
          /\ \A r \in reservations : r \notin reservations' => r.status = "active"
      BY <1>3 DEF Expire, Expirable, EndLocked
    <2>4. \/ th' = th
          \/ \E w : th' = [th EXCEPT ![t] = w] /\ w.phase = "persist"
      BY <1>3, Entered DEF Expire
    <2>5. Kept
      BY <1>1, <2>1, <2>2, <2>3, <2>4, KeptSection
    <2>6. (\A u \in Threads : u # t => th'[u] = th[u]) /\ th'[t].phase \in {"idle", "persist"} /\ th[t].phase = "idle"
      BY <1>1, <2>1, <2>2, <2>4 DEF Idle
    <2>7. QED
      BY <1>1, <2>1, <2>2, <2>5, <2>6 DEF Retains, Writing
  <1>4. QED
    BY <1>2, <1>3

LEMMA KeptPersist ==
  ASSUME CoreInv, NEW t \in Threads, PersistSnapshot(t) \/ PersistWrite(t) \/ PersistFail(t)
  PROVE  Kept
  <1>1. TypeOK
    BY DEF CoreInv
  <1>2. CASE PersistSnapshot(t)
    BY <1>1, <1>2, SnapshotFacts, Typed, Roles DEF Kept, Shrinks
  <1>3. CASE PersistWrite(t)
    <2>1. NotAhead(disk.next, disk'.next)
      BY <1>3, PersistWriteInv
    <2>2. QED
      BY <1>3, <2>1, WriteFacts, Roles DEF Kept, Shrinks, NotAhead
  <1>4. CASE PersistFail(t)
    <2>1. disk' = disk /\ disk.next.reservation \in Nat
      BY <1>1, <1>4, Typed DEF PersistFail
    <2>2. /\ UNCHANGED <<reservations, next, up>>
          /\ \A u \in Threads : th'[u].op = th[u].op /\ th'[u].id = th[u].id
      BY <1>4, WriteFacts
    <2>3. QED
      BY <2>1, <2>2, Roles DEF Kept, Shrinks
  <1>5. QED
    BY <1>2, <1>3, <1>4

LEMMA KeptReturn ==
  ASSUME CoreInv, RecordInv, NEW t \in Threads, Return(t)
  PROVE  /\ Kept /\ Retains
         /\ th[t].phase \in {"done", "failed"} /\ th'[t].phase = "idle"
         /\ \A u \in Threads : u # t => th'[u] = th[u]
  <1>1. TypeOK
    BY DEF CoreInv
  <1>2. /\ th[t].phase \in {"done", "failed"} /\ th'[t].phase = "idle" /\ th[t].op # "begin"
        /\ \A u \in Threads : u # t => th'[u] = th[u]
        /\ \A u \in Threads : Writing(u)' <=> Writing(u)
        /\ UNCHANGED <<reservations, transactions, next, snap, disk, up, failures>>
    BY ReturnFacts DEF Return, memory
  <1>3. \A u \in Reservers : flow[u].pc = "begin" => th'[u] = th[u]
    BY <1>2, Roles DEF RecordInv
  <1>4. Kept
    BY <1>1, <1>2, <1>3, Typed DEF Kept, Shrinks
  <1>5. Retains
    BY <1>1, <1>2, Typed DEF Retains
  <1>6. QED
    BY <1>2, <1>4, <1>5
-----------------------------------------------------------------------------
(* Steps of one command *)

\* The same Reserves are under way.
SameBusy ==
  /\ \A t \in Reservers : (flow'[t].pc \in {"idle", "returned", "abandoned"}) <=>
                          (flow[t].pc \in {"idle", "returned", "abandoned"})
  /\ UNCHANGED <<closing, inflight>>

\* The flows go on.
Moving == /\ \A t \in Reservers : Holds(t) /\ Goes(t)
          /\ \A t \in Operators : Apart(t)

LEMMA InflightKept ==
  ASSUME InflightInv, SameBusy
  PROVE  InflightInv'
  <1>1. Busy' = Busy
    BY DEF SameBusy, Busy
  <1>2. QED
    BY <1>1 DEF InflightInv, SameBusy

\* A step that moves no command leaves what every command holds.
LEMMA NobodyMoves ==
  ASSUME ControlInv, flow' = flow
  PROVE  Moving /\ (UNCHANGED <<closing, inflight>> => SameBusy)
  BY FlowStays DEF ControlInv, CommandsInv, Moving, SameBusy

\* A step of one command leaves what the others hold.
LEMMA OthersMove ==
  ASSUME ControlInv, NEW t \in Clients, \A u \in Clients : u # t => flow'[u] = flow[u]
  PROVE  /\ \A u \in Reservers : u # t => Holds(u) /\ Goes(u)
         /\ \A u \in Operators : u # t => Apart(u)
  <1>1. RecordInv /\ HereInv
    BY DEF ControlInv, CommandsInv
  <1>2. \A u \in Reservers : u # t => flow'[u] = flow[u] /\ u \in Clients
    BY Roles
  <1>3. \A u \in Reservers : u # t => Holds(u)
    BY <1>1, <1>2 DEF RecordInv, Holds, Pends, Cancels
  <1>4. \A u \in Reservers : u # t => Goes(u)
    BY <1>1, <1>2 DEF HereInv, Stays, Goes, Orphaned
  <1>5. \A u \in Operators : u # t => Apart(u)
    BY <1>1, Roles DEF RecordInv, HereInv, Apart
  <1>6. QED
    BY <1>3, <1>4, <1>5

LEMMA OperatorMoves ==
  ASSUME ControlInv, NEW t \in Operators, \A u \in Clients : u # t => flow'[u] = flow[u], Apart(t)
  PROVE  Moving /\ (UNCHANGED <<closing, inflight>> => SameBusy)
  <1>1. t \in Clients /\ \A u \in Reservers : u # t /\ u \in Clients
    BY Roles
  <1>2. QED
    BY <1>1, OthersMove DEF Moving, SameBusy

LEMMA ReserverMoves ==
  ASSUME ControlInv, NEW t \in Reservers, \A u \in Clients : u # t => flow'[u] = flow[u], Goes(t)
  PROVE  /\ \A u \in Reservers : Goes(u) /\ (u # t => Holds(u))
         /\ \A u \in Operators : Apart(u)
         /\ Holds(t) => Moving
         /\ UNCHANGED <<closing, inflight>> /\
            ((flow'[t].pc \in {"idle", "returned", "abandoned"}) <=> (flow[t].pc \in {"idle", "returned", "abandoned"}))
              => SameBusy
  <1>1. t \in Clients /\ t \notin Operators /\ \A u \in Reservers : u \in Clients
    BY Roles
  <1>2. QED
    BY <1>1, OthersMove DEF Moving, SameBusy

(* A step that leaves reservations, wire and reports alone. *)
LEMMA QuietStep ==
  ASSUME ControlInv, CoreInv', ControlTypeOK', Kept, Moving,
         UNCHANGED <<conn, wire>>, conn.open = FALSE => calls' = <<>>,
         \A e \in EVSEs : held'[e] \in {0, held[e]}
  PROVE  RecordInv' /\ HereInv' /\ WireInv' /\ OrphanInv'
  <1>1. TypeOK /\ TypeOK' /\ ControlTypeOK /\ RecordInv /\ HereInv /\ WireInv /\ OrphanInv
    BY DEF ControlInv, CommandsInv, CoreInv
  <1>2. /\ \A t \in Reservers : Holds(t) /\ Goes(t) /\ Stays(t)
        /\ \A t \in Operators : Apart(t)
        /\ Shrinks
    BY DEF Moving, Goes, Kept
  <1>3. RecordInv'
    BY <1>1, <1>2, RecordKept
  <1>4. HereInv'
    <2>1. conn.open = FALSE => wire' = <<>> /\ calls' = <<>>
      BY <1>1 DEF HereInv
    <2>2. QED
      BY <1>1, <1>2, <2>1, HereKept
  <1>5. WireInv'
    BY <1>1, <1>2, WireKept
  <1>6. OrphanInv'
    BY <1>1, <1>2, OrphanKept
  <1>7. QED
    BY <1>3, <1>4, <1>5, <1>6

\* A step that neither sends nor receives keeps every part about the wire.
LEMMA SilentStep ==
  ASSUME ControlInv, CoreInv', ControlTypeOK', Kept, Retains, Moving,
         UNCHANGED <<conn, wire, calls, handling, held, sess>>,
         \A h \in Handlers : th'[h] = th[h]
  PROVE  RecordInv' /\ HereInv' /\ WireInv' /\ OrphanInv' /\ CallsInv' /\ SessionsInv'
  <1>1. TypeOK /\ TypeOK' /\ ControlTypeOK /\ HereInv /\ CallsInv /\ SessionsInv
    BY DEF ControlInv, CommandsInv, CoreInv
  <1>2. conn.open = FALSE => calls' = <<>>
    BY <1>1 DEF HereInv
  <1>3. RecordInv' /\ HereInv' /\ WireInv' /\ OrphanInv'
    BY <1>2, QuietStep
  <1>4. CallsInv'
    BY <1>1, CallsKept
  <1>5. SessionsInv'
    <2>1. \A e \in EVSEs : Continues(e)
      BY DEF Continues
    <2>2. QED
      BY <1>1, <2>1, SessionsKept
  <1>6. QED
    BY <1>3, <1>4, <1>5

(* A step of Reserve t on its own record. *)
LEMMA RecordOwn ==
  ASSUME CoreInv, RecordInv, NEW t \in Reservers, Pends(t) \/ Cancels(t),
         flow'[t].id = flow[t].id, flow'[t].evse = flow[t].evse,
         \A u \in Clients : u # t => flow'[u] = flow[u],
         next'.reservation = next.reservation, UNCHANGED <<disk, up>>,
         \A r : r.id # flow[t].id => (r \in reservations' <=> r \in reservations),
         \A u \in Reservers : u # t => th'[u] = th[u],
         Pends(t)' => Owns(t, "pending")', Cancels(t)' => Owns(t, "cancelling")',
         flow'[t].pc \notin {"begin", "vanished"},
         flow'[t].pc = "send" => flow[t].id < disk.next.reservation,
         \A r \in reservations' : r.id = flow[t].id /\ r.status # "active" => Pends(t)' \/ Cancels(t)'
  PROVE  RecordInv'
  <1>1. \A u \in Reservers : u # t => flow'[u] = flow[u] /\ (Pends(u)' <=> Pends(u)) /\ (Cancels(u)' <=> Cancels(u))
    BY Roles DEF Pends, Cancels
  <1>2. \A u \in Reservers : u # t /\ (Pends(u) \/ Cancels(u)) => flow[u].id # flow[t].id
    BY DEF RecordInv
  <1>3. ASSUME NEW u \in Reservers, u # t, NEW s, Pends(u) \/ Cancels(u), Owns(u, s)
        PROVE  Owns(u, s)'
    BY <1>1, <1>2, <1>3 DEF Owns
  <1>4. ASSUME NEW u \in Reservers
        PROVE  /\ Pends(u)' => Owns(u, "pending")'
               /\ Cancels(u)' => Owns(u, "cancelling")'
               /\ flow'[u].pc = "begin" => th'[u].op = "begin" /\ th'[u].id = flow'[u].id
               /\ flow'[u].pc = "send" => flow'[u].id < disk'.next.reservation
               /\ flow'[u].pc # "vanished"
    <2>1. CASE u = t
      BY <2>1
    <2>2. CASE u # t
      <3>1. Pends(u)' => Owns(u, "pending")'
        BY <1>1, <1>3, <2>2 DEF RecordInv
      <3>2. Cancels(u)' => Owns(u, "cancelling")'
        BY <1>1, <1>3, <2>2 DEF RecordInv
      <3>3. QED
        BY <1>1, <2>2, <3>1, <3>2 DEF RecordInv
    <2>3. QED
      BY <2>1, <2>2
  <1>5. ASSUME NEW r \in reservations', r.status # "active"
        PROVE  \E u \in Reservers : (Pends(u)' \/ Cancels(u)') /\ flow'[u].id = r.id
    <2>1. CASE r.id = flow[t].id
      BY <1>5, <2>1
    <2>2. CASE r.id # flow[t].id
      <3>1. PICK u \in Reservers : (Pends(u) \/ Cancels(u)) /\ flow[u].id = r.id
        BY <1>5, <2>2 DEF RecordInv
      <3>2. QED
        BY <1>1, <2>2, <3>1
    <2>3. QED
      BY <2>1, <2>2
  <1>6. \A u, v \in Reservers : /\ Pends(u)' \/ Cancels(u)'
                                /\ Pends(v)' \/ Cancels(v)'
                                /\ flow'[u].id = flow'[v].id
                                => u = v
    BY <1>1, <1>2 DEF RecordInv
  <1>7. ASSUME NEW u \in Operators
        PROVE  /\ flow'[u].op # "ReserveNow"
               /\ flow'[u].op = "CancelReservation" => flow'[u].pc # "begin"
               /\ flow'[u].op = "CancelReservation" /\ flow'[u].pc \in {"send", "wait"} =>
                    /\ up' = TRUE /\ flow'[u].id < next'.reservation
                    /\ \A r \in reservations' : r.id = flow'[u].id => r.status = "active"
    <2>1. flow'[u] = flow[u]
      BY Roles
    <2>2. \E r \in reservations : r.id = flow[t].id /\ r.status # "active"
      BY DEF RecordInv, Owns
    <2>3. flow[u].op = "CancelReservation" /\ flow[u].pc \in {"send", "wait"} => flow[u].id # flow[t].id
      BY <2>2 DEF RecordInv
    <2>4. QED
      BY <2>1, <2>3 DEF RecordInv
  <1>8. QED
    BY <1>4, <1>5, <1>6, <1>7 DEF RecordInv

\* So does a step of a Reserve that only changes its own record.
LEMMA OwnStep ==
  ASSUME ControlInv, CoreInv', ControlTypeOK', RecordInv', Shrinks, Retains,
         NEW t \in Reservers, \A u \in Clients : u # t => flow'[u] = flow[u], Goes(t),
         UNCHANGED <<conn, wire, calls, handling, held, sess>>,
         \A h \in Handlers : th'[h] = th[h]
  PROVE  HereInv' /\ WireInv' /\ OrphanInv' /\ CallsInv' /\ SessionsInv'
  <1>1. TypeOK /\ TypeOK' /\ ControlTypeOK /\ HereInv /\ WireInv /\ OrphanInv /\ CallsInv /\ SessionsInv
    BY DEF ControlInv, CommandsInv, CoreInv
  <1>2. (\A u \in Reservers : Goes(u) /\ Stays(u)) /\ (\A u \in Operators : Apart(u))
    BY ReserverMoves DEF Goes
  <1>3. conn.open = FALSE => wire' = <<>> /\ calls' = <<>>
    BY <1>1 DEF HereInv
  <1>4. HereInv'
    BY <1>1, <1>2, <1>3, HereKept
  <1>5. WireInv' /\ OrphanInv'
    BY <1>1, <1>2, WireKept, OrphanKept
  <1>6. CallsInv'
    BY <1>1, CallsKept
  <1>7. SessionsInv'
    <2>1. \A e \in EVSEs : Continues(e)
      BY DEF Continues
    <2>2. QED
      BY <1>1, <2>1, SessionsKept
  <1>8. QED
    BY <1>4, <1>5, <1>6, <1>7
-----------------------------------------------------------------------------
(* Reserve *)

LEMMA Unlinked ==
  ASSUME UNCHANGED <<link, station>>
  PROVE  UNCHANGED <<conn, wire, calls, handling, held, sess>>
  BY DEF link, station

LEMMA ReserveWaitsInv ==
  ASSUME ControlInv, CoreInv', NEW t \in Reservers,
         ReserveRefused(t) \/ OrphanUnsent(t) \/ OrphanAnswered(t)
  PROVE  ControlTypeOK' /\ CommandsInv'
  <1>1. TypeOK /\ ControlTypeOK /\ InflightInv /\ t \in Clients
    BY Roles DEF ControlInv, CommandsInv, CoreInv
  <1>2. UNCHANGED <<vars, ans, link, station, closing, inflight>>
    BY DEF ReserveRefused, OrphanUnsent, OrphanAnswered, shut
  <1>3. \/ Gone(t, "return") /\ flow[t].pc = "entered"
        \/ Gone(t, "lapsed") /\ flow[t].pc = "orphaned"
        \/ Gone(t, "cancelEnd") /\ flow[t].pc = "cancelWait"
    BY <1>1, GotoFacts, AllPCs DEF ReserveRefused, OrphanUnsent, OrphanAnswered, At
  <1>4. Holds(t)
    BY <1>3 DEF Holds, Gone, Pends, Cancels
  <1>5. Goes(t)
    BY <1>3 DEF Goes, Stays, Gone, Undone, Orphaned
  <1>6. flow' \in [Clients -> Flows] /\ \A u \in Clients : u # t => flow'[u] = flow[u]
    BY <1>3 DEF Gone
  <1>7. (flow'[t].pc \in {"idle", "returned", "abandoned"}) <=> (flow[t].pc \in {"idle", "returned", "abandoned"})
    BY <1>3 DEF Gone
  <1>8. Moving /\ SameBusy
    BY <1>2, <1>4, <1>5, <1>6, <1>7, ReserverMoves
  <1>9. ControlTypeOK'
    BY <1>1, <1>2, <1>6, FlowTyped DEF ControlTypeOK
  <1>10. Kept /\ Retains /\ UNCHANGED <<conn, wire, calls, handling, held, sess>> /\ th' = th
    BY <1>1, <1>2, KeptAlone, Unlinked, Unmoved
  <1>11. InflightInv'
    BY <1>1, <1>8, InflightKept
  <1>12. QED
    BY <1>8, <1>9, <1>10, <1>11, SilentStep DEF CommandsInv

LEMMA BusyFinite == IsFiniteSet(Busy) /\ Cardinality(Busy) \in Nat
  <1>1. IsFiniteSet(Busy)
    BY ControlAssumption, FS_Subset DEF Busy
  <1>2. QED
    BY <1>1, FS_CardinalityType

LEMMA ReserveEnterInv ==
  ASSUME ControlInv, CoreInv', NEW t \in Reservers, NEW e \in EVSEs, NEW tag \in Tags, ReserveEnter(t, e, tag)
  PROVE  ControlTypeOK' /\ CommandsInv'
  <1>1. TypeOK /\ ControlTypeOK /\ InflightInv /\ HereInv /\ t \in Clients
    BY Roles DEF ControlInv, CommandsInv, CoreInv
  <1> DEFINE w == [NoFlow EXCEPT !.op = "ReserveNow", !.pc = "entered", !.evse = e, !.tag = tag]
  <1>2. /\ UNCHANGED <<vars, ans, link, station, closing>> /\ inflight' = inflight + 1
        /\ closing = "open" /\ flow[t].pc = "idle" /\ flow' = [flow EXCEPT ![t] = w]
    BY DEF ReserveEnter, At
  <1>3. w \in Flows /\ w.pc = "entered" /\ w.conn = 0
    BY Nothings DEF Flows, OpKinds, PCs
  <1> HIDE DEF w
  <1>4. /\ flow' \in [Clients -> Flows] /\ flow'[t] = w
        /\ \A u \in Clients : u # t => flow'[u] = flow[u]
    BY <1>1, <1>2, <1>3, NewFlow
  <1>5. flow[t].conn = 0
    BY <1>1, <1>2 DEF HereInv
  <1>6. Holds(t)
    BY <1>2, <1>3, <1>4 DEF Holds, Pends, Cancels
  <1>7. Goes(t)
    BY <1>2, <1>3, <1>4, <1>5 DEF Goes, Stays, Undone, Orphaned
  <1>8. Moving
    BY <1>4, <1>6, <1>7, ReserverMoves
  <1>9. inflight \in Int /\ inflight' \in Int
    BY <1>1, <1>2 DEF ControlTypeOK
  <1>10. ControlTypeOK'
    BY <1>1, <1>2, <1>4, <1>9, FlowTyped DEF ControlTypeOK
  <1>11. Kept /\ Retains /\ UNCHANGED <<conn, wire, calls, handling, held, sess>> /\ th' = th
    BY <1>1, <1>2, KeptAlone, Unlinked, Unmoved
  <1>12. InflightInv'
    <2>1. t \notin Busy /\ Busy' = Busy \cup {t}
      BY <1>2, <1>3, <1>4, Roles DEF Busy
    <2>2. Cardinality(Busy') = Cardinality(Busy) + 1
      BY <2>1, BusyFinite, FS_AddElement
    <2>3. QED
      BY <1>1, <1>2, <2>2 DEF InflightInv
  <1>13. QED
    BY <1>8, <1>10, <1>11, <1>12, SilentStep DEF CommandsInv

LEMMA ReserveReturnInv ==
  ASSUME ControlInv, CoreInv', NEW t \in Reservers, ReserveReturn(t)
  PROVE  ControlTypeOK' /\ CommandsInv'
  <1>1. TypeOK /\ ControlTypeOK /\ InflightInv /\ t \in Clients
    BY Roles DEF ControlInv, CommandsInv, CoreInv
  <1>2. UNCHANGED <<vars, ans, link, station, closing>> /\ inflight' = inflight - 1
    BY DEF ReserveReturn
  <1>3. \/ Gone(t, "returned") /\ flow[t].pc = "return"
        \/ Gone(t, "abandoned") /\ flow[t].pc = "cancelled"
    BY <1>1, GotoFacts, AllPCs DEF ReserveReturn, At
  <1>4. Holds(t)
    BY <1>3 DEF Holds, Gone, Pends, Cancels
  <1>5. Goes(t)
    BY <1>3 DEF Goes, Stays, Gone, Undone, Orphaned
  <1>6. flow' \in [Clients -> Flows] /\ \A u \in Clients : u # t => flow'[u] = flow[u]
    BY <1>3 DEF Gone
  <1>7. Moving
    BY <1>4, <1>5, <1>6, ReserverMoves
  <1>8. inflight \in Int /\ inflight' \in Int
    BY <1>1, <1>2 DEF ControlTypeOK
  <1>9. ControlTypeOK'
    BY <1>1, <1>2, <1>6, <1>8, FlowTyped DEF ControlTypeOK
  <1>10. Kept /\ Retains /\ UNCHANGED <<conn, wire, calls, handling, held, sess>> /\ th' = th
    BY <1>1, <1>2, KeptAlone, Unlinked, Unmoved
  <1>11. InflightInv'
    <2>1. t \in Busy /\ Busy' = Busy \ {t}
      BY <1>3, <1>6, Roles DEF Busy, Gone
    <2>2. Cardinality(Busy') = Cardinality(Busy) - 1
      BY <2>1, BusyFinite, FS_RemoveElement
    <2>3. QED
      BY <1>1, <1>2, <2>1, <2>2 DEF InflightInv
  <1>12. QED
    BY <1>7, <1>9, <1>10, <1>11, SilentStep DEF CommandsInv

(* What a section of t does when it changes no transaction and no counter. *)
LEMMA OwnSection ==
  ASSUME ControlInv, NEW t \in Reservers, th[t] = Idle, NEW w, w.phase \notin {"write", "failed"},
         th' = th \/ th' = [th EXCEPT ![t] = w],
         UNCHANGED <<transactions, next, snap, disk, up, failures>>,
         \A r \in reservations' : \E q \in reservations : q.id = r.id /\ q.evse = r.evse
  PROVE  /\ Shrinks /\ Retains
         /\ \A u \in Threads : u # t => th'[u] = th[u]
         /\ \A h \in Handlers : th'[h] = th[h]
  <1>1. TypeOK /\ th \in [Threads -> Thread]
    BY DEF ControlInv, CoreInv, TypeOK
  <1>2. t \in Threads /\ \A h \in Handlers : h # t /\ h \in Threads
    BY Roles
  <1>3. \A u \in Threads : u # t => th'[u] = th[u]
    BY <1>1
  <1>4. th[t].phase = "idle" /\ th'[t].phase \notin {"write", "failed"}
    BY <1>1, <1>2 DEF Idle
  <1>5. Retains
    BY <1>1, <1>2, <1>3, <1>4, Typed DEF Retains, Writing
  <1>6. Shrinks
    BY <1>1, Typed DEF Shrinks
  <1>7. QED
    BY <1>2, <1>3, <1>5, <1>6

(* The one record with the id of Reserve t. *)
LEMMA OwnRecord ==
  ASSUME ControlInv, NEW t \in Reservers, NEW r \in Mine(t)
  PROVE  /\ r \in reservations /\ r.id = flow[t].id
         /\ \A q \in reservations : q.id = flow[t].id => q = r
         /\ \A s : Owns(t, s) => r.status = s /\ r.evse = flow[t].evse
         /\ Pends(t) => r.status = "pending" /\ r.evse = flow[t].evse
         /\ Cancels(t) => r.status = "cancelling" /\ r.evse = flow[t].evse
  <1>1. r \in reservations /\ r.id = flow[t].id
    BY DEF Mine
  <1>2. \A q \in reservations : q.id = flow[t].id => q = r
    BY <1>1 DEF ControlInv, CoreInv, RecordsUnique, Unique
  <1>3. \A s : Owns(t, s) => r.status = s /\ r.evse = flow[t].evse
    BY <1>1, <1>2 DEF Owns
  <1>4. QED
    BY <1>1, <1>2, <1>3 DEF ControlInv, CommandsInv, RecordInv

LEMMA ReserveEndInv ==
  ASSUME ControlInv, CoreInv', NEW t \in Reservers, ReserveRejected(t) \/ OrphanEnd(t)
  PROVE  ControlTypeOK' /\ CommandsInv'
  <1>1. /\ TypeOK /\ CoreInv /\ ControlTypeOK /\ InflightInv /\ RecordInv
        /\ t \in Clients /\ t \in Threads /\ t \in Workers
    BY Roles DEF ControlInv, CommandsInv, CoreInv
  <1>2. UNCHANGED <<ans, link, station, closing, inflight>> /\ th[t] = Idle
    BY DEF ReserveRejected, OrphanEnd, shut, At
  <1>3. \/ Gone(t, "return") /\ flow[t].pc = "wait" /\ Pends(t) /\ Owns(t, "pending")
        \/ Gone(t, "cancelled") /\ flow[t].pc = "cancelEnd" /\ Cancels(t) /\ Owns(t, "cancelling")
        \/ Gone(t, "return") /\ flow[t].pc = "lapsed" /\ Cancels(t) /\ Owns(t, "cancelling")
    BY <1>1, GotoFacts, AllPCs DEF ReserveRejected, OrphanEnd, At, Pends, Cancels, RecordInv
  <1>4. PICK r \in Mine(t) : EndReservation(t, r)
    <2>1. Mine(t) # {}
      BY <1>3 DEF Owns, Mine
    <2>2. QED
      BY <2>1 DEF ReserveRejected, OrphanEnd
  <1>5. /\ reservations' = reservations \ {r}
        /\ UNCHANGED <<transactions, next, snap, disk, up, failures>>
        /\ \E w : w.phase \notin {"write", "failed"} /\ (th' = th \/ th' = [th EXCEPT ![t] = w])
    <2>1. /\ reservations' = reservations \ {r}
          /\ UNCHANGED <<transactions, next, snap, disk, up, failures>>
          /\ th' = th \/ EnterEnding(t, "end", r.id, r.id)
      BY <1>4 DEF EndReservation, EndLocked, process
    <2>2. Idle.phase \notin {"write", "failed"}
      BY DEF Idle
    <2>3. QED
      BY <2>1, <2>2, Entered
  <1>6. /\ r \in reservations /\ r.id = flow[t].id
        /\ \A q \in reservations : q.id = flow[t].id => q = r
    BY OwnRecord
  <1>7. /\ Shrinks /\ Retains
        /\ \A u \in Threads : u # t => th'[u] = th[u]
        /\ \A h \in Handlers : th'[h] = th[h]
    BY <1>2, <1>5, OwnSection
  <1>8. flow' \in [Clients -> Flows] /\ \A u \in Clients : u # t => flow'[u] = flow[u]
    BY <1>3 DEF Gone
  <1>9. RecordInv'
    <2>1. \A q : q.id # flow[t].id => (q \in reservations' <=> q \in reservations)
      BY <1>5, <1>6
    <2>2. \A q \in reservations' : q.id # flow[t].id
      BY <1>5, <1>6
    <2>3. ~Pends(t)' /\ ~Cancels(t)' /\ flow'[t].pc \notin {"begin", "vanished", "send"}
      BY <1>3 DEF Pends, Cancels, Gone
    <2>4. flow'[t].id = flow[t].id /\ flow'[t].evse = flow[t].evse /\ (Pends(t) \/ Cancels(t))
      BY <1>3 DEF Gone
    <2>5. \A u \in Reservers : u # t => th'[u] = th[u]
      BY <1>7, Roles
    <2>6. QED
      BY <1>1, <1>5, <1>8, <2>1, <2>2, <2>3, <2>4, <2>5, RecordOwn
  <1>10. Goes(t)
    BY <1>3 DEF Goes, Stays, Gone, Undone, Orphaned
  <1>11. ControlTypeOK'
    BY <1>1, <1>2, <1>8, FlowTyped DEF ControlTypeOK
  <1>12. HereInv' /\ WireInv' /\ OrphanInv' /\ CallsInv' /\ SessionsInv'
    BY <1>2, <1>7, <1>8, <1>9, <1>10, <1>11, OwnStep, Unlinked
  <1>13. InflightInv'
    <2>1. (flow'[t].pc \in {"idle", "returned", "abandoned"}) <=> (flow[t].pc \in {"idle", "returned", "abandoned"})
      BY <1>3 DEF Gone
    <2>2. SameBusy
      BY <1>2, <1>8, <1>10, <2>1, ReserverMoves
    <2>3. QED
      BY <1>1, <2>2, InflightKept
  <1>14. QED
    BY <1>9, <1>11, <1>12, <1>13 DEF CommandsInv

LEMMA ReserveMovesInv ==
  ASSUME ControlInv, CoreInv', NEW t \in Reservers, ReserveFails(t) \/ ReserveAccepted(t)
  PROVE  ControlTypeOK' /\ CommandsInv'
  <1>1. /\ TypeOK /\ CoreInv /\ ControlTypeOK /\ InflightInv /\ RecordInv
        /\ t \in Clients /\ t \in Threads /\ t \in Workers
    BY Roles DEF ControlInv, CommandsInv, CoreInv
  <1>2. UNCHANGED <<ans, link, station, closing, inflight>> /\ th[t] = Idle /\ Pends(t)
    BY <1>1 DEF ReserveFails, ReserveAccepted, GivesUp, shut, At, Pends, ControlTypeOK
  <1>3. Owns(t, "pending")
    BY <1>1, <1>2 DEF RecordInv
  <1>4. PICK r \in Mine(t) : r.status = "pending" /\ r.evse = flow[t].evse
    <2>1. Mine(t) # {}
      BY <1>3 DEF Owns, Mine
    <2>2. QED
      BY <1>2, <2>1, OwnRecord
  <1>5. /\ r \in reservations /\ r.id = flow[t].id
        /\ \A q \in reservations : q.id = flow[t].id => q = r
        /\ Mine(t) = {r}
    BY OwnRecord DEF Mine
  <1>6. \/ OrphanReservation(t, r) /\ Gone(t, "orphaned")
        \/ ActivateReservation(t, r) /\ Gone(t, "return")
    <2>1. CASE ReserveFails(t)
      BY <1>1, <1>4, <1>5, <2>1, GotoFacts, AllPCs DEF ReserveFails, ForgetReserve
    <2>2. CASE ReserveAccepted(t)
      BY <1>1, <1>4, <1>5, <2>2, GotoFacts, AllPCs DEF ReserveAccepted
    <2>3. QED
      BY <2>1, <2>2
  <1>7. PICK s \in {"cancelling", "active"} :
          /\ reservations' = (reservations \ {r}) \cup {[r EXCEPT !.status = s]}
          /\ s = "cancelling" <=> Gone(t, "orphaned")
          /\ s = "active" <=> Gone(t, "return")
    <2>1. ~(Gone(t, "orphaned") /\ Gone(t, "return"))
      BY DEF Gone
    <2>2. QED
      BY <1>6, <2>1 DEF OrphanReservation, ActivateReservation
  <1> DEFINE q == [r EXCEPT !.status = s]
  <1>8. q.id = r.id /\ q.evse = r.evse /\ q.status = s
    BY <1>1, <1>5 DEF TypeOK, Reservation
  <1>9. UNCHANGED <<transactions, next, snap, disk, up, failures>>
    BY <1>6 DEF OrphanReservation, ActivateReservation, process, history
  <1>10. \E w : w.phase \notin {"write", "failed"} /\ th' = [th EXCEPT ![t] = w]
    <2> DEFINE v == [op |-> "orphan", phase |-> "done", id |-> r.id, ends |-> r.id]
    <2>1. v.phase = "done"
      OBVIOUS
    <2>2. OrphanReservation(t, r) => th' = [th EXCEPT ![t] = v]
      BY DEF OrphanReservation
    <2>3. ActivateReservation(t, r) => Enter(t, "activate", r.id, "persist")
      BY DEF ActivateReservation
    <2> HIDE DEF v
    <2>4. QED
      BY <1>6, <2>1, <2>2, <2>3, Entered
  <1> HIDE DEF q
  <1>11. /\ Shrinks /\ Retains
         /\ \A u \in Threads : u # t => th'[u] = th[u]
         /\ \A h \in Handlers : th'[h] = th[h]
    <2>1. \A p \in reservations' : \E y \in reservations : y.id = p.id /\ y.evse = p.evse
      BY <1>5, <1>7, <1>8 DEF q
    <2>2. QED
      BY <1>2, <1>9, <1>10, <2>1, OwnSection
  <1>12. /\ flow' \in [Clients -> Flows] /\ \A u \in Clients : u # t => flow'[u] = flow[u]
         /\ flow'[t].id = flow[t].id /\ flow'[t].evse = flow[t].evse
         /\ flow'[t].pc = IF s = "cancelling" THEN "orphaned" ELSE "return"
    BY <1>6, <1>7 DEF Gone
  <1>13. RecordInv'
    <2>1. \A p : p.id # flow[t].id => (p \in reservations' <=> p \in reservations)
      BY <1>5, <1>7, <1>8 DEF q
    <2>2. \A p \in reservations' : p.id = flow[t].id => p = q
      BY <1>5, <1>7, <1>8 DEF q
    <2>3. q \in reservations' /\ q.id = flow[t].id /\ q.evse = flow[t].evse
      BY <1>4, <1>5, <1>7, <1>8 DEF q
    <2>4. ~Pends(t)' /\ (Cancels(t)' <=> s = "cancelling") /\ flow'[t].pc \notin {"begin", "vanished", "send"}
      BY <1>12 DEF Pends, Cancels
    <2>5. Cancels(t)' => Owns(t, "cancelling")'
      BY <1>8, <1>12, <2>3, <2>4 DEF Owns
    <2>6. \A u \in Reservers : u # t => th'[u] = th[u]
      BY <1>11, Roles
    <2>7. \A p \in reservations' : p.id = flow[t].id /\ p.status # "active" => Pends(t)' \/ Cancels(t)'
      BY <1>8, <2>2, <2>4
    <2>8. QED
      BY <1>1, <1>2, <1>9, <1>12, <2>1, <2>4, <2>5, <2>6, <2>7, RecordOwn
  <1>14. Goes(t)
    <2>1. flow'[t].conn = flow[t].conn
      BY <1>6 DEF Gone
    <2>2. QED
      BY <1>3, <1>12, <2>1 DEF Goes, Stays, Undone, Orphaned
  <1>15. ControlTypeOK'
    BY <1>1, <1>2, <1>12, FlowTyped DEF ControlTypeOK
  <1>16. HereInv' /\ WireInv' /\ OrphanInv' /\ CallsInv' /\ SessionsInv'
    BY <1>2, <1>11, <1>12, <1>13, <1>14, <1>15, OwnStep, Unlinked
  <1>17. InflightInv'
    <2>1. (flow'[t].pc \in {"idle", "returned", "abandoned"}) <=> (flow[t].pc \in {"idle", "returned", "abandoned"})
      BY <1>2, <1>12 DEF Pends
    <2>2. SameBusy
      BY <1>2, <1>12, <1>14, <2>1, ReserverMoves
    <2>3. QED
      BY <1>1, <2>2, InflightKept
  <1>18. QED
    BY <1>13, <1>15, <1>16, <1>17 DEF CommandsInv

LEMMA ReserveBegunInv ==
  ASSUME ControlInv, CoreInv', NEW t \in Reservers, ReserveBegun(t)
  PROVE  ControlTypeOK' /\ CommandsInv'
  <1>1. /\ TypeOK /\ CoreInv /\ ControlTypeOK /\ InflightInv /\ RecordInv
        /\ t \in Clients /\ t \in Threads /\ t \in Workers
    BY Roles DEF ControlInv, CommandsInv, CoreInv
  <1>2. UNCHANGED <<ans, link, station, closing, inflight>> /\ Pends(t) /\ BeginReturn(t) /\ flow[t].pc = "begin"
    BY DEF ReserveBegun, shut, Pends
  <1>3. Owns(t, "pending") /\ th[t].op = "begin" /\ th[t].id = flow[t].id
    BY <1>1, <1>2 DEF RecordInv
  <1>4. /\ th[t].phase \in {"done", "failed"} /\ th'[t].phase = "idle"
        /\ \A u \in Threads : u # t => th'[u] = th[u]
        /\ \A u \in Threads : Writing(u)' <=> Writing(u)
        /\ UNCHANGED <<transactions, next, snap, disk, up, failures>>
    BY <1>1, <1>2, ReturnFacts DEF BeginReturn
  <1>5. \/ th[t].phase = "done" /\ reservations' = reservations /\ Gone(t, "send")
        \/ /\ th[t].phase = "failed" /\ reservations' = {r \in reservations : r.id # flow[t].id}
           /\ Gone(t, "return")
    BY <1>1, <1>2, <1>3, GotoFacts, AllPCs DEF ReserveBegun, BeginReturn
  <1>6. /\ flow' \in [Clients -> Flows] /\ \A u \in Clients : u # t => flow'[u] = flow[u]
        /\ flow'[t].id = flow[t].id /\ flow'[t].evse = flow[t].evse /\ flow'[t].conn = flow[t].conn
        /\ flow'[t].pc \in {"send", "return"}
    BY <1>5 DEF Gone
  <1>7. Shrinks
    BY <1>1, <1>4, <1>5, Typed DEF Shrinks
  <1>8. Retains
    BY <1>1, <1>4, Typed DEF Retains
  <1>9. RecordInv'
    <2>1. \A r : r.id # flow[t].id => (r \in reservations' <=> r \in reservations)
      BY <1>5
    <2>2. flow'[t].pc = "send" => th[t].phase = "done" /\ reservations' = reservations
      BY <1>5 DEF Gone
    <2>3. flow'[t].pc = "send" => flow[t].id < disk.next.reservation
      BY <1>1, <1>3, <2>2 DEF CoreInv, BeginsFresh
    <2>4. Pends(t)' => Owns(t, "pending")'
      BY <1>3, <1>6, <2>2 DEF Pends, Owns
    <2>5. ~Cancels(t)' /\ flow'[t].pc \notin {"begin", "vanished"}
      BY <1>6 DEF Cancels
    <2>6. \A r \in reservations' : r.id = flow[t].id => Pends(t)'
      BY <1>5 DEF Pends, Gone
    <2>7. \A u \in Reservers : u # t => th'[u] = th[u]
      BY <1>4, Roles
    <2>8. QED
      BY <1>1, <1>2, <1>4, <1>6, <2>1, <2>3, <2>4, <2>5, <2>6, <2>7, RecordOwn
  <1>10. Goes(t)
    BY <1>2, <1>6 DEF Goes, Stays, Undone, Orphaned
  <1>11. ControlTypeOK'
    BY <1>1, <1>2, <1>6, FlowTyped DEF ControlTypeOK
  <1>12. \A h \in Handlers : th'[h] = th[h]
    BY <1>4, Roles
  <1>13. HereInv' /\ WireInv' /\ OrphanInv' /\ CallsInv' /\ SessionsInv'
    BY <1>2, <1>6, <1>7, <1>8, <1>9, <1>10, <1>11, <1>12, OwnStep, Unlinked
  <1>14. InflightInv'
    <2>1. (flow'[t].pc \in {"idle", "returned", "abandoned"}) <=> (flow[t].pc \in {"idle", "returned", "abandoned"})
      BY <1>2, <1>6
    <2>2. SameBusy
      BY <1>2, <1>6, <1>10, <2>1, ReserverMoves
    <2>3. QED
      BY <1>1, <2>2, InflightKept
  <1>15. QED
    BY <1>9, <1>11, <1>13, <1>14 DEF CommandsInv

(* A request of client t joins the wire. *)
LEMMA SendStep ==
  ASSUME ControlInv, CoreInv', ControlTypeOK', UNCHANGED vars, NEW q, Sent(q), conn.open,
         \A u \in Reservers : Holds(u) /\ Stays(u), \A u \in Operators : Apart(u), SameBusy,
         \A u \in Reservers : \/ Goes(u)
                              \/ /\ Stays(u) /\ Orphaned(u)
                                 /\ q.kind = "CancelReservation" /\ q.id = flow[u].id
                                 /\ q.evse = flow[u].evse,
         UNCHANGED <<conn, calls, handling, station>>
  PROVE  CommandsInv'
  <1>1. /\ TypeOK /\ TypeOK' /\ CoreInv /\ ControlTypeOK /\ InflightInv /\ RecordInv /\ HereInv
        /\ WireInv /\ OrphanInv /\ CallsInv /\ SessionsInv
    BY DEF ControlInv, CommandsInv, CoreInv
  <1>2. Kept /\ Shrinks /\ Retains /\ th' = th
    BY <1>1, KeptAlone, Unmoved DEF Kept
  <1>3. UNCHANGED <<held, sess>>
    BY DEF station
  <1>4. InflightInv' /\ RecordInv'
    BY <1>1, <1>2, InflightKept, RecordKept
  <1>5. HereInv'
    BY <1>1, <1>2, HereKept
  <1>6. WireInv'
    BY <1>1, <1>2, <1>3, WireGrows
  <1>7. OrphanInv'
    BY <1>1, <1>3, OrphanGrows
  <1>8. CallsInv'
    BY <1>1, <1>3, CallsKept
  <1>9. SessionsInv'
    <2>1. \A e \in EVSEs : Continues(e)
      BY <1>3 DEF Continues
    <2>2. QED
      BY <1>1, <1>2, <2>1, SessionsKept
  <1>10. QED
    BY <1>4, <1>5, <1>6, <1>7, <1>8, <1>9 DEF CommandsInv

LEMMA ReserveSendInv ==
  ASSUME ControlInv, CoreInv', NEW t \in Reservers, ReserveSend(t) \/ OrphanSend(t)
  PROVE  ControlTypeOK' /\ CommandsInv'
  <1>1. ControlTypeOK /\ HereInv /\ t \in Clients /\ flow[t].id \in Nat
    BY Roles DEF ControlInv, CommandsInv, ControlTypeOK, Flows
  <1>2. UNCHANGED <<vars, conn, calls, handling, station, closing, inflight>> /\ UNCHANGED shut
    BY DEF ReserveSend, OrphanSend, shut
  <1>3. PICK k \in {"ReserveNow", "CancelReservation"}, p \in {"wait", "cancelWait"} :
          /\ CallSend(t, k, flow[t].id, p)
          /\ \/ k = "ReserveNow" /\ p = "wait" /\ flow[t].pc = "send"
             \/ k = "CancelReservation" /\ p = "cancelWait" /\ flow[t].pc = "orphaned"
    BY DEF ReserveSend, OrphanSend, At
  <1>4. k \in OpKinds /\ p \in PCs
    BY <1>3 DEF OpKinds, PCs
  <1> DEFINE q == Request(k, t, flow[t].id)
  <1>5. /\ ControlTypeOK' /\ Gone(t, p)
        /\ conn.open /\ flow[t].conn = conn.n
        /\ q = [kind |-> k, by |-> t, id |-> flow[t].id, evse |-> flow[t].evse]
        /\ DOMAIN wire = 1..Len(wire) /\ DOMAIN wire' = 1..(Len(wire) + 1) /\ Len(wire) \in Nat
        /\ wire'[Len(wire) + 1] = q
        /\ \A l \in DOMAIN wire : wire'[l] = wire[l]
    BY <1>1, <1>2, <1>3, <1>4, CallSendFacts
  <1>6. q.kind = k /\ q.by = t /\ q.id = flow[t].id /\ q.evse = flow[t].evse
    BY <1>5
  <1> HIDE DEF q
  <1>7. Sent(q)
    <2>1. k = "ReserveNow" => Here(t) /\ flow[t].pc = "send" /\ flow'[t].pc = "wait"
      BY <1>1, <1>3, <1>5 DEF Here, Gone, ControlTypeOK
    <2>2. QED
      BY <1>5, <1>6, <2>1 DEF Sent
  <1>8. Holds(t) /\ Stays(t)
    BY <1>3, <1>5 DEF Holds, Stays, Gone, Pends, Cancels
  <1>9. Goes(t) \/ (Stays(t) /\ Orphaned(t) /\ k = "CancelReservation")
    BY <1>3, <1>5, <1>8 DEF Goes, Gone, Undone, Orphaned
  <1>10. /\ \A u \in Reservers : u # t => Holds(u) /\ Goes(u) /\ Stays(u)
         /\ \A u \in Operators : Apart(u)
    <2>1. \A u \in Clients : u # t => flow'[u] = flow[u]
      BY <1>5 DEF Gone
    <2>2. QED
      BY <1>1, <2>1, OthersMove, Roles DEF Goes
  <1>11. SameBusy
    <2>1. \A u \in Reservers : u # t => flow'[u] = flow[u]
      BY <1>5, Roles DEF Gone
    <2>2. QED
      BY <1>2, <1>3, <1>5, <2>1 DEF SameBusy, Gone
  <1>12. QED
    BY <1>2, <1>5, <1>6, <1>7, <1>8, <1>9, <1>10, <1>11, SendStep

LEMMA ReserveBeginInv ==
  ASSUME ControlInv, CoreInv', NEW t \in Reservers, ReserveBegin(t)
  PROVE  ControlTypeOK' /\ CommandsInv'
  <1>1. /\ TypeOK /\ TypeOK' /\ CoreInv /\ ControlTypeOK /\ InflightInv /\ RecordInv /\ HereInv
        /\ WireInv /\ OrphanInv /\ CallsInv /\ SessionsInv
        /\ t \in Clients /\ t \in Threads /\ t \in Workers /\ AllNumbers
    BY Roles, Numbers DEF ControlInv, CommandsInv, CoreInv
  <1>n. PICK n \in Nat : n = next.reservation
    BY <1>1 DEF AllNumbers
  <1>2. /\ UNCHANGED <<ans, link, station, closing, inflight>> /\ flow[t].pc = "entered"
        /\ conn.open /\ BeginReservation(t, flow[t].evse, flow[t].tag)
        /\ flow' = [flow EXCEPT ![t].pc = "begin", ![t].id = n, ![t].conn = conn.n]
    BY <1>n DEF ReserveBegin, shut, At
  <1>3. UNCHANGED <<conn, wire, calls, handling, held, sess>>
    BY <1>2, Unlinked
  <1> DEFINE w == [flow[t] EXCEPT !.pc = "begin", !.id = n, !.conn = conn.n]
             r == [id |-> n, evse |-> flow[t].evse, tag |-> flow[t].tag, status |-> "pending"]
             v == [op |-> "begin", phase |-> "persist", id |-> n, ends |-> 0]
  <1>4. flow' = [flow EXCEPT ![t] = w]
    BY <1>1, <1>2 DEF ControlTypeOK
  <1>5. w \in Flows /\ w.pc = "begin" /\ w.id = n /\ w.evse = flow[t].evse /\ w.conn = conn.n
    <2>1. flow[t] \in Flows /\ conn.n \in Nat
      BY <1>1 DEF ControlTypeOK, AllNumbers
    <2>2. QED
      BY <2>1, AllPCs DEF Flows
  <1>6. r.id = n /\ r.evse = flow[t].evse /\ r.status = "pending"
    OBVIOUS
  <1>7. v.op = "begin" /\ v.phase = "persist" /\ v.id = n
    OBVIOUS
  <1>8. /\ reservations' = reservations \cup {r}
        /\ next'.reservation = n + 1 /\ next'.transaction = next.transaction
        /\ th' = [th EXCEPT ![t] = v] /\ th[t] = Idle /\ up
        /\ UNCHANGED <<transactions, snap, disk, up, failures>>
        /\ n <= MaxReservationID /\ \A q \in reservations : q.evse # flow[t].evse
    BY <1>1, <1>2, <1>n DEF BeginReservation, Enter, Ready, ReservationsOn, process, history, TypeOK, Counters
  <1> HIDE DEF w, r, v
  <1>9. /\ flow' \in [Clients -> Flows] /\ flow'[t] = w
        /\ \A u \in Clients : u # t => flow'[u] = flow[u]
    BY <1>1, <1>4, <1>5, NewFlow
  <1>10. /\ \A u \in Threads : u # t => th'[u] = th[u]
         /\ th'[t].op = "begin" /\ th'[t].phase = "persist" /\ th'[t].id = n
         /\ th[t].phase = "idle"
    BY <1>1, <1>7, <1>8 DEF TypeOK, Idle
  <1>11. ControlTypeOK'
    BY <1>1, <1>2, <1>9, FlowTyped DEF ControlTypeOK
  <1>12. /\ n \in ReservationIds /\ n # 0 /\ disk.next.reservation <= n
         /\ \A q \in reservations : q.id < n
    <2>1. 1 <= n /\ disk.next.reservation <= n /\ \A q \in reservations : q.id < n
      BY <1>1, <1>8, <1>n DEF CoreInv, CountersAhead, NotAhead, IdsCounted, Counted
    <2>2. QED
      BY <1>8, <2>1, CoreAssumption DEF ReservationIds
  <1>13. flow[t].conn = 0 /\ ~Here(t) /\ ~Pends(t) /\ ~Cancels(t)
    BY <1>1, <1>2 DEF HereInv, Here, Pends, Cancels
  <1>14. \A u \in Reservers : u # t =>
           /\ flow'[u] = flow[u] /\ (Pends(u)' <=> Pends(u)) /\ (Cancels(u)' <=> Cancels(u))
           /\ (Here(u)' <=> Here(u)) /\ (Orphaned(u)' <=> Orphaned(u)) /\ u \in Threads /\ u \in Clients
    BY <1>3, <1>9, Roles DEF Pends, Cancels, Here, Orphaned
  <1>15. Pends(t)' /\ ~Cancels(t)' /\ ~Orphaned(t)' /\ Here(t)'
    BY <1>1, <1>2, <1>3, <1>5, <1>9 DEF Pends, Cancels, Orphaned, Here, ControlTypeOK
  <1>16. RecordInv'
    <2>1. ASSUME NEW u \in Reservers
          PROVE  /\ Pends(u)' => Owns(u, "pending")'
                 /\ Cancels(u)' => Owns(u, "cancelling")'
                 /\ flow'[u].pc = "begin" => th'[u].op = "begin" /\ th'[u].id = flow'[u].id
                 /\ flow'[u].pc = "send" => flow'[u].id < disk'.next.reservation
                 /\ flow'[u].pc # "vanished"
      <3>1. CASE u = t
        <4>1. Owns(t, "pending")'
          BY <1>5, <1>6, <1>8, <1>9 DEF Owns
        <4>2. QED
          BY <1>5, <1>9, <1>10, <1>15, <3>1, <4>1
      <3>2. CASE u # t
        <4>1. \A s : Owns(u, s) => Owns(u, s)'
          BY <1>8, <1>14, <3>2 DEF Owns
        <4>2. QED
          BY <1>1, <1>8, <1>10, <1>14, <3>2, <4>1 DEF RecordInv
      <3>3. QED
        BY <3>1, <3>2
    <2>2. \A q \in reservations' : q.status # "active" =>
            \E u \in Reservers : (Pends(u)' \/ Cancels(u)') /\ flow'[u].id = q.id
      <3>1. ASSUME NEW q \in reservations, q.status # "active"
            PROVE  \E u \in Reservers : (Pends(u)' \/ Cancels(u)') /\ flow'[u].id = q.id
        BY <1>1, <1>13, <1>14, <3>1 DEF RecordInv
      <3>2. QED
        BY <1>5, <1>6, <1>8, <1>9, <1>15, <3>1
    <2>3. \A u \in Reservers : u # t /\ (Pends(u) \/ Cancels(u)) => flow[u].id # n
      <3>1. \A u \in Reservers : Pends(u) \/ Cancels(u) => \E q \in reservations : q.id = flow[u].id
        BY <1>1 DEF RecordInv, Owns
      <3>2. QED
        BY <1>12, <3>1
    <2>4. \A u, x \in Reservers : /\ Pends(u)' \/ Cancels(u)'
                                  /\ Pends(x)' \/ Cancels(x)'
                                  /\ flow'[u].id = flow'[x].id
                                  => u = x
      BY <1>1, <1>5, <1>9, <1>14, <2>3 DEF RecordInv
    <2>5. ASSUME NEW u \in Operators
          PROVE  /\ flow'[u].op # "ReserveNow"
                 /\ flow'[u].op = "CancelReservation" => flow'[u].pc # "begin"
                 /\ flow'[u].op = "CancelReservation" /\ flow'[u].pc \in {"send", "wait"} =>
                      /\ up' = TRUE /\ flow'[u].id < next'.reservation
                      /\ \A q \in reservations' : q.id = flow'[u].id => q.status = "active"
      <3>1. u # t /\ u \in Clients /\ flow'[u] = flow[u] /\ flow[u].id \in Nat
        BY <1>1, <1>9, Roles DEF AllNumbers
      <3>2. QED
        BY <1>1, <1>6, <1>8, <1>n, <3>1 DEF RecordInv
    <2>6. QED
      BY <2>1, <2>2, <2>4, <2>5 DEF RecordInv
  <1>17. \A u \in Reservers : Here(u) => flow[u].id < n /\ u # t
    BY <1>1, <1>13, <1>n DEF HereInv
  <1>18. HereInv'
    <2>1. conn'.n # 0 /\ \A u \in Clients : flow'[u].conn <= conn'.n
      BY <1>1, <1>3, <1>5, <1>9 DEF HereInv, AllNumbers
    <2>2. \A u \in Reservers : flow'[u].pc \in {"idle", "entered"} => flow'[u].conn = 0
      BY <1>1, <1>5, <1>9, <1>14 DEF HereInv
    <2>3. (conn'.open = TRUE => up' = TRUE) /\ (conn'.open = FALSE => wire' = <<>> /\ calls' = <<>>)
      BY <1>1, <1>3, <1>8 DEF HereInv
    <2>4. \A u \in Reservers : Here(u)' => flow'[u].id \in ReservationIds /\ flow'[u].id < next'.reservation
      <3>1. n < n + 1 /\ \A u \in Reservers : Here(u) => flow[u].id < n + 1
        BY <1>1, <1>17, Roles DEF AllNumbers
      <3>2. QED
        BY <1>1, <1>5, <1>8, <1>9, <1>12, <1>14, <3>1 DEF HereInv
    <2>5. \A u, x \in Reservers : Here(u)' /\ Here(x)' /\ flow'[u].id = flow'[x].id => u = x
      <3>1. \A u \in Reservers : Here(u) => flow[u].id # n
        BY <1>1, <1>17, Roles DEF AllNumbers
      <3>2. QED
        BY <1>1, <1>5, <1>9, <1>14, <3>1 DEF HereInv
    <2>6. ASSUME NEW u \in Reservers, NEW q \in reservations', Here(u)', q.evse = flow'[u].evse
          PROVE  flow'[u].id <= q.id
      <3>1. CASE u = t
        BY <1>5, <1>6, <1>8, <1>9, <2>6, <3>1
      <3>2. CASE u # t /\ q = r
        BY <1>1, <1>6, <1>14, <1>17, <2>6, <3>2 DEF AllNumbers
      <3>3. CASE u # t /\ q # r
        BY <1>1, <1>8, <1>14, <2>6, <3>3 DEF HereInv
      <3>4. QED
        BY <3>1, <3>2, <3>3
    <2>7. QED
      BY <2>1, <2>2, <2>3, <2>4, <2>5, <2>6 DEF HereInv
  <1>19. \A e \in EVSEs : held[e] < n
    BY <1>1, <1>12 DEF WireInv, AllNumbers
  <1>20. WireInv'
    <2>1. \A k \in DOMAIN wire : Asks(k)' <=> Asks(k)
      BY <1>3 DEF Asks
    <2>2. ASSUME NEW k \in DOMAIN wire', Asks(k)'
          PROVE  \E u : /\ u = wire'[k].by
                        /\ Here(u)' /\ wire'[k].id = flow'[u].id /\ wire'[k].evse = flow'[u].evse
                        /\ flow'[u].pc \notin {"begin", "send"}
                        /\ wire'[k].id < disk'.next.reservation
                        /\ held'[wire'[k].evse] < wire'[k].id
      <3>1. PICK u : u = wire[k].by
        OBVIOUS
      <3>2. /\ Here(u) /\ wire[k].id = flow[u].id /\ wire[k].evse = flow[u].evse
            /\ flow[u].pc \notin {"begin", "send"}
            /\ wire[k].id < disk.next.reservation /\ held[wire[k].evse] < wire[k].id
        BY <1>1, <1>3, <2>1, <2>2, <3>1 DEF WireInv
      <3>3. u \in Reservers /\ u # t
        BY <1>13, <3>2 DEF Here
      <3>4. QED
        BY <1>3, <1>8, <1>14, <3>1, <3>2, <3>3
    <2>3. \A k, l \in DOMAIN wire : Asks(k) /\ Asks(l) /\ k < l /\ wire[k].evse = wire[l].evse =>
            wire[k].id < wire[l].id
      BY <1>1 DEF WireInv
    <2>4. \A e \in EVSEs : held'[e] # 0 => held'[e] < disk'.next.reservation
      BY <1>1, <1>3, <1>8 DEF WireInv
    <2>5. ASSUME NEW u \in Reservers, Here(u)'
          PROVE  /\ flow'[u].pc \in {"begin", "send"} => held'[flow'[u].evse] < flow'[u].id
                 /\ \A e \in EVSEs : held'[e] = flow'[u].id => e = flow'[u].evse
      <3>1. CASE u = t
        <4>1. flow'[t].id = n /\ flow'[t].evse \in EVSEs
          BY <1>1, <1>5, <1>9 DEF AllNumbers
        <4>2. \A e \in EVSEs : held[e] # n
          BY <1>1, <1>19 DEF AllNumbers
        <4>3. QED
          BY <1>3, <1>19, <3>1, <4>1, <4>2
      <3>2. CASE u # t
        BY <1>1, <1>3, <1>14, <2>5, <3>2 DEF WireInv
      <3>3. QED
        BY <3>1, <3>2
    <2>6. \A k \in DOMAIN wire' : Asks(k)' =>
            /\ Here(wire[k].by)' /\ wire'[k].id = flow'[wire'[k].by].id
            /\ wire'[k].evse = flow'[wire'[k].by].evse
            /\ flow'[wire'[k].by].pc \notin {"begin", "send"}
            /\ wire'[k].id < disk'.next.reservation
            /\ held'[wire'[k].evse] < wire'[k].id
      BY <2>2 DEF Here
    <2>7. QED
      BY <1>3, <2>1, <2>3, <2>4, <2>5, <2>6 DEF WireInv
  <1>21. OrphanInv'
    <2>1. ASSUME NEW u \in Reservers, Here(u)'
          PROVE  Settles(u)'
      <3>1. CASE u = t
        BY <1>5, <1>9, <1>15, <3>1 DEF Settles
      <3>2. CASE u # t
        <4>1. Settles(u) /\ flow'[u] = flow[u]
          BY <1>1, <1>14, <2>1, <3>2 DEF OrphanInv
        <4>2. \A k \in DOMAIN wire : (Asks(k)' <=> Asks(k)) /\ (Undoes(k, u)' <=> Undoes(k, u))
          BY <1>3, <4>1 DEF Asks, Undoes
        <4>3. QED
          BY <1>3, <1>14, <3>2, <4>1, <4>2 DEF Settles
      <3>3. QED
        BY <3>1, <3>2
    <2>2. QED
      BY <2>1 DEF OrphanInv
  <1>22. CallsInv'
    BY <1>1, <1>3, CallsKept
  <1>23. SessionsInv'
    <2>1. Retains
      BY <1>1, <1>8, <1>10, Typed DEF Retains, Writing
    <2>2. \A h \in Handlers : h # t /\ h \in Threads
      BY Roles
    <2>3. \A e \in EVSEs : Continues(e)
      BY <1>3 DEF Continues
    <2>4. QED
      BY <1>1, <1>3, <1>10, <1>11, <2>1, <2>2, <2>3, SessionsKept
  <1>24. InflightInv'
    <2>1. SameBusy
      BY <1>2, <1>5, <1>9, <1>14 DEF SameBusy
    <2>2. QED
      BY <1>1, <2>1, InflightKept
  <1>25. QED
    BY <1>11, <1>16, <1>18, <1>20, <1>21, <1>22, <1>23, <1>24 DEF CommandsInv
-----------------------------------------------------------------------------
(* The other commands *)

\* A step of Cancel, Start, Stop, Unlock or TriggerStatus before it sends.
LEMMA OperatorStep ==
  ASSUME ControlInv, CoreInv', NEW t \in Operators,
         flow' \in [Clients -> Flows], \A u \in Clients : u # t => flow'[u] = flow[u], Apart(t),
         Kept, Retains, \A u \in Threads : u # t => th'[u] = th[u],
         UNCHANGED <<ans, link, station, shut>>
  PROVE  ControlTypeOK' /\ CommandsInv'
  <1>1. ControlTypeOK /\ InflightInv /\ UNCHANGED <<closing, inflight>>
    BY DEF ControlInv, CommandsInv, shut
  <1>2. Moving /\ SameBusy
    BY <1>1, OperatorMoves
  <1>3. ControlTypeOK'
    BY <1>1, FlowTyped DEF ControlTypeOK
  <1>4. InflightInv'
    BY <1>1, <1>2, InflightKept
  <1>5. \A h \in Handlers : th'[h] = th[h]
    BY Roles
  <1>6. QED
    BY <1>2, <1>3, <1>4, <1>5, SilentStep, Unlinked DEF CommandsInv

LEMMA BeginsFacts ==
  ASSUME ControlTypeOK, NEW t \in Operators, NEW k \in OpKinds, NEW p \in PCs, NEW e \in Configured,
         NEW tag \in Tags, NEW i \in Nat, Begins(t, k, p, e, tag, i)
  PROVE  /\ flow' \in [Clients -> Flows] /\ \A u \in Clients : u # t => flow'[u] = flow[u]
         /\ flow'[t].op = k /\ flow'[t].pc = p /\ flow'[t].id = i /\ flow'[t].conn = conn.n
         /\ conn.n \in Nat
  <1> DEFINE w == [op |-> k, pc |-> p, evse |-> e, tag |-> tag, id |-> i, conn |-> conn.n]
  <1>1. conn.n \in Nat /\ e \in EVSEs /\ t \in Clients
    BY CoreAssumption, Roles DEF ControlTypeOK
  <1>2. w \in Flows /\ w.op = k /\ w.pc = p /\ w.id = i /\ w.conn = conn.n
    BY <1>1 DEF Flows
  <1>3. flow' = [flow EXCEPT ![t] = w]
    BY DEF Begins
  <1> HIDE DEF w
  <1>4. QED
    BY <1>1, <1>2, <1>3, NewFlow

LEMMA CancelBeginInv ==
  ASSUME ControlInv, CoreInv', NEW t \in Operators, NEW e \in Configured, CancelBegin(t, e)
  PROVE  ControlTypeOK' /\ CommandsInv'
  <1>1. TypeOK /\ CoreInv /\ ControlTypeOK
    BY DEF ControlInv, CoreInv
  <1>2. UNCHANGED <<vars, ans, link, station, shut>>
    BY DEF CancelBegin
  <1>3. PICK r \in ActiveOn(e) : Begins(t, "CancelReservation", "send", e, r.tag, r.id)
    BY DEF CancelBegin
  <1>4. r \in reservations /\ r.status = "active" /\ r \in Reservation
    BY <1>1 DEF ActiveOn, TypeOK
  <1>5. r.tag \in Tags /\ r.id \in Nat
    BY <1>1, <1>4, Typed DEF Reservation
  <1>6. "CancelReservation" \in OpKinds
    BY DEF OpKinds
  <1>7. /\ flow' \in [Clients -> Flows] /\ \A u \in Clients : u # t => flow'[u] = flow[u]
        /\ flow'[t].op = "CancelReservation" /\ flow'[t].pc = "send" /\ flow'[t].id = r.id
        /\ flow'[t].conn = conn.n /\ conn.n \in Nat
    BY <1>1, <1>3, <1>5, <1>6, AllPCs, BeginsFacts
  <1>8. /\ up = TRUE /\ r.id < next.reservation
        /\ \A q \in reservations : q.id = r.id => q.status = "active"
    BY <1>1, <1>4 DEF CancelBegin, TypeOK, CoreInv, IdsCounted, Counted, RecordsUnique, Unique
  <1>9. Apart(t)
    BY <1>7, <1>8 DEF Apart
  <1>10. QED
    BY <1>1, <1>2, <1>7, <1>9, KeptAlone, Unmoved, OperatorStep

LEMMA PlainBeginInv ==
  ASSUME ControlInv, CoreInv', NEW t \in Operators, NEW e \in Configured,
         StopBegin(t, e) \/ \E k \in Plain : PlainBegin(t, e, k)
  PROVE  ControlTypeOK' /\ CommandsInv'
  <1>1. TypeOK /\ CoreInv /\ ControlTypeOK
    BY DEF ControlInv, CoreInv
  <1>2. UNCHANGED <<vars, ans, link, station, shut>>
    BY DEF StopBegin, PlainBegin
  <1>3. PICK k \in OpKinds \ {"ReserveNow", "CancelReservation"}, tag \in Tags, i \in Nat :
          Begins(t, k, "send", e, tag, i)
    <2>1. CASE StopBegin(t, e)
      <3>1. PICK x \in transactions : Begins(t, "RemoteStop", "send", e, x.tag, x.id)
        BY <2>1 DEF StopBegin, ActiveTransactions
      <3>2. x.tag \in Tags /\ x.id \in Nat
        BY <1>1, Typed DEF TypeOK, Transaction
      <3>3. QED
        BY <3>1, <3>2 DEF OpKinds
    <2>2. CASE \E k \in Plain : PlainBegin(t, e, k)
      <3>1. PICK k \in Plain : Begins(t, k, "send", e, DefaultTag, 0)
        BY <2>2 DEF PlainBegin
      <3>2. QED
        BY <3>1, ControlAssumption DEF OpKinds, Plain
    <2>3. QED
      BY <2>1, <2>2
  <1>4. /\ flow' \in [Clients -> Flows] /\ \A u \in Clients : u # t => flow'[u] = flow[u]
        /\ flow'[t].op = k /\ flow'[t].conn = conn.n /\ conn.n \in Nat
    BY <1>1, <1>3, AllPCs, BeginsFacts
  <1>5. Apart(t)
    BY <1>4 DEF Apart
  <1>6. QED
    BY <1>1, <1>2, <1>4, <1>5, KeptAlone, Unmoved, OperatorStep

LEMMA StartBeginInv ==
  ASSUME ControlInv, CoreInv', NEW t \in Operators, NEW e \in Configured, NEW tag \in Tags, StartBegin(t, e, tag)
  PROVE  ControlTypeOK' /\ CommandsInv'
  <1>1. TypeOK /\ CoreInv /\ ControlTypeOK /\ RecordInv /\ t \in Workers /\ t \in Threads
    BY Roles DEF ControlInv, CommandsInv, CoreInv
  <1>2. UNCHANGED <<ans, link, station, shut>> /\ NextRemoteStartID(t)
    BY DEF StartBegin
  <1>3. next.remoteStart \in Nat /\ "RemoteStart" \in OpKinds
    BY <1>1, Typed DEF OpKinds
  <1>4. /\ flow' \in [Clients -> Flows] /\ \A u \in Clients : u # t => flow'[u] = flow[u]
        /\ flow'[t].op = "RemoteStart" /\ flow'[t].conn = conn.n /\ conn.n \in Nat
    BY <1>1, <1>3, AllPCs, BeginsFacts DEF StartBegin
  <1>5. Apart(t)
    BY <1>4 DEF Apart
  <1>6. /\ Kept /\ th[t] = Idle /\ th'[t].phase = "persist" /\ \A u \in Threads : u # t => th'[u] = th[u]
        /\ UNCHANGED <<transactions, snap, disk, up, failures>>
        /\ next.transaction <= next'.transaction
    BY <1>1, <1>2, KeptNumber
  <1>7. Retains
    BY <1>1, <1>6 DEF Retains, Writing, Idle
  <1>8. QED
    BY <1>2, <1>4, <1>5, <1>6, <1>7, OperatorStep

LEMMA StartBegunInv ==
  ASSUME ControlInv, CoreInv', NEW t \in Operators, StartBegun(t)
  PROVE  ControlTypeOK' /\ CommandsInv'
  <1>1. CoreInv /\ ControlTypeOK /\ RecordInv /\ HereInv /\ t \in Threads /\ t \in Clients
    BY Roles DEF ControlInv, CommandsInv
  <1>2. UNCHANGED <<ans, link, station, shut>> /\ Return(t) /\ flow[t].pc = "begin"
    BY DEF StartBegun
  <1>3. Gone(t, "send") \/ Gone(t, "returned")
    BY <1>1, GotoFacts, AllPCs DEF StartBegun
  <1>4. /\ flow' \in [Clients -> Flows] /\ \A u \in Clients : u # t => flow'[u] = flow[u]
        /\ flow'[t].op = flow[t].op /\ flow'[t].conn = flow[t].conn
        /\ flow'[t].pc \in {"send", "returned"}
    BY <1>3 DEF Gone
  <1>5. Apart(t)
    BY <1>1, <1>2, <1>4 DEF Apart, RecordInv, HereInv
  <1>6. QED
    BY <1>1, <1>2, <1>4, <1>5, KeptReturn, OperatorStep

LEMMA CommandEndsInv ==
  ASSUME ControlInv, CoreInv', NEW t \in Operators,
         CancelAnswered(t) \/ CommandAnswered(t) \/ CommandFails(t)
  PROVE  ControlTypeOK' /\ CommandsInv'
  <1>1. /\ TypeOK /\ CoreInv /\ ControlTypeOK /\ RecordInv /\ HereInv
        /\ t \in Workers /\ t \in Threads /\ t \in Clients
    BY Roles DEF ControlInv, CommandsInv, CoreInv
  <1>2. UNCHANGED <<ans, link, station, shut>> /\ Gone(t, "returned") /\ flow[t].pc = "wait"
    BY <1>1, GotoFacts, AllPCs DEF CancelAnswered, CommandAnswered, CommandFails, At
  <1>3. Apart(t) /\ flow' \in [Clients -> Flows] /\ \A u \in Clients : u # t => flow'[u] = flow[u]
    BY <1>1, <1>2 DEF Apart, RecordInv, HereInv, Gone
  <1>4. CASE UNCHANGED vars
    BY <1>1, <1>2, <1>3, <1>4, KeptAlone, Unmoved, OperatorStep
  <1>5. CASE CancelAnswered(t) /\ \E r \in Mine(t) : EndReservation(t, r)
    <2>1. PICK r \in Mine(t) : EndReservation(t, r)
      BY <1>5
    <2>2. r \in reservations /\ r.status = "active"
      BY <1>1, <1>2, <1>5 DEF Mine, RecordInv, CancelAnswered
    <2>3. /\ Kept /\ UNCHANGED <<transactions, next, snap, disk, up, failures>>
          /\ th[t] = Idle /\ th'[t].phase = "persist" /\ \A u \in Threads : u # t => th'[u] = th[u]
      BY <1>1, <2>1, <2>2, KeptEnd
    <2>4. Retains
      BY <1>1, <2>3, Typed DEF Retains, Writing, Idle
    <2>5. QED
      BY <1>2, <1>3, <2>3, <2>4, OperatorStep
  <1>6. QED
    BY <1>4, <1>5 DEF CancelAnswered, CommandAnswered, CommandFails

LEMMA CommandSendInv ==
  ASSUME ControlInv, CoreInv', NEW t \in Operators, CommandSend(t)
  PROVE  ControlTypeOK' /\ CommandsInv'
  <1>1. TypeOK /\ ControlTypeOK /\ RecordInv /\ HereInv /\ t \in Clients
    BY Roles DEF ControlInv, CommandsInv, CoreInv
  <1>2. UNCHANGED <<vars, conn, calls, handling, station, shut, closing, inflight>> /\ flow[t].pc = "send"
    BY DEF CommandSend, shut, At
  <1>3. CASE CallSend(t, flow[t].op, flow[t].id, "wait")
    <2>1. flow[t].op \in OpKinds /\ flow[t].id \in Nat /\ flow[t].op # "ReserveNow"
      BY <1>1 DEF ControlTypeOK, Flows, RecordInv
    <2> DEFINE q == Request(flow[t].op, t, flow[t].id)
    <2>2. /\ ControlTypeOK' /\ Gone(t, "wait")
          /\ conn.open
          /\ q = [kind |-> flow[t].op, by |-> t, id |-> flow[t].id, evse |-> flow[t].evse]
          /\ DOMAIN wire = 1..Len(wire) /\ DOMAIN wire' = 1..(Len(wire) + 1) /\ Len(wire) \in Nat
          /\ wire'[Len(wire) + 1] = q
          /\ \A l \in DOMAIN wire : wire'[l] = wire[l]
      BY <1>1, <1>2, <1>3, <2>1, AllPCs, CallSendFacts
    <2>3. q.kind # "ReserveNow"
      BY <2>1, <2>2
    <2> HIDE DEF q
    <2>4. Sent(q)
      BY <2>2, <2>3 DEF Sent
    <2>5. Apart(t) /\ \A u \in Clients : u # t => flow'[u] = flow[u]
      BY <1>1, <1>2, <2>2 DEF Apart, Gone, RecordInv, HereInv
    <2>6. Moving /\ SameBusy
      BY <1>2, <2>5, OperatorMoves
    <2>7. (\A u \in Reservers : Holds(u) /\ Goes(u) /\ Stays(u)) /\ (\A u \in Operators : Apart(u))
      BY <2>6 DEF Moving, Goes
    <2>8. CommandsInv'
      BY <1>2, <2>2, <2>4, <2>6, <2>7, SendStep
    <2>9. QED
      BY <2>2, <2>8
  <1>4. CASE Goto(t, "returned") /\ UNCHANGED <<ans, wire>>
    <2>1. Gone(t, "returned")
      BY <1>1, <1>4, GotoFacts, AllPCs
    <2>2. Apart(t) /\ flow' \in [Clients -> Flows] /\ \A u \in Clients : u # t => flow'[u] = flow[u]
      BY <1>1, <1>2, <2>1 DEF Apart, RecordInv, HereInv, Gone
    <2>3. UNCHANGED <<ans, link, station, shut>>
      BY <1>2, <1>4 DEF link
    <2>4. QED
      BY <1>1, <1>2, <2>2, <2>3, KeptAlone, Unmoved, OperatorStep
  <1>5. QED
    BY <1>3, <1>4 DEF CommandSend
-----------------------------------------------------------------------------
(* Close *)

LEMMA CloseInv ==
  ASSUME ControlInv, CoreInv', CloseBegin \/ CloseDone
  PROVE  ControlTypeOK' /\ CommandsInv'
  <1>1. TypeOK /\ ControlTypeOK /\ InflightInv
    BY DEF ControlInv, CommandsInv, CoreInv
  <1>2. UNCHANGED <<vars, flow, ans, link, station, inflight>>
    BY DEF CloseBegin, CloseDone
  <1>3. ControlTypeOK'
    BY <1>1, <1>2, FlowTyped DEF ControlTypeOK, CloseBegin, CloseDone
  <1>4. InflightInv'
    <2>1. Busy' = Busy
      BY <1>2 DEF Busy
    <2>2. inflight = 0 => Busy = {}
      BY <1>1, BusyFinite, FS_EmptySet DEF InflightInv
    <2>3. closing' = "closed" => inflight = 0
      BY DEF CloseBegin, CloseDone
    <2>4. QED
      BY <1>1, <1>2, <2>1, <2>2, <2>3 DEF InflightInv
  <1>5. QED
    BY <1>1, <1>2, <1>3, <1>4, NobodyMoves, KeptAlone, Unmoved, Unlinked, SilentStep DEF CommandsInv
-----------------------------------------------------------------------------
(* The handlers *)

\* A step of a handler or of the station that leaves commands and wire alone.
LEMMA NobodyActs ==
  ASSUME ControlInv, CoreInv', ControlTypeOK', Kept,
         UNCHANGED <<flow, conn, wire, shut>>, conn.open = FALSE => calls' = <<>>,
         \A e \in EVSEs : held'[e] \in {0, held[e]}
  PROVE  InflightInv' /\ RecordInv' /\ HereInv' /\ WireInv' /\ OrphanInv'
  <1>1. InflightInv /\ UNCHANGED <<closing, inflight>>
    BY DEF ControlInv, CommandsInv, shut
  <1>2. Moving /\ SameBusy
    BY <1>1, NobodyMoves
  <1>3. QED
    BY <1>1, <1>2, InflightKept, QuietStep

LEMMA TakeTyped ==
  ASSUME ControlTypeOK, NEW h \in Handlers, Free(h), NEW p \in {"allocated", "invalid", "reply"}, NEW i \in Nat,
         Take(h, p, i), UNCHANGED <<flow, ans, conn, wire, station, shut>>
  PROVE  /\ ControlTypeOK'
         /\ calls # <<>> /\ 1 \in DOMAIN calls /\ Report = calls[1]
         /\ handling'[h].pc = p /\ handling'[h].id = i /\ handling'[h].msg = calls[1]
         /\ \A g \in Handlers : g # h => handling'[g] = handling[g]
  <1>1. calls # <<>>
    BY DEF Free
  <1>2. /\ calls' \in Seq(Reports) /\ handling' \in [Handlers -> Works]
        /\ Report = calls[1]
        /\ Len(calls) \in Nat /\ Len(calls) >= 1 /\ DOMAIN calls = 1..Len(calls)
        /\ handling'[h].pc = p /\ handling'[h].id = i /\ handling'[h].msg = calls[1]
        /\ \A g \in Handlers : g # h => handling'[g] = handling[g]
        /\ (\A k \in DOMAIN calls : NamesReservation(calls[k]))'
        /\ (\A g \in Handlers : NamesReservation(handling[g].msg))'
    BY <1>1, TakeFacts
  <1>3. ControlTypeOK'
    BY <1>2 DEF ControlTypeOK, station, shut
  <1>4. QED
    BY <1>1, <1>2, <1>3

LEMMA HandleStartInv ==
  ASSUME ControlInv, CoreInv', NEW h \in Handlers, HandleStart(h)
  PROVE  ControlTypeOK' /\ CommandsInv'
  <1>1. /\ TypeOK /\ TypeOK' /\ CoreInv /\ ControlTypeOK /\ RecordInv /\ HereInv /\ CallsInv /\ SessionsInv
        /\ h \in Workers /\ h \in Threads
    BY Roles DEF ControlInv, CommandsInv, CoreInv
  <1>2. /\ UNCHANGED <<flow, ans, conn, wire, station, shut, held, sess>> /\ Free(h)
        /\ Report.kind = "StartTransaction"
    BY DEF HandleStart, station
  <1>3. PICK p \in {"allocated", "invalid"}, i \in Nat :
          /\ Take(h, p, i)
          /\ \/ p = "allocated" /\ i = next.transaction /\ NextTransactionID(h)
             \/ p = "invalid" /\ UNCHANGED vars
    <2>1. next.transaction \in Nat
      BY <1>1, Typed
    <2>2. QED
      BY <2>1 DEF HandleStart
  <1>4. /\ ControlTypeOK'
        /\ calls # <<>> /\ 1 \in DOMAIN calls /\ Report = calls[1]
        /\ handling'[h].pc = p /\ handling'[h].id = i /\ handling'[h].msg = calls[1]
        /\ \A g \in Handlers : g # h => handling'[g] = handling[g]
    BY <1>1, <1>2, <1>3, TakeTyped
  <1>5. CallsInv'
    BY <1>1, <1>2, <1>3, CallsTaken
  <1>6. Kept
    BY <1>1, <1>3, KeptNumber, KeptAlone
  <1>7. conn.open # FALSE
    BY <1>1, <1>4 DEF HereInv
  <1>8. InflightInv' /\ RecordInv' /\ HereInv' /\ WireInv' /\ OrphanInv'
    BY <1>2, <1>4, <1>6, <1>7, NobodyActs
  <1>9. SessionsInv'
    <2>1. CASE p = "invalid"
      <3>1. UNCHANGED vars /\ th' = th
        BY <1>3, <2>1, Unmoved
      <3>2. Retains /\ \A e \in EVSEs : Continues(e)
        BY <1>1, <1>2, <3>1, KeptAlone DEF Continues
      <3>3. ~Numbered(h)'
        BY <1>4, <2>1 DEF Numbered
      <3>4. QED
        BY <1>1, <1>4, <3>1, <3>2, <3>3, SessionsKept
    <2>2. CASE p = "allocated"
      <3>1. /\ up /\ th[h] = Idle /\ th'[h].phase = "persist" /\ \A u \in Threads : u # h => th'[u] = th[u]
            /\ UNCHANGED <<transactions, snap, disk, up, failures>>
            /\ next.transaction <= next'.transaction /\ next'.transaction = next.transaction + 1
            /\ i = next.transaction
        BY <1>1, <1>3, <2>2, KeptNumber
      <3>2. th[h].phase = "idle"
        BY <3>1 DEF Idle
      <3>3. /\ \A g \in Handlers : handling[g].id \in Nat
            /\ \A e \in EVSEs : sess[e].id \in Nat
            /\ next.transaction \in Nat /\ disk.next.transaction \in Nat
        BY <1>1, Numbers, ReportsTyped DEF AllNumbers
      <3>4. CASE failures # 0
        BY <3>1, <3>4 DEF SessionsInv
      <3>5. CASE failures = 0
        <4>1. disk.next.transaction <= next.transaction
          BY <1>1, <3>1 DEF CoreInv, CountersAhead, NotAhead
        <4>2. /\ \A g \in Handlers : Numbered(g) => handling[g].id < i
              /\ \A e \in EVSEs : HasId(e) => sess[e].id < i
          BY <1>1, <3>1, <3>3, <3>5, <4>1 DEF SessionsInv
        <4>3. i < next'.transaction /\ up = TRUE
          BY <1>1, <3>1, <3>3 DEF TypeOK
        <4>4. /\ \A g \in Handlers : Numbered(g) => handling[g].id # i
              /\ \A e \in EVSEs : HasId(e) => sess[e].id # i
          BY <3>3, <4>2
        <4>5. /\ \A e \in EVSEs : sess[e].state = "running" => sess[e].id # i
              /\ \A x \in transactions : x \in transactions'
              /\ handling'[h].id = i /\ handling'[h].pc # "reply"
          BY <1>4, <2>2, <3>1, <4>4 DEF HasId
        <4>6. UNCHANGED <<snap, disk, up, failures, sess>>
          BY <1>2, <3>1
        <4>7. Handled(h, i)
          BY <1>4, <3>1, <3>2, <4>3, <4>4, <4>5, <4>6 DEF Handled
        <4>8. QED
          BY <1>1, <1>4, <4>7, SessionsHandled
      <3>6. QED
        BY <3>4, <3>5
    <2>3. QED
      BY <2>1, <2>2
  <1>10. QED
    BY <1>4, <1>5, <1>8, <1>9 DEF CommandsInv

LEMMA HandleStartedInv ==
  ASSUME ControlInv, CoreInv', NEW h \in Handlers, HandleStarted(h)
  PROVE  ControlTypeOK' /\ CommandsInv'
  <1>1. /\ TypeOK /\ TypeOK' /\ CoreInv /\ ControlTypeOK /\ RecordInv /\ HereInv /\ CallsInv /\ SessionsInv
        /\ h \in Workers /\ h \in Threads
    BY Roles DEF ControlInv, CommandsInv, CoreInv
  <1>2. UNCHANGED <<flow, ans, conn, wire, calls, station, shut, held, sess>>
    BY DEF HandleStarted, station
  <1>3. /\ ControlTypeOK' /\ CallsInv'
        /\ handling[h].pc = "allocated" /\ handling[h].msg.kind = "StartTransaction"
        /\ handling'[h].pc = "reply" /\ handling'[h].id = handling[h].id /\ handling'[h].msg = handling[h].msg
        /\ \A g \in Handlers : g # h => handling'[g] = handling[g]
    BY <1>1, HandleStartedFacts
  <1>j. PICK j : j = handling[h].id
    OBVIOUS
  <1>e. PICK e : e = handling[h].msg.evse
    OBVIOUS
  <1>4. StartTransaction(h, j, e, handling[h].msg.tag, handling[h].msg.id)
    BY <1>e, <1>j DEF HandleStarted
  <1>5. /\ Kept
        /\ up /\ th[h] = Idle /\ th'[h].phase = "persist" /\ \A u \in Threads : u # h => th'[u] = th[u]
        /\ UNCHANGED <<next, snap, disk, up, failures>>
        /\ j < next.transaction
        /\ \A x \in transactions : x.id # j => x \in transactions'
        /\ In(transactions', j, e)
    BY <1>1, <1>4, KeptStart
  <1>6. conn.open = FALSE => calls' = <<>>
    BY <1>1, <1>2 DEF HereInv
  <1>7. InflightInv' /\ RecordInv' /\ HereInv' /\ WireInv' /\ OrphanInv'
    BY <1>2, <1>3, <1>5, <1>6, NobodyActs
  <1>8. SessionsInv'
    <2>1. CASE failures # 0
      BY <1>5, <2>1 DEF SessionsInv
    <2>2. CASE failures = 0
      <3>1. Numbered(h)
        BY <1>3 DEF Numbered
      <3>2. /\ \A g \in Handlers : g # h /\ Numbered(g) => handling[g].id # j
            /\ \A d \in EVSEs : HasId(d) => sess[d].id # j
        BY <1>1, <1>j, <2>2, <3>1 DEF SessionsInv
      <3>3. \A d \in EVSEs : sess[d].state = "running" => sess[d].id # j
        BY <3>2 DEF HasId
      <3>4. th[h].phase = "idle" /\ next.transaction <= next'.transaction /\ up = TRUE
        BY <1>1, <1>5, Typed DEF Idle, TypeOK
      <3>5. In(transactions', handling'[h].id, handling'[h].msg.evse) /\ handling'[h].id < next'.transaction
        BY <1>3, <1>5, <1>e, <1>j
      <3>6. \A g \in Handlers : g \in Threads
        BY Roles
      <3>7. QED
        BY <1>1, <1>2, <1>3, <1>5, <1>j, <3>2, <3>3, <3>4, <3>5, SessionsHandled DEF Handled
    <2>3. QED
      BY <2>1, <2>2
  <1>9. QED
    BY <1>3, <1>7, <1>8 DEF CommandsInv

LEMMA HandleStopInv ==
  ASSUME ControlInv, CoreInv', NEW h \in Handlers, HandleStop(h)
  PROVE  ControlTypeOK' /\ CommandsInv'
  <1>1. /\ TypeOK /\ TypeOK' /\ CoreInv /\ ControlTypeOK /\ RecordInv /\ HereInv /\ CallsInv /\ SessionsInv
        /\ h \in Workers /\ h \in Threads
    BY Roles DEF ControlInv, CommandsInv, CoreInv
  <1>2. /\ UNCHANGED <<flow, ans, conn, wire, station, shut, held, sess>> /\ Free(h)
        /\ Report.kind = "StopTransaction" /\ Take(h, "reply", 0)
    BY DEF HandleStop, station
  <1>3. /\ ControlTypeOK'
        /\ calls # <<>> /\ 1 \in DOMAIN calls /\ Report = calls[1]
        /\ handling'[h].pc = "reply" /\ handling'[h].id = 0 /\ handling'[h].msg = calls[1]
        /\ \A g \in Handlers : g # h => handling'[g] = handling[g]
    BY <1>1, <1>2, TakeTyped
  <1>4. CallsInv'
    BY <1>1, <1>2, CallsTaken
  <1>j. PICK j : j = calls[1].id
    OBVIOUS
  <1>5. \/ \E x \in transactions : x.id = j /\ StopTransaction(h, x)
        \/ UNCHANGED vars
    BY <1>3, <1>j DEF HandleStop
  <1>6. Kept
    BY <1>1, <1>5, KeptStop, KeptAlone
  <1>7. conn.open # FALSE
    BY <1>1, <1>3 DEF HereInv
  <1>8. InflightInv' /\ RecordInv' /\ HereInv' /\ WireInv' /\ OrphanInv'
    BY <1>2, <1>3, <1>6, <1>7, NobodyActs
  <1>9. ~Numbered(h)'
    BY <1>2, <1>3 DEF Numbered
  <1>10. SessionsInv'
    <2>1. CASE UNCHANGED vars
      <3>1. th' = th
        BY <2>1, Unmoved
      <3>2. Retains /\ \A e \in EVSEs : Continues(e)
        BY <1>1, <1>2, <2>1, KeptAlone DEF Continues
      <3>3. QED
        BY <1>1, <1>3, <1>9, <3>1, <3>2, SessionsKept
    <2>2. CASE \E x \in transactions : x.id = j /\ StopTransaction(h, x)
      <3>1. PICK x \in transactions : x.id = j /\ StopTransaction(h, x)
        BY <2>2
      <3>2. /\ th[h] = Idle /\ th'[h].phase = "persist" /\ \A u \in Threads : u # h => th'[u] = th[u]
            /\ UNCHANGED <<next, snap, disk, up, failures>>
            /\ \A y \in transactions : y.id # j => y \in transactions'
        BY <1>1, <3>1, KeptStop
      <3>3. CASE failures # 0
        BY <3>2, <3>3 DEF SessionsInv
      <3>4. CASE failures = 0
        <4>1. PICK e \in EVSEs : e = calls[1].evse
          BY <1>1, <1>3, ReportsTyped
        <4>2. sess[e].state = "ending" /\ sess[e].id = j
          BY <1>1, <1>2, <1>3, <1>j, <4>1 DEF CallsInv, Matches
        <4>3. HasId(e)
          BY <4>2 DEF HasId
        <4>4. \A g \in Handlers : Numbered(g) => handling[g].id # j
          BY <1>1, <3>4, <4>2, <4>3 DEF SessionsInv
        <4>5. \A d \in EVSEs : sess[d].state = "running" => sess[d].id # j
          <5>1. \A d \in EVSEs : HasId(d) /\ sess[d].id = j => d = e
            BY <1>1, <3>4, <4>2, <4>3 DEF SessionsInv
          <5>2. QED
            BY <4>2, <5>1 DEF HasId
        <4>6. th[h].phase = "idle" /\ next.transaction <= next'.transaction
          BY <1>1, <3>2, Typed DEF Idle
        <4>7. QED
          BY <1>1, <1>2, <1>3, <1>9, <3>2, <4>4, <4>5, <4>6, SessionsHandled DEF Handled
      <3>5. QED
        BY <3>3, <3>4
    <2>3. QED
      BY <1>5, <2>1, <2>2
  <1>11. QED
    BY <1>3, <1>4, <1>8, <1>10 DEF CommandsInv

LEMMA HandleReplyInv ==
  ASSUME ControlInv, CoreInv', NEW h \in Handlers, HandleReply(h)
  PROVE  ControlTypeOK' /\ CommandsInv'
  <1>1. TypeOK /\ TypeOK' /\ CoreInv /\ ControlTypeOK /\ HereInv /\ CallsInv /\ SessionsInv
    BY DEF ControlInv, CommandsInv, CoreInv
  <1>2. UNCHANGED <<vars, flow, ans, conn, wire, calls, held, shut>>
    BY DEF HandleReply
  <1>3. ControlTypeOK' /\ CallsInv'
    BY <1>1, HandleReplyFacts
  <1>4. conn.open = FALSE => calls' = <<>>
    BY <1>1, <1>2 DEF HereInv
  <1>5. InflightInv' /\ RecordInv' /\ HereInv' /\ WireInv' /\ OrphanInv'
    BY <1>1, <1>2, <1>3, <1>4, KeptAlone, NobodyActs
  <1>6. SessionsInv'
    BY <1>1, <1>2, <1>3, SessionsReplied
  <1>7. QED
    BY <1>3, <1>5, <1>6 DEF CommandsInv
-----------------------------------------------------------------------------
(* The station and its connection *)

LEMMA StationAnswersInv ==
  ASSUME ControlInv, CoreInv', ControlTypeOK', Taken, UNCHANGED <<vars, flow, conn, calls, handling, shut>>,
         \A e \in EVSEs : /\ Continues(e)
                          /\ \/ sess'[e] = sess[e]
                             \/ sess[e].state \in {"none", "running"} /\ sess'[e].sent = 0
  PROVE  CommandsInv'
  <1>1. /\ TypeOK /\ TypeOK' /\ CoreInv /\ ControlTypeOK /\ InflightInv /\ RecordInv /\ HereInv
        /\ WireInv /\ OrphanInv /\ CallsInv /\ SessionsInv
    BY DEF ControlInv, CommandsInv, CoreInv
  <1>2. UNCHANGED <<closing, inflight, th, disk>> /\ Kept /\ Shrinks /\ Retains
    BY <1>1, KeptAlone, Unmoved DEF shut, Kept
  <1>3. Moving /\ SameBusy
    BY <1>2, NobodyMoves
  <1>4. (\A t \in Reservers : Holds(t) /\ Stays(t)) /\ (\A t \in Operators : Apart(t))
    BY <1>3 DEF Moving, Goes
  <1>5. InflightInv' /\ RecordInv'
    BY <1>1, <1>2, <1>3, <1>4, InflightKept, RecordKept
  <1>6. conn.open # FALSE
    <2>1. Len(<<>>) = 0 /\ Len(wire) >= 1
      BY DEF Taken
    <2>2. wire # <<>>
      BY <2>1
    <2>3. QED
      BY <1>1, <2>2 DEF HereInv
  <1>7. HereInv'
    BY <1>1, <1>2, <1>4, <1>6, HereKept
  <1>8. WireInv' /\ OrphanInv'
    BY <1>1, <1>2, WireShrinks, OrphanShrinks
  <1>9. CallsInv'
    BY <1>1, CallsKept
  <1>10. SessionsInv'
    BY <1>1, <1>2, SessionsKept
  <1>11. QED
    BY <1>5, <1>7, <1>8, <1>9, <1>10 DEF CommandsInv

(* A report about EVSE e is overtaken by nothing but its answer; a station    *)
(* with no session takes one up.                                             *)
LEMMA NewSession ==
  ASSUME ControlTypeOK, NEW e \in EVSEs, NEW tag \in Tags, NEW named \in 0..MaxReservationID,
         sess[e].state = "none",
         sess' = [sess EXCEPT ![e] = [NoSession EXCEPT !.state = "starting", !.tag = tag, !.named = named]]
  PROVE  /\ sess' \in [EVSEs -> Sessions]
         /\ \A d \in EVSEs : /\ Continues(d)
                             /\ \/ sess'[d] = sess[d]
                                \/ sess[d].state \in {"none", "running"} /\ sess'[d].sent = 0
  <1> DEFINE w == [NoSession EXCEPT !.state = "starting", !.tag = tag, !.named = named]
  <1>1. w \in Sessions /\ w.state = "starting" /\ w.sent = 0
    BY Nothings DEF Sessions, SessionStates
  <1>2. sess' = [sess EXCEPT ![e] = w] /\ sess \in [EVSEs -> Sessions]
    BY DEF ControlTypeOK
  <1> HIDE DEF w
  <1>3. sess' \in [EVSEs -> Sessions] /\ sess'[e] = w /\ \A d \in EVSEs : d # e => sess'[d] = sess[d]
    BY <1>1, <1>2
  <1>4. QED
    BY <1>1, <1>3 DEF Continues

LEMMA StationTyped ==
  ASSUME ControlTypeOK, ans' \in [Clients -> Answers], wire' \in Seq(WireRequests),
         held' \in [EVSEs -> 0..MaxReservationID], sess' \in [EVSEs -> Sessions],
         UNCHANGED <<flow, conn, calls, handling, shut>>
  PROVE  ControlTypeOK'
  BY DEF ControlTypeOK, shut, NamesReservation

LEMMA SameSessions ==
  ASSUME sess' = sess
  PROVE  \A e \in EVSEs : /\ Continues(e)
                          /\ \/ sess'[e] = sess[e]
                             \/ sess[e].state \in {"none", "running"} /\ sess'[e].sent = 0
  BY DEF Continues

LEMMA StationReserveInv ==
  ASSUME ControlInv, CoreInv', StationReserve
  PROVE  ControlTypeOK' /\ CommandsInv'
  <1>1. ControlTypeOK /\ WireInv /\ HereInv /\ held \in [EVSEs -> 0..MaxReservationID]
    BY DEF ControlInv, CommandsInv, ControlTypeOK
  <1>2. /\ UNCHANGED <<vars, flow, conn, calls, handling, sess, shut>>
        /\ wire # <<>> /\ Head(wire).kind = "ReserveNow"
        /\ \E s \in Answers : Reply(s)
        /\ \/ held' = [held EXCEPT ![Head(wire).evse] = Head(wire).id]
           \/ held' = held
    BY DEF StationReserve, Answers
  <1>3. /\ ans' \in [Clients -> Answers] /\ wire' \in Seq(WireRequests)
        /\ Head(wire) = wire[1] /\ wire[1] \in WireRequests
        /\ Len(wire) \in Nat /\ Len(wire) >= 1 /\ DOMAIN wire = 1..Len(wire)
        /\ DOMAIN wire' = 1..(Len(wire) - 1)
        /\ \A l \in DOMAIN wire' : wire'[l] = wire[l + 1]
    BY <1>1, <1>2, ReplyFacts
  <1>4. Asks(1) /\ 1 \in DOMAIN wire /\ wire[1].evse \in EVSEs
    BY <1>2, <1>3 DEF Asks, WireRequests
  <1>5. wire[1].id \in 0..MaxReservationID
    <2>1. PICK t : t = wire[1].by
      OBVIOUS
    <2>2. Here(t) /\ t \in Reservers /\ wire[1].id = flow[t].id
      BY <1>1, <1>4, <2>1 DEF WireInv, Here
    <2>3. wire[1].id \in ReservationIds
      BY <1>1, <2>2 DEF HereInv
    <2>4. QED
      BY <2>3, CoreAssumption DEF ReservationIds
  <1>6. held' \in [EVSEs -> 0..MaxReservationID]
    BY <1>1, <1>2, <1>3, <1>4, <1>5
  <1>7. Taken
    BY <1>1, <1>2, <1>3, <1>4 DEF Taken
  <1>8. ControlTypeOK'
    BY <1>1, <1>2, <1>3, <1>6, StationTyped DEF ControlTypeOK
  <1>9. QED
    BY <1>2, <1>7, <1>8, SameSessions, StationAnswersInv

LEMMA StationCancelInv ==
  ASSUME ControlInv, CoreInv', StationCancel
  PROVE  ControlTypeOK' /\ CommandsInv'
  <1>1. ControlTypeOK /\ held \in [EVSEs -> 0..MaxReservationID] /\ 0 \in 0..MaxReservationID
    BY CoreAssumption DEF ControlInv, ControlTypeOK
  <1>2. /\ UNCHANGED <<vars, flow, conn, calls, handling, sess, shut>>
        /\ wire # <<>> /\ Head(wire).kind = "CancelReservation"
        /\ \E s \in Answers : Reply(s)
        /\ IF held[Head(wire).evse] = Head(wire).id
           THEN held' = [held EXCEPT ![Head(wire).evse] = 0] ELSE held' = held
    BY DEF StationCancel, Answers
  <1>3. /\ ans' \in [Clients -> Answers] /\ wire' \in Seq(WireRequests)
        /\ Head(wire) = wire[1] /\ wire[1] \in WireRequests
        /\ Len(wire) \in Nat /\ Len(wire) >= 1 /\ DOMAIN wire = 1..Len(wire)
        /\ DOMAIN wire' = 1..(Len(wire) - 1)
        /\ \A l \in DOMAIN wire' : wire'[l] = wire[l + 1]
    BY <1>1, <1>2, ReplyFacts
  <1>4. held' \in [EVSEs -> 0..MaxReservationID]
    BY <1>1, <1>2
  <1>5. \A e \in EVSEs : \/ held'[e] = 0
                         \/ held'[e] = held[e] /\ ~(wire[1].evse = e /\ wire[1].id = held[e])
    BY <1>1, <1>2, <1>3
  <1>6. Taken
    BY <1>3, <1>5 DEF Taken
  <1>7. ControlTypeOK'
    BY <1>1, <1>2, <1>3, <1>4, StationTyped DEF ControlTypeOK
  <1>8. QED
    BY <1>2, <1>6, <1>7, SameSessions, StationAnswersInv

LEMMA StationRemoteStartInv ==
  ASSUME ControlInv, CoreInv', StationRemoteStart
  PROVE  ControlTypeOK' /\ CommandsInv'
  <1>1. ControlTypeOK /\ held \in [EVSEs -> 0..MaxReservationID] /\ 0 \in 0..MaxReservationID
    BY CoreAssumption DEF ControlInv, ControlTypeOK
  <1>c. PICK c : c = Head(wire)
    OBVIOUS
  <1>2. /\ UNCHANGED <<vars, flow, conn, calls, handling, shut>>
        /\ wire # <<>> /\ c.kind = "RemoteStart"
        /\ \E s \in Answers : Reply(s)
        /\ \/ /\ sess[c.evse].state = "none"
              /\ sess' = [sess EXCEPT ![c.evse] = [NoSession EXCEPT !.state = "starting",
                                                    !.tag = flow[c.by].tag, !.named = held[c.evse]]]
              /\ held' = [held EXCEPT ![c.evse] = 0]
           \/ held' = held /\ sess' = sess
    BY <1>c DEF StationRemoteStart, Answers, station
  <1>3. /\ ans' \in [Clients -> Answers] /\ wire' \in Seq(WireRequests)
        /\ Head(wire) = wire[1] /\ wire[1] \in WireRequests
        /\ Len(wire) \in Nat /\ Len(wire) >= 1 /\ DOMAIN wire = 1..Len(wire)
        /\ DOMAIN wire' = 1..(Len(wire) - 1)
        /\ \A l \in DOMAIN wire' : wire'[l] = wire[l + 1]
    BY <1>1, <1>2, ReplyFacts
  <1>4. c = wire[1] /\ c.evse \in EVSEs /\ c.by \in Clients
    BY <1>3, <1>c DEF WireRequests
  <1>5. flow[c.by].tag \in Tags /\ held[c.evse] \in 0..MaxReservationID
    BY <1>1, <1>4 DEF ControlTypeOK, Flows
  <1>6. held' \in [EVSEs -> 0..MaxReservationID] /\ \A e \in EVSEs : held'[e] \in {0, held[e]}
    BY <1>1, <1>2, <1>4
  <1>7. /\ sess' \in [EVSEs -> Sessions]
        /\ \A d \in EVSEs : /\ Continues(d)
                            /\ \/ sess'[d] = sess[d]
                               \/ sess[d].state \in {"none", "running"} /\ sess'[d].sent = 0
    <2>1. CASE sess' = sess
      BY <1>1, <2>1, SameSessions DEF ControlTypeOK
    <2>2. CASE sess' # sess
      BY <1>1, <1>2, <1>4, <1>5, <2>2, NewSession
    <2>3. QED
      BY <2>1, <2>2
  <1>8. Taken
    BY <1>2, <1>3, <1>4, <1>6 DEF Taken
  <1>9. ControlTypeOK'
    BY <1>1, <1>2, <1>3, <1>6, <1>7, StationTyped
  <1>10. QED
    BY <1>2, <1>7, <1>8, <1>9, StationAnswersInv

LEMMA SessionEnds ==
  ASSUME NEW s \in Sessions
  PROVE  LET w == [s EXCEPT !.state = "ending", !.sent = 0]
         IN w \in Sessions /\ w.state = "ending" /\ w.sent = 0 /\ w.id = s.id
  BY DEF Sessions, SessionStates

LEMMA StationPlainInv ==
  ASSUME ControlInv, CoreInv', StationRemoteStop \/ StationPlain
  PROVE  ControlTypeOK' /\ CommandsInv'
  <1>1. ControlTypeOK /\ sess \in [EVSEs -> Sessions] /\ held \in [EVSEs -> 0..MaxReservationID]
    BY DEF ControlInv, ControlTypeOK
  <1>2. /\ UNCHANGED <<vars, flow, conn, calls, handling, held, shut>>
        /\ wire # <<>> /\ Head(wire).kind # "CancelReservation"
        /\ \E s \in Answers : Reply(s)
        /\ \/ sess' = sess
           \/ \E On \in SUBSET EVSEs :
                /\ \A e \in On : sess[e].state = "running"
                /\ sess' = [e \in EVSEs |-> IF e \in On THEN [sess[e] EXCEPT !.state = "ending", !.sent = 0]
                                                         ELSE sess[e]]
    BY DEF StationRemoteStop, StationPlain, Plain, Answers, station
  <1>3. /\ ans' \in [Clients -> Answers] /\ wire' \in Seq(WireRequests)
        /\ Head(wire) = wire[1] /\ wire[1] \in WireRequests
        /\ Len(wire) \in Nat /\ Len(wire) >= 1 /\ DOMAIN wire = 1..Len(wire)
        /\ DOMAIN wire' = 1..(Len(wire) - 1)
        /\ \A l \in DOMAIN wire' : wire'[l] = wire[l + 1]
    BY <1>1, <1>2, ReplyFacts
  <1>4. /\ sess' \in [EVSEs -> Sessions]
        /\ \A d \in EVSEs : /\ Continues(d)
                            /\ \/ sess'[d] = sess[d]
                               \/ sess[d].state \in {"none", "running"} /\ sess'[d].sent = 0
    <2>1. CASE sess' = sess
      BY <1>1, <2>1, SameSessions
    <2>2. CASE sess' # sess
      <3>1. PICK On \in SUBSET EVSEs :
              /\ \A e \in On : sess[e].state = "running"
              /\ sess' = [e \in EVSEs |-> IF e \in On THEN [sess[e] EXCEPT !.state = "ending", !.sent = 0]
                                                       ELSE sess[e]]
        BY <1>2, <2>2
      <3>2. \A e \in On : /\ sess'[e] \in Sessions /\ sess'[e].state = "ending" /\ sess'[e].sent = 0
                          /\ sess'[e].id = sess[e].id
        BY <1>1, <3>1, SessionEnds
      <3>3. \A e \in EVSEs \ On : sess'[e] = sess[e] /\ sess[e] \in Sessions
        BY <1>1, <3>1
      <3>4. DOMAIN sess' = EVSEs /\ sess' = [e \in EVSEs |-> sess'[e]]
        BY <3>1
      <3>5. sess' \in [EVSEs -> Sessions]
        BY <3>2, <3>3, <3>4
      <3>6. QED
        BY <3>1, <3>2, <3>3, <3>5 DEF Continues
    <2>3. QED
      BY <2>1, <2>2
  <1>5. Taken
    BY <1>2, <1>3 DEF Taken
  <1>6. ControlTypeOK'
    BY <1>1, <1>2, <1>3, <1>4, StationTyped
  <1>7. QED
    BY <1>2, <1>4, <1>5, <1>6, StationAnswersInv

(* A step of the station that answers nothing. *)
LEMMA StationActsInv ==
  ASSUME ControlInv, CoreInv', UNCHANGED <<vars, flow, ans, link, shut>>,
         sess' \in [EVSEs -> Sessions],
         held' \in [EVSEs -> 0..MaxReservationID], \A e \in EVSEs : held'[e] \in {0, held[e]},
         \A e \in EVSEs : /\ Continues(e)
                          /\ \/ sess'[e] = sess[e]
                             \/ sess[e].state \in {"none", "running"} /\ sess'[e].sent = 0
  PROVE  ControlTypeOK' /\ CommandsInv'
  <1>1. TypeOK /\ TypeOK' /\ ControlTypeOK /\ HereInv /\ CallsInv /\ SessionsInv
    BY DEF ControlInv, CommandsInv, CoreInv
  <1>2. UNCHANGED <<conn, wire, calls, handling, th>> /\ Kept /\ Retains
    BY <1>1, KeptAlone, Unmoved DEF link
  <1>3. ControlTypeOK'
    BY <1>1, <1>2, StationTyped DEF ControlTypeOK
  <1>4. conn.open = FALSE => calls' = <<>>
    BY <1>1, <1>2 DEF HereInv
  <1>5. InflightInv' /\ RecordInv' /\ HereInv' /\ WireInv' /\ OrphanInv'
    BY <1>2, <1>3, <1>4, NobodyActs
  <1>6. CallsInv' /\ SessionsInv'
    BY <1>1, <1>2, <1>3, CallsKept, SessionsKept
  <1>7. QED
    BY <1>3, <1>5, <1>6 DEF CommandsInv

LEMMA StationAloneInv ==
  ASSUME ControlInv, CoreInv', NEW e \in EVSEs,
         (\E tag \in Tags : StationPlugIn(e, tag)) \/ StationUnplug(e) \/ StationExpires(e)
  PROVE  ControlTypeOK' /\ CommandsInv'
  <1>1. /\ ControlTypeOK /\ sess \in [EVSEs -> Sessions] /\ held \in [EVSEs -> 0..MaxReservationID]
        /\ 0 \in 0..MaxReservationID
    BY CoreAssumption DEF ControlInv, ControlTypeOK
  <1>2. UNCHANGED <<vars, flow, ans, link, shut>>
    BY DEF StationPlugIn, StationUnplug, StationExpires
  <1>3. held' \in [EVSEs -> 0..MaxReservationID] /\ \A d \in EVSEs : held'[d] \in {0, held[d]}
    BY <1>1 DEF StationPlugIn, StationUnplug, StationExpires
  <1>4. /\ sess' \in [EVSEs -> Sessions]
        /\ \A d \in EVSEs : /\ Continues(d)
                            /\ \/ sess'[d] = sess[d]
                               \/ sess[d].state \in {"none", "running"} /\ sess'[d].sent = 0
    <2>1. CASE \E tag \in Tags : StationPlugIn(e, tag)
      <3>1. PICK tag \in Tags, named \in {0, held[e]} :
              /\ sess[e].state = "none"
              /\ sess' = [sess EXCEPT ![e] = [NoSession EXCEPT !.state = "starting", !.tag = tag, !.named = named]]
        BY <2>1 DEF StationPlugIn
      <3>2. named \in 0..MaxReservationID
        BY <1>1
      <3>3. QED
        BY <1>1, <3>1, <3>2, NewSession
    <2>2. CASE StationUnplug(e)
      <3> DEFINE w == [sess[e] EXCEPT !.state = "ending", !.sent = 0]
      <3>1. sess' = [sess EXCEPT ![e] = w] /\ sess[e].state = "running"
        BY <1>1, <2>2 DEF StationUnplug
      <3>2. w \in Sessions /\ w.state = "ending" /\ w.sent = 0 /\ w.id = sess[e].id
        BY <1>1, SessionEnds
      <3> HIDE DEF w
      <3>3. sess' \in [EVSEs -> Sessions] /\ sess'[e] = w /\ \A d \in EVSEs : d # e => sess'[d] = sess[d]
        BY <1>1, <3>1, <3>2
      <3>4. QED
        BY <3>1, <3>2, <3>3 DEF Continues
    <2>3. CASE StationExpires(e)
      BY <1>1, <2>3, SameSessions DEF StationExpires
    <2>4. QED
      BY <2>1, <2>2, <2>3
  <1>5. QED
    BY <1>2, <1>3, <1>4, StationActsInv

LEMMA StationReportsInv ==
  ASSUME ControlInv, CoreInv', NEW e \in EVSEs, StationReports(e)
  PROVE  ControlTypeOK' /\ CommandsInv'
  <1>1. TypeOK /\ TypeOK' /\ ControlTypeOK /\ HereInv /\ CallsInv /\ SessionsInv
    BY DEF ControlInv, CommandsInv, CoreInv
  <1>2. UNCHANGED <<vars, flow, ans, conn, wire, handling, held, shut>>
    BY DEF StationReports
  <1>3. /\ ControlTypeOK' /\ CallsInv'
        /\ \A d \in EVSEs : sess'[d].state = sess[d].state /\ sess'[d].id = sess[d].id
        /\ conn.open = TRUE
    BY <1>1, StationReportsFacts
  <1>4. Kept /\ Retains /\ th' = th
    BY <1>1, <1>2, KeptAlone, Unmoved
  <1>5. InflightInv' /\ RecordInv' /\ HereInv' /\ WireInv' /\ OrphanInv'
    BY <1>2, <1>3, <1>4, NobodyActs
  <1>6. SessionsInv'
    <2>1. \A d \in EVSEs : Continues(d)
      BY <1>3 DEF Continues
    <2>2. QED
      BY <1>1, <1>2, <1>3, <1>4, <2>1, SessionsKept
  <1>7. QED
    BY <1>3, <1>5, <1>6 DEF CommandsInv

(* No Reserve and no handler is on the present connection: it is down, or new. *)
LEMMA NobodyHere ==
  ASSUME HereInv, WireInv, CallsInv, TypeOK, TypeOK', ControlTypeOK, ControlTypeOK',
         wire' = <<>>, calls' = <<>>, conn.n <= conn'.n, conn'.open = FALSE \/ conn.n < conn'.n,
         conn'.open = TRUE => up' = TRUE,
         \A t \in Clients : flow'[t].conn = flow[t].conn,
         \A t \in Reservers : flow'[t].pc \in {"idle", "entered"} => flow'[t].pc = flow[t].pc,
         \A h \in Handlers : handling'[h] = handling[h] \/ handling'[h].pc = "idle",
         UNCHANGED <<disk, held, sess>>
  PROVE  HereInv' /\ WireInv' /\ OrphanInv' /\ CallsInv'
  <1>1. AllNumbers /\ AllNumbers' /\ DOMAIN wire' = {} /\ DOMAIN calls' = {}
    BY Numbers, NextNumbers
  <1>2. conn.n \in Nat /\ conn'.n \in Nat /\ conn.n # 0
    BY <1>1 DEF AllNumbers, HereInv
  <1>3. \A t \in Clients : flow[t].conn \in Nat /\ flow[t].conn <= conn.n
    BY <1>1 DEF AllNumbers, HereInv
  <1>4. \A t \in Reservers : ~Here(t)'
    BY <1>2, <1>3, Roles DEF Here
  <1>5. HereInv'
    <2>1. conn'.n # 0 /\ \A t \in Clients : flow'[t].conn <= conn'.n
      BY <1>2, <1>3
    <2>2. \A t \in Reservers : flow'[t].pc \in {"idle", "entered"} => flow'[t].conn = 0
      BY Roles DEF HereInv
    <2>3. QED
      BY <1>4, <2>1, <2>2 DEF HereInv
  <1>6. WireInv'
    BY <1>1, <1>4 DEF WireInv
  <1>7. OrphanInv'
    BY <1>4 DEF OrphanInv
  <1>8. CallsInv'
    <2>1. \A h \in Handlers : handling[h].msg.conn \in Nat
      BY ReportsTyped
    <2>2. \A h \in Handlers : handling'[h].pc # "idle" =>
            handling'[h] = handling[h] /\ handling[h].pc # "idle" /\ handling[h].msg.conn <= conn.n
      BY DEF CallsInv
    <2>3. \A h \in Handlers : ~Serves(h)'
      BY <1>2, <2>1, <2>2 DEF Serves
    <2>4. \A e \in EVSEs : sess'[e].sent <= conn'.n
      BY <1>1, <1>2 DEF CallsInv, AllNumbers
    <2>5. ASSUME NEW h \in Handlers, handling'[h].pc # "idle"
          PROVE  /\ handling'[h].msg.conn <= conn'.n /\ handling'[h].msg.kind # "none"
                 /\ handling'[h].msg.kind = "StopTransaction" => handling'[h].pc = "reply"
                 /\ \A g \in Handlers : handling'[g].pc # "idle" /\ handling'[g].msg.conn = handling'[h].msg.conn => g = h
      <3>1. handling'[h].msg.conn <= conn'.n
        BY <1>2, <2>1, <2>2, <2>5
      <3>2. QED
        BY <2>2, <2>5, <3>1 DEF CallsInv
    <2>6. QED
      BY <1>1, <2>3, <2>4, <2>5 DEF CallsInv
  <1>9. QED
    BY <1>5, <1>6, <1>7, <1>8

LEMMA ConnectionInv ==
  ASSUME ControlInv, CoreInv', Drop \/ Reconnect
  PROVE  ControlTypeOK' /\ CommandsInv'
  <1>1. /\ TypeOK /\ TypeOK' /\ CoreInv /\ ControlTypeOK /\ InflightInv /\ RecordInv /\ HereInv
        /\ WireInv /\ CallsInv /\ SessionsInv
        /\ conn \in [n : Nat, open : BOOLEAN]
    BY DEF ControlInv, CommandsInv, CoreInv, ControlTypeOK
  <1>2. UNCHANGED <<vars, flow, ans, handling, station, shut, held, sess, closing, inflight>>
    BY DEF Drop, Reconnect, station, shut
  <1>3. /\ conn' \in [n : Nat, open : BOOLEAN] /\ conn.n \in Nat /\ conn'.n \in Nat
        /\ conn.n <= conn'.n /\ (conn'.open = FALSE \/ conn.n < conn'.n)
        /\ wire' = <<>> /\ calls' = <<>> /\ (conn'.open = TRUE => up' = TRUE)
    <2>1. CASE Drop
      <3>1. /\ conn' \in [n : Nat, open : BOOLEAN] /\ conn'.n = conn.n /\ conn'.open = FALSE
            /\ wire' = <<>> /\ calls' = <<>>
        BY <1>1, <2>1 DEF Drop
      <3>2. conn.n \in Nat /\ conn.n <= conn.n
        BY <1>1
      <3>3. QED
        BY <3>1, <3>2
    <2>2. CASE Reconnect
      <3>1. conn.open = FALSE /\ up = TRUE /\ UNCHANGED <<wire, calls>>
        BY <1>1, <2>2 DEF Reconnect, TypeOK
      <3>2. wire' = <<>> /\ calls' = <<>> /\ up' = TRUE
        BY <1>1, <1>2, <3>1, Unmoved DEF HereInv
      <3>3. QED
        BY <1>1, <2>2, <3>2 DEF Reconnect
    <2>3. QED
      BY <2>1, <2>2
  <1>4. ControlTypeOK'
    <2>1. <<>> \in Seq(WireRequests) /\ <<>> \in Seq(Reports) /\ DOMAIN <<>> = {}
      OBVIOUS
    <2>2. QED
      BY <1>1, <1>2, <1>3, <2>1 DEF ControlTypeOK, NamesReservation
  <1>5. Kept /\ Retains /\ UNCHANGED <<th, disk>> /\ \A e \in EVSEs : Continues(e)
    BY <1>1, <1>2, KeptAlone, Unmoved DEF Continues
  <1>6. Moving /\ SameBusy
    BY <1>2, NobodyMoves
  <1>7. InflightInv' /\ RecordInv'
    BY <1>1, <1>4, <1>5, <1>6, InflightKept, RecordKept DEF Moving
  <1>8. HereInv' /\ WireInv' /\ OrphanInv' /\ CallsInv'
    BY <1>1, <1>2, <1>3, <1>4, <1>5, NobodyHere
  <1>9. SessionsInv'
    BY <1>1, <1>2, <1>4, <1>5, SessionsKept
  <1>10. QED
    BY <1>4, <1>7, <1>8, <1>9 DEF CommandsInv
-----------------------------------------------------------------------------
(* Core's own stages, crash and restart *)

\* Core's own stages between the calls: snapshot, write, return, timers.
LEMMA CoreStepInv ==
  ASSUME ControlInv, CoreInv', UNCHANGED controlVars,
         TimerStep \/ UNCHANGED vars \/ \E t \in Threads : CoreStep(t)
  PROVE  ControlTypeOK' /\ CommandsInv'
  <1>1. /\ TypeOK /\ TypeOK' /\ CoreInv /\ ControlTypeOK /\ InflightInv /\ RecordInv /\ HereInv
        /\ CallsInv /\ SessionsInv
    BY DEF ControlInv, CommandsInv, CoreInv
  <1>2. UNCHANGED <<flow, ans, conn, wire, calls, handling, held, sess, closing, inflight, link, station, shut>>
    BY DEF controlVars, link, station, shut
  <1>3. ControlTypeOK'
    BY <1>1, <1>2, FlowTyped DEF ControlTypeOK
  <1>4. Moving /\ InflightInv'
    BY <1>1, <1>2, NobodyMoves, InflightKept
  <1>5. CASE TimerStep \/ UNCHANGED vars
    <2>1. Kept /\ Retains /\ \A h \in Handlers : th'[h] = th[h]
      BY <1>1, <1>5, KeptTimer, KeptAlone, Unmoved DEF TimerStep
    <2>2. QED
      BY <1>2, <1>3, <1>4, <2>1, SilentStep DEF CommandsInv
  <1>6. CASE \E t \in Threads : CoreStep(t)
    <2>1. PICK t \in Threads : CoreStep(t)
      BY <1>6
    <2>2. Kept
      BY <1>1, <2>1, KeptPersist, KeptReturn DEF CoreStep
    <2>3. conn.open = FALSE => calls' = <<>>
      BY <1>1, <1>2 DEF HereInv
    <2>4. RecordInv' /\ HereInv' /\ WireInv' /\ OrphanInv'
      BY <1>2, <1>3, <1>4, <2>2, <2>3, QuietStep
    <2>5. CallsInv'
      BY <1>1, <1>2, CallsKept
    <2>6. SessionsInv'
      <3>1. CASE PersistSnapshot(t) \/ PersistWrite(t) \/ PersistFail(t)
        BY <1>1, <1>2, <1>3, <3>1, SessionsPersist
      <3>2. CASE Return(t)
        <4>1. /\ Retains /\ th[t].phase \in {"done", "failed"} /\ th'[t].phase = "idle"
              /\ \A u \in Threads : u # t => th'[u] = th[u]
          BY <1>1, <3>2, KeptReturn
        <4>2. \A h \in Handlers : th'[h].phase \in {"idle", "done"} => th[h].phase \in {"idle", "done", "failed"}
          BY <4>1, Roles
        <4>3. \A e \in EVSEs : Continues(e)
          BY <1>2 DEF Continues
        <4>4. QED
          BY <1>1, <1>2, <1>3, <4>1, <4>2, <4>3, SessionsKept
      <3>3. QED
        BY <2>1, <3>1, <3>2 DEF CoreStep
    <2>7. QED
      BY <1>3, <1>4, <2>4, <2>5, <2>6 DEF CommandsInv
  <1>7. QED
    BY <1>5, <1>6

LEMMA ProcessCrashInv ==
  ASSUME ControlInv, CoreInv', ProcessCrash
  PROVE  ControlTypeOK' /\ CommandsInv'
  <1>1. /\ TypeOK /\ TypeOK' /\ CoreInv /\ ControlTypeOK /\ RecordInv /\ HereInv
        /\ WireInv /\ CallsInv /\ SessionsInv
        /\ conn \in [n : Nat, open : BOOLEAN] /\ flow \in [Clients -> Flows]
    BY DEF ControlInv, CommandsInv, CoreInv, ControlTypeOK
  <1>2. /\ Crash /\ handling' = [h \in Handlers |-> NoWork] /\ ans' = [t \in Clients |-> "none"]
        /\ wire' = <<>> /\ calls' = <<>> /\ closing' = "open" /\ inflight' = 0
        /\ conn' = [conn EXCEPT !.open = FALSE] /\ UNCHANGED <<station, held, sess>>
    BY DEF ProcessCrash, station
  <1>3. conn' \in [n : Nat, open : BOOLEAN] /\ conn'.n = conn.n /\ conn.n \in Nat /\ conn'.open = FALSE
    BY <1>1, <1>2
  <1>4. /\ flow' \in [Clients -> Flows]
        /\ \A t \in Clients : /\ flow'[t].pc \in {"idle", "returned"} /\ flow'[t].op = flow[t].op
                              /\ flow'[t].conn = flow[t].conn
                              /\ flow'[t].pc = "idle" => flow[t].pc = "idle"
    <2> DEFINE F(t) == IF flow[t].pc = "idle" THEN flow[t] ELSE [flow[t] EXCEPT !.pc = "returned"]
    <2>1. flow' = [t \in Clients |-> F(t)]
      BY DEF ProcessCrash
    <2>2. \A t \in Clients : /\ F(t) \in Flows /\ F(t).pc \in {"idle", "returned"} /\ F(t).op = flow[t].op
                             /\ F(t).conn = flow[t].conn /\ (F(t).pc = "idle" => flow[t].pc = "idle")
      BY <1>1 DEF Flows, PCs
    <2> HIDE DEF F
    <2>3. QED
      BY <2>1, <2>2
  <1>5. ControlTypeOK'
    <2>1. <<>> \in Seq(WireRequests) /\ <<>> \in Seq(Reports) /\ DOMAIN <<>> = {}
      OBVIOUS
    <2>2. handling' \in [Handlers -> Works] /\ \A h \in Handlers : handling'[h].msg.kind = "none"
      BY <1>2, Nothings
    <2>3. ans' \in [Clients -> Answers]
      BY <1>2 DEF Answers
    <2>4. QED
      BY <1>1, <1>2, <1>3, <1>4, <2>1, <2>2, <2>3 DEF ControlTypeOK, NamesReservation
  <1>6. reservations' = {} /\ disk' = disk
    BY <1>2 DEF Crash
  <1>7. InflightInv'
    <2>1. Busy' = {}
      BY <1>4, Roles DEF Busy
    <2>2. QED
      BY <1>2, <2>1, FS_EmptySet DEF InflightInv
  <1>8. RecordInv'
    BY <1>1, <1>4, <1>6, Roles DEF RecordInv, Pends, Cancels
  <1>9. HereInv' /\ WireInv' /\ OrphanInv' /\ CallsInv'
    <2>1. \A h \in Handlers : handling'[h].pc = "idle"
      BY <1>2, Nothings
    <2>2. \A t \in Reservers : flow'[t].pc \in {"idle", "entered"} => flow'[t].pc = flow[t].pc
      BY <1>4, Roles
    <2>3. QED
      BY <1>1, <1>2, <1>3, <1>4, <1>5, <1>6, <2>1, <2>2, NobodyHere
  <1>10. SessionsInv'
    BY <1>1, <1>2, SessionsCrash
  <1>11. QED
    BY <1>5, <1>7, <1>8, <1>9, <1>10 DEF CommandsInv

LEMMA ProcessRestartInv ==
  ASSUME ControlInv, CoreInv', ProcessRestart
  PROVE  ControlTypeOK' /\ CommandsInv'
  <1>1. /\ TypeOK /\ TypeOK' /\ CoreInv /\ ControlTypeOK /\ InflightInv /\ RecordInv /\ HereInv
        /\ WireInv /\ CallsInv /\ SessionsInv
        /\ conn \in [n : Nat, open : BOOLEAN]
    BY DEF ControlInv, CommandsInv, CoreInv, ControlTypeOK
  <1>2. UNCHANGED <<flow, ans, conn, wire, calls, handling, held, sess, closing, inflight, link, station, shut>>
    BY DEF ProcessRestart, controlVars, link, station, shut
  <1>3. PICK dropped \in SUBSET disk.reservations : Restart(dropped)
    BY DEF ProcessRestart
  <1>4. /\ up = FALSE /\ up' = TRUE /\ disk' = disk
        /\ reservations' = {[id |-> r.id, evse |-> r.evse, tag |-> r.tag,
                             status |-> "active"] : r \in disk.reservations \ dropped}
    BY <1>1, <1>3 DEF Restart, TypeOK
  <1>5. reservations = {} /\ \A r \in reservations' : r.status = "active"
    BY <1>1, <1>4 DEF CoreInv, DownIsEmpty
  <1>6. ControlTypeOK'
    BY <1>1, <1>2, FlowTyped DEF ControlTypeOK
  <1>7. conn.open = FALSE /\ wire' = <<>> /\ calls' = <<>> /\ conn.n \in Nat
    BY <1>1, <1>2, <1>4 DEF HereInv
  <1>8. InflightInv'
    BY <1>1, <1>2, NobodyMoves, InflightKept
  <1>9. RecordInv'
    <2>1. \A t \in Reservers : ~Pends(t) /\ ~Cancels(t) /\ flow[t].pc # "vanished"
      BY <1>1, <1>5 DEF RecordInv, Owns
    <2>2. \A t \in Reservers : /\ ~Pends(t)' /\ ~Cancels(t)'
                               /\ flow'[t].pc \notin {"vanished", "begin", "send"}
      BY <1>2, <2>1 DEF Pends, Cancels
    <2>3. \A t \in Operators : /\ flow'[t].op # "ReserveNow"
                               /\ flow'[t].op = "CancelReservation" => flow'[t].pc # "begin"
                               /\ ~(flow'[t].op = "CancelReservation" /\ flow'[t].pc \in {"send", "wait"})
      BY <1>1, <1>2, <1>4 DEF RecordInv
    <2>4. QED
      BY <1>5, <2>2, <2>3 DEF RecordInv
  <1>10. HereInv' /\ WireInv' /\ OrphanInv' /\ CallsInv'
    <2>1. conn.n <= conn'.n /\ conn'.open = FALSE
      BY <1>2, <1>7
    <2>2. /\ \A t \in Clients : flow'[t].conn = flow[t].conn
          /\ \A t \in Reservers : flow'[t].pc \in {"idle", "entered"} => flow'[t].pc = flow[t].pc
          /\ \A h \in Handlers : handling'[h] = handling[h]
      BY <1>2
    <2>3. QED
      BY <1>1, <1>2, <1>4, <1>6, <1>7, <2>1, <2>2, NobodyHere
  <1>11. SessionsInv'
    BY <1>1, <1>2, <1>3, SessionsRestart
  <1>12. QED
    BY <1>6, <1>8, <1>9, <1>10, <1>11 DEF CommandsInv
-----------------------------------------------------------------------------
(* The commands keep the invariant *)

LEMMA InitControlInv == ControlInit => ControlInv
  <1> SUFFICES ASSUME ControlInit
               PROVE  ControlInv
    OBVIOUS
  <1>1. /\ Init /\ CoreInv /\ reservations = {} /\ up = TRUE /\ failures = 0
        /\ th = [t \in Threads |-> Idle]
    BY InitCoreInv DEF ControlInit, Init
  <1>2. /\ flow = [t \in Clients |-> NoFlow] /\ ans = [t \in Clients |-> "none"]
        /\ conn = [n |-> 1, open |-> TRUE] /\ wire = <<>> /\ calls = <<>>
        /\ handling = [h \in Handlers |-> NoWork]
        /\ held = [e \in EVSEs |-> 0] /\ sess = [e \in EVSEs |-> NoSession]
        /\ closing = "open" /\ inflight = 0
    BY DEF ControlInit
  <1>3. conn \in [n : Nat, open : BOOLEAN] /\ conn.n = 1 /\ conn.open = TRUE
    BY <1>2
  <1>4. DOMAIN wire = {} /\ DOMAIN calls = {} /\ wire \in Seq(WireRequests) /\ calls \in Seq(Reports)
    BY <1>2
  <1>5. \A t \in Clients : flow[t] = NoFlow /\ flow[t].pc = "idle" /\ flow[t].op = "none" /\ flow[t].conn = 0
    BY <1>2 DEF NoFlow
  <1>6. \A h \in Handlers : handling[h] = NoWork /\ handling[h].pc = "idle" /\ handling[h].msg.kind = "none"
    BY <1>2, Nothings
  <1>7. \A e \in EVSEs : held[e] = 0 /\ sess[e].state = "none" /\ sess[e].sent = 0
    BY <1>2, Nothings
  <1>8. BeginPending
    BY <1>1 DEF BeginPending, Idle
  <1>9. ControlTypeOK
    <2>1. flow \in [Clients -> Flows] /\ ans \in [Clients -> Answers]
      BY <1>2, Nothings DEF Answers
    <2>2. handling \in [Handlers -> Works] /\ sess \in [EVSEs -> Sessions]
      BY <1>2, Nothings
    <2>3. held \in [EVSEs -> 0..MaxReservationID]
      BY <1>2, CoreAssumption
    <2>4. QED
      BY <1>2, <1>3, <1>4, <1>6, <2>1, <2>2, <2>3 DEF ControlTypeOK, NamesReservation
  <1>10. InflightInv
    <2>1. Busy = {}
      BY <1>5, Roles DEF Busy
    <2>2. QED
      BY <1>2, <2>1, FS_EmptySet DEF InflightInv
  <1>11. RecordInv
    BY <1>1, <1>5, Roles DEF RecordInv, Pends, Cancels
  <1>12. \A t \in Reservers : ~Here(t)
    BY <1>3, <1>5, Roles DEF Here
  <1>13. HereInv
    BY <1>1, <1>3, <1>5, <1>12, Roles DEF HereInv
  <1>14. WireInv
    BY <1>4, <1>7, <1>12 DEF WireInv
  <1>15. OrphanInv
    BY <1>12 DEF OrphanInv
  <1>16. CallsInv
    BY <1>3, <1>4, <1>6, <1>7 DEF CallsInv, Serves
  <1>17. SessionsInv
    <2>1. \A t \in Threads : th[t].phase # "failed"
      BY <1>1 DEF Idle
    <2>2. \A h \in Handlers : ~Numbered(h)
      BY <1>6 DEF Numbered
    <2>3. QED
      BY <1>7, <2>1, <2>2 DEF SessionsInv, HasId
  <1>18. QED
    BY <1>1, <1>8, <1>9, <1>10, <1>11, <1>13, <1>14, <1>15, <1>16, <1>17 DEF ControlInv, CommandsInv

LEMMA NextControlInv == ControlInv /\ [ControlNext]_allVars => ControlInv'
  <1> SUFFICES ASSUME ControlInv, [ControlNext]_allVars
               PROVE  ControlInv'
    OBVIOUS
  <1>1. CoreInv /\ BeginPending /\ [Next]_vars
    BY CommandsAreCore DEF ControlInv, CommandsInv
  <1>2. CoreInv' /\ BeginPending'
    BY <1>1, NextCoreInv, BeginPendingNext
  <1>3. ControlTypeOK' /\ CommandsInv'
    <2>1. ASSUME NEW t \in Reservers, ReserveStep(t) \/ \E e \in EVSEs, tag \in Tags : ReserveEnter(t, e, tag)
          PROVE  ControlTypeOK' /\ CommandsInv'
      BY <1>2, <2>1, ReserveEnterInv, ReserveBeginInv, ReserveWaitsInv, ReserveBegunInv, ReserveSendInv,
         ReserveMovesInv, ReserveEndInv, ReserveReturnInv DEF ReserveStep
    <2>2. ASSUME NEW t \in Operators, NEW e \in Configured,
                 \/ CancelBegin(t, e) \/ StopBegin(t, e)
                 \/ \E tag \in Tags : StartBegin(t, e, tag)
                 \/ \E k \in Plain : PlainBegin(t, e, k)
          PROVE  ControlTypeOK' /\ CommandsInv'
      BY <1>2, <2>2, CancelBeginInv, PlainBeginInv, StartBeginInv
    <2>3. ASSUME NEW t \in Operators,
                 StartBegun(t) \/ CommandSend(t) \/ CancelAnswered(t) \/ CommandAnswered(t) \/ CommandFails(t)
          PROVE  ControlTypeOK' /\ CommandsInv'
      BY <1>2, <2>3, StartBegunInv, CommandSendInv, CommandEndsInv
    <2>4. CASE CloseBegin \/ CloseDone
      BY <1>2, <2>4, CloseInv
    <2>5. ASSUME NEW h \in Handlers, HandlerStep(h)
          PROVE  ControlTypeOK' /\ CommandsInv'
      BY <1>2, <2>5, HandleStartInv, HandleStartedInv, HandleStopInv, HandleReplyInv DEF HandlerStep
    <2>6. CASE StationAnswers
      BY <1>2, <2>6, StationReserveInv, StationCancelInv, StationRemoteStartInv, StationPlainInv DEF StationAnswers
    <2>7. ASSUME NEW e \in EVSEs, \/ \E tag \in Tags : StationPlugIn(e, tag)
                                  \/ StationUnplug(e) \/ StationReports(e) \/ StationExpires(e)
          PROVE  ControlTypeOK' /\ CommandsInv'
      BY <1>2, <2>7, StationAloneInv, StationReportsInv
    <2>8. CASE Drop \/ Reconnect
      BY <1>2, <2>8, ConnectionInv
    <2>9. CASE TimerStep \/ (\E t \in Threads : CoreStep(t)) \/ UNCHANGED allVars
      <3>1. UNCHANGED controlVars /\ (TimerStep \/ UNCHANGED vars \/ \E t \in Threads : CoreStep(t))
        BY <2>9 DEF TimerStep, CoreStep, allVars
      <3>2. QED
        BY <1>2, <3>1, CoreStepInv
    <2>10. CASE ProcessCrash \/ ProcessRestart
      BY <1>2, <2>10, ProcessCrashInv, ProcessRestartInv
    <2>11. QED
      BY <2>1, <2>2, <2>3, <2>4, <2>5, <2>6, <2>7, <2>8, <2>9, <2>10 DEF ControlNext
  <1>4. QED
    BY <1>2, <1>3 DEF ControlInv

(* The commands, the handlers, the station and the network, together with     *)
(* core, keep the invariant: a Reserve under way owns its record, what is on  *)
(* the wire is in order, and a cancel that was queued is behind its           *)
(* ReserveNow and before the next one for the EVSE.                           *)
THEOREM ControlInvariant == ControlSpec => []ControlInv
  BY InitControlInv, NextControlInv, PTL DEF ControlSpec

(* Every step of the commands, the handlers and the process is one of core's  *)
(* or leaves core alone: what is proved of core holds under the commands, and *)
(* no command uses core in a way its specification does not allow.            *)
THEOREM ControlImplementsCore == ControlSpec => Spec
  <1>1. ControlInit => Init
    BY DEF ControlInit
  <1>2. ControlInv /\ [ControlNext]_allVars => [Next]_vars
    BY CommandsAreCore DEF ControlInv, CommandsInv
  <1>3. QED
    BY <1>1, <1>2, ControlInvariant, PTL DEF ControlSpec, Spec

(* Every variable of the command side keeps its type: an id that a station    *)
(* holds or names is one that core could have given out.                     *)
THEOREM ControlTypeCorrect == ControlSpec => []ControlTypeOK
  <1>1. ControlInv => ControlTypeOK
    BY DEF ControlInv
  <1>2. QED
    BY <1>1, ControlInvariant, PTL

(* "Nothing else ends a pending reservation" (control.go:191): a Reserve whose *)
(* ReserveNow is accepted finds its record pending, for any number of         *)
(* Reserves, commands, sessions and timers.                                  *)
THEOREM PendingIsSafe == ControlSpec => []NothingElseEndsPending
  <1>1. ControlInv => NothingElseEndsPending
    BY DEF ControlInv, CommandsInv, RecordInv, NothingElseEndsPending
  <1>2. QED
    BY <1>1, ControlInvariant, PTL

(* Once Close has returned, every record left is active: no Reserve is in     *)
(* flight and no background cancel is left to send (control.go:98).           *)
THEOREM CloseIsComplete == ControlSpec => []CloseLeavesNothingBehind
  <1>1. ControlInv => CloseLeavesNothingBehind
    <2> SUFFICES ASSUME ControlInv, closing = "closed", NEW r \in reservations, r.status # "active"
                 PROVE  FALSE
      BY DEF CloseLeavesNothingBehind
    <2>1. Busy = {}
      BY DEF ControlInv, CommandsInv, InflightInv
    <2>2. PICK t \in Reservers : Pends(t) \/ Cancels(t)
      BY DEF ControlInv, CommandsInv, RecordInv
    <2>3. t \in Busy
      BY <2>2 DEF Busy, Pends, Cancels
    <2>4. QED
      BY <2>1, <2>3
  <1>2. QED
    BY <1>1, ControlInvariant, PTL

(* A Reserve that gave up and queued its cancel, and whose connection lasts,  *)
(* leaves the station holding nothing for it that a CancelReservation on the  *)
(* wire does not release (control.go:211).  Of a cancel that failed unsent    *)
(* (conn.go:176-180) it says nothing.                                         *)
THEOREM OrphansAreCancelled == ControlSpec => []OrphanCancelled
  <1>1. ControlInv => OrphanCancelled
    <2> SUFFICES ASSUME ControlInv, NEW t \in Reservers, Bound(t), held[flow[t].evse] = flow[t].id,
                        flow[t].pc \in {"cancelEnd", "cancelled", "abandoned"}
                 PROVE  \E k \in DOMAIN wire : wire[k].kind = "CancelReservation" /\ wire[k].id = flow[t].id
      BY DEF OrphanCancelled
    <2>1. Here(t)
      BY DEF ControlInv, ControlTypeOK, Bound, Here
    <2>2. \E k \in DOMAIN wire : Undoes(k, t)
      BY <2>1 DEF ControlInv, CommandsInv, OrphanInv, Settles
    <2>3. QED
      BY <2>2 DEF Undoes
  <1>2. QED
    BY <1>1, ControlInvariant, PTL

(* "a second ReserveNow cannot overtake the cancel and be answered Occupied"  *)
(* (reservations.go:27): a station that comes to a ReserveNow no longer holds *)
(* its EVSE for a Reserve of the same connection that gave up, unless the     *)
(* cancel of that one never got into the send queue.                          *)
THEOREM NoneBehindOrphan == ControlSpec => []NoReserveBehindOrphan
  <1>1. ControlInv => NoReserveBehindOrphan
    <2> SUFFICES ASSUME ControlInv, wire # <<>>, Head(wire).kind = "ReserveNow", NEW t \in Reservers,
                        Orphaned(t), flow[t].conn = conn.n, held[Head(wire).evse] = flow[t].id
                 PROVE  FALSE
      BY DEF NoReserveBehindOrphan
    <2>1. TypeOK /\ ControlTypeOK /\ HereInv /\ WireInv /\ OrphanInv
      BY DEF ControlInv, CommandsInv, CoreInv
    <2>2. Head(wire) = wire[1] /\ 1 \in DOMAIN wire /\ wire[1] \in WireRequests /\ DOMAIN wire = 1..Len(wire)
          /\ Len(wire) \in Nat
      <3> HIDE DEF WireRequests
      <3>1. wire \in Seq(WireRequests)
        BY <2>1 DEF ControlTypeOK
      <3>2. QED
        BY <3>1
    <2>3. Asks(1) /\ wire[1].evse \in EVSEs /\ wire[1].id \in Nat
      BY <2>2 DEF Asks, WireRequests
    <2>4. Here(t) /\ flow[t].id \in Nat
      <3>1. conn.open = TRUE
        BY <2>1, <2>2 DEF HereInv, ControlTypeOK
      <3>2. QED
        BY <2>1, <3>1, Roles, Numbers DEF Here, AllNumbers
    <2>5. wire[1].evse = flow[t].evse /\ held[flow[t].evse] < wire[1].id
      BY <2>1, <2>2, <2>3, <2>4 DEF WireInv
    <2>6. wire[1].id > flow[t].id
      BY <2>2, <2>3, <2>4, <2>5
    <2>7. \E l \in DOMAIN wire : l < 1
      BY <2>1, <2>2, <2>3, <2>4, <2>5, <2>6 DEF OrphanInv, Settles
    <2>8. QED
      BY <2>2, <2>7
  <1>2. QED
    BY <1>1, ControlInvariant, PTL

(* A session the station was given an id for is in core's records while the   *)
(* process is up and no write has failed, over reconnects, repeated reports   *)
(* and crashes (handler.go:173).                                             *)
THEOREM SessionsAreKnown == ControlSpec => []RunningSessionKnown
  <1>1. ControlInv => RunningSessionKnown
    BY DEF ControlInv, CommandsInv, SessionsInv, RunningSessionKnown, In, CoreInv, TypeOK
  <1>2. QED
    BY <1>1, ControlInvariant, PTL
=============================================================================
