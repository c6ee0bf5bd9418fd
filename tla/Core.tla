-------------------------------- MODULE Core --------------------------------
(***************************************************************************)
(* The domain core of cpms: reservations, transactions, the id counters    *)
(* and the file that carries them over a restart (internal/core with       *)
(* internal/state).                                                        *)
(*                                                                         *)
(* Every method of core.Service has the same shape: a section under s.mu,  *)
(* then persist() (its own lock persistMu, a snapshot under s.mu, a write  *)
(* that may fail), then the publication of events.  A section under s.mu   *)
(* is one step here, and so is each stage after it, so that the sections   *)
(* of other goroutines, and a crash, may fall in between.                  *)
(*                                                                         *)
(* Callers are not constrained: any goroutine may call any method with any *)
(* id.  What is shown of this module therefore holds under every caller,   *)
(* in particular under module Control.                                     *)
(***************************************************************************)
EXTENDS Integers, FiniteSets

CONSTANTS
  Workers,            \* goroutines that can be inside core at the same time
  Main,               \* the goroutine that runs core.New
  NoThread,           \* persistMu is free
  EVSEs,              \* EVSE uids, configured or synthetic
  Configured,         \* the EVSEs the configuration names
  Tags,               \* RFID tags as stations and operators write them
  Fold,               \* the case folding strings.EqualFold compares under
  MaxReservationID,   \* bounds of the id counters
  MaxTransactionID,
  MaxRemoteStartID,
  MaxCrashes,         \* bound on the number of crashes
  MaxFailures         \* bound on the number of failed writes

ASSUME CoreAssumption ==
  /\ Main \notin Workers
  /\ NoThread \notin Workers \cup {Main}
  /\ Configured \subseteq EVSEs
  /\ Fold \in [Tags -> Tags]
  /\ MaxReservationID \in Nat
  /\ MaxTransactionID \in Nat
  /\ MaxRemoteStartID \in Nat
  /\ MaxCrashes \in Nat
  /\ MaxFailures \in Nat

VARIABLES
  reservations,   \* Service.reservations: the records core holds
  transactions,   \* the transactions that are active, over all charge points
  next,           \* nextReservationID, nextTransactionID, nextRemoteStartID
  armed,          \* ids of reservations whose expiry timer is running
  fired,          \* ids whose timer fired and whose goroutine has yet to lock
  th,             \* what each goroutine is doing in core
  persistMu,      \* the goroutine that holds persistMu, or NoThread
  snap,           \* the snapshot each goroutine took in persist
  disk,           \* the state file
  up,             \* the process is running
  epoch,          \* history: how many times the process was started, less one
  failures,       \* history: how many writes failed
  dirty,          \* history: the last write of this process failed
  granted,        \* history: <<epoch, id>> BeginReservation returned
  txGranted,      \* history: the ids NextTransactionID returned
  gone,           \* history: reservations that ended and whose end is recorded
  ends            \* history: Ended events published for each id in this epoch

memory == <<reservations, transactions, next, armed, fired>>
process == <<up, epoch>>
history == <<failures, dirty, granted, txGranted, gone, ends>>
vars == <<memory, th, persistMu, snap, disk, process, history>>

Threads == Workers \cup {Main}

ReservationIds == 1..MaxReservationID
TransactionIds == 1..MaxTransactionID
Epochs == 0..MaxCrashes

\* Reservation statuses (reservations.go:15).
Statuses == {"pending", "active", "cancelling"}
Reservation == [id : ReservationIds, evse : EVSEs, tag : Tags, status : Statuses]
\* The store's DTO has no status: only active reservations are written.
StoredReservation == [id : ReservationIds, evse : EVSEs, tag : Tags]
\* reservation = 0: the session names no reservation.
Transaction == [id : TransactionIds, evse : EVSEs, tag : Tags,
                reservation : 0..MaxReservationID]
Counters == [reservation : 0..MaxReservationID + 1,
             transaction : 0..MaxTransactionID + 1,
             remoteStart : 0..MaxRemoteStartID + 1]
File == [reservations : SUBSET StoredReservation,
         transactions : SUBSET Transaction, next : Counters]

Ops == {"none", "begin", "activate", "end", "orphan", "nextTransaction",
        "nextRemoteStart", "startTransaction", "stopTransaction", "load"}
Phases == {"idle", "persist", "write", "done", "failed"}
Thread == [op : Ops, phase : Phases, id : Nat, ends : 0..MaxReservationID]

Idle == [op |-> "none", phase |-> "idle", id |-> 0, ends |-> 0]
EmptyFile ==
  [reservations |-> {}, transactions |-> {},
   next |-> [reservation |-> 0, transaction |-> 0, remoteStart |-> 0]]
-----------------------------------------------------------------------------
(* Helpers of the source. *)

\* Mutant: a pending reservation does not hold its EVSE.
ActiveReservationsOn(e) == {r \in reservations : r.evse = e /\ r.status = "active"}

ReservationsOn(e) == {r \in reservations : r.evse = e}

\* Mutant: the snapshot leaves the counters out.
PersistableNoCounters ==
  [reservations |-> {[id |-> r.id, evse |-> r.evse, tag |-> r.tag] :
                       r \in {q \in reservations : q.status = "active"}},
   transactions |-> transactions,
   next |-> EmptyFile.next]

\* persistableLocked with the counters persist reads next to it.
Persistable ==
  [reservations |-> {[id |-> r.id, evse |-> r.evse, tag |-> r.tag] :
                       r \in {q \in reservations : q.status = "active"}},
   transactions |-> transactions,
   next |-> next]

\* The reservations a starting session redeems: the one it names, else an
\* active one on its EVSE whose tag is equal up to case.
Redeemed(e, tag, named) ==
  LET byId == {r \in reservations : r.id = named /\ r.status = "active"}
  IN IF byId # {} THEN byId
     ELSE {r \in reservations : /\ r.evse = e
                                /\ r.status = "active"
                                /\ Fold[r.tag] = Fold[tag]}

\* Mutant: a session ends a reservation that is still pending.
AnyOn(e) == {r \in reservations : r.evse = e}

ActiveOn(e) == {r \in reservations : r.evse = e /\ r.status = "active"}

\* No caller knows the id of a BeginReservation that has not returned.
Known(r) == \A t \in Threads : ~(th[t].op = "begin" /\ th[t].id = r.id)

Ready(t) == up /\ th[Main] = Idle /\ t \in Workers /\ th[t] = Idle
Enter(t, o, i, p) ==
  th' = [th EXCEPT ![t] = [op |-> o, phase |-> p, id |-> i, ends |-> 0]]
EnterEnding(t, o, i, r) ==
  th' = [th EXCEPT ![t] = [op |-> o, phase |-> "persist", id |-> i, ends |-> r]]

\* endLocked: stop the timer (one that has fired cannot be stopped) and
\* forget the record.
EndLocked(r) ==
  /\ reservations' = reservations \ {r}
  /\ armed' = armed \ {r.id}
-----------------------------------------------------------------------------
(* The sections under s.mu. *)

\* BeginReservation, once neither early return is taken.
BeginReservation(t, e, tag) ==
  /\ Ready(t)
  /\ e \in Configured
  /\ ReservationsOn(e) = {}
  /\ next.reservation <= MaxReservationID
  /\ reservations' = reservations \cup
       {[id |-> next.reservation, evse |-> e, tag |-> tag, status |-> "pending"]}
  /\ next' = [next EXCEPT !.reservation = @ + 1]
  /\ Enter(t, "begin", next.reservation, "persist")
  /\ UNCHANGED <<transactions, armed, fired, persistMu, snap, disk, process, history>>

\* Mutant: the id is handed out although its write failed.
BeginReturnAnyway(t) ==
  /\ th[t].op = "begin"
  /\ th[t].phase \in {"done", "failed"}
  /\ granted' = granted \cup {<<epoch, th[t].id>>}
  /\ th' = [th EXCEPT ![t] = Idle]
  /\ UNCHANGED <<memory, persistMu, snap, disk, process, failures, dirty, txGranted, gone, ends>>

\* The same call when its persist has returned: the id reaches the caller, or
\* the record is dropped and the caller gets the error.
BeginReturn(t) ==
  /\ th[t].op = "begin"
  /\ \/ /\ th[t].phase = "done"
        /\ granted' = granted \cup {<<epoch, th[t].id>>}
        /\ UNCHANGED reservations
     \/ /\ th[t].phase = "failed"
        /\ reservations' = {r \in reservations : r.id # th[t].id}
        /\ UNCHANGED granted
  /\ th' = [th EXCEPT ![t] = Idle]
  /\ UNCHANGED <<transactions, next, armed, fired, persistMu, snap, disk, process,
                 failures, dirty, txGranted, gone, ends>>

ActivateReservation(t, r) ==
  /\ Ready(t)
  /\ r \in reservations /\ Known(r)
  /\ r.status = "pending"
  /\ reservations' = (reservations \ {r}) \cup {[r EXCEPT !.status = "active"]}
  /\ armed' = armed \cup {r.id}
  /\ Enter(t, "activate", r.id, "persist")
  /\ UNCHANGED <<transactions, next, fired, persistMu, snap, disk, process, history>>

\* Mutant: the end of a cancelling record is published a second time.
EndReservationAgain(t, r) ==
  /\ Ready(t)
  /\ r \in reservations /\ Known(r)
  /\ EndLocked(r)
  /\ EnterEnding(t, "end", r.id, r.id)
  /\ UNCHANGED <<transactions, next, fired, persistMu, snap, disk, process, history>>

\* A cancelling record was reported by OrphanReservation and never persisted,
\* so its end is complete with the locked section.
EndReservation(t, r) ==
  /\ Ready(t)
  /\ r \in reservations /\ Known(r)
  /\ EndLocked(r)
  /\ \/ /\ r.status = "cancelling"
        /\ gone' = gone \cup {r.id}
        /\ UNCHANGED th
     \/ /\ r.status # "cancelling"
        /\ EnterEnding(t, "end", r.id, r.id)
        /\ UNCHANGED gone
  /\ UNCHANGED <<transactions, next, fired, persistMu, snap, disk, process,
                 failures, dirty, granted, txGranted, ends>>

\* Publishes Ended but persists nothing, so it skips the stages of persist.
OrphanReservation(t, r) ==
  /\ Ready(t)
  /\ r \in reservations /\ Known(r)
  /\ r.status = "pending"
  /\ reservations' = (reservations \ {r}) \cup {[r EXCEPT !.status = "cancelling"]}
  /\ armed' = armed \ {r.id}
  /\ th' = [th EXCEPT ![t] = [op |-> "orphan", phase |-> "done", id |-> r.id, ends |-> r.id]]
  /\ UNCHANGED <<transactions, next, fired, persistMu, snap, disk, process, history>>

\* The clock reaches a reservation's expiry and its timer goroutine starts.
TimerFires(i) ==
  /\ up
  /\ i \in armed
  /\ armed' = armed \ {i}
  /\ fired' = fired \cup {i}
  /\ UNCHANGED <<reservations, transactions, next, th, persistMu, snap, disk, process, history>>

\* What the timer goroutine finds once it has the lock.
Expirable(i) == {r \in reservations : r.id = i /\ r.status = "active"}

Expire(t, i) ==
  /\ up
  /\ t \in Workers
  /\ th[t] = Idle
  /\ i \in fired
  /\ fired' = fired \ {i}
  /\ \/ \E r \in Expirable(i) :
          /\ EndLocked(r)
          /\ EnterEnding(t, "end", i, i)
     \/ /\ Expirable(i) = {}
        /\ UNCHANGED <<reservations, armed, th>>
  /\ UNCHANGED <<transactions, next, persistMu, snap, disk, process, history>>

NextTransactionID(t) ==
  /\ Ready(t)
  /\ next.transaction <= MaxTransactionID
  /\ next' = [next EXCEPT !.transaction = @ + 1]
  /\ Enter(t, "nextTransaction", next.transaction, "persist")
  /\ UNCHANGED <<reservations, transactions, armed, fired, persistMu, snap, disk,
                 process, history>>

NextRemoteStartID(t) ==
  /\ Ready(t)
  /\ next.remoteStart <= MaxRemoteStartID
  /\ next' = [next EXCEPT !.remoteStart = @ + 1]
  /\ Enter(t, "nextRemoteStart", next.remoteStart, "persist")
  /\ UNCHANGED <<reservations, transactions, armed, fired, persistMu, snap, disk,
                 process, history>>

\* The session replaces an active one with the same id, and ends at most one
\* reservation: the one it redeems, else the active one on its EVSE.
StartTransaction(t, i, e, tag, named) ==
  LET Replaced == {x \in transactions : x.id # i}
      Started(res) == [id |-> i, evse |-> e, tag |-> tag, reservation |-> res]
  IN /\ Ready(t)
     /\ i \in 1..next.transaction - 1
     /\ \/ \E r \in Redeemed(e, tag, named) :
             /\ transactions' = Replaced \cup {Started(r.id)}
             /\ EndLocked(r)
             /\ EnterEnding(t, "startTransaction", i, r.id)
        \/ /\ Redeemed(e, tag, named) = {}
           /\ transactions' = Replaced \cup {Started(named)}
           /\ \/ \E r \in ActiveOn(e) :
                   /\ EndLocked(r)
                   /\ EnterEnding(t, "startTransaction", i, r.id)
              \/ /\ ActiveOn(e) = {}
                 /\ Enter(t, "startTransaction", i, "persist")
                 /\ UNCHANGED <<reservations, armed>>
     /\ UNCHANGED <<next, fired, persistMu, snap, disk, process, history>>

StopTransaction(t, x) ==
  /\ Ready(t)
  /\ x \in transactions
  /\ transactions' = transactions \ {x}
  /\ Enter(t, "stopTransaction", x.id, "persist")
  /\ UNCHANGED <<reservations, next, armed, fired, persistMu, snap, disk, process, history>>
-----------------------------------------------------------------------------
(* persist: lock persistMu, snapshot, write, unlock. *)

\* Mutant: no lock is held from the snapshot to the write.
PersistSnapshotUnlocked(t) ==
  /\ th[t].phase = "persist"
  /\ persistMu' = t
  /\ snap' = [snap EXCEPT ![t] = Persistable]
  /\ th' = [th EXCEPT ![t].phase = "write"]
  /\ UNCHANGED <<memory, disk, process, history>>

PersistSnapshot(t) ==
  /\ th[t].phase = "persist"
  /\ persistMu = NoThread
  /\ persistMu' = t
  /\ snap' = [snap EXCEPT ![t] = Persistable]
  /\ th' = [th EXCEPT ![t].phase = "write"]
  /\ UNCHANGED <<memory, disk, process, history>>

\* The rename is the commit point: the file is the old one or the new one.
PersistWrite(t) ==
  /\ th[t].phase = "write"
  /\ disk' = snap[t]
  /\ dirty' = FALSE
  /\ persistMu' = NoThread
  /\ snap' = [snap EXCEPT ![t] = EmptyFile]
  /\ th' = [th EXCEPT ![t].phase = "done"]
  /\ UNCHANGED <<memory, process, failures, granted, txGranted, gone, ends>>

PersistFail(t) ==
  /\ th[t].phase = "write"
  /\ failures < MaxFailures
  /\ failures' = failures + 1
  /\ dirty' = TRUE
  /\ persistMu' = NoThread
  /\ snap' = [snap EXCEPT ![t] = EmptyFile]
  /\ th' = [th EXCEPT ![t].phase = "failed"]
  /\ UNCHANGED <<memory, disk, process, granted, txGranted, gone, ends>>

\* The tail of every method but BeginReservation: publish what it ended and
\* return.  A failed write is only logged.
Return(t) ==
  /\ th[t].phase \in {"done", "failed"}
  /\ th[t].op # "begin"
  /\ ends' = [i \in ReservationIds |-> IF i = th[t].ends THEN ends[i] + 1 ELSE ends[i]]
  /\ gone' = IF th[t].phase = "done" /\ th[t].op \in {"end", "startTransaction"}
             THEN gone \cup ({th[t].ends} \ {0}) ELSE gone
  /\ txGranted' = IF th[t].op = "nextTransaction"
                  THEN txGranted \cup {[epoch |-> epoch, id |-> th[t].id,
                                        written |-> th[t].phase = "done"]}
                  ELSE txGranted
  /\ th' = [th EXCEPT ![t] = Idle]
  /\ UNCHANGED <<memory, persistMu, snap, disk, process, failures, dirty, granted>>
-----------------------------------------------------------------------------
(* The process dies and starts again. *)

Crash ==
  /\ up
  /\ epoch < MaxCrashes
  /\ up' = FALSE
  /\ reservations' = {}
  /\ transactions' = {}
  /\ next' = EmptyFile.next
  /\ armed' = {}
  /\ fired' = {}
  /\ th' = [t \in Threads |-> Idle]
  /\ persistMu' = NoThread
  /\ snap' = [t \in Threads |-> EmptyFile]
  /\ ends' = [i \in ReservationIds |-> 0]
  /\ UNCHANGED <<disk, epoch, failures, dirty, granted, txGranted, gone>>

\* Mutant: the counter of the file as it is.
AsStored(n, ids) == n

\* max(file, 1), and above every id that is loaded.
AtLeast(n, ids) == LET S == {n, 1} \cup {i + 1 : i \in ids}
                   IN CHOOSE m \in S : \A k \in S : k <= m

\* load: a reservation that expired, or whose EVSE left the configuration,
\* while the process was down is dropped; if any was, the file is rewritten.
Restart(dropped) ==
  LET kept == disk.reservations \ dropped
  IN /\ ~up
     /\ dropped \subseteq disk.reservations
     /\ up' = TRUE
     /\ epoch' = epoch + 1
     /\ reservations' = {[id |-> r.id, evse |-> r.evse, tag |-> r.tag,
                          status |-> "active"] : r \in kept}
     /\ armed' = {r.id : r \in kept}
     /\ transactions' = disk.transactions
     /\ next' = [reservation |-> AtLeast(disk.next.reservation, {r.id : r \in kept}),
                 transaction |-> AtLeast(disk.next.transaction,
                                         {x.id : x \in disk.transactions}),
                 remoteStart |-> AtLeast(disk.next.remoteStart, {})]
     /\ \/ /\ dropped # {}
           /\ Enter(Main, "load", 0, "persist")
        \/ /\ dropped = {}
           /\ UNCHANGED th
     /\ dirty' = FALSE
     /\ UNCHANGED <<fired, persistMu, snap, disk, failures, granted, txGranted, gone, ends>>
-----------------------------------------------------------------------------
Init ==
  /\ reservations = {}
  /\ transactions = {}
  /\ next = [reservation |-> 1, transaction |-> 1, remoteStart |-> 1]
  /\ armed = {}
  /\ fired = {}
  /\ th = [t \in Threads |-> Idle]
  /\ persistMu = NoThread
  /\ snap = [t \in Threads |-> EmptyFile]
  /\ disk = EmptyFile
  /\ up = TRUE
  /\ epoch = 0
  /\ failures = 0
  /\ dirty = FALSE
  /\ granted = {}
  /\ txGranted = {}
  /\ gone = {}
  /\ ends = [i \in ReservationIds |-> 0]

Call(t) ==
  \/ \E e \in EVSEs, tag \in Tags : BeginReservation(t, e, tag)
  \/ \E r \in reservations : \/ ActivateReservation(t, r)
                             \/ EndReservation(t, r)
                             \/ OrphanReservation(t, r)
  \/ \E i \in fired : Expire(t, i)
  \/ NextTransactionID(t)
  \/ NextRemoteStartID(t)
  \/ \E i \in TransactionIds, e \in EVSEs, tag \in Tags, named \in 0..MaxReservationID :
       StartTransaction(t, i, e, tag, named)
  \/ \E x \in transactions : StopTransaction(t, x)

Step(t) ==
  \/ PersistSnapshot(t)
  \/ PersistWrite(t)
  \/ PersistFail(t)
  \/ BeginReturn(t)
  \/ Return(t)

Next ==
  \/ \E t \in Workers : Call(t)
  \/ \E t \in Threads : Step(t)
  \/ \E i \in armed : TimerFires(i)
  \/ Crash
  \/ \E dropped \in SUBSET disk.reservations : Restart(dropped)

Spec == Init /\ [][Next]_vars
-----------------------------------------------------------------------------
Unique(rs) == \A r, s \in rs : r.evse = s.evse \/ r.id = s.id => r = s
NotAhead(m, n) == /\ m.reservation <= n.reservation
                  /\ m.transaction <= n.transaction
                  /\ m.remoteStart <= n.remoteStart

\* Types: ids stay within their counters, and every counter of memory, snapshot
\* and file is in range.
TypeOK ==
  /\ reservations \subseteq Reservation
  /\ transactions \subseteq Transaction
  /\ next \in Counters
  /\ armed \subseteq ReservationIds
  /\ fired \subseteq ReservationIds
  /\ th \in [Threads -> Thread]
  /\ persistMu \in Threads \cup {NoThread}
  /\ snap \in [Threads -> File]
  /\ disk \in File
  /\ up \in BOOLEAN
  /\ epoch \in Epochs
  /\ failures \in 0..MaxFailures
  /\ dirty \in BOOLEAN
  /\ granted \subseteq Epochs \X ReservationIds
  /\ txGranted \subseteq [epoch : Epochs, id : TransactionIds, written : BOOLEAN]
  /\ gone \subseteq ReservationIds
  /\ ends \in [ReservationIds -> Nat]

(* An EVSE carries at most one record, whatever its status, over failed     *)
(* writes and restarts: BeginReservation checks and inserts in one section, *)
(* and a restart loads what some section left behind.                       *)
OneReservationPerEVSE == Unique(reservations)

(* "an integer we choose, never reused" (reservations.go:53): an id that     *)
(* BeginReservation returned is never returned again, even when writes fail  *)
(* and the process crashes, because the counter is on disk before the id is  *)
(* handed out and a later write never carries an older counter.              *)
ReservationIdsNeverReused ==
  \A g, h \in granted : g[2] = h[2] => g = h

(* NextTransactionID hands an id out twice only when the write that should   *)
(* have recorded the first one failed.                                       *)
TransactionIdsReusedOnlyIfUnwritten ==
  \A g, h \in txGranted : g.id = h.id /\ g # h => g.epoch # h.epoch /\ (g.epoch < h.epoch => ~g.written)

(* A reservation whose end was recorded never comes back: no later write     *)
(* carries an older snapshot, so no restart loads it.                        *)
NoResurrection ==
  \A i \in gone : \A r \in reservations : r.id # i

(* "the later write carries both" (persist.go:16): unless the last write     *)
(* failed, a quiet process would load exactly what it holds.                 *)
FileInStep ==
  up /\ ~dirty /\ (\A t \in Threads : th[t].phase \notin {"persist", "write"})
    => /\ disk.reservations = Persistable.reservations
       /\ disk.transactions = transactions
       /\ \A c \in DOMAIN next :
            next[c] = (IF disk.next[c] = 0 THEN 1 ELSE disk.next[c])

(* Expiry, cancellation, a starting session and an orphaned ReserveNow may   *)
(* race to end one reservation; subscribers hear of it once.                 *)
EndedOnce == \A i \in ReservationIds : ends[i] <= 1

(* The counters in the file never go back. *)
FileCountersNeverDecrease ==
  [][NotAhead(disk.next, disk'.next)]_vars
-----------------------------------------------------------------------------
(* The abstract ledger that core implements (module Ledger).               *)

Stored(r) == [id |-> r.id, evse |-> r.evse, tag |-> r.tag]

\* Reservations that callers know and the file does not have: in memory, or in
\* a snapshot that is on its way to the file.
OpenRecords ==
  LET pool == {Stored(r) : r \in {q \in reservations : Known(q)}}
                \cup UNION {snap[t].reservations : t \in {u \in Threads : th[u].phase = "write"}}
  IN pool \ disk.reservations

\* Reservations that ended and that the file still has.
StruckRecords ==
  IF up THEN {r \in disk.reservations : \A q \in reservations : q.id # r.id} ELSE {}

ReservationLedger ==
  INSTANCE Ledger WITH Records <- StoredReservation,
                       used <- {g[2] : g \in granted},
                       open <- OpenRecords,
                       kept <- disk.reservations,
                       struck <- StruckRecords

(* Core implements the ledger: the rename of the state file is the point at *)
(* which a reservation, or its end, becomes permanent, for whatever mix of  *)
(* calls, timers, failed writes and crashes (persist.go:16, store.go).      *)
ImplementsLedger == ReservationLedger!Spec
-----------------------------------------------------------------------------
(* The inductive strengthening that module CoreProofs proves.              *)

Writing(t) == th[t].phase = "write"
\* The goroutine has ended this reservation and its end is to be recorded.
Ending(t, i) == th[t].op \in {"end", "startTransaction"} /\ th[t].ends = i
Absent(i, rs) == \A r \in rs : r.id # i
Counted(rs, xs, n) == /\ \A r \in rs : r.id < n.reservation
                      /\ \A x \in xs : x.id < n.transaction

\* A process that is down holds nothing.
DownIsEmpty ==
  ~up => /\ reservations = {} /\ transactions = {} /\ persistMu = NoThread
         /\ \A t \in Threads : th[t] = Idle
         /\ epoch < MaxCrashes

LockMatchesWriter == \A t \in Threads : Writing(t) <=> persistMu = t

\* The file is never ahead of the snapshot being written, nor that of memory.
CountersAhead ==
  /\ up => NotAhead(disk.next, next)
  /\ up => 1 <= next.reservation /\ 1 <= next.transaction /\ 1 <= next.remoteStart
  /\ \A t \in Threads : Writing(t) => NotAhead(disk.next, snap[t].next) /\ NotAhead(snap[t].next, next)

\* Every id in memory, in the file or on its way there is below its counter.
IdsCounted ==
  /\ Counted(reservations, transactions, next)
  /\ Counted(disk.reservations, disk.transactions, disk.next)
  /\ \A t \in Threads : Writing(t)
       => Counted(snap[t].reservations, snap[t].transactions, snap[t].next)

RecordsUnique ==
  /\ Unique(reservations)
  /\ Unique(disk.reservations)
  /\ \A t \in Threads : Writing(t) => Unique(snap[t].reservations)

\* An id on its way to a caller is new, and on disk once its write is done.
BeginsFresh ==
  \A t \in Threads : th[t].op = "begin" =>
    /\ th[t].id \in ReservationIds /\ th[t].id < next.reservation
    /\ \A g \in granted : g[2] # th[t].id
    /\ \A u \in Threads \ {t} : th[u].op = "begin" => th[u].id # th[t].id
    /\ Writing(t) => th[t].id < snap[t].next.reservation
    /\ th[t].phase = "done" => th[t].id < disk.next.reservation

\* An id a caller knows is below the counter on disk.
GrantedRecorded ==
  /\ \A g \in granted : g[2] < disk.next.reservation
  /\ \A r \in reservations : Known(r) => r.id < disk.next.reservation

TransactionIdsTaken ==
  \A t \in Threads : th[t].op = "nextTransaction" => th[t].id \in TransactionIds

\* What is not active was never written.
OnlyActiveWritten ==
  \A r \in reservations : r.status # "active" =>
    /\ Absent(r.id, disk.reservations)
    /\ \A t \in Threads : Writing(t) => Absent(r.id, snap[t].reservations)

\* An end on its way to the file: no later write can carry the reservation.
EndsRecorded ==
  \A t \in Threads, i \in ReservationIds : Ending(t, i) =>
    /\ i < next.reservation
    /\ Absent(i, reservations)
    /\ Writing(t) => /\ Absent(i, snap[t].reservations)
                     /\ i < snap[t].next.reservation
    /\ th[t].phase = "done" =>
         /\ i < disk.next.reservation
         /\ Absent(i, disk.reservations)
         /\ \A u \in Threads : Writing(u) => Absent(i, snap[u].reservations)

GoneForGood ==
  \A i \in gone :
    /\ i < disk.next.reservation
    /\ Absent(i, reservations)
    /\ Absent(i, disk.reservations)
    /\ \A t \in Threads : Writing(t) => Absent(i, snap[t].reservations)

(* Every part is needed: an id is not reused because the file's counter is    *)
(* above it, which holds because no write carries an older counter, which     *)
(* holds because only the holder of persistMu writes.                         *)
CoreInv ==
  /\ TypeOK /\ DownIsEmpty /\ LockMatchesWriter /\ CountersAhead /\ IdsCounted
  /\ RecordsUnique /\ BeginsFresh /\ GrantedRecorded /\ TransactionIdsTaken
  /\ OnlyActiveWritten /\ EndsRecorded /\ GoneForGood
  /\ ReservationIdsNeverReused
=============================================================================
