-------------------------- MODULE SimulatorProofs --------------------------
(***************************************************************************)
(* The simulated charge point with any number of connectors, goroutines,   *)
(* reservations and transactions.  A side effect is typed by what is left  *)
(* of it: only its first step can be a StopTransaction, and whoever is to  *)
(* send one for a session has taken it off the connector before.           *)
(***************************************************************************)
EXTENDS Simulator, SequenceTheorems, FiniteSetTheorems, WellFoundedInduction, NaturalsInduction, TLAPS

Labels == {"Available", "Reserved", "Preparing", "Charging", "Finishing", "Faulted", "Unavailable", ""}
PlainSteps == [op : {"set", "status", "take", "start", "other"}, at : Nat, to : Labels]
StopSteps == [op : {"stop"}, at : Nat, to : Transactions]

ConnectorRecords == [status : Labels, transactionID : 0..MaxTransactionID, reservationID : Nat]

\* What is left of a side effect: a StopTransaction can only come first.
Todo(q) ==
  /\ q \in Seq(PlainSteps \cup StopSteps)
  /\ \A i \in 1..Len(q) : i # 1 => q[i] \in PlainSteps

Job(w) ==
  /\ w = [phase |-> w.phase, by |-> w.by, todo |-> w.todo]
  /\ w.phase \in {"free", "settling", "running"} /\ w.by \in {"after", "caller"}
  /\ Todo(w.todo)
  /\ w.phase = "free" <=> w.todo = <<>>

TypeOK ==
  /\ station \in Labels
  /\ connector \in [Connectors -> ConnectorRecords]
  /\ handling \in Requests \cup {NoCommand}
  /\ DOMAIN jobs = Slots /\ \A j \in Slots : Job(jobs[j])
  /\ wg \in Int
  /\ nextTx \in 1..(MaxTransactionID + 1)
  /\ stops \in [Transactions -> Nat]

\* Goroutine j is about to report that session x stopped.
Owes(j, x) == jobs[j].todo # <<>> /\ jobs[j].todo[1].op = "stop" /\ jobs[j].todo[1].to = x

\* A session is on one connector, or owed by one goroutine, or reported.
SessionInv ==
  /\ \A c \in Connectors : connector[c].transactionID < nextTx
  /\ \A c, d \in Connectors :
       connector[c].transactionID = connector[d].transactionID /\ connector[c].transactionID # 0 => c = d
  /\ \A j \in Slots : \A x \in Transactions : Owes(j, x) =>
       /\ x < nextTx /\ stops[x] = 0
       /\ \A c \in Connectors : connector[c].transactionID # x
       /\ \A k \in Slots : Owes(k, x) => k = j
  /\ \A x \in Transactions : stops[x] # 0 =>
       stops[x] = 1 /\ x < nextTx /\ \A c \in Connectors : connector[c].transactionID # x

\* The goroutines the WaitGroup counts.
Counted == {j \in Slots : jobs[j].phase # "free" /\ jobs[j].by = "after"}
One(b) == IF b THEN 1 ELSE 0
Alive == One(connRun = "running") + One(heart \in {"waiting", "calling"})

\* Where Connect is decides what has started.
LinkInv ==
  /\ connect \in {"dial", "boot", "report", "up", "failed"}
  /\ connRun \in {"off", "running", "ended"} /\ heart \in {"off", "waiting", "calling", "ended"}
  /\ connect = "dial" => connRun = "off"
  /\ connect \in {"boot", "report", "up"} => connRun # "off"
  /\ heart = "off" <=> connect # "up"
  /\ connect = "up" => run \in {"select", "wait", "returned"}
  /\ run \in {"select", "wait"} => connect = "up"
  /\ handling # NoCommand => connRun = "running"

WaitInv ==
  /\ wg = Alive + Cardinality(Counted)
  /\ WaitCoversAll

SimulatorInv == TypeOK /\ NoReservationInSession /\ SessionInv /\ LinkInv /\ WaitInv
-----------------------------------------------------------------------------
(* The operators *)

(* There is a least free slot when there is a free one. *)
LEMMA FreeSlot == FreeSlots # {} => Min(FreeSlots) \in FreeSlots
  <1> SUFFICES ASSUME FreeSlots # {} PROVE Min(FreeSlots) \in FreeSlots
    OBVIOUS
  <1>1. FreeSlots \subseteq Nat
    BY SimulatorAssumption DEF FreeSlots
  <1>2. PICK x \in FreeSlots : \A y \in FreeSlots : ~(<<y, x>> \in OpToRel(<, Nat))
    BY <1>1, NatLessThanWellFounded, WFMin
  <1>3. \A y \in FreeSlots : x =< y
    <2> DEFINE Less == {ss \in Nat \X Nat : ss[1] < ss[2]}
    <2>1. OpToRel(<, Nat) = Less
      BY Zenon DEF OpToRel
    <2>2. \A y \in FreeSlots : y < x => <<y, x>> \in Less
      BY <1>1
    <2> HIDE DEF Less
    <2>3. \A y \in FreeSlots : ~(y < x)
      BY Zenon, <1>2, <2>1, <2>2
    <2>4. QED
      BY <1>1, <2>3
  <1>4. QED
    BY <1>3 DEF Min

(* A step that is not a StopTransaction is not taken for one. *)
LEMMA PlainIsNoStop == \A s \in PlainSteps : s.op # "stop"
  BY DEF PlainSteps

(* The side effects begin with steps that are not StopTransactions. *)
LEMMA StepsTyped ==
  ASSUME NEW c \in Nat, NEW s \in Labels
  PROVE  /\ SetStatus(c, s) \in PlainSteps /\ SendStatus(c, s) \in PlainSteps
         /\ TakeTransaction(c) \in PlainSteps /\ SendStart(c) \in PlainSteps
         /\ SendOther \in PlainSteps
  BY DEF SetStatus, SendStatus, TakeTransaction, SendStart, SendOther, PlainSteps, Labels

Plain(q) == q \in Seq(PlainSteps) /\ q # <<>>

LEMMA EffectsPlain ==
  ASSUME NEW c \in Nat, NEW s \in Labels
  PROVE  /\ Plain(SetConnectorStatus(c, s)) /\ Plain(<<SendStatus(c, s)>>) /\ Plain(<<SendOther>>)
         /\ Plain(StopTransaction(c)) /\ Plain(StartTransaction(c))
  <1>1. "Preparing" \in Labels
    BY DEF Labels
  <1>2. /\ SetStatus(c, s) \in PlainSteps /\ SendStatus(c, s) \in PlainSteps
        /\ TakeTransaction(c) \in PlainSteps /\ SendStart(c) \in PlainSteps
        /\ SendOther \in PlainSteps
        /\ SetStatus(c, "Preparing") \in PlainSteps /\ SendStatus(c, "Preparing") \in PlainSteps
    BY <1>1, StepsTyped
  <1> HIDE DEF PlainSteps
  <1>3. Plain(SetConnectorStatus(c, s)) /\ Plain(SetConnectorStatus(c, "Preparing"))
    BY <1>2 DEF Plain, SetConnectorStatus
  <1>4. Plain(<<SendStatus(c, s)>>) /\ Plain(<<SendOther>>) /\ Plain(<<TakeTransaction(c)>>)
    BY <1>2 DEF Plain
  <1>5. Plain(StartTransaction(c))
    <2> DEFINE q == SetConnectorStatus(c, "Preparing")
    <2>1. q \in Seq(PlainSteps) /\ <<SendStart(c)>> \in Seq(PlainSteps) /\ Len(<<SendStart(c)>>) = 1
      BY <1>2, <1>3 DEF Plain
    <2> HIDE DEF q
    <2>2. q \o <<SendStart(c)>> \in Seq(PlainSteps) /\ Len(q \o <<SendStart(c)>>) = Len(q) + 1
      BY <2>1, ConcatProperties
    <2>3. Len(q) \in Nat
      BY <2>1
    <2>4. q \o <<SendStart(c)>> # <<>>
      BY <2>2, <2>3
    <2>5. QED
      BY <2>2, <2>4 DEF StartTransaction, q, Plain
  <1>6. QED
    BY <1>3, <1>4, <1>5 DEF StopTransaction

LEMMA PlainTodo == ASSUME NEW q \in Seq(PlainSteps) PROVE Todo(q)
  <1> HIDE DEF PlainSteps, StopSteps
  <1>1. q \in Seq(PlainSteps \cup StopSteps) /\ \A i \in 1..Len(q) : q[i] \in PlainSteps
    OBVIOUS
  <1>2. QED
    BY <1>1 DEF Todo

(* After its first step, nothing is left but plain steps. *)
LEMMA TodoTail ==
  ASSUME NEW q, Todo(q), q # <<>>
  PROVE  Tail(q) \in Seq(PlainSteps) /\ Head(q) = q[1] /\ q[1] \in PlainSteps \cup StopSteps
  <1> DEFINE S == PlainSteps \cup StopSteps
  <1>1. q \in Seq(S) /\ \A i \in 1..Len(q) : i # 1 => q[i] \in PlainSteps
    BY DEF Todo
  <1> HIDE DEF S, PlainSteps, StopSteps
  <1>2. Len(q) \in Nat \ {0} /\ Head(q) = q[1] /\ q[1] \in S
    BY <1>1
  <1>3. Len(Tail(q)) = Len(q) - 1 /\ \A i \in 1..(Len(q) - 1) : Tail(q)[i] = q[i + 1]
    BY <1>1, <1>2
  <1>4. \A i \in 1..(Len(q) - 1) : Tail(q)[i] \in PlainSteps
    BY <1>1, <1>2, <1>3
  <1>5. Tail(q) \in Seq(S)
    BY <1>1, <1>2
  <1>6. Tail(q) \in Seq(PlainSteps)
    <2>1. Tail(q) \in [1..Len(Tail(q)) -> S] /\ Len(Tail(q)) \in Nat
      BY <1>5, LenProperties
    <2>2. Tail(q) \in [1..Len(Tail(q)) -> PlainSteps]
      BY <1>3, <1>4, <2>1
    <2>3. QED
      BY <2>1, <2>2, SeqDef
  <1>7. QED
    BY <1>2, <1>6 DEF S
-----------------------------------------------------------------------------
(* Goroutines come, go on and go *)

\* jobs and wg are typed, and no goroutine comes to owe a StopTransaction.
NoNewDebt == \A j \in Slots : \A x \in Transactions : Owes(j, x)' => Owes(j, x)
JobsTyped == DOMAIN jobs = Slots /\ \A j \in Slots : Job(jobs[j])

LEMMA CountedFinite ==
  IsFiniteSet(Counted) /\ Cardinality(Counted) \in Nat
  <1>1. Counted \subseteq Slots
    BY DEF Counted
  <1>2. IsFiniteSet(Counted)
    BY <1>1, FS_Subset, SimulatorAssumption
  <1>3. QED
    BY <1>2, FS_CardinalityType

LEMMA CountedFiniteNext ==
  IsFiniteSet(Counted)' /\ (Cardinality(Counted) \in Nat)'
  BY CountedFinite, PTL

(* A new goroutine, in the slot that is free. *)
LEMMA Spawned ==
  ASSUME TypeOK, NEW q, Plain(q), NEW ph \in {"settling", "running"}, NEW by \in {"after", "caller"},
         FreeSlots # {},
         jobs' = [jobs EXCEPT ![Min(FreeSlots)] = [phase |-> ph, by |-> by, todo |-> q]]
  PROVE  /\ JobsTyped' /\ NoNewDebt
         /\ by = "caller" => Counted' = Counted
         /\ by = "after" => Cardinality(Counted)' = Cardinality(Counted) + 1
  <1> DEFINE j == Min(FreeSlots)
             w == [phase |-> ph, by |-> by, todo |-> q]
  <1>1. j \in Slots /\ jobs[j].phase = "free"
    BY FreeSlot DEF FreeSlots
  <1>2. w.phase = ph /\ w.by = by /\ w.todo = q
    OBVIOUS
  <1>3. Job(w)
    <2>1. q # <<>> /\ Todo(q)
      BY PlainTodo DEF Plain
    <2>2. QED
      BY <2>1 DEF Job
  <1>4. q[1].op # "stop"
    <2>1. q[1] \in PlainSteps
      <3> HIDE DEF PlainSteps
      <3>1. QED
        BY DEF Plain
    <2>2. QED
      BY <2>1, PlainIsNoStop
  <1>5. DOMAIN jobs = Slots /\ \A k \in Slots : Job(jobs[k])
    BY DEF TypeOK
  <1> HIDE DEF j, w
  <1>6. /\ DOMAIN jobs' = Slots /\ jobs'[j] = w
        /\ \A k \in Slots : k # j => jobs'[k] = jobs[k]
    BY <1>1, <1>5 DEF j, w
  <1>7. JobsTyped'
    <2>1. \A k \in Slots : Job(jobs'[k])
      BY <1>3, <1>5, <1>6
    <2>2. \A k \in Slots : Job(jobs[k])' <=> Job(jobs'[k])
      BY DEF Job, Todo
    <2>3. QED
      BY <1>6, <2>1, <2>2 DEF JobsTyped
  <1>8. NoNewDebt
    <2> SUFFICES ASSUME NEW k \in Slots, NEW x \in Transactions, Owes(k, x)' PROVE Owes(k, x)
      BY DEF NoNewDebt
    <2>1. k # j
      BY <1>2, <1>4, <1>6 DEF Owes
    <2>2. QED
      BY <1>6, <2>1 DEF Owes
  <1>9. ph # "free"
    OBVIOUS
  <1>10. \A k \in Slots : k \in Counted' <=> k \in Counted \/ (k = j /\ by = "after")
    BY <1>1, <1>2, <1>6, <1>9 DEF Counted
  <1>11. Counted' \subseteq Slots /\ Counted \subseteq Slots /\ j \notin Counted
    BY <1>1 DEF Counted
  <1>12. by = "caller" => Counted' = Counted
    BY <1>10, <1>11
  <1>13. by = "after" => Counted' = Counted \cup {j}
    BY <1>1, <1>10, <1>11
  <1>14. by = "after" => Cardinality(Counted)' = Cardinality(Counted) + 1
    BY <1>11, <1>13, CountedFinite, FS_AddElement
  <1>15. QED
    BY <1>7, <1>8, <1>12, <1>14

(* Goroutine j goes on with q, or ends and is counted off. *)
LEMMA WentOn ==
  ASSUME TypeOK, NEW j \in Slots, jobs[j].phase # "free", NEW q, Todo(q), GoOn(j, q)
  PROVE  /\ JobsTyped'
         /\ \A k \in Slots : k # j => jobs'[k] = jobs[k]
         /\ jobs'[j].todo = q
         /\ wg' \in Int /\ wg' - Cardinality(Counted)' = wg - Cardinality(Counted)
         /\ Counted' \subseteq Counted
  <1>1. DOMAIN jobs = Slots /\ wg \in Int /\ \A k \in Slots : Job(jobs[k])
    BY DEF TypeOK
  <1>2. \A k \in Slots : Job(jobs[k])' <=> Job(jobs'[k])
    BY DEF Job, Todo
  <1>3. Counted \subseteq Slots /\ Counted' \subseteq Slots
    BY DEF Counted
  <1>4. CASE q = <<>>
    <2>1. jobs' = [jobs EXCEPT ![j] = Idle] /\ wg' = IF jobs[j].by = "after" THEN wg - 1 ELSE wg
      BY <1>4 DEF GoOn
    <2>2. Idle.phase = "free" /\ Idle.by = "after" /\ Idle.todo = <<>>
      BY DEF Idle
    <2>3. Job(Idle)
      BY <1>4, <2>2 DEF Job, Idle
    <2> HIDE DEF Idle
    <2>4. /\ DOMAIN jobs' = Slots /\ jobs'[j] = Idle
          /\ \A k \in Slots : k # j => jobs'[k] = jobs[k]
      BY <1>1, <2>1
    <2>5. JobsTyped'
      BY <1>1, <1>2, <2>3, <2>4 DEF JobsTyped
    <2>6. \A k \in Slots : k \in Counted' <=> k \in Counted /\ k # j
      BY <2>2, <2>4 DEF Counted
    <2>7. Counted' = Counted \ {j}
      BY <1>3, <2>6
    <2>8. j \in Counted <=> jobs[j].by = "after"
      BY DEF Counted
    <2>9. Cardinality(Counted)' = IF jobs[j].by = "after" THEN Cardinality(Counted) - 1 ELSE Cardinality(Counted)
      BY <2>7, <2>8, CountedFinite, FS_RemoveElement
    <2>10. wg' \in Int /\ wg' - Cardinality(Counted)' = wg - Cardinality(Counted)
      BY <1>1, <2>1, <2>9, CountedFinite
    <2>11. QED
      BY <1>4, <2>2, <2>4, <2>5, <2>7, <2>10
  <1>5. CASE q # <<>>
    <2> DEFINE w == [jobs[j] EXCEPT !.todo = q]
    <2>1. jobs' = [jobs EXCEPT ![j] = w] /\ wg' = wg
      BY <1>5 DEF GoOn
    <2>2. w = [phase |-> jobs[j].phase, by |-> jobs[j].by, todo |-> q]
      BY <1>1 DEF Job
    <2> HIDE DEF w
    <2>3. w.phase = jobs[j].phase /\ w.by = jobs[j].by /\ w.todo = q
      BY <2>2
    <2>4. Job(w)
      BY <1>1, <1>5, <2>2, <2>3 DEF Job
    <2>5. /\ DOMAIN jobs' = Slots /\ jobs'[j] = w
          /\ \A k \in Slots : k # j => jobs'[k] = jobs[k]
      BY <1>1, <2>1
    <2>6. JobsTyped'
      BY <1>1, <1>2, <2>4, <2>5 DEF JobsTyped
    <2>7. \A k \in Slots : k \in Counted' <=> k \in Counted
      BY <2>3, <2>5 DEF Counted
    <2>8. Counted' = Counted
      BY <1>3, <2>7
    <2>9. QED
      BY <1>1, <2>1, <2>3, <2>5, <2>6, <2>8
  <1>6. QED
    BY <1>4, <1>5
-----------------------------------------------------------------------------
(* What steps have in common *)

LEMMA SameSessions ==
  ASSUME SessionInv, NoNewDebt, UNCHANGED <<stops, nextTx>>,
         \A c \in Connectors : connector'[c].transactionID = connector[c].transactionID
  PROVE  SessionInv'
  <1>1. \A c \in Connectors : connector'[c].transactionID < nextTx'
    BY DEF SessionInv
  <1>2. \A c, d \in Connectors :
          connector'[c].transactionID = connector'[d].transactionID /\ connector'[c].transactionID # 0 => c = d
    BY DEF SessionInv
  <1>3. \A j \in Slots : \A x \in Transactions : Owes(j, x)' =>
          /\ x < nextTx' /\ stops'[x] = 0
          /\ \A c \in Connectors : connector'[c].transactionID # x
          /\ \A k \in Slots : Owes(k, x)' => k = j
    BY DEF SessionInv, NoNewDebt
  <1>4. \A x \in Transactions : stops'[x] # 0 =>
          stops'[x] = 1 /\ x < nextTx' /\ \A c \in Connectors : connector'[c].transactionID # x
    BY DEF SessionInv
  <1>5. QED
    BY <1>1, <1>2, <1>3, <1>4 DEF SessionInv, Transactions

LEMMA SameJobs ==
  ASSUME TypeOK, UNCHANGED jobs
  PROVE  JobsTyped' /\ NoNewDebt /\ Counted' = Counted
  <1>1. JobsTyped'
    <2>1. \A k \in Slots : Job(jobs[k])' <=> Job(jobs[k])
      BY DEF Job, Todo
    <2>2. QED
      BY <2>1 DEF TypeOK, JobsTyped
  <1>2. NoNewDebt
    BY DEF NoNewDebt, Owes
  <1>3. QED
    BY <1>1, <1>2 DEF Counted

(* The counter follows its goroutines, and nobody counted joins after Run    *)
(* has returned.                                                             *)
LEMMA JobsWait ==
  ASSUME TypeOK, WaitInv, JobsTyped', UNCHANGED linkVars,
         wg' \in Int, wg' - Cardinality(Counted)' = wg - Cardinality(Counted),
         Counted' \subseteq Counted \/ connRun = "running"
  PROVE  WaitInv'
  <1>1. UNCHANGED <<connect, run, connRun, heart>>
    BY DEF linkVars
  <1>2. Alive' = Alive /\ Alive \in Int
    BY <1>1 DEF Alive, One
  <1>3. (wg = Alive + Cardinality(Counted))'
    BY <1>2, CountedFinite, CountedFiniteNext DEF WaitInv, TypeOK
  <1>4. WaitCoversAll'
    <2> SUFFICES ASSUME run = "returned", connect = "up"
                 PROVE  /\ connRun = "ended" /\ heart = "ended"
                        /\ \A j \in Slots : jobs'[j].phase # "free" => jobs'[j].by = "caller"
      BY <1>1 DEF WaitCoversAll
    <2>1. /\ connRun = "ended" /\ heart = "ended"
          /\ \A j \in Slots : jobs[j].phase # "free" => jobs[j].by = "caller"
      BY DEF WaitInv, WaitCoversAll
    <2>2. Counted = {}
      BY <2>1 DEF Counted
    <2>3. Counted' = {}
      BY <2>1, <2>2
    <2>4. \A j \in Slots : jobs'[j].by \in {"after", "caller"}
      BY DEF JobsTyped, Job
    <2>5. QED
      BY <2>1, <2>3, <2>4 DEF Counted
  <1>5. QED
    BY <1>3, <1>4 DEF WaitInv

(* What a request is made of. *)
LEMMA RequestFields ==
  ASSUME NEW h \in Requests
  PROVE  /\ h.action # "none"
         /\ h.action = "ReserveNow" => h.id \in Nat
         /\ h.action = "TriggerMessage" => h.message \in {"StatusNotification", "BootNotification"}
         /\ h.action = "TriggerMessage" /\ h.message = "StatusNotification" => h.connector \in Nat
         /\ h.action = "ChangeAvailability" => h.connector \in Nat
  <1>0. Named \cup {0} \subseteq Nat /\ Named \subseteq Nat /\ ReservationIDs \subseteq Nat
    BY SimulatorAssumption DEF Named
  <1> HIDE DEF Named
  <1>1. CASE h \in [action : {"ReserveNow"}, connector : Named, id : ReservationIDs]
    BY <1>0, <1>1
  <1>2. CASE h \in [action : {"CancelReservation"}, id : ReservationIDs]
    BY <1>2
  <1>3. CASE h \in [action : {"RemoteStart"}, connector : Named \cup {0}]
    BY <1>3
  <1>4. CASE h \in [action : {"RemoteStop"}, id : Transactions]
    BY <1>4
  <1>5. CASE h \in [action : {"TriggerMessage"}, message : {"StatusNotification"}, connector : Named \cup {0}]
    BY <1>0, <1>5
  <1>6. CASE h \in [action : {"TriggerMessage"}, message : {"BootNotification"}]
    BY <1>6
  <1>7. CASE h \in [action : {"ChangeAvailability"}, connector : Named \cup {0}, operative : BOOLEAN]
    BY <1>0, <1>7
  <1>8. CASE h \in [action : {"Other"}]
    BY <1>8
  <1>9. QED
    BY <1>1, <1>2, <1>3, <1>4, <1>5, <1>6, <1>7, <1>8 DEF Requests

(* A command answered: with no effect, or with a side effect to come. *)
LEMMA AnsweredStep ==
  ASSUME SimulatorInv, handling # NoCommand, handling' = NoCommand,
         UNCHANGED <<linkVars, station, nextTx, stops>>,
         \/ UNCHANGED <<jobs, wg>>
         \/ \E q : Plain(q) /\ After(q),
         connector' \in [Connectors -> ConnectorRecords],
         \A c \in Connectors : connector'[c].transactionID = connector[c].transactionID,
         NoReservationInSession'
  PROVE  SimulatorInv'
  <1> TypeOK /\ SessionInv /\ LinkInv /\ WaitInv
    BY DEF SimulatorInv
  <1>1. connRun = "running"
    BY DEF LinkInv
  <1>2. /\ JobsTyped' /\ NoNewDebt
        /\ wg' \in Int /\ wg' - Cardinality(Counted)' = wg - Cardinality(Counted)
    <2>1. CASE UNCHANGED <<jobs, wg>>
      BY <2>1, SameJobs DEF TypeOK
    <2>2. ASSUME NEW q, Plain(q), After(q)
          PROVE  /\ JobsTyped' /\ NoNewDebt
                 /\ wg' \in Int /\ wg' - Cardinality(Counted)' = wg - Cardinality(Counted)
      <3>1. /\ JobsTyped' /\ NoNewDebt
            /\ Cardinality(Counted)' = Cardinality(Counted) + 1
        BY <2>2, Spawned DEF After
      <3>2. wg' = wg + 1 /\ wg \in Int
        BY <2>2 DEF After, TypeOK
      <3>3. QED
        BY <3>1, <3>2, CountedFinite
    <2>3. QED
      BY <2>1, <2>2
  <1>3. TypeOK'
    BY <1>2 DEF TypeOK, JobsTyped
  <1>4. SessionInv'
    BY <1>2, SameSessions
  <1>5. LinkInv'
    BY DEF LinkInv, linkVars, NoCommand
  <1>6. WaitInv'
    BY <1>1, <1>2, JobsWait
  <1>7. QED
    BY <1>3, <1>4, <1>5, <1>6 DEF SimulatorInv
-----------------------------------------------------------------------------
(* Connect, Run, the connection and the heartbeat *)

(* A step that leaves the goroutines of side effects alone. *)
LEMMA LinkStep ==
  ASSUME SimulatorInv, UNCHANGED <<station, connector, jobs, nextTx, stops>>,
         handling' \in Requests \cup {NoCommand},
         wg' \in Int, wg' - Alive' = wg - Alive, Alive \in Int, Alive' \in Int,
         LinkInv', WaitCoversAll'
  PROVE  SimulatorInv'
  <1> TypeOK /\ SessionInv /\ NoReservationInSession /\ WaitInv
    BY DEF SimulatorInv
  <1>1. JobsTyped' /\ NoNewDebt /\ Counted' = Counted
    BY SameJobs
  <1>2. TypeOK'
    BY <1>1 DEF TypeOK, JobsTyped
  <1>3. SessionInv'
    BY <1>1, SameSessions
  <1>4. NoReservationInSession'
    BY DEF NoReservationInSession
  <1>5. WaitInv'
    BY <1>1, CountedFinite DEF WaitInv, TypeOK
  <1>6. QED
    BY <1>2, <1>3, <1>4, <1>5 DEF SimulatorInv

LEMMA LinkActions ==
  ASSUME SimulatorInv,
         \/ Dial \/ DialFails \/ Booted \/ Reported \/ ReportFails \/ RunSelects
         \/ ConnectionEnds \/ HeartbeatDue \/ HeartbeatAnswered \/ HeartbeatEnds
         \/ \E cmd \in Requests : Receive(cmd)
  PROVE  SimulatorInv'
  <1> LinkInv /\ WaitInv /\ TypeOK
    BY DEF SimulatorInv
  <1>0. wg \in Int /\ handling \in Requests \cup {NoCommand}
    BY DEF TypeOK
  <1>1. Alive \in Int /\ Alive' \in Int
    BY DEF Alive, One
  <1> HIDE DEF Requests, NoCommand
  <1>2. CASE Dial
    <2>1. WaitCoversAll'
      BY <1>2 DEF Dial, WaitCoversAll
    <2>2. LinkInv'
      BY <1>2 DEF Dial, LinkInv
    <2>3. wg' = wg + 1 /\ Alive' = Alive + 1
      BY <1>2 DEF Dial, LinkInv, Alive, One
    <2>4. QED
      BY <1>0, <1>1, <1>2, <2>1, <2>2, <2>3, LinkStep DEF Dial
  <1>3. CASE DialFails
    <2>1. WaitCoversAll' /\ LinkInv' /\ Alive' = Alive
      BY <1>3 DEF DialFails, WaitCoversAll, LinkInv, Alive
    <2>2. QED
      BY <1>0, <1>1, <1>3, <2>1, LinkStep DEF DialFails
  <1>4. CASE Booted
    <2>1. WaitCoversAll' /\ LinkInv' /\ Alive' = Alive
      BY <1>4 DEF Booted, WaitCoversAll, LinkInv, Alive
    <2>2. QED
      BY <1>0, <1>1, <1>4, <2>1, LinkStep DEF Booted
  <1>5. CASE Reported
    <2>1. WaitCoversAll'
      BY <1>5 DEF Reported, WaitCoversAll
    <2>2. LinkInv'
      BY <1>5 DEF Reported, LinkInv
    <2>3. wg' \in Int /\ wg' - Alive' = wg - Alive
      BY <1>0, <1>5 DEF Reported, LinkInv, Alive, One
    <2>4. QED
      BY <1>0, <1>1, <1>5, <2>1, <2>2, <2>3, LinkStep DEF Reported
  <1>6. CASE ReportFails
    <2>1. WaitCoversAll' /\ LinkInv' /\ Alive' = Alive
      BY <1>6 DEF ReportFails, WaitCoversAll, LinkInv, Alive
    <2>2. QED
      BY <1>0, <1>1, <1>6, <2>1, LinkStep DEF ReportFails
  <1>7. CASE RunSelects
    <2>1. WaitCoversAll' /\ LinkInv' /\ Alive' = Alive
      BY <1>7 DEF RunSelects, WaitCoversAll, LinkInv, Alive
    <2>2. QED
      BY <1>0, <1>1, <1>7, <2>1, LinkStep DEF RunSelects
  <1>8. CASE ConnectionEnds
    <2>1. WaitCoversAll'
      BY <1>8 DEF ConnectionEnds, WaitInv, WaitCoversAll
    <2>2. LinkInv'
      BY <1>8 DEF ConnectionEnds, LinkInv
    <2>3. wg' = wg - 1 /\ Alive' = Alive - 1
      BY <1>8 DEF ConnectionEnds, Alive, One
    <2>4. QED
      BY <1>0, <1>1, <1>8, <2>1, <2>2, <2>3, LinkStep DEF ConnectionEnds
  <1>9. CASE HeartbeatDue
    <2>1. WaitCoversAll' /\ LinkInv' /\ Alive' = Alive
      BY <1>9 DEF HeartbeatDue, WaitInv, WaitCoversAll, LinkInv, Alive
    <2>2. QED
      BY <1>0, <1>1, <1>9, <2>1, LinkStep DEF HeartbeatDue
  <1>10. CASE HeartbeatAnswered
    <2>1. WaitCoversAll' /\ LinkInv' /\ Alive' = Alive
      BY <1>10 DEF HeartbeatAnswered, WaitInv, WaitCoversAll, LinkInv, Alive
    <2>2. QED
      BY <1>0, <1>1, <1>10, <2>1, LinkStep DEF HeartbeatAnswered
  <1>11. CASE HeartbeatEnds
    <2>1. WaitCoversAll'
      BY <1>11 DEF HeartbeatEnds, WaitInv, WaitCoversAll
    <2>2. LinkInv'
      BY <1>11 DEF HeartbeatEnds, LinkInv
    <2>3. wg' = wg - 1 /\ Alive' = Alive - 1
      BY <1>11 DEF HeartbeatEnds, Alive, One
    <2>4. QED
      BY <1>0, <1>1, <1>11, <2>1, <2>2, <2>3, LinkStep DEF HeartbeatEnds
  <1>12. ASSUME NEW cmd \in Requests, Receive(cmd) PROVE SimulatorInv'
    <2>0. UNCHANGED <<scenario, connect, run, done, connRun, heart>>
      BY <1>12 DEF Receive, linkVars
    <2>1. WaitCoversAll'
      BY <1>12, <2>0 DEF Receive, WaitInv, WaitCoversAll
    <2>2. LinkInv'
      BY <1>12, <2>0 DEF Receive, LinkInv, NoCommand
    <2>3. Alive' = Alive
      BY <2>0 DEF Alive
    <2>4. QED
      BY <1>0, <1>1, <1>12, <2>1, <2>2, <2>3, LinkStep DEF Receive
  <1>13. QED
    BY <1>2, <1>3, <1>4, <1>5, <1>6, <1>7, <1>8, <1>9, <1>10, <1>11, <1>12

(* Wait returns at zero: then nothing the WaitGroup counts is left. *)
LEMMA WaitAction ==
  ASSUME SimulatorInv, Wait
  PROVE  SimulatorInv'
  <1> LinkInv /\ WaitInv /\ TypeOK
    BY DEF SimulatorInv
  <1>1. connect = "up" /\ heart # "off" /\ connRun # "off"
    BY DEF Wait, LinkInv
  <1>2. One(connRun = "running") \in Nat /\ One(heart \in {"waiting", "calling"}) \in Nat
    BY DEF One
  <1>3. /\ One(connRun = "running") = 0 /\ One(heart \in {"waiting", "calling"}) = 0
        /\ Cardinality(Counted) = 0
    BY <1>2, CountedFinite DEF Wait, WaitInv, Alive
  <1>4. connRun = "ended" /\ heart = "ended"
    BY <1>1, <1>3 DEF One, LinkInv
  <1>5. Counted = {}
    BY <1>3, CountedFinite, FS_EmptySet
  <1>6. \A j \in Slots : jobs[j].by \in {"after", "caller"}
    BY DEF TypeOK, Job
  <1>7. WaitCoversAll'
    BY <1>4, <1>5, <1>6 DEF Wait, WaitCoversAll, Counted
  <1>8. LinkInv'
    BY DEF Wait, LinkInv
  <1>9. Alive' = Alive /\ Alive \in Int /\ wg \in Int /\ handling \in Requests \cup {NoCommand}
    BY DEF Wait, Alive, One, TypeOK
  <1>10. QED
    BY <1>7, <1>8, <1>9, LinkStep DEF Wait
-----------------------------------------------------------------------------
(* The handlers *)

LEMMA HandlerActions ==
  ASSUME SimulatorInv, HandleCall
  PROVE  SimulatorInv'
  <1> TypeOK /\ NoReservationInSession
    BY DEF SimulatorInv
  <1> USE DEF NoEffect
  <1>0. /\ connector \in [Connectors -> ConnectorRecords] /\ station \in Labels
        /\ handling \in Requests \cup {NoCommand} /\ Connectors \subseteq Nat
    BY SimulatorAssumption DEF TypeOK
  <1>1. handling.action # "none" => handling \in Requests /\ handling # NoCommand
    BY <1>0 DEF NoCommand
  <1>2. UNCHANGED connector => /\ connector' \in [Connectors -> ConnectorRecords]
                               /\ \A c \in Connectors : connector'[c].transactionID = connector[c].transactionID
                               /\ NoReservationInSession'
    BY <1>0 DEF NoReservationInSession
  <1>3. "Reserved" \in Labels /\ "Available" \in Labels /\ "Unavailable" \in Labels /\ "" \in Labels
    BY DEF Labels
  <1> HIDE DEF Requests, NoCommand
  <1>4. \A c \in Connectors : /\ Plain(StartTransaction(c)) /\ Plain(StopTransaction(c))
                              /\ Plain(<<SendStatus(c, "Reserved")>>) /\ Plain(<<SendStatus(c, "Available")>>)
    BY <1>0, <1>3, EffectsPlain
  <1>5. CASE ReserveNow
    <2> DEFINE c == handling.connector
    <2>1. handling.action = "ReserveNow" /\ handling # NoCommand /\ handling' = NoCommand /\ handling.id \in Nat
      BY <1>1, <1>5, RequestFields DEF ReserveNow, Answered
    <2>2. UNCHANGED <<linkVars, station, nextTx, stops>>
      BY <1>5 DEF ReserveNow
    <2>3. CASE ~MayReserve(c)
      BY <1>2, <1>5, <2>1, <2>2, <2>3, AnsweredStep DEF ReserveNow
    <2>4. CASE MayReserve(c)
      <3> DEFINE w == [connector[c] EXCEPT !.reservationID = handling.id, !.status = "Reserved"]
      <3>1. c \in Connectors /\ connector[c].transactionID = 0
        BY <2>4 DEF MayReserve
      <3>2. connector' = [connector EXCEPT ![c] = w] /\ After(<<SendStatus(c, "Reserved")>>)
        BY <1>5, <2>4 DEF ReserveNow
      <3>3. w \in ConnectorRecords /\ w.transactionID = 0
        BY <1>0, <1>3, <2>1, <3>1 DEF ConnectorRecords
      <3> HIDE DEF w, c
      <3>4. /\ connector' \in [Connectors -> ConnectorRecords]
            /\ \A d \in Connectors : connector'[d].transactionID = connector[d].transactionID
            /\ NoReservationInSession'
        BY <1>0, <3>1, <3>2, <3>3 DEF NoReservationInSession
      <3>5. QED
        BY <1>4, <2>1, <2>2, <3>1, <3>2, <3>4, AnsweredStep
    <2>5. QED
      BY <2>3, <2>4
  <1>6. CASE CancelReservation
    <2>1. handling.action = "CancelReservation" /\ handling # NoCommand /\ handling' = NoCommand
      BY <1>1, <1>6 DEF CancelReservation, Answered
    <2>2. UNCHANGED <<linkVars, station, nextTx, stops>>
      BY <1>6 DEF CancelReservation
    <2>3. CASE UNCHANGED <<connector, jobs, wg>>
      BY <1>2, <2>1, <2>2, <2>3, AnsweredStep
    <2>4. ASSUME NEW c \in Connectors,
                 connector' = [connector EXCEPT ![c].reservationID = 0, ![c].status = "Available"],
                 After(<<SendStatus(c, "Available")>>)
          PROVE  SimulatorInv'
      <3> DEFINE w == [connector[c] EXCEPT !.reservationID = 0, !.status = "Available"]
      <3>1. connector' = [connector EXCEPT ![c] = w]
        BY <2>4
      <3>2. w \in ConnectorRecords /\ w.transactionID = connector[c].transactionID /\ w.reservationID = 0
        BY <1>0, <1>3 DEF ConnectorRecords
      <3> HIDE DEF w
      <3>3. /\ connector' \in [Connectors -> ConnectorRecords]
            /\ \A d \in Connectors : connector'[d].transactionID = connector[d].transactionID
            /\ NoReservationInSession'
        BY <1>0, <3>1, <3>2 DEF NoReservationInSession
      <3>4. QED
        BY <1>4, <2>1, <2>2, <2>4, <3>3, AnsweredStep
    <2>5. QED
      BY <1>6, <2>3, <2>4 DEF CancelReservation
  <1>7. CASE RemoteStart
    <2>1. handling.action = "RemoteStart" /\ handling # NoCommand /\ handling' = NoCommand
      BY <1>1, <1>7 DEF RemoteStart, Answered
    <2>2. UNCHANGED <<linkVars, station, nextTx, stops, connector>>
      BY <1>7 DEF RemoteStart
    <2>3. \/ UNCHANGED <<jobs, wg>>
          \/ \E q : Plain(q) /\ After(q)
      BY <1>4, <1>7 DEF RemoteStart
    <2>4. QED
      BY <1>2, <2>1, <2>2, <2>3, AnsweredStep
  <1>8. CASE RemoteStop
    <2>1. handling.action = "RemoteStop" /\ handling # NoCommand /\ handling' = NoCommand
      BY <1>1, <1>8 DEF RemoteStop, Answered
    <2>2. UNCHANGED <<linkVars, station, nextTx, stops, connector>>
      BY <1>8 DEF RemoteStop
    <2>3. \/ UNCHANGED <<jobs, wg>>
          \/ \E q : Plain(q) /\ After(q)
      BY <1>4, <1>8 DEF RemoteStop
    <2>4. QED
      BY <1>2, <2>1, <2>2, <2>3, AnsweredStep
  <1>9. CASE TriggerMessage
    <2>1. handling.action = "TriggerMessage" /\ handling # NoCommand /\ handling' = NoCommand
      BY <1>1, <1>9 DEF TriggerMessage, Answered
    <2>2. UNCHANGED <<linkVars, station, nextTx, stops, connector>>
      BY <1>9 DEF TriggerMessage
    <2> DEFINE s == IF handling.connector = 0 THEN station
                    ELSE IF handling.connector \in Connectors
                         THEN connector[handling.connector].status ELSE ""
    <2>3. handling.message = "StatusNotification" => handling.connector \in Nat /\ s \in Labels
      BY <1>0, <1>1, <1>3, <2>1, RequestFields DEF ConnectorRecords
    <2>4. After(IF handling.message # "StatusNotification" THEN <<SendOther>>
                ELSE <<SendStatus(handling.connector, s)>>)
      BY <1>9 DEF TriggerMessage
    <2> HIDE DEF s
    <2>5. handling.message = "StatusNotification" => Plain(<<SendStatus(handling.connector, s)>>)
      BY <2>3, EffectsPlain
    <2>6. Plain(<<SendOther>>)
      BY <1>3, EffectsPlain
    <2>7. \E q : Plain(q) /\ After(q)
      BY <2>4, <2>5, <2>6
    <2>8. QED
      BY <1>2, <2>1, <2>2, <2>7, AnsweredStep
  <1>10. CASE ChangeAvailability
    <2>1. handling.action = "ChangeAvailability" /\ handling # NoCommand /\ handling' = NoCommand
      BY <1>1, <1>10 DEF ChangeAvailability, Answered
    <2>2. UNCHANGED <<linkVars, station, nextTx, stops, connector>>
      BY <1>10 DEF ChangeAvailability
    <2> DEFINE s == IF handling.operative THEN "Available" ELSE "Unavailable"
    <2>3. handling.connector \in Nat
      BY <1>1, <2>1, RequestFields
    <2>4. After(SetConnectorStatus(handling.connector, s)) /\ s \in Labels
      BY <1>3, <1>10 DEF ChangeAvailability
    <2> HIDE DEF s
    <2>5. \E q : Plain(q) /\ After(q)
      BY <2>3, <2>4, EffectsPlain
    <2>6. QED
      BY <1>2, <2>1, <2>2, <2>5, AnsweredStep
  <1>11. CASE AnswerOnly
    <2>1. handling.action = "Other" /\ handling # NoCommand /\ handling' = NoCommand
      BY <1>1, <1>11 DEF AnswerOnly, Answered
    <2>2. QED
      BY <1>2, <1>11, <2>1, AnsweredStep DEF AnswerOnly
  <1>12. CASE StallEnds
    BY <1>2, <1>12, AnsweredStep DEF StallEnds
  <1>13. QED
    BY <1>5, <1>6, <1>7, <1>8, <1>9, <1>10, <1>11, <1>12 DEF HandleCall
-----------------------------------------------------------------------------
(* The side effects *)

LEMMA LocalAction ==
  ASSUME SimulatorInv, NEW q, Plain(q), Local(q)
  PROVE  SimulatorInv'
  <1> TypeOK /\ SessionInv /\ NoReservationInSession /\ LinkInv /\ WaitInv
    BY DEF SimulatorInv
  <1>1. UNCHANGED <<linkVars, station, connector, handling, wg, nextTx, stops>>
    BY DEF Local
  <1>2. JobsTyped' /\ NoNewDebt /\ Counted' = Counted
    BY Spawned DEF Local
  <1>3. TypeOK'
    BY <1>1, <1>2 DEF TypeOK, JobsTyped
  <1>4. SessionInv'
    BY <1>1, <1>2, SameSessions
  <1>5. NoReservationInSession'
    BY <1>1 DEF NoReservationInSession
  <1>6. LinkInv'
    BY <1>1 DEF LinkInv, linkVars
  <1>7. WaitInv'
    <2>1. wg' \in Int /\ wg' - Cardinality(Counted)' = wg - Cardinality(Counted)
      BY <1>1, <1>2, CountedFinite DEF TypeOK
    <2>2. QED
      BY <1>1, <1>2, <2>1, JobsWait
  <1>8. QED
    BY <1>3, <1>4, <1>5, <1>6, <1>7 DEF SimulatorInv

(* Whatever else a goroutine's step does, it keeps types, link and counter. *)
LEMMA JobStep ==
  ASSUME SimulatorInv, NEW j \in Slots, jobs[j].phase # "free",
         NEW q, Todo(q), GoOn(j, q), UNCHANGED <<linkVars, handling>>,
         station' \in Labels, connector' \in [Connectors -> ConnectorRecords],
         nextTx' \in 1..(MaxTransactionID + 1), stops' \in [Transactions -> Nat]
  PROVE  /\ TypeOK' /\ LinkInv' /\ WaitInv'
         /\ \A k \in Slots : k # j => jobs'[k] = jobs[k]
         /\ jobs'[j].todo = q
  <1> TypeOK /\ LinkInv /\ WaitInv
    BY DEF SimulatorInv
  <1>1. /\ JobsTyped'
        /\ \A k \in Slots : k # j => jobs'[k] = jobs[k]
        /\ jobs'[j].todo = q
        /\ wg' \in Int /\ wg' - Cardinality(Counted)' = wg - Cardinality(Counted)
        /\ Counted' \subseteq Counted
    BY WentOn
  <1>2. TypeOK'
    BY <1>1 DEF TypeOK, JobsTyped
  <1>3. LinkInv'
    BY DEF LinkInv, linkVars
  <1>4. WaitInv'
    BY <1>1, JobsWait
  <1>5. QED
    BY <1>1, <1>2, <1>3, <1>4

(* Who goes on with plain steps owes nothing, and no one else owes more. *)
LEMMA PlainDebt ==
  ASSUME NEW j \in Slots, NEW q \in Seq(PlainSteps), jobs'[j].todo = q,
         \A k \in Slots : k # j => jobs'[k] = jobs[k]
  PROVE  /\ \A x \in Transactions : ~Owes(j, x)'
         /\ NoNewDebt
  <1>1. q # <<>> => q[1] \in PlainSteps
    <2> HIDE DEF PlainSteps
    <2>1. QED
      OBVIOUS
  <1>2. \A x \in Transactions : ~Owes(j, x)'
    BY <1>1, PlainIsNoStop DEF Owes
  <1>3. \A k \in Slots : \A x \in Transactions : k # j => (Owes(k, x)' <=> Owes(k, x))
    BY DEF Owes
  <1>4. QED
    BY <1>2, <1>3 DEF NoNewDebt

(* A step that touches no session. *)
LEMMA PlainStep ==
  ASSUME SimulatorInv, NEW j \in Slots, jobs[j].phase # "free",
         NEW q \in Seq(PlainSteps), GoOn(j, q), UNCHANGED <<linkVars, handling, nextTx, stops>>,
         station' \in Labels, connector' \in [Connectors -> ConnectorRecords],
         \A c \in Connectors : connector'[c].transactionID = connector[c].transactionID,
         NoReservationInSession'
  PROVE  SimulatorInv'
  <1> TypeOK /\ SessionInv
    BY DEF SimulatorInv
  <1>1. nextTx' \in 1..(MaxTransactionID + 1) /\ stops' \in [Transactions -> Nat] /\ Todo(q)
    BY PlainTodo DEF TypeOK
  <1>2. /\ TypeOK' /\ LinkInv' /\ WaitInv'
        /\ \A k \in Slots : k # j => jobs'[k] = jobs[k]
        /\ jobs'[j].todo = q
    BY <1>1, JobStep
  <1>3. NoNewDebt
    BY <1>2, PlainDebt
  <1>4. SessionInv'
    BY <1>3, SameSessions
  <1>5. QED
    BY <1>2, <1>4 DEF SimulatorInv

(* The step a goroutine is at. *)
LEMMA AtStep ==
  ASSUME TypeOK, NEW j \in Slots, jobs[j].phase # "free"
  PROVE  /\ jobs[j].todo # <<>> /\ Next1(j) = jobs[j].todo[1]
         /\ Later(j) \in Seq(PlainSteps)
         /\ Next1(j).at \in Nat
         /\ Next1(j).op # "stop" => Next1(j).to \in Labels
         /\ Next1(j).op = "stop" => Next1(j).to \in Transactions
  <1>1. Job(jobs[j])
    BY DEF TypeOK
  <1>2. jobs[j].todo # <<>> /\ Todo(jobs[j].todo)
    BY <1>1 DEF Job
  <1>3. Later(j) \in Seq(PlainSteps) /\ Next1(j) = jobs[j].todo[1] /\ Next1(j) \in PlainSteps \cup StopSteps
    BY <1>2, TodoTail DEF Next1, Later
  <1>4. \A s \in PlainSteps : s.at \in Nat /\ s.op # "stop" /\ s.to \in Labels
    BY DEF PlainSteps
  <1>5. \A s \in StopSteps : s.at \in Nat /\ s.op = "stop" /\ s.to \in Transactions
    BY DEF StopSteps
  <1>6. QED
    BY <1>2, <1>3, <1>4, <1>5

LEMMA EmptyPlain == <<>> \in Seq(PlainSteps)
  <1> HIDE DEF PlainSteps
  <1>1. QED
    OBVIOUS

(* What is left once a session has been taken off its connector. *)
LEMMA StopTodo ==
  ASSUME NEW c \in Nat, NEW x \in Transactions,
         NEW q, q = <<SendStop(c, x)>> \o SetConnectorStatus(c, "Finishing") \o SetConnectorStatus(c, "Available")
  PROVE  Todo(q) /\ q # <<>> /\ q[1] = SendStop(c, x)
  <1> DEFINE S == PlainSteps \cup StopSteps
             p == <<SendStop(c, x)>>
             r == SetConnectorStatus(c, "Finishing")
             t == SetConnectorStatus(c, "Available")
  <1>1. "Finishing" \in Labels /\ "Available" \in Labels
    BY DEF Labels
  <1>2. r \in Seq(PlainSteps) /\ t \in Seq(PlainSteps)
    BY <1>1, EffectsPlain DEF Plain
  <1>3. SendStop(c, x) \in S
    BY DEF SendStop, StopSteps
  <1> HIDE DEF S, r, t
  <1>4. p \in Seq(S) /\ Len(p) = 1 /\ p[1] = SendStop(c, x)
    BY <1>3
  <1>5. r \in Seq(S) /\ t \in Seq(S)
    <2> HIDE DEF PlainSteps, StopSteps
    <2>1. QED
      BY <1>2 DEF S
  <1> HIDE DEF p, PlainSteps, StopSteps
  <1>6. /\ p \o r \in Seq(S) /\ Len(p \o r) = 1 + Len(r) /\ Len(r) \in Nat /\ Len(t) \in Nat
        /\ \A i \in 1..Len(p \o r) : (p \o r)[i] = IF i <= 1 THEN p[i] ELSE r[i - 1]
    <2>1. /\ p \o r \in Seq(S) /\ Len(p \o r) = Len(p) + Len(r)
          /\ \A i \in 1..(Len(p) + Len(r)) : (p \o r)[i] = IF i <= Len(p) THEN p[i] ELSE r[i - Len(p)]
      BY <1>4, <1>5, ConcatProperties
    <2>2. Len(r) \in Nat /\ Len(t) \in Nat
      BY <1>5, LenProperties
    <2>3. QED
      BY <1>4, <2>1, <2>2
  <1>7. /\ (p \o r) \o t \in Seq(S) /\ Len((p \o r) \o t) = 1 + Len(r) + Len(t)
        /\ \A i \in 1..Len((p \o r) \o t) :
             ((p \o r) \o t)[i] = IF i <= 1 + Len(r) THEN (p \o r)[i] ELSE t[i - (1 + Len(r))]
    <2> DEFINE u == p \o r
    <2>1. u \in Seq(S) /\ Len(u) = 1 + Len(r)
      BY <1>6
    <2> HIDE DEF u
    <2>2. /\ u \o t \in Seq(S) /\ Len(u \o t) = Len(u) + Len(t)
          /\ \A i \in 1..(Len(u) + Len(t)) : (u \o t)[i] = IF i <= Len(u) THEN u[i] ELSE t[i - Len(u)]
      BY <1>5, <2>1, ConcatProperties
    <2>3. QED
      BY <1>6, <2>1, <2>2 DEF u
  <1>8. q = (p \o r) \o t
    BY DEF p, r, t
  <1>9. q[1] = SendStop(c, x) /\ q # <<>>
    BY <1>4, <1>6, <1>7, <1>8
  <1>10. \A i \in 1..Len(r) : r[i] \in PlainSteps
    BY <1>2
  <1>11. \A i \in 1..Len(t) : t[i] \in PlainSteps
    BY <1>2
  <1>12. ASSUME NEW i \in 1..Len(q), i # 1 PROVE q[i] \in PlainSteps
    <2>1. CASE i <= 1 + Len(r)
      <3>1. q[i] = r[i - 1] /\ i - 1 \in 1..Len(r)
        BY <1>6, <1>7, <1>8, <1>12, <2>1
      <3>2. QED
        BY <1>10, <3>1
    <2>2. CASE i > 1 + Len(r)
      <3>1. q[i] = t[i - (1 + Len(r))] /\ i - (1 + Len(r)) \in 1..Len(t)
        BY <1>6, <1>7, <1>8, <1>12, <2>2
      <3>2. QED
        BY <1>11, <3>1
    <2>3. QED
      BY <1>6, <1>7, <1>8, <2>1, <2>2
  <1>13. QED
    BY <1>7, <1>8, <1>9, <1>12 DEF Todo, S

LEMMA SettleAction ==
  ASSUME SimulatorInv, NEW j \in Slots, Settle(j)
  PROVE  SimulatorInv'
  <1> TypeOK /\ SessionInv /\ NoReservationInSession /\ LinkInv /\ WaitInv
    BY DEF SimulatorInv
  <1>1. UNCHANGED <<linkVars, station, connector, handling, wg, nextTx, stops>> /\ jobs[j].phase = "settling"
    BY DEF Settle
  <1> DEFINE w == [jobs[j] EXCEPT !.phase = "running"]
  <1>2. jobs' = [jobs EXCEPT ![j] = w] /\ DOMAIN jobs = Slots /\ \A k \in Slots : Job(jobs[k])
    BY DEF Settle, TypeOK
  <1>3. w = [phase |-> "running", by |-> jobs[j].by, todo |-> jobs[j].todo]
    BY <1>2 DEF Job
  <1> HIDE DEF w
  <1>4. w.phase = "running" /\ w.by = jobs[j].by /\ w.todo = jobs[j].todo
    BY <1>3
  <1>5. Job(w)
    BY <1>1, <1>2, <1>3, <1>4 DEF Job
  <1>6. /\ DOMAIN jobs' = Slots /\ jobs'[j] = w
        /\ \A k \in Slots : k # j => jobs'[k] = jobs[k]
    BY <1>2
  <1>7. JobsTyped'
    <2>1. \A k \in Slots : Job(jobs[k])' <=> Job(jobs'[k])
      BY DEF Job, Todo
    <2>2. QED
      BY <1>2, <1>5, <1>6, <2>1 DEF JobsTyped
  <1>8. NoNewDebt
    BY <1>4, <1>6 DEF NoNewDebt, Owes
  <1>9. Counted' = Counted
    <2>1. \A k \in Slots : k \in Counted' <=> k \in Counted
      BY <1>1, <1>4, <1>6 DEF Counted
    <2>2. Counted \subseteq Slots /\ Counted' \subseteq Slots
      BY DEF Counted
    <2>3. QED
      BY <2>1, <2>2
  <1>10. TypeOK'
    BY <1>1, <1>7 DEF TypeOK, JobsTyped
  <1>11. SessionInv'
    BY <1>1, <1>8, SameSessions
  <1>12. NoReservationInSession' /\ LinkInv'
    BY <1>1 DEF NoReservationInSession, LinkInv, linkVars
  <1>13. WaitInv'
    <2>1. wg' \in Int /\ wg' - Cardinality(Counted)' = wg - Cardinality(Counted)
      BY <1>1, <1>9, CountedFinite DEF TypeOK
    <2>2. QED
      BY <1>1, <1>7, <1>9, <2>1, JobsWait
  <1>14. QED
    BY <1>10, <1>11, <1>12, <1>13 DEF SimulatorInv

(* The steps that touch no session. *)
LEMMA PlainActions ==
  ASSUME SimulatorInv, NEW j \in Slots,
         SettleAborted(j) \/ Set(j) \/ Told(j) \/ CallFails(j) \/ StartRefused(j)
  PROVE  SimulatorInv'
  <1> TypeOK /\ NoReservationInSession
    BY DEF SimulatorInv
  <1>0. jobs[j].phase # "free"
    BY DEF SettleAborted, Set, Told, CallFails, StartRefused, At
  <1>1. station \in Labels /\ connector \in [Connectors -> ConnectorRecords]
    BY DEF TypeOK
  <1>2. UNCHANGED connector => /\ connector' \in [Connectors -> ConnectorRecords]
                               /\ \A c \in Connectors : connector'[c].transactionID = connector[c].transactionID
                               /\ NoReservationInSession'
    BY <1>1 DEF NoReservationInSession
  <1>3. Later(j) \in Seq(PlainSteps) /\ Next1(j).at \in Nat
    BY <1>0, AtStep
  <1>4. CASE SettleAborted(j)
    BY <1>0, <1>1, <1>2, <1>4, EmptyPlain, PlainStep DEF SettleAborted
  <1>5. CASE Told(j)
    BY <1>0, <1>1, <1>2, <1>3, <1>5, PlainStep DEF Told
  <1>6. CASE CallFails(j)
    BY <1>0, <1>1, <1>2, <1>6, EmptyPlain, PlainStep DEF CallFails
  <1>7. CASE StartRefused(j)
    <2>1. "Available" \in Labels
      BY DEF Labels
    <2>2. SetConnectorStatus(Next1(j).at, "Available") \in Seq(PlainSteps)
      BY <1>3, <2>1, EffectsPlain DEF Plain
    <2>3. QED
      BY <1>0, <1>1, <1>2, <1>7, <2>2, PlainStep DEF StartRefused
  <1>8. CASE Set(j)
    <2> DEFINE c == Next1(j).at
               q == IF c \in Connectors \cup {0} THEN Later(j) ELSE <<>>
    <2>1. Next1(j).to \in Labels
      BY <1>0, <1>8, AtStep DEF Set, At
    <2>2. q \in Seq(PlainSteps) /\ GoOn(j, q) /\ UNCHANGED <<linkVars, handling, nextTx, stops>>
      BY <1>3, <1>8, EmptyPlain DEF Set
    <2>3. station' \in Labels
      BY <1>1, <1>8, <2>1 DEF Set
    <2>4. connector' = [d \in Connectors |-> IF d = c THEN [connector[d] EXCEPT !.status = Next1(j).to]
                                                      ELSE connector[d]]
      BY <1>8 DEF Set
    <2> HIDE DEF q, c
    <2>5. ASSUME NEW d \in Connectors
          PROVE  /\ connector'[d] \in ConnectorRecords
                 /\ connector'[d].transactionID = connector[d].transactionID
                 /\ connector'[d].reservationID = connector[d].reservationID
      BY <1>1, <2>1, <2>4 DEF ConnectorRecords
    <2>6. connector' \in [Connectors -> ConnectorRecords]
      BY <2>4, <2>5
    <2>7. NoReservationInSession'
      BY <2>5 DEF NoReservationInSession
    <2>8. QED
      BY <1>0, <2>2, <2>3, <2>5, <2>6, <2>7, PlainStep
  <1>9. QED
    BY <1>4, <1>5, <1>6, <1>7, <1>8

(* A session begins: its id is new. *)
LEMMA StartAction ==
  ASSUME SimulatorInv, NEW j \in Slots, StartAccepted(j)
  PROVE  SimulatorInv'
  <1> TypeOK /\ NoReservationInSession /\ SessionInv
    BY DEF SimulatorInv
  <1> DEFINE c == Next1(j).at
             q == SetConnectorStatus(c, "Charging")
  <1>0. jobs[j].phase # "free"
    BY DEF StartAccepted, At
  <1>1. /\ GoOn(j, q) /\ UNCHANGED <<linkVars, station, handling, stops>>
        /\ nextTx <= MaxTransactionID /\ nextTx' = nextTx + 1
        /\ connector' = [connector EXCEPT ![c].transactionID = nextTx, ![c].reservationID = 0]
    BY DEF StartAccepted
  <1>2. c \in Nat /\ "Charging" \in Labels
    BY <1>0, AtStep DEF Labels
  <1>3. q \in Seq(PlainSteps)
    BY <1>2, EffectsPlain DEF Plain
  <1>4. /\ station \in Labels /\ connector \in [Connectors -> ConnectorRecords]
        /\ nextTx \in 1..(MaxTransactionID + 1) /\ stops \in [Transactions -> Nat]
        /\ MaxTransactionID \in Nat
    BY SimulatorAssumption DEF TypeOK
  <1> HIDE DEF c, q
  <1>5. ASSUME NEW d \in Connectors
        PROVE  /\ connector'[d] \in ConnectorRecords
               /\ connector'[d].transactionID = IF d = c THEN nextTx ELSE connector[d].transactionID
               /\ connector'[d].reservationID = IF d = c THEN 0 ELSE connector[d].reservationID
    <2>1. CASE d # c
      BY <1>1, <1>4, <2>1
    <2>2. CASE d = c
      <3> DEFINE w == [connector[c] EXCEPT !.transactionID = nextTx, !.reservationID = 0]
      <3>1. connector' = [connector EXCEPT ![c] = w]
        BY <1>1
      <3>0. nextTx \in 0..MaxTransactionID /\ connector[c] \in ConnectorRecords
        BY <1>1, <1>4, <2>2
      <3>2. w \in ConnectorRecords /\ w.transactionID = nextTx /\ w.reservationID = 0
        BY <3>0 DEF ConnectorRecords
      <3> HIDE DEF w
      <3>3. QED
        BY <1>4, <2>2, <3>1, <3>2
    <2>3. QED
      BY <2>1, <2>2
  <1>6. connector' \in [Connectors -> ConnectorRecords]
    BY <1>1, <1>4, <1>5
  <1>7. /\ TypeOK' /\ LinkInv' /\ WaitInv'
        /\ \A k \in Slots : k # j => jobs'[k] = jobs[k]
        /\ jobs'[j].todo = q
    <2>1. nextTx' \in 1..(MaxTransactionID + 1) /\ stops' \in [Transactions -> Nat] /\ station' \in Labels
      BY <1>1, <1>4
    <2>2. Todo(q)
      BY <1>3, PlainTodo
    <2>3. QED
      BY <1>0, <1>1, <1>6, <2>1, <2>2, JobStep
  <1>8. NoNewDebt
    BY <1>3, <1>7, PlainDebt
  <1>9. NoReservationInSession'
    BY <1>5 DEF NoReservationInSession
  <1>10. \A d \in Connectors : connector[d].transactionID \in Nat
    BY <1>4 DEF ConnectorRecords
  <1>11. SessionInv'
    <2>1. \A d \in Connectors : connector'[d].transactionID < nextTx'
      BY <1>1, <1>4, <1>5, <1>10 DEF SessionInv
    <2>2. \A d, e \in Connectors :
            connector'[d].transactionID = connector'[e].transactionID /\ connector'[d].transactionID # 0 => d = e
      BY <1>4, <1>5, <1>10 DEF SessionInv
    <2>3. \A k \in Slots : \A x \in Transactions : Owes(k, x)' =>
            /\ x < nextTx' /\ stops'[x] = 0
            /\ \A d \in Connectors : connector'[d].transactionID # x
            /\ \A m \in Slots : Owes(m, x)' => m = k
      BY <1>1, <1>4, <1>5, <1>8 DEF SessionInv, NoNewDebt, Transactions
    <2>4. \A x \in Transactions : stops'[x] # 0 =>
            stops'[x] = 1 /\ x < nextTx' /\ \A d \in Connectors : connector'[d].transactionID # x
      BY <1>1, <1>4, <1>5 DEF SessionInv, Transactions
    <2>5. QED
      BY <2>1, <2>2, <2>3, <2>4 DEF SessionInv, Transactions
  <1>12. QED
    BY <1>7, <1>9, <1>11 DEF SimulatorInv

(* A session is taken off its connector: goroutine j now owes its report. *)
LEMMA TakeAction ==
  ASSUME SimulatorInv, NEW j \in Slots, Take(j)
  PROVE  SimulatorInv'
  <1> TypeOK /\ NoReservationInSession /\ SessionInv
    BY DEF SimulatorInv
  <1> DEFINE c == Next1(j).at
             x == connector[c].transactionID
  <1>0. jobs[j].phase # "free"
    BY DEF Take, At
  <1>1. /\ UNCHANGED <<linkVars, station, handling, nextTx, stops>>
        /\ connector' = [connector EXCEPT ![c].transactionID = 0]
    BY DEF Take
  <1>2. c \in Nat
    BY <1>0, AtStep
  <1>3. /\ station \in Labels /\ connector \in [Connectors -> ConnectorRecords]
        /\ nextTx \in 1..(MaxTransactionID + 1) /\ stops \in [Transactions -> Nat]
        /\ MaxTransactionID \in Nat
    BY SimulatorAssumption DEF TypeOK
  <1>4. ASSUME NEW d \in Connectors
        PROVE  /\ connector'[d] \in ConnectorRecords
               /\ connector'[d].transactionID = IF d = c THEN 0 ELSE connector[d].transactionID
               /\ connector'[d].reservationID = connector[d].reservationID
    <2>1. CASE d # c
      BY <1>1, <1>3, <2>1
    <2>2. CASE d = c
      <3> DEFINE w == [connector[c] EXCEPT !.transactionID = 0]
      <3>1. connector' = [connector EXCEPT ![c] = w] /\ connector[c] \in ConnectorRecords
        BY <1>1, <1>3, <2>2
      <3>2. 0 \in 0..MaxTransactionID
        BY <1>3
      <3>3. w \in ConnectorRecords /\ w.transactionID = 0 /\ w.reservationID = connector[c].reservationID
        BY <3>1, <3>2 DEF ConnectorRecords
      <3> HIDE DEF w, c
      <3>4. QED
        BY <1>3, <2>2, <3>1, <3>3
    <2>3. QED
      BY <2>1, <2>2
  <1>5. connector' \in [Connectors -> ConnectorRecords] /\ NoReservationInSession'
    BY <1>1, <1>3, <1>4 DEF NoReservationInSession
  <1>6. CASE c \notin Connectors \/ x = 0
    <2>1. GoOn(j, <<>>)
      BY <1>6 DEF Take
    <2>2. \A d \in Connectors : connector'[d].transactionID = connector[d].transactionID
      BY <1>4, <1>6
    <2>3. QED
      BY <1>0, <1>1, <1>3, <1>5, <2>1, <2>2, EmptyPlain, PlainStep
  <1>7. CASE c \in Connectors /\ x # 0
    <2> DEFINE q == <<SendStop(c, x)>> \o SetConnectorStatus(c, "Finishing") \o SetConnectorStatus(c, "Available")
    <2>1. GoOn(j, q)
      BY <1>7 DEF Take
    <2>2. x \in Transactions
      BY <1>3, <1>7 DEF ConnectorRecords, Transactions
    <2>3. Todo(q) /\ q # <<>> /\ q[1] = SendStop(c, x)
      BY <1>2, <2>2, StopTodo
    <2>4. SendStop(c, x).op = "stop" /\ SendStop(c, x).to = x
      BY DEF SendStop
    <2> HIDE DEF c, x, q
    <2>5. /\ TypeOK' /\ LinkInv' /\ WaitInv'
          /\ \A k \in Slots : k # j => jobs'[k] = jobs[k]
          /\ jobs'[j].todo = q
      BY <1>0, <1>1, <1>3, <1>5, <2>1, <2>3, JobStep
    <2>6. \A k \in Slots : \A y \in Transactions : Owes(k, y)' => Owes(k, y) \/ (k = j /\ y = x)
      BY <2>3, <2>4, <2>5 DEF Owes
    <2>7. \A y \in Transactions : Owes(j, y)' => y = x
      BY <2>3, <2>4, <2>5 DEF Owes
    <2>8. /\ x < nextTx /\ stops[x] = 0 /\ \A k \in Slots : ~Owes(k, x)
          /\ \A d \in Connectors : connector'[d].transactionID # x
      <3>1. connector[c].transactionID = x
        BY DEF x
      <3>2. x < nextTx /\ stops[x] = 0 /\ \A k \in Slots : ~Owes(k, x)
        BY <1>7, <2>2, <3>1 DEF SessionInv
      <3>3. \A d \in Connectors : connector[d].transactionID = x => d = c
        BY <1>7, <3>1 DEF SessionInv
      <3>4. QED
        BY <1>4, <1>7, <3>2, <3>3
    <2>9. SessionInv'
      <3>1. \A d \in Connectors : connector'[d].transactionID < nextTx'
        BY <1>1, <1>3, <1>4 DEF SessionInv
      <3>2. \A d, e \in Connectors :
              connector'[d].transactionID = connector'[e].transactionID /\ connector'[d].transactionID # 0 => d = e
        BY <1>4 DEF SessionInv
      <3>3. ASSUME NEW k \in Slots, NEW y \in Transactions, Owes(k, y)'
            PROVE  /\ y < nextTx' /\ stops'[y] = 0
                   /\ \A d \in Connectors : connector'[d].transactionID # y
                   /\ \A m \in Slots : Owes(m, y)' => m = k
        <4>1. CASE y = x
          BY <1>1, <2>6, <2>8, <3>3, <4>1
        <4>2. CASE y # x
          <5>1. Owes(k, y)
            BY <2>6, <3>3, <4>2
          <5>2. /\ y < nextTx /\ stops[y] = 0
                /\ \A d \in Connectors : connector[d].transactionID # y
                /\ \A m \in Slots : Owes(m, y) => m = k
            BY <5>1 DEF SessionInv
          <5>3. 0 # y
            BY <1>3 DEF Transactions
          <5>4. QED
            BY <1>1, <1>4, <2>6, <4>2, <5>2, <5>3
        <4>3. QED
          BY <4>1, <4>2
      <3>4. \A y \in Transactions : stops'[y] # 0 =>
              stops'[y] = 1 /\ y < nextTx' /\ \A d \in Connectors : connector'[d].transactionID # y
        <4>1. \A y \in Transactions : y # 0
          BY <1>3 DEF Transactions
        <4>2. QED
          BY <1>1, <1>4, <4>1 DEF SessionInv
      <3>5. QED
        BY <3>1, <3>2, <3>3, <3>4 DEF SessionInv, Transactions
    <2>10. QED
      BY <1>5, <2>5, <2>9 DEF SimulatorInv
  <1>8. QED
    BY <1>6, <1>7

(* The report is sent, by the one goroutine that owed it. *)
LEMMA StopAction ==
  ASSUME SimulatorInv, NEW j \in Slots, Stop(j)
  PROVE  SimulatorInv'
  <1> TypeOK /\ NoReservationInSession /\ SessionInv
    BY DEF SimulatorInv
  <1> DEFINE x == Next1(j).to
  <1>0. jobs[j].phase # "free" /\ Next1(j).op = "stop"
    BY DEF Stop, At
  <1>1. /\ jobs[j].todo # <<>> /\ Next1(j) = jobs[j].todo[1]
        /\ Later(j) \in Seq(PlainSteps) /\ x \in Transactions
    BY <1>0, AtStep
  <1>2. Owes(j, x)
    BY <1>0, <1>1 DEF Owes
  <1>3. /\ UNCHANGED <<linkVars, station, connector, handling, nextTx>>
        /\ stops' = [stops EXCEPT ![x] = @ + 1]
    BY DEF Stop
  <1>4. PICK q : q \in Seq(PlainSteps) /\ GoOn(j, q)
    BY <1>1, EmptyPlain DEF Stop
  <1>5. /\ station \in Labels /\ connector \in [Connectors -> ConnectorRecords]
        /\ nextTx \in 1..(MaxTransactionID + 1) /\ stops \in [Transactions -> Nat]
    BY DEF TypeOK
  <1> HIDE DEF x
  <1>6. /\ x < nextTx /\ stops[x] = 0
        /\ \A c \in Connectors : connector[c].transactionID # x
        /\ \A k \in Slots : Owes(k, x) => k = j
    BY <1>1, <1>2 DEF SessionInv
  <1>7. /\ stops' \in [Transactions -> Nat] /\ stops'[x] = 1
        /\ \A y \in Transactions : y # x => stops'[y] = stops[y]
    BY <1>1, <1>3, <1>5, <1>6
  <1>8. /\ TypeOK' /\ LinkInv' /\ WaitInv'
        /\ \A k \in Slots : k # j => jobs'[k] = jobs[k]
        /\ jobs'[j].todo = q
    BY <1>0, <1>3, <1>4, <1>5, <1>7, PlainTodo, JobStep
  <1>9. (\A y \in Transactions : ~Owes(j, y)') /\ NoNewDebt
    BY <1>4, <1>8, PlainDebt
  <1>10. \A k \in Slots : \A y \in Transactions : Owes(k, y)' => y # x
    BY <1>6, <1>9 DEF NoNewDebt
  <1>11. SessionInv'
    <2>1. \A d \in Connectors : connector'[d].transactionID < nextTx'
      BY <1>3 DEF SessionInv
    <2>2. \A d, e \in Connectors :
            connector'[d].transactionID = connector'[e].transactionID /\ connector'[d].transactionID # 0 => d = e
      BY <1>3 DEF SessionInv
    <2>3. \A k \in Slots : \A y \in Transactions : Owes(k, y)' =>
            /\ y < nextTx' /\ stops'[y] = 0
            /\ \A d \in Connectors : connector'[d].transactionID # y
            /\ \A m \in Slots : Owes(m, y)' => m = k
      BY <1>3, <1>7, <1>9, <1>10 DEF SessionInv, NoNewDebt
    <2>4. \A y \in Transactions : stops'[y] # 0 =>
            stops'[y] = 1 /\ y < nextTx' /\ \A d \in Connectors : connector'[d].transactionID # y
      BY <1>3, <1>6, <1>7 DEF SessionInv
    <2>5. QED
      BY <2>1, <2>2, <2>3, <2>4 DEF SessionInv, Transactions
  <1>12. NoReservationInSession'
    BY <1>3 DEF NoReservationInSession
  <1>13. QED
    BY <1>8, <1>11, <1>12 DEF SimulatorInv
-----------------------------------------------------------------------------
(* The theorems *)

LEMMA SimulatorInitially == Init => SimulatorInv
  <1> SUFFICES ASSUME Init PROVE SimulatorInv
    OBVIOUS
  <1>0. 0 \in 0..MaxTransactionID /\ 1 \in 1..(MaxTransactionID + 1) /\ "Available" \in Labels
    BY SimulatorAssumption DEF Labels
  <1>1. Job(Idle) /\ Idle.phase = "free" /\ Idle.todo = <<>>
    <2>1. Todo(<<>>)
      BY EmptyPlain, PlainTodo
    <2>2. QED
      BY <2>1 DEF Job, Idle
  <1> HIDE DEF Idle
  <1>2. DOMAIN jobs = Slots /\ \A j \in Slots : jobs[j] = Idle
    BY DEF Init
  <1>3. /\ connector \in [Connectors -> ConnectorRecords]
        /\ \A c \in Connectors : connector[c].transactionID = 0 /\ connector[c].reservationID = 0
    BY <1>0 DEF Init, ConnectorRecords
  <1>4. TypeOK
    BY <1>0, <1>1, <1>2, <1>3 DEF Init, TypeOK
  <1>5. NoReservationInSession
    BY <1>3 DEF NoReservationInSession
  <1>6. SessionInv
    <2>1. \A j \in Slots : \A x \in Transactions : ~Owes(j, x)
      BY <1>1, <1>2 DEF Owes
    <2>2. nextTx = 1 /\ \A x \in Transactions : stops[x] = 0
      BY DEF Init
    <2>3. QED
      BY <1>3, <2>1, <2>2 DEF SessionInv
  <1>7. LinkInv
    BY DEF Init, LinkInv
  <1>8. WaitInv
    <2>1. Counted = {}
      BY <1>1, <1>2 DEF Counted
    <2>2. Cardinality(Counted) = 0
      BY <2>1, FS_EmptySet
    <2>3. Alive = 0 /\ wg = 0
      BY DEF Init, Alive, One
    <2>4. QED
      BY <2>2, <2>3 DEF Init, WaitInv, WaitCoversAll
  <1>9. QED
    BY <1>4, <1>5, <1>6, <1>7, <1>8 DEF SimulatorInv

LEMMA SimulatorStuttered == SimulatorInv /\ UNCHANGED vars => SimulatorInv'
  <1> SUFFICES ASSUME SimulatorInv, UNCHANGED vars PROVE SimulatorInv'
    OBVIOUS
  <1> LinkInv /\ WaitInv /\ TypeOK
    BY DEF SimulatorInv
  <1>1. UNCHANGED <<scenario, connect, run, done, connRun, heart, station, connector,
                    handling, jobs, wg, commands, nextTx, stops>>
    BY DEF vars
  <1>2. LinkInv' /\ WaitCoversAll'
    BY <1>1 DEF LinkInv, WaitInv, WaitCoversAll
  <1>3. Alive' = Alive /\ Alive \in Int /\ wg \in Int /\ handling \in Requests \cup {NoCommand}
    BY <1>1 DEF Alive, One, TypeOK
  <1>4. QED
    BY <1>1, <1>2, <1>3, LinkStep

LEMMA SimulatorPreserved == SimulatorInv /\ Next => SimulatorInv'
  <1> SUFFICES ASSUME SimulatorInv, Next PROVE SimulatorInv'
    OBVIOUS
  <1>1. CASE \/ Dial \/ DialFails \/ Booted \/ Reported \/ ReportFails \/ RunSelects
             \/ ConnectionEnds \/ HeartbeatDue \/ HeartbeatAnswered \/ HeartbeatEnds
             \/ \E cmd \in Requests : Receive(cmd)
    BY <1>1, LinkActions
  <1>2. CASE Wait
    BY <1>2, WaitAction
  <1>3. CASE HandleCall
    BY <1>3, HandlerActions
  <1>4. ASSUME NEW c \in Connectors,
               \/ Local(StartTransaction(c)) \/ Local(StopTransaction(c))
               \/ Local(SetConnectorStatus(c, "Faulted"))
        PROVE  SimulatorInv'
    <2>1. c \in Nat /\ "Faulted" \in Labels
      BY SimulatorAssumption DEF Labels
    <2>2. /\ Plain(StartTransaction(c)) /\ Plain(StopTransaction(c))
          /\ Plain(SetConnectorStatus(c, "Faulted"))
      BY <2>1, EffectsPlain
    <2>3. QED
      BY <1>4, <2>2, LocalAction
  <1>5. ASSUME NEW j \in Slots, Step(j) PROVE SimulatorInv'
    BY <1>5, SettleAction, PlainActions, StartAction, TakeAction, StopAction DEF Step
  <1>6. QED
    BY <1>1, <1>2, <1>3, <1>4, <1>5 DEF Next

(* The inductive invariant: types, sessions, the link and the WaitGroup.     *)
THEOREM SimulatorInvariant == Spec => []SimulatorInv
  BY SimulatorInitially, SimulatorPreserved, SimulatorStuttered, PTL DEF Spec

(* A connector in a session holds no reservation: reserveNow refuses it and  *)
(* startTransaction consumes the reservation it finds.                       *)
THEOREM SessionsHoldNoReservation == Spec => []NoReservationInSession
  <1>1. SimulatorInv => NoReservationInSession
    BY DEF SimulatorInv
  <1>2. QED
    BY <1>1, SimulatorInvariant, PTL

(* However many stops are accepted for a session, one StopTransaction is     *)
(* sent: stopTransaction takes it off the connector before it reports it.    *)
THEOREM ReportedStoppedOnce == Spec => []StoppedOnce
  <1>1. SimulatorInv => StoppedOnce
    <2> SUFFICES ASSUME SimulatorInv, NEW x \in Transactions PROVE stops[x] <= 1
      BY DEF StoppedOnce
    <2>1. stops[x] \in Nat /\ (stops[x] # 0 => stops[x] = 1)
      BY DEF SimulatorInv, TypeOK, SessionInv
    <2>2. QED
      BY <2>1
  <1>2. QED
    BY <1>1, SimulatorInvariant, PTL

(* The WaitGroup counts every goroutine the station started, so Wait returns *)
(* when none is left and none can be started after.                          *)
THEOREM WaitedForAll == Spec => []WaitCoversAll
  <1>1. SimulatorInv => WaitCoversAll
    BY DEF SimulatorInv, WaitInv
  <1>2. QED
    BY <1>1, SimulatorInvariant, PTL
=============================================================================
