# A TLA+ model of cpms

`cpms` is a headless charge point management system: one daemon (`cpms run`) that talks OCPP 1.6J
to one charging station, keeps reservations and sessions in a state file, and takes commands from
one-shot `cpms` processes over a Unix socket. This directory models the parts of it that are hard to
test: what happens between two locked sections, between a write and a crash, between a timeout and a
late answer, between two connections of the same station.

Paths below are relative to `src/internal/`. `PROJECT.json` maps every definition to its lines.

## 1. Inventory

| Component | State | Operations | Hard part |
|---|---|---|---|
| `core` reservations, transactions (`reservations.go`, `transactions.go`) | records by id, three id counters, expiry timers | Begin, Activate, End, Orphan, expire, Next…ID, Start/StopTransaction | methods release the lock before they persist; timers race commands |
| `core` persistence (`persist.go`, `state/store.go`) | the state file | persist (own mutex, snapshot, write and rename), load | order of writes, failed writes, crash at any point |
| `core` charge points (`service.go`, `status.go`) | online, station status, per-EVSE reported and effective status | Connected, Disconnected, SetConnectorStatus, RecordMeterValues | callers of two connections interleave |
| `core` event bus (`event.go`) | subscribers with bounded channels and drop counters | Subscribe, cancel, publish | close against send, slow subscribers |
| state lock (`state/lock_unix.go`) | `<state>.lock`, its inode and flock | LockPath, Release | the name and the inode part ways |
| `control` | in-flight counter, closed flag | Reserve (with a background cancel), Cancel, Start, Stop, Unlock, TriggerStatus, Probe, Close | late answers, orphaned reservations, shutdown |
| OCPP-J connection (`ocpp/ocppj`) | pending calls, send and call queues, done | Call, Run (reader, handler, writer), Close | correlation of answers, full queues, closing |
| CSMS server (`ocpp/csms`) | registered connection, wait group | ServeHTTP, serveConn, Shutdown | reconnects before the old connection is noticed dead |
| OCPP 1.6 adapter (`ocpp/v16`) | none of its own | inbound handlers, outbound commands, status tables | which answers mean yes |
| control socket (`control/socket`) | socket file, requests in hand | Listen, Serve, handle, Close; client Call | stale files, two starting processes, shutdown |
| command line (`cli`) | what is up, exit code | run, one-shot commands | a start that fails half way, a shutdown under load; what a script may conclude |
| simulator (`simulator`) | connectors, delayed side effects, wait group | Connect, Run, command handlers | handlers check now, act later |
| OCPI server (`ocpi`) | modules, routes, in-flight requests | Register, Start, ServeHTTP, Shutdown | registration that fails half way, handlers that hang |
| config (`config`) | the config | normalize, applyDefaults, Validate | rules that relate fields, and the order they see them in |
| probe (`ocpp/probe.go`, `v16/probe.go`, `cli/probe.go`) | – | features, capabilities, verdict | absent and unknown are different answers |
| build info, root command, test helpers | – | printing | – |

How they interact: the CLI reaches `control` over the socket; `control` records in `core`, then calls
the station through the connection registered in `csms`; the station's reports arrive on the same
connection, in another goroutine, and `v16.Handler` applies them to `core`; `core` writes the file and
publishes events. On shutdown `run` closes OCPI, the socket, `control`, then `csms`, in this order.

`PROJECT.json` lists the hazards, each at its line, with the properties that cover it.

## 2. Modules

| Module | Models | State and actions |
|---|---|---|
| `Core` | `core` reservations, transactions, persistence | one action per section under `s.mu`; then `PersistSnapshot`, `PersistWrite`/`PersistFail`, `Return`, so that every other goroutine and a `Crash` can come in between; `Restart` is `load` |
| `Ledger` | what `core` promises of a reservation | ids given out, reservations that a crash would lose, those it would not, those that are to go; no goroutines, snapshots or timers |
| `Control` (EXTENDS `Core`) | `control` with every command, the StartTransaction/StopTransaction handlers, the station (external) | a `flow` per command goroutine, requests and reports on a FIFO connection that drops and reconnects, process crash and restart |
| `Stations` | `csms` server with the connection-related part of `core` | the stages of `serveConn` per connection, the station's queued calls, the stages of `Shutdown` |
| `RpcConn` | `ocppj.Conn` | each `Call`, the three loops, both queues, a peer that answers late, twice, or with garbage (external) |
| `ControlSocket` (EXTENDS `StateLock`) | `socket.Listen`, `Serve`, `Close`, with the start and end of `run` | what the path names, which sockets accept, the requests; a process listens only once it holds the state lock |
| `Daemon` | what the lock and the socket are for | the process that owns the state file, and each request: new, taken, answered or failed |
| `Config` | `config`: Parse | operators over a record of the fields that matter to each other |
| `Ocpi` | `ocpi`: New, Register, Start, a request, Shutdown | the mounted routes, the listed modules, the stages of each request |
| `Run` (EXTENDS `Config`, `Ocpi`) | `cli/run.go` | one action per start-up and shutdown step; connections, socket requests, OCPI requests and expiry timers as goroutines that come and go; the two deadlines |
| `Probe` | the verdict of `cpms probe` | operators over the set of advertised profiles |
| `Commands` (EXTENDS `Probe`) | a one-shot command from flag to exit code: `cli`, socket client, `dispatch`, `classify`, `v16` status tables | daemon, the station's connection, the command's stage, what the station got and answered |
| `EventBus` | `core` event bus | channels, the read lock of each publisher, the stages of a cancel |
| `StateLock` | `state.LockPath`, `Release` | path, inodes, flock owners, the stages of each process |
| `Simulator` | `simulator` | Connect and Run, the command in hand, the side-effect goroutines and the WaitGroup |

The theorems about a module and their proofs are in `CoreProofs` (`Core`, its refinement of
`Ledger`, and `Control`), `ControlSocketProofs` (`StateLock`, `ControlSocket` and its refinement of `Daemon`),
`StationsProofs`, `RpcConnProofs`, `EventBusProofs`, `CommandsProofs`, `RunProofs` (`Run` with `Config`
and `Ocpi`) and `SimulatorProofs`.

`Control` composes with `Core` by conjoining `Core`'s own actions, so whatever holds of `Core` under
every caller holds there too; `ControlSocket` composes with `StateLock` in the same way. `Run` composes the start
and the end of every part and leaves what its goroutines do to the other modules. `Stations` and `RpcConn` look at the same connection from two sides:
`Stations` at which connection is registered, `RpcConn` at what happens inside one.

`MC…` modules only give constants for TLC. Operators preceded by "Mutant:" are deliberately wrong
variants of the definition after them. `PROJECT.json` pairs each with a property, and the property
is violated once the variant replaces the definition.

### Abstractions

* Time is a choice: a timer that is armed may fire, a call that waits may time out.
* A write to the state file happens or fails as a whole: `Store.write` writes a temporary file and
  renames it. Errors of the directory sync, which the code ignores, are not modelled.
* A tag is a value with a case folding (`strings.EqualFold`); other texts are left out.
* A station in `Control` holds a reservation per EVSE, answers in order, and repeats a report that
  was not answered when it reconnects, as OCPP 1.6 asks of it. It is external to the repository;
  the `Simulator` module is the repository's own station.
* `Run` knows of a goroutine only that it is there; a connection of `Run` may register, be replaced,
  drop and end as in `Stations`.
* A config is the fields that a rule relates to one another or that `run` uses. A text is what it
  says and whether it is padded; the patterns single fields have to match are the flag `shape`.
* An OCPI path is a tuple of segments under the advertised root; a route matches and yields to a more
  specific one as in `net/http.ServeMux` (`Covers`, `Overlaps`, `Best`). Wildcards for the rest of a path
  and the HEAD that a GET pattern answers are left out; no route of the repository uses them.
* A host is a word; what it resolves to on the machine is the constant operator `Resolve`, `"none"` if it
  cannot be bound.
* The send queue of a connection is counted in `RpcConn` only. In `Control` it may be full at any time, so a
  call may fail unsent at any time.
* In `Core`, no caller uses an id that `BeginReservation` has not returned yet (`Known`).

## 3. Runs

Passing runs:

| Run | Instance | Shows |
|---|---|---|
| `MCCore` | 2 goroutines, 1 EVSE, 2 reservation ids, 1 transaction id, 1 remote start id, 1 crash, 1 failed write | one record per EVSE, no reservation id twice, a transaction id twice only if its write failed, no resurrection, the file in step with memory and its counters never going back, every end published once; core implements `Ledger` |
| `MCControlReserve` | 2 Reserves, 1 drop, 1 crash, 1 failed write, Close; with fairness | the next ReserveNow does not overtake an orphan's cancel that was queued; no orphan whose cancel was queued stays at the station while its connection lasts; Close leaves nothing pending; Reserve, its cancel and Close end |
| `MCControlSessions` | Reserve, one other command (Cancel, Start, Stop, Unlock or TriggerStatus) at a time, handler, timer; 2 tags, 2 transaction ids, 1 crash | only Reserve ends a pending reservation; a session the station has an id for is known to core, over repeated reports and a restart |
| `MCStations` | 3 connections, connectors 0, configured 1 and unconfigured 2, 2 status reports, meter values | only the registered connection is open; effective status follows the applied reports |
| `MCRpcConn` | 2 calls, queues of 1, 2 inbound calls or malformed frames, 2 answers, contexts that may end at any time; with fairness | own answer, no leak, order; Call and Run return |
| `MCControlSocket` | 3 processes that start, stop and die again and again, a cpms of another state file that may have the path first, dials that may fail although somebody listens, 4 inodes, 2 requests; processes and inodes are symmetric | mutual exclusion, no stale lock; the socket of a live process of this state file is not removed; the processes implement `Daemon` |
| `MCCommands` | 1 command of every kind, 2 connections, every answer, every set of advertised profiles | what exit codes mean |
| `MCEventBus` | 2 publishers, 2 subscribers, channels of 1, 3 events; with fairness | no send on a closed channel, every loss counted, publish returns |
| `MCSimulator` | 1 connector and an unknown one, 2 side effects at once, 3 commands, the slow scenario (which can do all the normal one can) and the silent one; with fairness | no reservation in a session, one StopTransaction, Wait covers all, the simulator stops |
| `MCRun` | 46 configs, on a machine with two addresses and two spellings of the wildcard; the wiring of `run` and 9 others, as `ocpi/server_test.go` tries them and with routes that overlap; 2 connections, 2 socket requests, 1 OCPI request, 1 timer; every step of the start may fail; with fairness | what an accepted config guarantees and where the start is still stricter; OCPI serves what it lists; parts go down in order; the process ends |

Why these bounds are enough to meet the cases: two goroutines are what an ordering of writes needs,
one crash and one failed write are what a stale counter needs, two ids are what a reused one needs,
two connections are what a replacement needs, queues of capacity one are full after one element, two
answers are what a duplicate needs, three processes let one take the lock while two race for the
file it leaves, and in `Run` one connection can be registered while the other comes late. The configs
of `MCRun` vary one rule of `Validate` at a time, because the rules are independent of one another.
The symmetry of `MCControlSocket` is sound because its run has no liveness property and neither the actions
nor the properties tell processes, or inodes, apart (`Daemon`'s state is the one holder there is). `MaxFlight` in `RpcConn` bounds the frames on the wire; the order of inbound calls is
put at risk by the queue behind the reader, not by the wire. Deadlock checking is off where the
bounds let the model stop (ids, crashes, commands used up) or the system may stop (a closed
connection, a process that exited); it is on for `MCControlSocket`.

Runs that find a disagreement between the code and what its comments say (`findings` quotes the
lines):

| Run | What happens |
|---|---|
| `MCControlRedeem` | a session starts before its reservation is activated; the reservation becomes active afterwards |
| `MCStationsOnline` | a dying connection reports a station offline that has reconnected |

Other disagreements met while modelling. The models have these behaviours; no run is kept for them:

* `core/transactions.go:36`: a transaction id whose counter could not be written is handed out, so
  after a crash it is handed out again; `README.md:558` says ids never are.
  `TransactionIdsReusedOnlyIfUnwritten` says that this is the only way.
* `ocpp/v16/handler.go:173`: a StartTransaction that a station repeats after a lost answer becomes a
  second session, and Stop then refuses to choose (`transactions.go:185`: "at most one").
* `core/transactions.go:101`: a session with another tag ends the reservation; `README.md:536` says it
  stays in place.
* `ocpp/csms/server.go:276`: a superseded connection can report a station online that has gone.
* `ocpp/csms/server.go:269`: a status queued on the replaced connection can be applied after a newer
  one from the new connection (`ocppj/conn.go:36` promises the order the charger sent them in).
* `ocpp/csms/server.go:143`: a connection that registers after the closing loop keeps Shutdown waiting
  until its deadline.
* `control/socket/server.go:79`: processes with different state files and one socket path could remove
  each other's socket between the refused dial and the remove; `ControlSocket` lets only processes of
  one state file start, for which the lock rules it out.
* `control/control.go:180` with `ocppj/conn.go:179`: a background cancel whose deadline passes while the send
  queue is full is never queued, though the connection is up. The record ends all the same, the station
  may keep the reservation, and the next ReserveNow for the EVSE can be answered Occupied. The known
  limitation of `control.go:210-215` is about a connection that dropped, and `reservations.go:27` says a
  second ReserveNow "cannot overtake the cancel and be answered Occupied". `OrphanUnsent` is this step
  (`pc` "lapsed"); `NoReserveBehindOrphan` and `OrphanCancelled` are about cancels that were queued.
* `control/socket/server.go:79`: any error of the dial counts as a stale socket (`DialFails`). Among
  processes of one state file the lock keeps that harmless; the socket of a cpms with another state file,
  alive but not reachable at that moment, is removed, which `server.go:94` rules out.
* `config/validate.go:38` and `cli/config.go:26` call an accepted config usable; `cpms run` still
  refuses OCPP 2.0.1, a base URL with a query or braces (`ocpi/server.go`, splitBaseURL), and two
  listeners on one port whose hosts are different words for one address (`validate.go:109` compares the
  words: `localhost` and `127.0.0.1`, or a wildcard in a spelling it does not know). It also fails on a
  host that has the right shape but cannot be resolved or bound here (`validate.go:138`) and on a port
  that is taken or privileged, neither of which Validate looks at. `AcceptedConfigUsable` says when each
  reason is possible, for every machine (`Resolve`); that a port is free it cannot say.
* `core/service.go:207`: Close does not wait for an expiry that has fired, which may write the state
  file after `run.go:73` released the lock; `run.go:65` says one cpms per state file.
  `DrainedInOrder` says that besides a connection that outlived its grace nothing else can.
* A station that answers the probe's GetConfiguration with the error NotImplemented makes `cpms probe`
  exit 8, the code for an unlock that failed (`control/socket/server.go:288`).
* `simulator/handlers.go:100`: the comment says a held connector cannot be reserved; a second
  ReserveNow replaces the reservation.

### Fairness

Only what the Go runtime and the code's own timeouts give is assumed. `ControlFairness`: a Reserve
takes its next step, among which is always the failure of a call (`call_timeout`), and mutexes are
granted. `RpcConn`: loops run, a write ends within `writeWait`, a reader of a closed socket returns;
the peer may be silent. `RunFairness`: run itself goes on, a socket request and a background cancel
end by their call timeout, a deadline passes; neither a station nor an OCPI handler need ever leave.
`EventBus`: publishers run, subscribers need not. `Simulator`: calls return and a closed connection
ends. Every one is weak fairness of a goroutine's own steps.

### Refinement

`ImplementsLedger` maps `Core` to `Ledger`: what is in the file is kept, what memory has and the file
has not is open, what the file has and memory has not is struck. A rename of the file is a `Commit`, a
crash is `Lose`, and everything else about goroutines, snapshots and the write lock is a stutter, a
`Give`, a `Drop` or a `Strike`. Writing an older snapshot over a newer one is no step of the ledger.

`ImplementsDaemon` maps `ControlSocket` to `Daemon`: the holder of the lock is the daemon, a request
that is handled is taken by it. That a request accepted by one process is never worked on while
another owns the state file takes both components: the lock and the wait in `Close`.

## 4. Proofs

`tlapm` checks the eight proof modules. The theorems hold for every value of the constants that
satisfies the modules' assumptions: any number of goroutines, processes, connections, connectors,
ids, crashes and failed writes. The assumptions say what the constants are: disjoint sets of
goroutines, bounds that are numbers, finite slots, the types of a config and of the wiring of OCPI
modules (`RunAssumption`).

Each proof has the same shape: an inductive invariant, a lemma per action or group of actions that it
is preserved, and from it the theorems that name the properties the runs check. Before it was proved
each invariant was checked with TLC on an instance of its run.

**Core.** `ReservationIdsNeverReused`, `NoResurrection` and `FileCountersNeverDecrease` are not
inductive: they depend on what is being written while they hold. `CoreInv` adds the chain

1. only the holder of `persistMu` writes (`LockMatchesWriter`);
2. so file ≤ snapshot being written ≤ memory, in every counter (`CountersAhead`), and no write can
   take a counter back;
3. every id in memory, snapshot and file is below the counter next to it (`IdsCounted`), which also
   makes the counters after a restart right;
4. an id on its way to a caller is new, and on disk once its write is done (`BeginsFresh`,
   `GrantedRecorded`), so no later process hands it out;
5. an ended reservation is absent from memory at once and, once its write is done, from the file
   and from every snapshot (`EndsRecorded`, `OnlyActiveWritten`, `GoneForGood`), so no write or
   restart brings it back.

From it follow `CoreInvariant`, `TypeCorrect`, `OneReservation`, `IdsNeverReused`, `GoneStaysGone` and
the action property `FileCountersMonotone`.

The other properties of core each need an invariant of their own, inductive relative to `CoreInv`
(`LedgerInvariant` is all of them together). A locked section makes, moves, removes or
spares a record, or only waits for a timer (`Makes`, `Moves`, `Removes`, `Spares`, `Waits`), and the
proofs go through these kinds:

* `EndPublishedOnce`: the end of a reservation has been told or is about to be, by one goroutine only,
  and a record whose end is told can only leave (`EndsInv`).
* `TransactionIdsReused`: an id is below memory's counter in the process that handed it out, and below
  the file's if it was written (`TxInv`).
* `FileFollowsMemory`: once nobody is on the way to a snapshot, the one being written is memory, and
  when none is the file is (`StepInv`).
* `CoreImplementsLedger`, the refinement: a record keeps its data on its way to the file, what a
  coming write leaves out has ended, and no caller knows of two reservations of one EVSE
  (`SameData`, `NotCarried`, `OneIsOpen`). Every step of `Core` is then a step of `Ledger` or a stutter.

**Control.** Its assumptions are that the sets of goroutines are disjoint, that there are finitely many
Reserves (`inflight` counts them) and that there is an EVSE. Whatever a step of `Control` does to core is a
step of `Core` or a stutter (`ControlImplementsCore`), so everything above holds under the commands.
The inductive invariant `ControlInv` is `CoreInv`, `BeginPending`, the types, and `CommandsInv`:

1. `InflightInv`: `inflight` is the number of Reserves under way, so Close, which waits for it to be
   0, leaves none.
2. `RecordInv`: a pending or cancelling record belongs to exactly one Reserve, which is at a stage that
   goes with that status, and a Cancel under way names an active record. So no other command, session
   or timer can end it.
3. `HereInv`: a Reserve that began on the present connection has an id of its own, at most that of the
   record now on its EVSE; a process that is down has no connection, a lost connection nothing on it.
4. `WireInv`: the ReserveNow requests for an EVSE are on the wire in the order of their ids, behind what the
   station already holds. This is where the refusal to make a second record for an EVSE, and the
   counter that never goes back, meet the FIFO connection.
5. `OrphanInv`: what an abandoned Reserve whose cancel was queued has left at the station, or may yet
   leave, is followed by that cancel, which comes before the next ReserveNow for the EVSE. A Reserve whose
   cancel failed unsent ("lapsed") leaves the invariant at once, and must still end its own record. It is needed for both orphan
   properties: that the record is forgotten only after the cancel was sent says nothing about the wire
   by itself.
6. `CallsInv`: a report of the present connection is about the session as it is now, there is one per
   session, and one handler per connection.
7. `SessionsInv`: as long as no write failed, the id a handler holds is new, and a session whose id
   the station was told is in memory, in the file and in every snapshot on its way to the file, so
   that a crash at any point loads it again.

The lemmas on the wire say what it is to send a request (`WireGrows`, `OrphanGrows`), to have one taken
(`WireShrinks`, `OrphanShrinks`) and to do neither (`WireKept`, `OrphanKept`); each action is then one of
these. From it: `PendingIsSafe`, `CloseIsComplete`, `OrphansAreCancelled`, `NoneBehindOrphan`,
`SessionsAreKnown`, `ControlTypeCorrect`.

**StateLock and ControlSocket.** `LockInv` adds to mutual exclusion that a process has a file open
exactly while it is in LockPath or holds the lock, that the owner of a lock has its file open, and
that the holder's inode is the one the path names until it unlinks it. Then a process that finds the
path naming its own locked inode is the only one (`LockExcludes`), and a lock without a live owner
does not exist (`LockNeverStale`). `SocketInv` adds that whoever is between Listen and the end of
Close holds the lock, that only such a process listens, and that a request is with a process that
still serves or waits for it to end. `FirstServed` keeps the cpms of another state file apart: whoever
found its dial refused no longer meets it. From it: `RunExcludes`, `RunNeverStale`, `LiveSocketKept`, and the
refinement `ProcessesImplementDaemon`.

**Stations.** `StationsInv` is the two properties with their types and that every EVSE with a status to
show is one that recompute goes through: `LatestConnectionOnly`, `StatusFollowsReports`.

**RpcConn.** `ConnInv`: an id is taken by one Call; an entry in the pending table belongs to the Call
that took its id, until that Call forgets it; every frame on its way out or back comes from the Call
it names; the peer's calls stay in its order from the wire over the queue to the handler, and while
the reader runs none is missing. From it: `CallsGetOwnAnswer`, `PendingBelongsToRunningCall`,
`PeerCallsInOrder`.

**EventBus.** `BusInv`: the read lock is held exactly by those who publish, so whom a publisher has yet
to serve is still subscribed; an event has one publisher. From it: `SendsOnOpenChannels`, and
`LossIsCounted` by counting the events a subscriber has been served.

**Commands.** `CommandsInv` follows each command along its way: nothing is called on a connection before the
checks are passed, only what was called can be sent, then or after its call is over, and it named an EVSE
of the config, and the result that waits to be replied
agrees with what the station has received and said: `UnsentIsUnsent`, `ExitCodeTellsAnswer`.

**Run.** `DrainInv` ties every goroutine to the stretch of `run` in which it may exist:
`ShutdownDrainsInOrder`. `ConfigUsable` goes through `Parse`: what `Validate` accepts after `normalize`
and `applyDefaults`, for any `Resolve` that takes the wildcard for one. `ListedIsServed` goes through `Register`: the routes of the modules taken so far
are the routes mounted, and of those that fit a path at most one is the most specific, since Register
refuses two of which neither is.

**Simulator.** `SimulatorInv` types a side effect by what is left of it (only its first step can be a
StopTransaction), and says that a session is on one connector, or owed by one goroutine, or reported
(`SessionInv`), and that the WaitGroup's counter is the number of goroutines it covers (`WaitInv`).
From it: `SessionsHoldNoReservation`, `ReportedStoppedOnce`, `WaitedForAll`.

Only model-checked: everything about liveness (`ReserveEnds`, `CloseReturns`, `CallReturns`, `RunReturns`,
`PublishReturns`, `StationStops`, `ShutdownCompletes`), which is outside the prover's reach. Every other
property of a passing run is a theorem. The two violated properties are refuted by TLC's counterexamples
and have nothing to prove.

## 5. Not modelled

* Build information, the root and version commands, printing and the summary of `config validate`: they
  keep no state. `clocktest`, `ocpptest` and `statetest` are helpers of the tests.
* `core`: Booted, Seen, Heartbeat and Snapshot store or copy values that no decision depends on.
* `ocpp/v16`: the structs of `messages.go` and the JSON of the messages; BootNotification, Heartbeat,
  Authorize and DataTransfer, which answer without changing what the models keep. A handshake that is
  refused (unknown id, no common version) leaves nothing behind.
* `config`: YAML, the patterns of single fields, the wording of the errors.
* `probe`: the settings, and the comparison with the config, which is printed and does not change the
  verdict.
* `ocpi`: envelopes, request ids, the body cap, the contents of the versions documents. No OCPI module
  of this commit reaches `control` or `core`.
* `state`: the parsing of the file and its versions, permissions, the two syncs.
* `control.go:190-194`, the error of a Reserve whose record has vanished, is the stage "vanished" of
  `Control`, where `NothingElseEndsPending` shows that it is never reached; `Commands` has no exit path for it.
* Real time: that a Call waiting for a full send queue (`ocppj/conn.go:175`) may outlast its timeout
  is a matter of durations. The contents of events and of the status document.

## 6. Plan

Every component with logic of its own has its module, its runs and its theorems. What would add most:

* an abstract specification of `Control` as a caller of cpms sees it (a Reserve is asked, granted, refused or
  in doubt, and one in doubt is undone), with `ControlInv` as the base of its refinement;
* under which condition the two violated properties do hold (no StartTransaction between the station's
  acceptance and the activation; no overlap of a Disconnected with the next Connected), as theorems;
* shorter proofs: the lemmas about the wire in `CoreProofs` are the longest, and share their case splits.
