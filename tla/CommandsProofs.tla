--------------------------- MODULE CommandsProofs ---------------------------
(***************************************************************************)
(* What a script may conclude from an exit code, for every number of       *)
(* commands, EVSEs and station connections.  The invariant follows each    *)
(* command along its way: nothing is sent before the checks are passed, a  *)
(* command that was sent named an EVSE of the config, and the result that  *)
(* waits to be replied agrees with what the station has received and said. *)
(***************************************************************************)
EXTENDS Commands, TLAPS

PCs == {"start", "dial", "dispatch", "call", "reply", "exited"}
Early == {"start", "dial"}
Reports == DOMAIN Advertises

\* The errors that exit with 4, 5, 6 or 8: the station said no.
Noes == {"Occupied", "Faulted", "Unavailable", "UnlockFailed", "NotSupported",
         "NotImplementedError", "Rejected", "Unknown", "Accepted", "Unlocked"}

Requested == [op : Ops, evse : EVSEs \cup {Typo, ""}, v : {Version, Version + 1}]

EVSEGiven(c) == NeedsEVSE(req[c].op) => req[c].evse \in EVSEs

\* Answers that are a yes to the operation; of a probe, any report.
Says(op) == IF op = "probe" THEN Reports ELSE {Yes(op)}

TypeOK ==
  /\ req \in [Clients -> Requested]
  /\ pc \in [Clients -> PCs]
  /\ DOMAIN on = Clients
  /\ DOMAIN err = Clients
  /\ exit \in [Clients -> Int]
  /\ sent \in [Clients -> BOOLEAN]
  /\ DOMAIN raw = Clients

\* A command on its way: what is sent, to whom, and what was said.  One that has
\* been called on no connection was not sent and will not be; one that has may
\* still be written after its call is over.
OnTheWay(c) ==
  /\ pc[c] \in Early => exit[c] = Running
  /\ pc[c] \in Early \cup {"dispatch"} => on[c] = 0
  /\ pc[c] \in Early \cup {"dispatch", "call"} => err[c] = "nil"
  /\ pc[c] = "call" => on[c] # 0
  /\ on[c] # 0 => req[c].op # "status"
  /\ pc[c] \notin {"start", "exited"} \/ on[c] # 0 => EVSEGiven(c)
  /\ sent[c] = TRUE => on[c] # 0
  /\ raw[c] # NoAnswer => sent[c] = TRUE /\ raw[c] \in Answers(req[c].op)

\* A result that waits to be replied.
Waiting(c) ==
  pc[c] = "reply" =>
    /\ err[c] \in Refusals => on[c] = 0
    /\ err[c] = "nil" /\ req[c].op # "status" => raw[c] \in Says(req[c].op)
    /\ err[c] \in Noes => raw[c] \notin {NoAnswer} \cup Reports \cup Says(req[c].op)

\* The two properties, of one command.
NotSent(c) ==
  /\ exit[c] \in {2, 9} => on[c] = 0 /\ pc[c] = "exited"
  /\ exit[c] = 1 /\ ~EVSEGiven(c) => on[c] = 0 /\ pc[c] = "exited"

Lacks(a) == Advertises[a] # {} /\ ~({"Core", "Reservation"} \subseteq Advertises[a])
Yeses(op) == IF op = "probe" THEN {a \in Reports : ~Lacks(a)} ELSE {Yes(op)}

Tells(c) ==
  /\ exit[c] = 0 /\ req[c].op # "status" => raw[c] \in Yeses(req[c].op)
  /\ exit[c] = 10 => req[c].op = "probe" /\ raw[c] \in Reports \ Yeses(req[c].op)
  /\ exit[c] \in {4, 5, 6, 8} => raw[c] \notin {NoAnswer} \cup Reports \cup Yeses(req[c].op)

Command(c) == OnTheWay(c) /\ Waiting(c) /\ NotSent(c) /\ Tells(c)

CommandsInv == TypeOK /\ \A c \in Clients : Command(c)
-----------------------------------------------------------------------------
(* The operators *)

(* The statuses, spelled out. *)
LEMMA StatusesAre ==
  Statuses = {"Accepted", "Faulted", "Occupied", "Rejected", "Unavailable",
              "Unlocked", "UnlockFailed", "NotSupported"}
  <1>1. DOMAIN commandStatusMap = {"ReserveNow", "CancelReservation", "RemoteStartTransaction",
                                   "RemoteStopTransaction", "UnlockConnector"}
    BY DEF commandStatusMap
  <1>2. /\ commandStatusMap["ReserveNow"] = {"Accepted", "Faulted", "Occupied", "Rejected", "Unavailable"}
        /\ commandStatusMap["CancelReservation"] = {"Accepted", "Rejected"}
        /\ commandStatusMap["RemoteStartTransaction"] = {"Accepted", "Rejected"}
        /\ commandStatusMap["RemoteStopTransaction"] = {"Accepted", "Rejected"}
        /\ commandStatusMap["UnlockConnector"] = {"Unlocked", "UnlockFailed", "NotSupported"}
    BY DEF commandStatusMap
  <1>3. \A x : x \in Statuses <=> \E a \in DOMAIN commandStatusMap : x \in commandStatusMap[a]
    BY DEF Statuses
  <1>4. QED
    BY <1>1, <1>2, <1>3

(* The yes of an operation is a status its action defines. *)
LEMMA YesIsDefined ==
  ASSUME NEW op \in Ops \ {"status", "probe"}
  PROVE  /\ Yes(op) \in commandStatusMap[Action[op]]
         /\ commandStatusMap[Action[op]] \subseteq Statuses
  <1>1. Action[op] \in DOMAIN commandStatusMap
    BY DEF Ops, Action, commandStatusMap
  <1>2. commandStatusMap[Action[op]] \subseteq Statuses
    BY <1>1 DEF Statuses
  <1>3. Yes(op) \in commandStatusMap[Action[op]]
    <2>1. CASE op = "unlock"
      BY <2>1 DEF Yes, Action, commandStatusMap
    <2>2. CASE op = "reserve"
      BY <2>2 DEF Yes, Action, commandStatusMap
    <2>3. CASE op \in {"cancel", "start", "stop"}
      BY <2>3 DEF Yes, Action, commandStatusMap
    <2>4. QED
      BY <2>1, <2>2, <2>3 DEF Ops
  <1>4. QED
    BY <1>2, <1>3

LEMMA ReportsAre == Reports = {"nothing", "basic", "full", "odd"}
  BY DEF Reports, Advertises

(* What the daemon makes of an answer: success only of a yes, and an error   *)
(* that says no only of an answer that is neither a yes nor a report.        *)
LEMMA ResultFits ==
  ASSUME NEW op \in Ops \ {"status"}, NEW a \in Answers(op)
  PROVE  /\ Result(op, a) \notin Refusals
         /\ Result(op, a) = "nil" => a \in Says(op)
         /\ Result(op, a) \in Noes => a \notin {NoAnswer} \cup Reports \cup Says(op)
  <1>1. CASE a \in CallErrors \cup {"Garbled"}
    <2>1. Result(op, a) = a
      BY <1>1 DEF Result
    <2>2. a \notin {NoAnswer} \cup Reports \cup Says(op)
      BY <1>1, ReportsAre DEF CallErrors, NoAnswer, Says, Yes
    <2>3. a \notin Refusals /\ a # "nil"
      BY <1>1 DEF CallErrors, Refusals
    <2>4. QED
      BY <2>1, <2>2, <2>3
  <1>2. CASE a \notin CallErrors \cup {"Garbled"} /\ op = "probe"
    <2>1. Result(op, a) = "nil"
      BY <1>2 DEF Result
    <2>2. a \in Says(op)
      BY <1>2 DEF Answers, Says, Reports
    <2>3. QED
      BY <2>1, <2>2 DEF Refusals, Noes
  <1>3. CASE a \notin CallErrors \cup {"Garbled"} /\ op # "probe"
    <2> DEFINE m == MapCommandStatus(Action[op], a)
    <2>1. a \in Statuses \cup {"Undefined"}
      BY <1>3 DEF Answers
    <2>2. a \notin {NoAnswer} \cup Reports
      BY <2>1, StatusesAre, ReportsAre DEF NoAnswer
    <2>3. Says(op) = {Yes(op)} /\ Yes(op) \in Statuses
      BY <1>3, YesIsDefined DEF Says
    <2>4. m = a \/ (m = "Unknown" /\ a # Yes(op))
      BY <1>3, YesIsDefined DEF MapCommandStatus
    <2>5. Result(op, a) = IF m = Yes(op) THEN "nil" ELSE m
      BY <1>3 DEF Result
    <2>6. "Unknown" \notin Statuses /\ "nil" \notin Statuses
      BY StatusesAre
    <2>7. m # "nil" /\ m \notin Refusals
      BY <2>1, <2>4, StatusesAre DEF Refusals
    <2> HIDE DEF m
    <2>8. m = Yes(op) <=> a = Yes(op)
      BY <2>3, <2>4, <2>6
    <2>9. QED
      BY <2>2, <2>3, <2>5, <2>7, <2>8 DEF Refusals, Noes
  <1>4. QED
    BY <1>1, <1>2, <1>3

(* The verdict of probe, whatever a station advertises: it fails exactly if  *)
(* profiles are listed and Core or Reservation is not among them.            *)
LEMMA ProbeVerdict ==
  ASSUME NEW adv
  PROVE  ProbeOK(adv) <=> (adv = {} \/ {"Core", "Reservation"} \subseteq adv)
  <1> DEFINE N == neededProfiles
             f == features(adv)
  <1>1. DOMAIN N = {"Core", "Reservation", "RemoteTrigger"}
    BY DEF neededProfiles
  <1>2. /\ N["Core"] = {"RemoteStartStop", "Unlock"}
        /\ N["Reservation"] = {"Reservation"}
        /\ N["RemoteTrigger"] = {"TriggerStatus"}
    BY DEF neededProfiles
  <1>3. \A x : x \in AllCapabilities <=> \E p \in DOMAIN N : x \in N[p]
    BY DEF AllCapabilities
  <1>4. AllCapabilities \cap Required = {"RemoteStartStop", "Unlock", "Reservation"}
    BY <1>1, <1>2, <1>3 DEF Required
  <1>5. \A p \in DOMAIN N : f[p] = IF adv = {} THEN IF p = "Core" THEN "yes" ELSE "unknown"
                                   ELSE IF p \in adv THEN "yes" ELSE "no"
    BY DEF features
  <1> HIDE DEF N, f
  <1>6. ASSUME NEW cap, NEW p \in DOMAIN N, {q \in DOMAIN N : cap \in N[q]} = {p}
        PROVE  Support(adv, cap) = "no" <=> f[p] = "no"
    <2>1. {features(adv)[q] : q \in {r \in DOMAIN neededProfiles : cap \in neededProfiles[r]}} = {f[p]}
      BY <1>6 DEF N, f
    <2>2. QED
      BY <2>1 DEF Support
  <1>7. {q \in DOMAIN N : "RemoteStartStop" \in N[q]} = {"Core"}
    BY <1>1, <1>2
  <1>8. {q \in DOMAIN N : "Unlock" \in N[q]} = {"Core"}
    BY <1>1, <1>2
  <1>9. {q \in DOMAIN N : "Reservation" \in N[q]} = {"Reservation"}
    BY <1>1, <1>2
  <1>10. /\ Support(adv, "RemoteStartStop") = "no" <=> f["Core"] = "no"
         /\ Support(adv, "Unlock") = "no" <=> f["Core"] = "no"
         /\ Support(adv, "Reservation") = "no" <=> f["Reservation"] = "no"
    BY <1>1, <1>6, <1>7, <1>8, <1>9
  <1>11. ProbeOK(adv) <=> f["Core"] # "no" /\ f["Reservation"] # "no"
    BY <1>4, <1>10 DEF ProbeOK, Missing
  <1>12. QED
    BY <1>1, <1>5, <1>11
-----------------------------------------------------------------------------
(* The invariant *)

LEMMA CommandsInit == Init => CommandsInv
  <1> SUFFICES ASSUME Init PROVE CommandsInv
    OBVIOUS
  <1>1. TypeOK
    <2>1. req \in [Clients -> Requested]
      BY DEF Init, Requested
    <2>2. Running \in Int
      BY DEF Running
    <2>3. QED
      BY <2>1, <2>2 DEF Init, TypeOK, PCs
  <1>2. ASSUME NEW c \in Clients PROVE Command(c)
    <2>1. /\ pc[c] = "start" /\ err[c] = "nil" /\ exit[c] = Running
          /\ on[c] = 0 /\ sent[c] = FALSE /\ raw[c] = NoAnswer
      BY DEF Init
    <2>2. Running \notin {0, 1, 2, 4, 5, 6, 8, 9, 10}
      BY DEF Running
    <2>3. OnTheWay(c) /\ Waiting(c)
      BY <2>1 DEF OnTheWay, Waiting, Early
    <2>4. NotSent(c) /\ Tells(c)
      BY <2>1, <2>2 DEF NotSent, Tells
    <2>5. QED
      BY <2>3, <2>4 DEF Command
  <1>3. QED
    BY <1>1, <1>2 DEF CommandsInv

\* Nothing of command d changes.
Still(d) == /\ req'[d] = req[d] /\ pc'[d] = pc[d] /\ err'[d] = err[d]
            /\ on'[d] = on[d] /\ exit'[d] = exit[d] /\ sent'[d] = sent[d] /\ raw'[d] = raw[d]

LEMMA StillCommand ==
  ASSUME NEW d, Command(d), Still(d)
  PROVE  Command(d)'
  <1> USE DEF Still, EVSEGiven
  <1>1. OnTheWay(d)'
    BY DEF Command, OnTheWay
  <1>2. Waiting(d)'
    BY DEF Command, Waiting
  <1>3. NotSent(d)'
    BY DEF Command, NotSent
  <1>4. Tells(d)'
    BY DEF Command, Tells
  <1>5. QED
    BY <1>1, <1>2, <1>3, <1>4 DEF Command

(* The exit code of a command whose result was replied. *)
LEMMA ExitFits ==
  ASSUME NEW c \in Clients, CommandsInv, pc[c] = "reply"
  PROVE  /\ ExitOf(c) \in Int /\ ExitOf(c) # 2
         /\ ExitOf(c) = 9 => on[c] = 0
         /\ ExitOf(c) = 0 /\ req[c].op # "status" => raw[c] \in Yeses(req[c].op)
         /\ ExitOf(c) = 10 => req[c].op = "probe" /\ raw[c] \in Reports \ Yeses(req[c].op)
         /\ ExitOf(c) \in {4, 5, 6, 8} => raw[c] \notin {NoAnswer} \cup Reports \cup Yeses(req[c].op)
  <1>1. Waiting(c)
    BY DEF CommandsInv, Command
  <1>2. Yeses(req[c].op) \subseteq Says(req[c].op)
    BY DEF Yeses, Says
  <1>3. CASE err[c] # "nil"
    <2>1. ExitOf(c) = exitFor(classify(err[c]))
      BY <1>3 DEF ExitOf
    <2>2. CASE err[c] \in Noes
      <3>1. classify(err[c]) \in {"occupied", "faulted", "unlock_failed", "rejected"}
        BY <2>2 DEF Noes, Refusals, classify
      <3>2. exitFor(classify(err[c])) \in {4, 5, 6, 8}
        BY <3>1 DEF exitFor
      <3>3. QED
        BY <1>1, <1>2, <2>1, <2>2, <3>2 DEF Waiting
    <2>3. CASE err[c] \in Refusals
      <3>1. exitFor(classify(err[c])) = 9
        BY <2>3 DEF Refusals, classify, exitFor
      <3>2. QED
        BY <1>1, <2>1, <2>3, <3>1 DEF Waiting
    <2>4. CASE err[c] \notin Noes \cup Refusals
      <3>1. classify(err[c]) \in {"timeout", "not_connected", "usage", "internal"}
        BY <2>4 DEF Noes, classify
      <3>2. exitFor(classify(err[c])) \in {1, 3, 7}
        BY <3>1 DEF exitFor, ExitError
      <3>3. QED
        BY <2>1, <3>2
    <2>5. QED
      BY <2>2, <2>3, <2>4
  <1>4. CASE err[c] = "nil" /\ req[c].op = "probe"
    <2>1. raw[c] \in Reports
      BY <1>1, <1>4 DEF Waiting, Says
    <2>2. ProbeOK(Advertises[raw[c]]) <=> ~Lacks(raw[c])
      BY ProbeVerdict DEF Lacks
    <2>3. raw[c] \in Yeses(req[c].op) <=> ~Lacks(raw[c])
      BY <1>4, <2>1 DEF Yeses
    <2>4. ExitOf(c) = IF Lacks(raw[c]) THEN 10 ELSE 0
      BY <1>4, <2>2 DEF ExitOf, ExitOK, ExitMissingCapability
    <2>5. QED
      BY <1>4, <2>1, <2>3, <2>4
  <1>5. CASE err[c] = "nil" /\ req[c].op # "probe"
    <2>1. ExitOf(c) = 0
      BY <1>5 DEF ExitOf, ExitOK
    <2>2. req[c].op # "status" => raw[c] \in Yeses(req[c].op)
      BY <1>1, <1>5 DEF Waiting, Says, Yeses
    <2>3. QED
      BY <2>1, <2>2
  <1>6. QED
    BY <1>3, <1>4, <1>5

(* What one command does, it does to itself. *)
LEMMA OnlyOne ==
  ASSUME NEW c \in Clients, CommandsInv, TypeOK', Command(c)',
         \A d \in Clients \ {c} : Still(d)
  PROVE  CommandsInv'
  BY StillCommand DEF CommandsInv

(* A failure is recorded and waits to be replied. *)
LEMMA FailsStep ==
  ASSUME NEW c \in Clients, CommandsInv, NEW e, Fails(c, e),
         pc[c] \in {"dispatch", "call"}, UNCHANGED <<req, on, exit, sent, raw>>,
         e \in Refusals => pc[c] = "dispatch",
         e = "nil" => raw[c] \in Says(req[c].op),
         e \in Noes => raw[c] \notin {NoAnswer} \cup Reports \cup Says(req[c].op)
  PROVE  CommandsInv'
  <1>1. TypeOK'
    BY DEF CommandsInv, TypeOK, Fails, Goto, PCs
  <1>2. \A d \in Clients \ {c} : Still(d)
    BY DEF CommandsInv, TypeOK, Fails, Goto, Still
  <1>3. pc'[c] = "reply" /\ err'[c] = e
    BY DEF CommandsInv, TypeOK, Fails, Goto
  <1>4. Command(c)
    BY DEF CommandsInv
  <1>5. OnTheWay(c)'
    BY <1>3, <1>4 DEF Command, OnTheWay, Early, EVSEGiven
  <1>6. Waiting(c)'
    BY <1>3, <1>4 DEF Command, OnTheWay, Waiting
  <1>7. NotSent(c)'
    BY <1>3, <1>4 DEF Command, NotSent, OnTheWay, EVSEGiven
  <1>8. Tells(c)'
    BY <1>4 DEF Command, Tells
  <1>9. QED
    BY <1>1, <1>2, <1>5, <1>6, <1>7, <1>8, OnlyOne DEF Command

LEMMA CommandsNext == CommandsInv /\ [Next]_vars => CommandsInv'
  <1> SUFFICES ASSUME CommandsInv, [Next]_vars PROVE CommandsInv'
    OBVIOUS
  <1> TypeOK /\ \A c \in Clients : Command(c)
    BY DEF CommandsInv
  <1>1. ASSUME NEW c \in Clients, Resolve(c) PROVE CommandsInv'
    <2> DEFINE e == Resolved(req[c])
    <2>1. pc[c] = "start" /\ exit[c] = Running /\ on[c] = 0 /\ sent[c] = FALSE /\ raw[c] = NoAnswer
      BY <1>1 DEF Resolve, Command, OnTheWay, Early
    <2>2. CASE /\ ~NeedsEVSE(req[c].op) \/ e \in EVSEs
               /\ req' = [req EXCEPT ![c].evse = e]
               /\ Goto(c, "dial")
               /\ UNCHANGED <<daemon, link, links, served, on, err, exit, sent, raw>>
      <3>1. e \in EVSEs \cup {Typo, ""}
        BY <2>2 DEF Resolved
      <3> HIDE DEF e
      <3>2. req' \in [Clients -> Requested]
        BY <2>2, <3>1 DEF TypeOK, Requested
      <3>3. req'[c].op = req[c].op /\ req'[c].evse = e
        BY <2>2 DEF TypeOK, Requested
      <3>4. TypeOK'
        BY <2>2, <3>2 DEF TypeOK, Goto, PCs
      <3>5. \A d \in Clients \ {c} : Still(d)
        BY <2>2 DEF Still, Goto, TypeOK
      <3>6. pc'[c] = "dial"
        BY <2>2 DEF TypeOK, Goto
      <3>7. EVSEGiven(c)'
        BY <2>2, <3>3 DEF EVSEGiven
      <3>8. OnTheWay(c)' /\ Waiting(c)'
        BY <2>1, <2>2, <3>6, <3>7 DEF Command, OnTheWay, Waiting, Early
      <3>9. NotSent(c)' /\ Tells(c)'
        BY <2>1, <2>2 DEF NotSent, Tells, Running
      <3>10. QED
        BY <3>4, <3>5, <3>8, <3>9, OnlyOne DEF Command
    <2>3. CASE /\ NeedsEVSE(req[c].op) /\ e \notin EVSEs
               /\ Goto(c, "exited") /\ ExitWith(c, ExitError)
               /\ UNCHANGED req
      <3> HIDE DEF e
      <3>1. TypeOK'
        BY <2>3 DEF TypeOK, Goto, ExitWith, ExitError, PCs
      <3>2. \A d \in Clients \ {c} : Still(d)
        BY <2>3 DEF Still, Goto, ExitWith, TypeOK
      <3>3. pc'[c] = "exited" /\ exit'[c] = 1 /\ on'[c] = 0 /\ sent'[c] = FALSE /\ raw'[c] = NoAnswer
        BY <2>1, <2>3 DEF Goto, ExitWith, ExitError, TypeOK
      <3>4. OnTheWay(c)' /\ Waiting(c)'
        BY <3>3 DEF OnTheWay, Waiting, Early
      <3>5. NotSent(c)' /\ Tells(c)'
        BY <3>3 DEF NotSent, Tells
      <3>6. QED
        BY <3>1, <3>2, <3>4, <3>5, OnlyOne DEF Command
    <2>4. QED
      BY <1>1, <2>2, <2>3 DEF Resolve
  <1>2. ASSUME NEW c \in Clients, Dial(c) PROVE CommandsInv'
    <2>1. TypeOK'
      BY <1>2 DEF Dial, Goto, TypeOK, PCs
    <2>2. \A d \in Clients \ {c} : Still(d)
      BY <1>2 DEF Dial, Still, Goto, TypeOK
    <2>3. pc[c] = "dial" /\ pc'[c] = "dispatch" /\ exit[c] = Running
      BY <1>2 DEF Dial, Goto, TypeOK, Command, OnTheWay, Early
    <2>4. UNCHANGED <<req, on, err, exit, sent, raw>>
      BY <1>2 DEF Dial
    <2>5. OnTheWay(c)' /\ Waiting(c)'
      BY <2>3, <2>4 DEF Command, OnTheWay, Waiting, Early, EVSEGiven
    <2>6. NotSent(c)' /\ Tells(c)'
      BY <2>3, <2>4 DEF NotSent, Tells, Running
    <2>7. QED
      BY <2>1, <2>2, <2>5, <2>6, OnlyOne DEF Command
  <1>3. ASSUME NEW c \in Clients, DialFails(c) PROVE CommandsInv'
    <2>1. TypeOK'
      BY <1>3 DEF DialFails, Goto, ExitWith, ExitNotRunning, TypeOK, PCs
    <2>2. \A d \in Clients \ {c} : Still(d)
      BY <1>3 DEF DialFails, Goto, ExitWith, Still, TypeOK
    <2>3. /\ pc'[c] = "exited" /\ exit'[c] = 2
          /\ UNCHANGED <<req, on, err, sent, raw>>
      BY <1>3 DEF DialFails, Goto, ExitWith, ExitNotRunning, TypeOK
    <2>4. pc[c] = "dial" /\ on[c] = 0
      BY <1>3 DEF DialFails, Command, OnTheWay, Early
    <2>5. OnTheWay(c)' /\ Waiting(c)'
      BY <2>3, <2>4 DEF Command, OnTheWay, Waiting, Early
    <2>6. NotSent(c)' /\ Tells(c)'
      BY <2>3, <2>4 DEF NotSent, Tells
    <2>7. QED
      BY <2>1, <2>2, <2>5, <2>6, OnlyOne DEF Command
  <1>4. ASSUME NEW c \in Clients, GiveUp(c) PROVE CommandsInv'
    <2>1. TypeOK'
      BY <1>4 DEF GiveUp, ExitWith, ExitError, TypeOK
    <2>2. \A d \in Clients \ {c} : Still(d)
      BY <1>4 DEF GiveUp, ExitWith, Still, TypeOK
    <2>3. /\ exit'[c] = 1 /\ pc[c] \notin {"start", "dial", "exited"}
          /\ UNCHANGED <<req, pc, on, err, sent, raw>>
      BY <1>4 DEF GiveUp, ExitWith, ExitError, TypeOK
    <2>4. OnTheWay(c)' /\ Waiting(c)'
      BY <2>3 DEF Command, OnTheWay, Waiting, Early, EVSEGiven
    <2>5. NotSent(c)' /\ Tells(c)'
      BY <2>3 DEF Command, OnTheWay, NotSent, Tells, EVSEGiven
    <2>6. QED
      BY <2>1, <2>2, <2>4, <2>5, OnlyOne DEF Command
  <1>5. ASSUME NEW c \in Clients, BadVersion(c) PROVE CommandsInv'
    BY <1>5, FailsStep DEF BadVersion, Noes, Refusals
  <1>6. ASSUME NEW c \in Clients, Refuse(c) PROVE CommandsInv'
    <2>1. LocalErrors(req[c].op) \cap (Noes \cup {"nil"}) = {}
      <3>1. req[c].op \in Ops
        BY DEF TypeOK, Requested
      <3>2. QED
        BY <3>1 DEF Ops, LocalErrors, Noes
    <2>2. PICK e : /\ Fails(c, e)
                   /\ e \in LocalErrors(req[c].op) \cup {"ErrUnknownEVSE", "ErrNotConnected"}
      BY <1>6 DEF Refuse
    <2>3. pc[c] = "dispatch" /\ UNCHANGED <<req, on, exit, sent, raw>>
      BY <1>6 DEF Refuse
    <2>4. e # "nil" /\ e \notin Noes
      BY <2>1, <2>2 DEF Noes
    <2>5. QED
      BY <2>2, <2>3, <2>4, FailsStep
  <1>7. ASSUME NEW c \in Clients, Status(c) PROVE CommandsInv'
    <2>1. TypeOK'
      BY <1>7 DEF Status, Goto, TypeOK, PCs
    <2>2. \A d \in Clients \ {c} : Still(d)
      BY <1>7 DEF Status, Still, Goto, TypeOK
    <2>3. /\ pc[c] = "dispatch" /\ pc'[c] = "reply" /\ req[c].op = "status"
          /\ UNCHANGED <<req, on, err, exit, sent, raw>>
      BY <1>7 DEF Status, Goto, TypeOK
    <2>4. OnTheWay(c)' /\ Waiting(c)'
      BY <2>3 DEF Command, OnTheWay, Waiting, Early, EVSEGiven, Noes, Refusals
    <2>5. NotSent(c)' /\ Tells(c)'
      BY <2>3 DEF Command, OnTheWay, NotSent, Tells, EVSEGiven
    <2>6. QED
      BY <2>1, <2>2, <2>4, <2>5, OnlyOne DEF Command
  <1>8. ASSUME NEW c \in Clients, Call(c) PROVE CommandsInv'
    <2>1. TypeOK'
      BY <1>8 DEF Call, Goto, TypeOK, PCs
    <2>2. \A d \in Clients \ {c} : Still(d)
      BY <1>8 DEF Call, Still, Goto, TypeOK
    <2>3. /\ pc[c] = "dispatch" /\ pc'[c] = "call" /\ on'[c] # 0 /\ req[c].op # "status"
          /\ UNCHANGED <<req, err, exit, sent, raw>>
      BY <1>8 DEF Call, Goto, TypeOK
    <2>4. OnTheWay(c)' /\ Waiting(c)'
      BY <2>3 DEF Command, OnTheWay, Waiting, Early, EVSEGiven
    <2>5. NotSent(c)' /\ Tells(c)'
      BY <2>3 DEF Command, OnTheWay, NotSent, Tells, EVSEGiven
    <2>6. QED
      BY <2>1, <2>2, <2>4, <2>5, OnlyOne DEF Command
  <1>9. ASSUME NEW c \in Clients, Deliver(c) PROVE CommandsInv'
    <2>1. TypeOK'
      BY <1>9 DEF Deliver, TypeOK
    <2>2. \A d \in Clients \ {c} : Still(d)
      BY <1>9 DEF Deliver, Still, TypeOK
    <2>3. /\ on[c] # 0 /\ sent'[c] = TRUE
          /\ UNCHANGED <<req, pc, on, err, exit, raw>>
      BY <1>9 DEF Deliver, TypeOK
    <2>4. OnTheWay(c)' /\ Waiting(c)'
      BY <2>3 DEF Command, OnTheWay, Waiting, Early, EVSEGiven
    <2>5. NotSent(c)' /\ Tells(c)'
      BY <2>3 DEF Command, OnTheWay, NotSent, Tells, EVSEGiven
    <2>6. QED
      BY <2>1, <2>2, <2>4, <2>5, OnlyOne DEF Command
  <1>10. ASSUME NEW c \in Clients, NEW a, Answer(c, a) PROVE CommandsInv'
    <2>1. TypeOK'
      BY <1>10 DEF Answer, TypeOK
    <2>2. \A d \in Clients \ {c} : Still(d)
      BY <1>10 DEF Answer, Still, TypeOK
    <2>3. /\ sent[c] = TRUE /\ raw[c] = NoAnswer /\ raw'[c] = a /\ a \in Answers(req[c].op)
          /\ UNCHANGED <<req, pc, on, err, exit, sent>>
      BY <1>10 DEF Answer, TypeOK
    <2>4. NoAnswer \notin Says(req[c].op) /\ NoAnswer \notin Yeses(req[c].op)
      BY ReportsAre DEF Says, Yeses, Yes, NoAnswer
    <2>5. OnTheWay(c)'
      BY <2>3 DEF Command, OnTheWay, Early, EVSEGiven
    <2>6. Waiting(c)'
      BY <2>3, <2>4 DEF Command, OnTheWay, Waiting
    <2>7. NotSent(c)' /\ Tells(c)'
      BY <2>3, <2>4, ReportsAre DEF Command, NotSent, Tells, EVSEGiven, NoAnswer
    <2>8. QED
      BY <2>1, <2>2, <2>5, <2>6, <2>7, OnlyOne DEF Command
  <1>11. ASSUME NEW c \in Clients, CallAnswered(c) PROVE CommandsInv'
    <2>1. /\ pc[c] = "call" /\ raw[c] # NoAnswer
          /\ Fails(c, Result(req[c].op, raw[c])) /\ UNCHANGED <<req, on, exit, sent, raw>>
      BY <1>11 DEF CallAnswered
    <2>2. req[c].op \in Ops \ {"status"} /\ raw[c] \in Answers(req[c].op)
      BY <2>1 DEF TypeOK, Requested, Command, OnTheWay
    <2>3. QED
      BY <2>1, <2>2, ResultFits, FailsStep
  <1>12. ASSUME NEW c \in Clients, CallTimesOut(c) PROVE CommandsInv'
    BY <1>12, FailsStep DEF CallTimesOut, Noes, Refusals
  <1>13. ASSUME NEW c \in Clients, CallClosed(c) PROVE CommandsInv'
    BY <1>13, FailsStep DEF CallClosed, Noes, Refusals
  <1>14. ASSUME NEW c \in Clients, Reply(c) PROVE CommandsInv'
    <2>1. /\ pc[c] = "reply" /\ pc'[c] = "exited"
          /\ exit'[c] = IF exit[c] # Running THEN exit[c] ELSE ExitOf(c)
          /\ UNCHANGED <<req, on, err, sent, raw>>
      BY <1>14 DEF Reply, Goto, TypeOK
    <2>2. ExitOf(c) \in Int
      BY <2>1, ExitFits
    <2>3. TypeOK'
      BY <1>14, <2>2 DEF Reply, Goto, TypeOK, PCs
    <2>4. \A d \in Clients \ {c} : Still(d)
      BY <1>14 DEF Reply, Goto, Still, TypeOK
    <2>5. OnTheWay(c)' /\ Waiting(c)'
      BY <2>1 DEF Command, OnTheWay, Waiting, Early, EVSEGiven
    <2>6. NotSent(c)' /\ Tells(c)'
      <3>1. CASE exit[c] # Running
        BY <2>1, <3>1 DEF Command, NotSent, Tells, EVSEGiven
      <3>2. CASE exit[c] = Running
        <4>1. EVSEGiven(c)
          BY <2>1 DEF Command, OnTheWay
        <4>2. exit'[c] = ExitOf(c)
          BY <2>1, <3>2
        <4>3. QED
          BY <2>1, <4>1, <4>2, ExitFits DEF NotSent, Tells, EVSEGiven
      <3>3. QED
        BY <3>1, <3>2
    <2>7. QED
      BY <2>3, <2>4, <2>5, <2>6, OnlyOne DEF Command
  <1>15. ASSUME Crash PROVE CommandsInv'
    <2>1. TypeOK'
      BY <1>15 DEF Crash, TypeOK, PCs, ExitError
    <2>2. ASSUME NEW c \in Clients PROVE Command(c)'
      <3>1. CASE pc[c] \in Early
        <4>1. Still(c)
          BY <1>15, <3>1 DEF Crash, Still, Early
        <4>2. QED
          BY <4>1, StillCommand
      <3>2. CASE pc[c] \notin Early
        <4>1. /\ pc'[c] = "exited" /\ exit'[c] = IF exit[c] # Running THEN exit[c] ELSE 1
              /\ UNCHANGED <<req, on, err, sent, raw>>
          BY <1>15, <3>2 DEF Crash, Early, ExitError
        <4>2. OnTheWay(c)' /\ Waiting(c)'
          BY <3>2, <4>1 DEF Command, OnTheWay, Waiting, Early, EVSEGiven
        <4>3. NotSent(c)' /\ Tells(c)'
          BY <3>2, <4>1 DEF Command, OnTheWay, NotSent, Tells, EVSEGiven
        <4>4. QED
          BY <4>2, <4>3 DEF Command
      <3>3. QED
        BY <3>1, <3>2
    <2>3. QED
      BY <2>1, <2>2 DEF CommandsInv
  <1>16. CASE UNCHANGED <<req, pc, on, err, exit, sent, raw>>
    <2>1. \A c \in Clients : Still(c)
      BY <1>16 DEF Still
    <2>2. TypeOK'
      BY <1>16 DEF TypeOK
    <2>3. QED
      BY <2>1, <2>2, StillCommand DEF CommandsInv
  <1>17. QED
    BY <1>1, <1>2, <1>3, <1>4, <1>5, <1>6, <1>7, <1>8, <1>9, <1>10, <1>11, <1>12, <1>13,
       <1>14, <1>15, <1>16
       DEF Next, vars, StationConnects, StationDrops, Shutdown, Stopped
-----------------------------------------------------------------------------
(* Theorems *)

(* Every command of a run of cpms keeps the invariant, whatever happens to   *)
(* the daemon and to the station's connection while it is under way.         *)
THEOREM CommandsInvariant == Spec => []CommandsInv
  BY CommandsInit, CommandsNext, PTL DEF Spec

(* Exit codes 2 and 9, and a typo in --evse, mean that the station was not   *)
(* sent the command and will not be (exitFor, resolveEVSE): it may be run    *)
(* again, for any number of commands, EVSEs and connections.                 *)
THEOREM UnsentIsUnsent == Spec => []NotSentMeansNotSent
  <1>1. CommandsInv => NotSentMeansNotSent
    <2> SUFFICES ASSUME CommandsInv, NEW c \in Clients,
                        \/ exit[c] \in {2, 9}
                        \/ exit[c] = 1 /\ NeedsEVSE(req[c].op) /\ req[c].evse \notin EVSEs
                 PROVE  ~sent[c] /\ pc[c] = "exited"
      BY DEF NotSentMeansNotSent
    <2>1. NotSent(c) /\ OnTheWay(c) /\ sent[c] \in BOOLEAN
      BY DEF CommandsInv, Command, TypeOK
    <2>2. on[c] = 0 /\ pc[c] = "exited"
      BY <2>1 DEF NotSent, EVSEGiven
    <2>3. QED
      BY <2>1, <2>2 DEF OnTheWay
  <1>2. QED
    BY <1>1, CommandsInvariant, PTL

(* The exit code tells what the station answered: 0 only for a yes to this   *)
(* very command or a report that rules out nothing, 10 only for a report     *)
(* that lacks Core or Reservation, 4, 5, 6 and 8 only for an answer that was *)
(* not a yes (classify, exitFor, evaluateProbe).                             *)
THEOREM ExitCodeTellsAnswer == Spec => []ExitTellsAnswer
  <1>1. CommandsInv => ExitTellsAnswer
    <2> SUFFICES ASSUME CommandsInv PROVE ExitTellsAnswer
      OBVIOUS
    <2>1. ASSUME NEW c \in Clients PROVE Tells(c)
      BY DEF CommandsInv, Command
    <2>2. QED
      BY <2>1 DEF ExitTellsAnswer, Tells, Yeses, Lacks, Reports
  <1>2. QED
    BY <1>1, CommandsInvariant, PTL
=============================================================================
