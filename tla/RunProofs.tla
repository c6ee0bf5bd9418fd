----------------------------- MODULE RunProofs ------------------------------
(***************************************************************************)
(* cpms run, for every config and every wiring it may find and any number  *)
(* of connections, socket requests, timers and OCPI requests: it drains in *)
(* order, and the OCPI server serves what it lists.  Each goroutine that   *)
(* is there is tied to the stretch of run in which it may be.              *)
(***************************************************************************)
EXTENDS Run, TLAPS

PCs == {"load", "version", "lock", "open", "listen", "core", "csms", "ocpi", "register", "serve",
        "wait", "drain ocpi", "close socket", "close commands", "shutdown csms", "close csms",
        "drain csms", "stop timers", "release", "exit", "exited"}

\* Where run is while the control socket is served, and while cancels go on.
Served == {"wait", "drain ocpi", "close socket"}
\* While the OCPP server listens.
Linked == {"ocpi", "register", "serve", "wait", "drain ocpi", "close socket", "close commands",
           "shutdown csms", "close csms"}
\* While reservations may have timers running.
Timed == {"csms", "drain csms", "stop timers"} \cup Linked

TypeOK ==
  /\ pc \in PCs
  /\ listening \subseteq {"socket", "ocpp"}
  /\ conn \in [Conns -> {"none", "upgraded", "serving", "closed"}]
  /\ call \in [Calls -> {"none", "handling", "background"}]
  /\ timer \in [Timers -> {"off", "armed", "fired"}]
  /\ grace \in [ocpi : {"off", "running", "expired"}, csms : {"off", "running", "expired"}]
  /\ request \in [Requests -> {"none", "reading", "handling", "writing"}]
  /\ accepting \in BOOLEAN

CallsInTime == \A k \in Calls : /\ call[k] = "handling" => pc \in Served
                                /\ call[k] = "background" => pc \in Served \cup {"close commands"}
ConnsInTime == /\ "ocpp" \in listening => pc \in Linked
               /\ \A c \in Conns : conn[c] # "none" =>
                    pc \in Linked \cup {"drain csms"} \/ grace.csms = "expired"
TimersInTime == \A x \in Timers : timer[x] = "armed" => pc \in Timed
RequestsInTime == /\ accepting = TRUE => pc \in {"serve", "wait"}
                  /\ \A r \in Requests : request[r] # "none" =>
                       pc \in {"serve", "wait", "drain ocpi"} \/ grace.ocpi = "expired"

DrainInv == TypeOK /\ CallsInTime /\ ConnsInTime /\ TimersInTime /\ RequestsInTime
-----------------------------------------------------------------------------
(* Draining in order *)

LEMMA DrainInit == RunInit => DrainInv
  <1> SUFFICES ASSUME RunInit PROVE DrainInv
    OBVIOUS
  <1>1. TypeOK
    BY DEF RunInit, OcpiInit, TypeOK, PCs
  <1>2. CallsInTime /\ ConnsInTime /\ TimersInTime /\ RequestsInTime
    BY DEF RunInit, OcpiInit, CallsInTime, ConnsInTime, TimersInTime, RequestsInTime
  <1>3. QED
    BY <1>1, <1>2 DEF DrainInv

\* What the steps of run in which nothing but pc moves have in common.
LEMMA MovesOn ==
  ASSUME DrainInv, pc' \in PCs,
         UNCHANGED <<conn, call, timer, grace, request, accepting>>,
         listening' \subseteq {"socket", "ocpp"},
         pc \in Served => pc' \in Served \/ \A k \in Calls : call[k] # "handling",
         pc \in Served \cup {"close commands"} =>
           pc' \in Served \cup {"close commands"} \/ \A k \in Calls : call[k] = "none",
         "ocpp" \in listening' => pc' \in Linked,
         pc \in Linked \cup {"drain csms"} =>
           \/ pc' \in Linked \cup {"drain csms"} \/ grace.csms = "expired"
           \/ \A c \in Conns : conn[c] = "none",
         pc \in Timed => pc' \in Timed \/ \A x \in Timers : timer[x] # "armed",
         pc \in {"serve", "wait"} => pc' \in {"serve", "wait"},
         pc \in {"serve", "wait", "drain ocpi"} =>
           \/ pc' \in {"serve", "wait", "drain ocpi"} \/ grace.ocpi = "expired"
           \/ \A r \in Requests : request[r] = "none"
  PROVE  DrainInv'
  <1>1. TypeOK'
    BY DEF DrainInv, TypeOK
  <1>2. CallsInTime'
    <2> SUFFICES ASSUME NEW k \in Calls
                 PROVE  /\ call[k] = "handling" => pc' \in Served
                        /\ call[k] = "background" => pc' \in Served \cup {"close commands"}
      BY DEF CallsInTime
    <2>1. call[k] = "handling" => pc \in Served
      BY DEF DrainInv, CallsInTime
    <2>2. call[k] = "background" => pc \in Served \cup {"close commands"}
      BY DEF DrainInv, CallsInTime
    <2>3. QED
      BY <2>1, <2>2
  <1>3. ConnsInTime'
    BY DEF DrainInv, ConnsInTime
  <1>4. TimersInTime'
    BY DEF DrainInv, TimersInTime
  <1>5. RequestsInTime'
    BY DEF DrainInv, RequestsInTime
  <1>6. QED
    BY <1>1, <1>2, <1>3, <1>4, <1>5 DEF DrainInv

LEMMA DrainStarting ==
  ASSUME DrainInv,
         Load \/ CheckVersion \/ Lock \/ OpenStore \/ ListenSocket \/ StartCSMS \/ Serve
  PROVE  DrainInv'
  <1> USE DEF At, Goto, Continue, Fail, NothingElse, ocpiVars, PCs, Served, Linked, Timed
  <1>1. listening \subseteq {"socket", "ocpp"} /\ ("ocpp" \in listening => pc \in Linked)
    BY DEF DrainInv, TypeOK, ConnsInTime
  <1>2. CASE Load
    BY <1>1, <1>2, MovesOn DEF Load
  <1>3. CASE CheckVersion
    BY <1>1, <1>3, MovesOn DEF CheckVersion
  <1>4. CASE Lock
    BY <1>1, <1>4, MovesOn DEF Lock
  <1>5. CASE OpenStore
    BY <1>1, <1>5, MovesOn DEF OpenStore
  <1>6. CASE ListenSocket
    BY <1>1, <1>6, MovesOn DEF ListenSocket
  <1>7. CASE StartCSMS
    BY <1>1, <1>7, MovesOn DEF StartCSMS
  <1>8. CASE Serve
    BY <1>1, <1>8, MovesOn DEF Serve
  <1>9. QED
    BY <1>2, <1>3, <1>4, <1>5, <1>6, <1>7, <1>8

LEMMA DrainCore == ASSUME DrainInv, NewCore PROVE DrainInv'
  <1>1. TypeOK'
    BY DEF DrainInv, TypeOK, NewCore, At, Continue, Goto, ocpiVars, PCs
  <1>2. CallsInTime' /\ RequestsInTime'
    BY DEF DrainInv, CallsInTime, RequestsInTime, NewCore, At, Continue, Goto, ocpiVars, Served
  <1>3. ConnsInTime' /\ TimersInTime'
    BY DEF DrainInv, ConnsInTime, TimersInTime, NewCore, At, Continue, Goto, Linked, Timed
  <1>4. QED
    BY <1>1, <1>2, <1>3 DEF DrainInv

LEMMA DrainOCPI ==
  ASSUME DrainInv, NewOCPI \/ RegisterNext
  PROVE  DrainInv'
  <1>1. UNCHANGED <<conn, call, timer, grace, listening, request, accepting>>
    BY DEF NewOCPI, RegisterNext, NewServer, Register, ocpiVars
  <1>2. pc \in {"ocpi", "register"} /\ pc' \in {"register", "close commands"}
    BY DEF NewOCPI, RegisterNext, At, Continue, Fail, Goto
  <1>3. listening \subseteq {"socket", "ocpp"}
    BY DEF DrainInv, TypeOK
  <1>4. QED
    BY <1>1, <1>2, <1>3, MovesOn DEF PCs, Served, Linked, Timed

(* Whether the listener of the OCPI server opened decides what comes next.   *)
LEMMA DrainStartOCPI == ASSUME DrainInv, StartOCPI PROVE DrainInv'
  <1>1. /\ pc = "register"
        /\ \/ pc' = "serve" /\ accepting' = TRUE
           \/ pc' = "close commands" /\ accepting' = FALSE
        /\ UNCHANGED <<conn, call, timer, grace, listening, request>>
    BY DEF StartOCPI, Start, At, Continue, Fail, Goto
  <1>2. TypeOK'
    BY <1>1 DEF DrainInv, TypeOK, PCs
  <1>3. CallsInTime' /\ RequestsInTime'
    BY <1>1 DEF DrainInv, CallsInTime, RequestsInTime, Served
  <1>4. ConnsInTime' /\ TimersInTime'
    BY <1>1 DEF DrainInv, ConnsInTime, TimersInTime, Linked, Timed
  <1>5. QED
    BY <1>2, <1>3, <1>4 DEF DrainInv

LEMMA DrainShutdown ==
  ASSUME DrainInv,
         \/ ShutdownOCPI \/ OCPIDrained \/ CloseSocket \/ CloseCommands \/ ShutdownCSMS
         \/ CloseCSMS \/ CSMSDrained \/ StopTimers \/ Release \/ Exit
  PROVE  DrainInv'
  <1> USE DEF At, Goto, Continue, NothingElse, ocpiVars, PCs, Served, Linked, Timed
  <1>1. listening \subseteq {"socket", "ocpp"} /\ ("ocpp" \in listening => pc \in Linked)
    BY DEF DrainInv, TypeOK, ConnsInTime
  <1>2. CASE ShutdownOCPI
    <2>1. /\ pc = "wait" /\ pc' = "drain ocpi" /\ accepting' = FALSE
          /\ grace' = [grace EXCEPT !.ocpi = "running"]
          /\ UNCHANGED <<conn, call, timer, listening, request>>
      BY <1>2 DEF ShutdownOCPI, ShutdownBegins
    <2>2. TypeOK' /\ grace'.csms = grace.csms
      BY <2>1 DEF DrainInv, TypeOK
    <2>3. CallsInTime' /\ RequestsInTime'
      BY <2>1 DEF DrainInv, CallsInTime, RequestsInTime
    <2>4. ConnsInTime' /\ TimersInTime'
      BY <2>1, <2>2 DEF DrainInv, ConnsInTime, TimersInTime
    <2>5. QED
      BY <2>2, <2>3, <2>4 DEF DrainInv
  <1>3. CASE OCPIDrained
    BY <1>1, <1>3, MovesOn DEF OCPIDrained, ShutdownDone, InFlight
  <1>4. CASE CloseSocket
    BY <1>1, <1>4, MovesOn DEF CloseSocket
  <1>5. CASE CloseCommands
    <2>1. \A k \in Calls : call[k] \in {"none", "background"}
      BY <1>5 DEF CloseCommands, DrainInv, TypeOK, CallsInTime
    <2>2. QED
      BY <1>1, <1>5, <2>1, MovesOn DEF CloseCommands
  <1>6. CASE ShutdownCSMS
    <2>1. /\ pc = "shutdown csms" /\ pc' = "close csms"
          /\ grace' = [grace EXCEPT !.csms = "running"]
          /\ conn' = [c \in Conns |-> IF conn[c] = "serving" THEN "closed" ELSE conn[c]]
          /\ UNCHANGED <<call, timer, listening, request, accepting>>
      BY <1>6 DEF ShutdownCSMS
    <2>2. TypeOK' /\ grace'.ocpi = grace.ocpi
      BY <2>1 DEF DrainInv, TypeOK
    <2>3. CallsInTime' /\ RequestsInTime'
      BY <2>1, <2>2 DEF DrainInv, CallsInTime, RequestsInTime
    <2>4. ConnsInTime' /\ TimersInTime'
      BY <2>1 DEF DrainInv, ConnsInTime, TimersInTime
    <2>5. QED
      BY <2>2, <2>3, <2>4 DEF DrainInv
  <1>7. CASE CloseCSMS
    BY <1>1, <1>7, MovesOn DEF CloseCSMS
  <1>8. CASE CSMSDrained
    BY <1>1, <1>8, MovesOn DEF CSMSDrained
  <1>9. CASE StopTimers
    <2>1. /\ pc = "stop timers" /\ pc' = "release"
          /\ timer' = [x \in Timers |-> IF timer[x] = "armed" THEN "off" ELSE timer[x]]
          /\ UNCHANGED <<conn, call, grace, listening, request, accepting>>
      BY <1>9 DEF StopTimers
    <2>2. TypeOK'
      BY <2>1 DEF DrainInv, TypeOK
    <2>3. CallsInTime' /\ RequestsInTime'
      BY <2>1 DEF DrainInv, CallsInTime, RequestsInTime
    <2>4. ConnsInTime' /\ TimersInTime'
      BY <2>1 DEF DrainInv, TypeOK, ConnsInTime, TimersInTime
    <2>5. QED
      BY <2>2, <2>3, <2>4 DEF DrainInv
  <1>10. CASE Release
    BY <1>1, <1>10, MovesOn DEF Release
  <1>11. CASE Exit
    <2>1. TypeOK'
      BY <1>11 DEF Exit, DrainInv, TypeOK
    <2>2. CallsInTime' /\ RequestsInTime'
      BY <1>11 DEF Exit, DrainInv, CallsInTime, RequestsInTime
    <2>3. ConnsInTime' /\ TimersInTime'
      BY <1>11 DEF Exit, DrainInv, ConnsInTime, TimersInTime
    <2>4. QED
      BY <2>1, <2>2, <2>3 DEF DrainInv
  <1>12. QED
    BY <1>2, <1>3, <1>4, <1>5, <1>6, <1>7, <1>8, <1>9, <1>10, <1>11

\* run stays where it is and a goroutine of one kind moves.
LEMMA DrainGoroutines ==
  ASSUME DrainInv,
         \/ \E c \in Conns : Upgrade(c) \/ RegisterConn(c) \/ ConnDrops(c) \/ ConnEnds(c)
         \/ \E k \in Calls : AcceptCall(k) \/ CallAnswered(k) \/ CancelEnds(k)
                             \/ (\E x \in Timers : ArmTimer(k, x))
         \/ \E x \in Timers : Fire(x) \/ Expire(x)
  PROVE  DrainInv'
  <1> USE DEF Others, ocpiVars
  <1>1. ASSUME NEW c \in Conns, Upgrade(c) \/ RegisterConn(c) \/ ConnDrops(c) \/ ConnEnds(c)
        PROVE  DrainInv'
    <2>1. UNCHANGED <<pc, listening, call, timer, grace, request, accepting>>
      BY <1>1 DEF Upgrade, RegisterConn, ConnDrops, ConnEnds
    <2>2. TypeOK'
      <3>1. conn' \in [Conns -> {"none", "upgraded", "serving", "closed"}]
        BY <1>1 DEF DrainInv, TypeOK, Upgrade, RegisterConn, ConnDrops, ConnEnds
      <3>2. QED
        BY <2>1, <3>1 DEF DrainInv, TypeOK
    <2>3. CallsInTime' /\ RequestsInTime' /\ TimersInTime'
      BY <2>1 DEF DrainInv, CallsInTime, RequestsInTime, TimersInTime
    <2>4. \A d \in Conns : conn'[d] # "none" => conn[d] # "none" \/ "ocpp" \in listening
      BY <1>1 DEF DrainInv, TypeOK, Upgrade, RegisterConn, ConnDrops, ConnEnds
    <2>5. ConnsInTime'
      BY <2>1, <2>4 DEF DrainInv, ConnsInTime
    <2>6. QED
      BY <2>2, <2>3, <2>5 DEF DrainInv
  <1>2. ASSUME NEW k \in Calls, AcceptCall(k) \/ CallAnswered(k) \/ CancelEnds(k)
        PROVE  DrainInv'
    <2>1. UNCHANGED <<pc, listening, conn, timer, grace, request, accepting>>
      BY <1>2 DEF AcceptCall, CallAnswered, CancelEnds
    <2>2. TypeOK'
      <3>1. call' \in [Calls -> {"none", "handling", "background"}]
        <4>1. PICK to \in {"none", "handling", "background"} : call' = [call EXCEPT ![k] = to]
          BY <1>2 DEF AcceptCall, CallAnswered, CancelEnds
        <4>2. QED
          BY <4>1 DEF DrainInv, TypeOK
      <3>2. QED
        BY <2>1, <3>1 DEF DrainInv, TypeOK
    <2>3. ConnsInTime' /\ RequestsInTime' /\ TimersInTime'
      BY <2>1 DEF DrainInv, ConnsInTime, RequestsInTime, TimersInTime
    <2>4. CallsInTime'
      BY <1>2, <2>1 DEF DrainInv, TypeOK, CallsInTime, AcceptCall, CallAnswered, CancelEnds, Served
    <2>5. QED
      BY <2>2, <2>3, <2>4 DEF DrainInv
  <1>3. ASSUME NEW x \in Timers, Fire(x) \/ Expire(x) \/ \E k \in Calls : ArmTimer(k, x)
        PROVE  DrainInv'
    <2>1. UNCHANGED <<pc, listening, conn, call, grace, request, accepting>>
      BY <1>3 DEF Fire, Expire, ArmTimer
    <2>2. TypeOK'
      <3>1. timer' \in [Timers -> {"off", "armed", "fired"}]
        BY <1>3 DEF DrainInv, TypeOK, Fire, Expire, ArmTimer
      <3>2. QED
        BY <2>1, <3>1 DEF DrainInv, TypeOK
    <2>3. ConnsInTime' /\ RequestsInTime' /\ CallsInTime'
      BY <2>1 DEF DrainInv, ConnsInTime, RequestsInTime, CallsInTime
    <2>4. \A y \in Timers : timer'[y] = "armed" => timer[y] = "armed" \/ pc \in Served
      <3>1. CASE Fire(x) \/ Expire(x)
        BY <3>1 DEF DrainInv, TypeOK, Fire, Expire
      <3>2. ASSUME NEW k \in Calls, ArmTimer(k, x)
            PROVE  \A y \in Timers : timer'[y] = "armed" => timer[y] = "armed" \/ pc \in Served
        BY <3>2 DEF DrainInv, CallsInTime, ArmTimer
      <3>3. QED
        BY <1>3, <3>1, <3>2
    <2>5. TimersInTime'
      BY <2>1, <2>4 DEF DrainInv, TimersInTime, Served, Timed, Linked
    <2>6. QED
      BY <2>2, <2>3, <2>5 DEF DrainInv
  <1>4. QED
    BY <1>1, <1>2, <1>3

LEMMA DrainRequests ==
  ASSUME DrainInv, NEW r \in Requests, OCPIRequest(r)
  PROVE  DrainInv'
  <1>1. UNCHANGED <<pc, listening, conn, call, timer, grace, accepting>>
    BY DEF OCPIRequest, AcceptRequest, Dispatch, HandlerReturns, RequestEnds, runVars
  <1>2. \E s \in {"none", "reading", "handling", "writing"} : request' = [request EXCEPT ![r] = s]
    BY DEF OCPIRequest, AcceptRequest, Dispatch, HandlerReturns, RequestEnds
  <1>3. TypeOK'
    BY <1>1, <1>2 DEF DrainInv, TypeOK
  <1>4. CallsInTime' /\ ConnsInTime' /\ TimersInTime'
    BY <1>1 DEF DrainInv, CallsInTime, ConnsInTime, TimersInTime
  <1>5. request[r] # "none" \/ accepting = TRUE
    <2>1. CASE AcceptRequest(r)
      BY <2>1 DEF AcceptRequest, DrainInv, TypeOK
    <2>2. CASE \/ \E outcome \in Outcomes : Dispatch(r, outcome)
               \/ HandlerReturns(r) \/ RequestEnds(r)
      BY <2>2 DEF Dispatch, HandlerReturns, RequestEnds
    <2>3. QED
      BY <2>1, <2>2 DEF OCPIRequest
  <1>6. RequestsInTime'
    BY <1>1, <1>2, <1>5 DEF DrainInv, TypeOK, RequestsInTime
  <1>7. QED
    BY <1>3, <1>4, <1>6 DEF DrainInv

LEMMA DrainNext == DrainInv /\ [RunNext]_allVars => DrainInv'
  <1> SUFFICES ASSUME DrainInv, [RunNext]_allVars PROVE DrainInv'
    OBVIOUS
  <1>1. CASE Main
    BY <1>1, DrainStarting, DrainCore, DrainOCPI, DrainStartOCPI, DrainShutdown DEF Main
  <1>2. CASE Signal \/ SocketCloses \/ UNCHANGED allVars
    <2>1. UNCHANGED <<pc, conn, call, timer, grace, request, accepting>>
      BY <1>2 DEF Signal, SocketCloses, allVars, runVars, ocpiVars
    <2>2. listening' \subseteq listening
      BY <1>2 DEF Signal, SocketCloses, allVars, runVars
    <2>3. QED
      BY <2>1, <2>2, MovesOn DEF DrainInv, TypeOK, ConnsInTime
  <1>3. ASSUME NEW g \in {"ocpi", "csms"}, GraceEnds(g) PROVE DrainInv'
    <2>1. /\ UNCHANGED <<pc, listening, conn, call, timer, request, accepting>>
          /\ grace' = [grace EXCEPT ![g] = "expired"]
      BY <1>3 DEF GraceEnds, ocpiVars
    <2>2. /\ grace' \in [ocpi : {"off", "running", "expired"}, csms : {"off", "running", "expired"}]
          /\ grace.ocpi = "expired" => grace'.ocpi = "expired"
          /\ grace.csms = "expired" => grace'.csms = "expired"
      BY <2>1 DEF DrainInv, TypeOK
    <2>3. TypeOK'
      BY <2>1, <2>2 DEF DrainInv, TypeOK
    <2>4. CallsInTime' /\ RequestsInTime'
      BY <2>1, <2>2 DEF DrainInv, CallsInTime, RequestsInTime
    <2>5. ConnsInTime' /\ TimersInTime'
      BY <2>1, <2>2 DEF DrainInv, ConnsInTime, TimersInTime
    <2>6. QED
      BY <2>3, <2>4, <2>5 DEF DrainInv
  <1>4. QED
    BY <1>1, <1>2, <1>3, DrainGoroutines, DrainRequests DEF RunNext

(* Every goroutine is there only in the stretch of run it belongs to, for    *)
(* any number of them.                                                       *)
THEOREM DrainInvariant == RunSpec => []DrainInv
  BY DrainInit, DrainNext, PTL DEF RunSpec

(* The shutdown of cmdRun drains in order: no socket request or cancel is    *)
(* left when the connections are closed, OCPI requests and connections are   *)
(* left behind only by a grace that ran out, and when the lock is released   *)
(* no timer is armed.                                                        *)
THEOREM ShutdownDrainsInOrder == RunSpec => []DrainedInOrder
  <1>1. DrainInv => DrainedInOrder
    <2> SUFFICES ASSUME DrainInv PROVE DrainedInOrder
      OBVIOUS
    <2>1. ASSUME pc \in {"close csms", "drain csms", "stop timers", "release", "exit"}
          PROVE  /\ \A k \in Calls : call[k] = "none"
                 /\ InFlight # {} => grace.ocpi = "expired"
      BY <2>1 DEF DrainInv, TypeOK, CallsInTime, RequestsInTime, Served, InFlight
    <2>2. ASSUME pc = "exit", NEW c \in Conns, conn[c] # "none" PROVE grace.csms = "expired"
      BY <2>2 DEF DrainInv, ConnsInTime, Linked
    <2>3. pc = "exit" => \A x \in Timers : timer[x] # "armed"
      BY DEF DrainInv, TimersInTime, Timed, Linked
    <2>4. QED
      BY <2>1, <2>2, <2>3 DEF DrainedInOrder
  <1>2. QED
    BY <1>1, DrainInvariant, PTL
-----------------------------------------------------------------------------
(* The config *)

(* What normalize and applyDefaults leave of the fields that later lookups   *)
(* rest on: tokens lose their white space, and no EVSE comes or goes.        *)
LEMMA ParsedFields ==
  ASSUME NEW raw \in Configuration
  PROVE  LET c == Parse(raw).cfg
         IN /\ c.tokenA = Trim(raw.tokenA)
            /\ c.tokenC = Trim(raw.tokenC)
            /\ DOMAIN c.evses = 1..Len(raw.evses)
            /\ Parse(raw).ok <=> Validate(c)
  <1> DEFINE n == Normalize(raw)
             c == ApplyDefaults(n)
  <1>1. Parse(raw) = [ok |-> Validate(c), cfg |-> c]
    BY DEF Parse
  <1>2. n.tokenA = Trim(raw.tokenA) /\ n.tokenC = Trim(raw.tokenC)
    BY DEF Normalize, Configuration
  <1>3. DOMAIN n.evses = 1..Len(raw.evses)
    <2>1. DOMAIN raw.evses = 1..Len(raw.evses)
      BY DEF Configuration
    <2>2. DOMAIN n.evses = DOMAIN raw.evses
      BY DEF Normalize, Configuration
    <2>3. QED
      BY <2>1, <2>2
  <1>4. c.tokenA = n.tokenA /\ c.tokenC = n.tokenC /\ c.evses = n.evses
    BY DEF ApplyDefaults, Normalize, Configuration
  <1> HIDE DEF c, n
  <1>5. Parse(raw).cfg = c /\ (Parse(raw).ok <=> Validate(c))
    BY <1>1
  <1>6. QED
    BY <1>2, <1>3, <1>4, <1>5

(* First finds the record itself where no value occurs twice. *)
LEMMA FirstIsOnly ==
  ASSUME NEW es, NEW n \in Nat, DOMAIN es = 1..n, NEW f, Distinct(es, f), NEW i \in DOMAIN es
  PROVE  First(es, f, es[i][f]) = i
  <1> DEFINE fits == {j \in DOMAIN es : es[j][f] = es[i][f]}
  <1>1. fits = {i}
    BY DEF Distinct
  <1>2. First(es, f, es[i][f]) = IF fits = {} THEN 0 ELSE CHOOSE j \in fits : \A k \in fits : j <= k
    BY DEF First
  <1> HIDE DEF fits
  <1>3. \E j \in fits : \A k \in fits : j <= k
    BY <1>1
  <1>4. (CHOOSE j \in fits : \A k \in fits : j <= k) \in fits
    BY <1>3
  <1>5. QED
    BY <1>1, <1>2, <1>4

(* What Validate accepts can be used: EVSEs are found, heartbeats fit, and   *)
(* the two tokens differ.                                                    *)
LEMMA ValidIsUsable ==
  ASSUME NEW raw \in Configuration, NEW c, c = Parse(raw).cfg, Parse(raw).ok
  PROVE  /\ Validate(c)
         /\ \A i \in DOMAIN c.evses : /\ EVSEByUID(c, c.evses[i].uid) = i
                                      /\ EVSEByConnectorID(c, c.evses[i].connector) = i
         /\ c.timeout.dur > c.interval.dur
         /\ Access(c.tokenA.text, c.tokenC.text) = AccessNone
  <1>1. /\ Validate(c)
        /\ c.tokenA = Trim(raw.tokenA) /\ c.tokenC = Trim(raw.tokenC)
        /\ DOMAIN c.evses = 1..Len(raw.evses)
    BY ParsedFields
  <1>2. ASSUME NEW i \in DOMAIN c.evses
        PROVE  /\ EVSEByUID(c, c.evses[i].uid) = i
               /\ EVSEByConnectorID(c, c.evses[i].connector) = i
    <2>1. Len(raw.evses) \in Nat
      BY DEF Configuration
    <2>2. Distinct(c.evses, "uid") /\ Distinct(c.evses, "connector")
      BY <1>1 DEF Validate, ValidateLocation
    <2>3. /\ First(c.evses, "uid", c.evses[i]["uid"]) = i
          /\ First(c.evses, "connector", c.evses[i]["connector"]) = i
      BY <1>1, <2>1, <2>2, FirstIsOnly
    <2>4. QED
      BY <2>3 DEF EVSEByUID, EVSEByConnectorID
  <1>3. c.timeout.dur > c.interval.dur
    BY <1>1 DEF Validate, ValidateCharger
  <1>4. c.tokenA.text # c.tokenC.text
    <2>1. c.tokenA # c.tokenC
      BY <1>1 DEF Validate, ValidateOCPI
    <2>2. raw.tokenA \in Texts /\ raw.tokenC \in Texts
      BY DEF Configuration
    <2>3. /\ c.tokenA = [text |-> raw.tokenA.text, padded |-> FALSE]
          /\ c.tokenC = [text |-> raw.tokenC.text, padded |-> FALSE]
      BY <1>1, <2>2 DEF Texts, Trim
    <2>4. c.tokenA.text = raw.tokenA.text /\ c.tokenC.text = raw.tokenC.text
      BY <2>3
    <2>5. raw.tokenA.text # raw.tokenC.text
      BY <2>1, <2>3
    <2>6. QED
      BY <2>4, <2>5
  <1>5. QED
    BY <1>1, <1>2, <1>3, <1>4 DEF Access

\* The config is the one that was read, and a failure has the cause it names.
ConfigInv ==
  /\ input \in Inputs
  /\ pc = "load" => reason = ""
  /\ reason = "config" => pc \in {"exit", "exited"}
  /\ pc # "load" /\ reason # "config" => cfg = Parse(input.raw).cfg /\ Parse(input.raw).ok
  /\ reason = "version" => cfg.version.text # "1.6"
  /\ reason = "url" => ~UsableBaseURL(cfg.url)
  /\ reason = "collision" => Collide
  /\ reason = "host" => ~Bindable(cfg.ocpp.host) \/ ~Bindable(cfg.ocpi.host)

LEMMA ConfigInit == RunInit => ConfigInv
  BY DEF RunInit, ConfigInv

LEMMA ConfigNext == ConfigInv /\ [RunNext]_allVars => ConfigInv'
  <1> SUFFICES ASSUME ConfigInv, [RunNext]_allVars PROVE ConfigInv'
    OBVIOUS
  <1> USE DEF ConfigInv
  <1>1. CASE Load
    <2>1. /\ reason = "" /\ UNCHANGED input /\ pc' \in {"version", "exit"}
          /\ cfg' = Parse(input.raw).cfg
      BY <1>1 DEF Load, At, Continue, Fail, Goto
    <2>2. CASE Parse(input.raw).ok
      <3>1. reason' = ""
        BY <1>1, <2>1, <2>2 DEF Load, Continue
      <3>2. Parse(input.raw)'.ok
        BY <2>1, <2>2
      <3>3. QED
        BY <2>1, <3>1, <3>2
    <2>3. CASE ~Parse(input.raw).ok
      <3>1. reason' = "config" /\ pc' = "exit"
        BY <1>1, <2>3 DEF Load, Fail, Goto
      <3>2. QED
        BY <2>1, <3>1
    <2>4. QED
      BY <2>2, <2>3
  <1>2. CASE CheckVersion \/ NewOCPI \/ StartOCPI
    <2>1. UNCHANGED <<input, cfg>> /\ pc \in {"version", "ocpi", "register"} /\ pc' # "load"
      BY <1>2 DEF CheckVersion, NewOCPI, StartOCPI, At, Continue, Fail, Goto, NothingElse
    <2>2. \/ reason' = reason
          \/ reason' = "version" /\ cfg.version.text # "1.6"
          \/ reason' = "url" /\ ~UsableBaseURL(cfg.url)
          \/ reason' = "collision" /\ Collide
          \/ reason' \in {"refused", "host"} /\ (reason' = "host" => ~Bindable(cfg.ocpi.host))
      BY <1>2 DEF CheckVersion, NewOCPI, StartOCPI, Continue, Fail
    <2>3. reason # "config" /\ reason' # "config"
      BY <2>1, <2>2
    <2>4. QED
      BY <2>1, <2>2, <2>3 DEF Collide, Bindable
  <1>3. ASSUME UNCHANGED <<input, cfg, reason>>, pc' = "load" => pc = "load",
               pc = "load" => pc' = "load", pc = "exited" => pc' = "exited",
               pc = "exit" => pc' \in {"exit", "exited"}
        PROVE  ConfigInv'
    BY <1>3 DEF Collide, Bindable
  <1>4. CASE \/ Lock \/ OpenStore \/ ListenSocket \/ StartCSMS \/ RegisterNext
    <2>1. /\ UNCHANGED <<input, cfg>> /\ pc' # "load"
          /\ pc \in {"lock", "open", "listen", "csms", "register"}
          /\ reason' \in {reason, "locked", "state", "socket", "refused", "host", "clash"}
          /\ reason' = "host" => reason = "host" \/ ~Bindable(cfg.ocpp.host)
      BY <1>4 DEF Lock, OpenStore, ListenSocket, StartCSMS, RegisterNext, At, Continue, Fail,
                  Goto, NothingElse
    <2>2. QED
      BY <2>1 DEF Collide, Bindable
  <1>5. CASE \/ NewCore \/ Serve \/ ShutdownOCPI \/ OCPIDrained \/ CloseSocket \/ CloseCommands
             \/ ShutdownCSMS \/ CloseCSMS \/ CSMSDrained \/ StopTimers \/ Release \/ Exit
    <2>1. /\ UNCHANGED <<input, cfg, reason>> /\ pc \notin {"load", "exited"} /\ pc' # "load"
          /\ pc = "exit" => pc' = "exited"
      BY <1>5 DEF NewCore, Serve, ShutdownOCPI, OCPIDrained, CloseSocket, CloseCommands,
                  ShutdownCSMS, CloseCSMS, CSMSDrained, StopTimers, Release, Exit,
                  At, Continue, Goto, NothingElse
    <2>2. QED
      BY <1>3, <2>1
  <1>6. CASE ~Main
    <2>1. UNCHANGED <<input, cfg, reason, pc>>
      BY <1>6 DEF RunNext, Signal, SocketCloses, Upgrade, RegisterConn, ConnDrops, ConnEnds,
                  AcceptCall, CallAnswered, CancelEnds, ArmTimer, Fire, Expire, Others,
                  OCPIRequest, GraceEnds, runVars, allVars
    <2>2. QED
      BY <1>3, <2>1
  <1>7. QED
    BY <1>1, <1>2, <1>4, <1>5, <1>6 DEF Main

(* "nil if the config is usable" (config/validate.go:39), for every config   *)
(* and every machine: what the lookups, the heartbeats and the two tokens    *)
(* need holds of a config that Validate accepts, and of the rules it shares  *)
(* with the start only three are laxer: the OCPP version, the URL, and two   *)
(* words for one address.  A host that cannot be bound (validate.go:138) and *)
(* a port that is taken fail the start too, and Validate says nothing of     *)
(* them.                                                                     *)
THEOREM ConfigUsable == RunSpec => []AcceptedConfigUsable
  <1>1. ConfigInv => AcceptedConfigUsable
    <2> SUFFICES ASSUME ConfigInv, pc # "load", reason # "config"
                 PROVE  /\ \A i \in DOMAIN cfg.evses :
                             /\ EVSEByUID(cfg, cfg.evses[i].uid) = i
                             /\ EVSEByConnectorID(cfg, cfg.evses[i].connector) = i
                        /\ cfg.timeout.dur > cfg.interval.dur
                        /\ Access(cfg.tokenA.text, cfg.tokenC.text) = AccessNone
                        /\ reason = "version" => cfg.version.text = "2.0.1"
                        /\ reason = "url" => cfg.url.query \/ cfg.url.braces
                        /\ reason = "collision" => /\ cfg.ocpp.host # cfg.ocpi.host
                                                   /\ "any" \notin {cfg.ocpp.host, cfg.ocpi.host}
                        /\ reason = "host" => {cfg.ocpp.host, cfg.ocpi.host} # {"any"}
      BY DEF AcceptedConfigUsable
    <2>1. input.raw \in Configuration
      BY RunAssumption DEF ConfigInv
    <2>2. cfg = Parse(input.raw).cfg /\ Parse(input.raw).ok
      BY DEF ConfigInv
    <2>3. Validate(cfg)
      BY <2>1, <2>2, ValidIsUsable
    <2>4. reason = "version" => cfg.version.text = "2.0.1"
      BY <2>3 DEF ConfigInv, Validate, ValidateCharger
    <2>5. reason = "url" => cfg.url.query \/ cfg.url.braces
      BY <2>3 DEF ConfigInv, Validate, ValidateOCPI, UsableBaseURL
    <2>6. reason = "collision" => /\ cfg.ocpp.host # cfg.ocpi.host
                                  /\ "any" \notin {cfg.ocpp.host, cfg.ocpi.host}
      BY <2>3 DEF ConfigInv, Collide, Validate, ValidateServer
    <2>7. reason = "host" => {cfg.ocpp.host, cfg.ocpi.host} # {"any"}
      <3>1. Bindable("any")
        BY RunAssumption DEF Bindable
      <3>2. QED
        BY <3>1 DEF ConfigInv
    <2>8. QED
      BY <2>1, <2>2, <2>4, <2>5, <2>6, <2>7, ValidIsUsable
  <1>2. QED
    BY <1>1, ConfigInit, ConfigNext, PTL DEF RunSpec
-----------------------------------------------------------------------------
(* What is listed is what is served *)

OwnRoutes == {[method |-> "GET", path |-> p, need |-> AccessRegistration]
                : p \in {<<"versions">>, <<Version>>}}
Listed(r) == \E k \in DOMAIN modules : \E i \in DOMAIN modules[k].routes : r = Route(modules[k], i)

\* From New until the server shuts down, the routes are the server's own and
\* those of the listed modules, and no two of them conflict.
RoutesMatch ==
  /\ \A r : r \in mounted <=> r \in OwnRoutes \/ Listed(r)
  /\ \A r, s \in mounted : Conflict(r, s) => r = s
  /\ \A k \in DOMAIN modules : modules[k].access \in {AccessRegistration, AccessModules}

Registering == {"register", "serve", "wait"}

RoutesInv ==
  /\ input \in Inputs
  /\ next \in Nat \ {0}
  /\ modules \in Seq(ModuleRecords)
  /\ pc \in {"load", "version", "lock", "open", "listen", "core", "csms", "ocpi"} => modules = <<>>
  /\ pc \in Registering => RoutesMatch

LEMMA RoutesInit == RunInit => RoutesInv
  <1> SUFFICES ASSUME RunInit PROVE RoutesInv
    OBVIOUS
  <1>1. input \in Inputs /\ pc = "load" /\ next = 1 /\ modules = <<>>
    BY DEF RunInit, OcpiInit
  <1>2. QED
    BY <1>1 DEF RoutesInv, Registering

(* A module joins the list only with all its routes mounted, and none of     *)
(* them where another was.                                                   *)
LEMMA RegisterKeepsMatch ==
  ASSUME RoutesMatch, modules \in Seq(ModuleRecords), NEW m \in ModuleRecords,
         Register(m), modules' # modules
  PROVE  RoutesMatch' /\ modules' \in Seq(ModuleRecords)
  <1>1. Registrable(m) /\ Clashes(m) = {}
    BY DEF Register
  <1>2. modules' = Append(modules, m)
    BY <1>1 DEF Register
  <1>3. mounted' = mounted \cup {Route(m, i) : i \in DOMAIN m.routes}
    <2>1. mounted' = mounted \cup {Route(m, i) : i \in {k \in DOMAIN m.routes : \A c \in Clashes(m) : k < c}}
      BY <1>1 DEF Register
    <2>2. {k \in DOMAIN m.routes : \A c \in Clashes(m) : k < c} = DOMAIN m.routes
      BY <1>1
    <2>3. QED
      BY <2>1, <2>2
  <1>4. /\ DOMAIN modules' = DOMAIN modules \cup {Len(modules) + 1}
        /\ modules'[Len(modules) + 1] = m
        /\ \A k \in DOMAIN modules : modules'[k] = modules[k]
        /\ modules' \in Seq(ModuleRecords)
    BY <1>2
  <1>5. \A r : Listed(r)' <=> Listed(r) \/ \E i \in DOMAIN m.routes : r = Route(m, i)
    <2> TAKE r
    <2>1. Listed(r)' <=> \E k \in DOMAIN modules' : \E i \in DOMAIN modules'[k].routes :
                           r = Route(modules'[k], i)
      BY DEF Listed, Route, Path, Version
    <2>2. QED
      BY <1>4, <2>1 DEF Listed
  <1>6. \A r : r \in mounted' <=> r \in OwnRoutes \/ Listed(r)'
    BY <1>3, <1>5 DEF RoutesMatch
  <1>7. \A r, s \in mounted' : Conflict(r, s) => r = s
    <2>1. DOMAIN m.routes = 1..Len(m.routes) /\ Len(m.routes) \in Nat
      BY DEF ModuleRecords
    <2>2. ASSUME NEW i \in DOMAIN m.routes, NEW r \in mounted PROVE ~Conflict(r, Route(m, i))
      BY <1>1 DEF Clashes
    <2>3. ASSUME NEW i \in DOMAIN m.routes, NEW j \in DOMAIN m.routes, j < i
          PROVE  ~Conflict(Route(m, j), Route(m, i))
      <3>1. j \in 1..(i - 1)
        BY <2>1, <2>3
      <3>2. QED
        BY <1>1, <3>1 DEF Clashes
    <2>4. \A r, s : Conflict(r, s) <=> Conflict(s, r)
      BY DEF Conflict, Overlaps, Covers
    <2>5. ASSUME NEW i \in DOMAIN m.routes, NEW j \in DOMAIN m.routes,
                 Conflict(Route(m, i), Route(m, j))
          PROVE  i = j
      BY <2>1, <2>3, <2>4, <2>5
    <2>6. SUFFICES ASSUME NEW r \in mounted', NEW s \in mounted', Conflict(r, s) PROVE r = s
      OBVIOUS
    <2>7. CASE r \in mounted /\ s \in mounted
      BY <2>6, <2>7 DEF RoutesMatch
    <2>8. CASE r \notin mounted \/ s \notin mounted
      BY <1>3, <2>2, <2>4, <2>5, <2>6, <2>8
    <2>9. QED
      BY <2>7, <2>8
  <1>8. \A k \in DOMAIN modules' : modules'[k].access \in {AccessRegistration, AccessModules}
    BY <1>1, <1>4 DEF RoutesMatch, Registrable, ValidModule
  <1>9. QED
    BY <1>4, <1>6, <1>7, <1>8 DEF RoutesMatch, OwnRoutes, Conflict, Overlaps, Covers

LEMMA RoutesNext == RoutesInv /\ [RunNext]_allVars => RoutesInv'
  <1> SUFFICES ASSUME RoutesInv, [RunNext]_allVars PROVE RoutesInv'
    OBVIOUS
  <1> DEFINE Before == {"load", "version", "lock", "open", "listen", "core", "csms", "ocpi"}
  <1>1. ASSUME UNCHANGED <<input, next, modules, mounted>>,
               pc' \in Before => pc \in Before, pc' \in Registering => pc \in Registering
        PROVE  RoutesInv'
    <2>1. RoutesMatch => RoutesMatch'
      <3>1. \A r : Listed(r)' <=> Listed(r)
        BY <1>1 DEF Listed, Route, Path, Version
      <3>2. OwnRoutes' = OwnRoutes /\ \A r, s : Conflict(r, s)' <=> Conflict(r, s)
        BY DEF OwnRoutes, Conflict, Overlaps, Covers
      <3>3. QED
        BY <1>1, <3>1, <3>2 DEF RoutesMatch
    <2>2. QED
      BY <1>1, <2>1 DEF RoutesInv
  <1>2. CASE \/ Load \/ CheckVersion \/ Lock \/ OpenStore \/ ListenSocket \/ NewCore \/ StartCSMS
    <2>1. /\ UNCHANGED <<input, next, modules, mounted>>
          /\ pc \in Before /\ pc' \in Before \cup {"exit", "release", "stop timers"}
      BY <1>2 DEF Load, CheckVersion, Lock, OpenStore, ListenSocket, NewCore, StartCSMS,
                  At, Continue, Fail, Goto, NothingElse, ocpiVars
    <2>2. QED
      BY <1>1, <2>1 DEF Registering
  <1>3. CASE NewOCPI
    <2>1. UNCHANGED <<input, next, modules>> /\ modules = <<>>
      BY <1>3 DEF NewOCPI, NewServer, ocpiVars, RoutesInv, At
    <2>2. CASE UsableBaseURL(cfg.url)
      <3>1. mounted' = OwnRoutes /\ pc' = "register"
        BY <1>3, <2>2 DEF NewOCPI, NewServer, OwnRoutes, Continue, Goto
      <3>2. \A r : ~Listed(r)'
        BY <2>1 DEF Listed
      <3>3. \A r, s \in OwnRoutes : Conflict(r, s) => r = s
        <4>1. ~Overlaps(<<"versions">>, <<Version>>) /\ ~Overlaps(<<Version>>, <<"versions">>)
          <5>1. /\ Len(<<"versions">>) = 1 /\ <<"versions">>[1] = "versions"
                /\ Len(<<Version>>) = 1 /\ <<Version>>[1] = "2.3.0"
            BY DEF Version
          <5>2. 1 \in 1..1 /\ "versions" # "2.3.0" /\ "{}" \notin {"versions", "2.3.0"}
            OBVIOUS
          <5>3. QED
            BY <5>1, <5>2 DEF Overlaps
        <4>2. \A r, s \in OwnRoutes : r.path = s.path => r = s
          BY DEF OwnRoutes
        <4>3. \A r \in OwnRoutes : r.path \in {<<"versions">>, <<Version>>}
          BY DEF OwnRoutes
        <4>4. QED
          BY <4>1, <4>2, <4>3 DEF Conflict
      <3>4. OwnRoutes' = OwnRoutes /\ \A r, s : Conflict(r, s)' <=> Conflict(r, s)
        BY DEF OwnRoutes, Conflict, Overlaps, Covers
      <3>5. RoutesMatch'
        BY <2>1, <3>1, <3>2, <3>3, <3>4 DEF RoutesMatch
      <3>6. QED
        BY <2>1, <3>1, <3>5 DEF RoutesInv
    <2>3. CASE ~UsableBaseURL(cfg.url)
      <3>1. pc' = "close commands"
        BY <1>3, <2>3 DEF NewOCPI, Fail, Goto
      <3>2. QED
        BY <2>1, <3>1 DEF RoutesInv, Registering
    <2>4. QED
      BY <2>2, <2>3
  <1>4. CASE RegisterNext
    <2> DEFINE m == input.wiring[next]
    <2>1. pc = "register" /\ next <= Len(input.wiring) /\ Register(m) /\ next' = next + 1 /\ input' = input
      BY <1>4 DEF RegisterNext, At
    <2>2. m \in ModuleRecords
      <3>1. input.wiring \in Seq(ModuleRecords)
        BY RunAssumption DEF RoutesInv
      <3>2. next \in 1..Len(input.wiring)
        BY <2>1, <3>1 DEF RoutesInv
      <3>3. QED
        BY <3>1, <3>2
    <2> HIDE DEF m
    <2>3. CASE modules' # modules
      <3>1. pc' = "register"
        BY <1>4, <2>3 DEF RegisterNext, Continue, Goto
      <3>2. RoutesMatch' /\ modules' \in Seq(ModuleRecords)
        BY <2>1, <2>2, <2>3, RegisterKeepsMatch DEF RoutesInv, Registering
      <3>3. QED
        BY <2>1, <3>1, <3>2 DEF RoutesInv
    <2>4. CASE modules' = modules
      <3>1. pc' = "close commands"
        BY <1>4, <2>4 DEF RegisterNext, Fail, Goto
      <3>2. next' \in Nat \ {0}
        BY <2>1 DEF RoutesInv
      <3>3. pc' \notin Before /\ pc' \notin Registering
        BY <3>1 DEF Registering
      <3>4. QED
        BY <2>1, <2>4, <3>2, <3>3 DEF RoutesInv
    <2>5. QED
      BY <2>3, <2>4
  <1>5. CASE \/ StartOCPI \/ Serve \/ ShutdownOCPI \/ OCPIDrained \/ CloseSocket \/ CloseCommands
             \/ ShutdownCSMS \/ CloseCSMS \/ CSMSDrained \/ StopTimers \/ Release \/ Exit
    <2>1. UNCHANGED <<input, next, modules, mounted>>
      BY <1>5 DEF StartOCPI, Start, Serve, ShutdownOCPI, ShutdownBegins, OCPIDrained, CloseSocket,
                  CloseCommands, ShutdownCSMS, CloseCSMS, CSMSDrained, StopTimers, Release, Exit,
                  NothingElse, ocpiVars
    <2>2. pc' \notin Before /\ (pc' \in Registering => pc \in Registering)
      BY <1>5 DEF StartOCPI, Serve, ShutdownOCPI, OCPIDrained, CloseSocket, CloseCommands,
                  ShutdownCSMS, CloseCSMS, CSMSDrained, StopTimers, Release, Exit,
                  At, Continue, Fail, Goto, Registering
    <2>3. QED
      BY <1>1, <2>1, <2>2
  <1>6. CASE ~Main
    <2>1. UNCHANGED <<pc, input, next>>
      BY <1>6 DEF RunNext, Signal, SocketCloses, Upgrade, RegisterConn, ConnDrops, ConnEnds,
                  AcceptCall, CallAnswered, CancelEnds, ArmTimer, Fire, Expire, Others,
                  OCPIRequest, GraceEnds, runVars, allVars
    <2>2. UNCHANGED <<modules, mounted>>
      BY <1>6 DEF RunNext, Signal, SocketCloses, Upgrade, RegisterConn, ConnDrops, ConnEnds,
                  AcceptCall, CallAnswered, CancelEnds, ArmTimer, Fire, Expire, Others,
                  OCPIRequest, AcceptRequest, Dispatch, HandlerReturns, RequestEnds,
                  GraceEnds, ocpiVars, allVars
    <2>3. QED
      BY <1>1, <2>1, <2>2
  <1>7. QED
    BY <1>2, <1>3, <1>4, <1>5, <1>6 DEF Main

(* What a request with TOKEN_A comes to, in terms of the routes that match. *)
LEMMA OutcomeOfTokenA ==
  ASSUME NEW tok, tok # "", NEW m, NEW p
  PROVE  LET got == Outcome(tok, m, p, [form |-> "base64", token |-> tok])
             matching == {r \in mounted : r.method = m /\ Covers(r.path, p)}
         IN /\ got \in {"handler", "unauthorized"} <=> matching # {}
            /\ got = "handler" <=> \E r \in Best(matching) : AccessRegistration >= r.need
  <1> DEFINE h == [form |-> "base64", token |-> tok]
             there == {r \in mounted : Covers(r.path, p)}
             taken == {r \in there : r.method = m}
             enough == \E r \in Best(taken) : AccessRegistration >= r.need
  <1>1. Access(tok, TokenFromRequest(h)) = AccessRegistration
    BY DEF Access, TokenFromRequest
  <1>2. Outcome(tok, m, p, h) =
          CASE there = {} -> "not found"
            [] there # {} /\ taken = {} -> "method not allowed"
            [] enough -> "handler"
            [] OTHER -> "unauthorized"
    BY <1>1 DEF Outcome
  <1>3. taken = {r \in mounted : r.method = m /\ Covers(r.path, p)}
    OBVIOUS
  <1>4. taken # {} => there # {}
    OBVIOUS
  <1>5. enough => taken # {}
    BY DEF Best
  <1> HIDE DEF h, there, taken, enough
  <1>6. /\ Outcome(tok, m, p, h) \in {"handler", "unauthorized"} <=> taken # {}
        /\ Outcome(tok, m, p, h) = "handler" <=> enough
    BY <1>2, <1>4, <1>5
  <1>7. QED
    BY <1>3, <1>6 DEF h, enough

(* "its routes are served and it is listed in version details" (ocpi/server  *)
(* .go:163), for whatever modules are wired: while the server accepts        *)
(* requests, a path and method reach a route exactly if the server itself or *)
(* a listed module has it, at most one is in charge, and TOKEN_A gets in     *)
(* exactly where that one asks for registration access only.                 *)
THEOREM ListedIsServed == RunSpec => []AdvertisedIsServed
  <1>1. DrainInv /\ ConfigInv /\ RoutesInv => AdvertisedIsServed
    <2> DEFINE own == {[method |-> "GET", path |-> p, need |-> AccessRegistration]
                         : p \in {<<"versions">>, <<Version>>}}
               listed == own \cup UNION {{Route(modules[k], i) : i \in DOMAIN modules[k].routes}
                                           : k \in DOMAIN modules}
               fits(m, p) == {r \in listed : r.method = m /\ Covers(r.path, p)}
               got(m, p) == Outcome(cfg.tokenA.text, m, p, [form |-> "base64", token |-> cfg.tokenA.text])
    <2> SUFFICES ASSUME DrainInv, ConfigInv, RoutesInv, accepting, NEW m \in Methods, NEW p \in Paths
                 PROVE  /\ (got(m, p) \in {"handler", "unauthorized"}) <=> (fits(m, p) # {})
                        /\ \A r, s \in Best(fits(m, p)) : r = s
                        /\ (got(m, p) = "handler") <=> \E r \in Best(fits(m, p)) : r.need = AccessRegistration
      BY DEF AdvertisedIsServed
    <2>1. pc \in {"serve", "wait"}
      BY DEF DrainInv, TypeOK, RequestsInTime
    <2>2. RoutesMatch
      BY <2>1 DEF RoutesInv, Registering
    <2>3. cfg.tokenA.text # ""
      <3>1. input.raw \in Configuration
        BY RunAssumption DEF ConfigInv
      <3>2. cfg = Parse(input.raw).cfg /\ Parse(input.raw).ok
        BY <2>1 DEF ConfigInv
      <3>3. Validate(cfg)
        BY <3>1, <3>2, ValidIsUsable
      <3>4. QED
        BY <3>3 DEF Validate, ValidateOCPI, ValidateToken
    \* What is listed is what is mounted.
    <2>4. listed = mounted
      <3>1. \A r : r \in listed <=> r \in OwnRoutes \/ Listed(r)
        BY DEF OwnRoutes, Listed
      <3>2. QED
        BY <2>2, <3>1 DEF RoutesMatch
    <2>5. \A r \in mounted : r.need \in {AccessRegistration, AccessModules}
      <3>1. \A r \in OwnRoutes : r.need = AccessRegistration
        BY DEF OwnRoutes
      <3>2. \A r : Listed(r) => r.need \in {AccessRegistration, AccessModules}
        BY <2>2 DEF Listed, Route, RoutesMatch
      <3>3. QED
        BY <2>2, <3>1, <3>2 DEF RoutesMatch
    <2> DEFINE matching == {r \in mounted : r.method = m /\ Covers(r.path, p)}
    <2>6. fits(m, p) = matching
      BY <2>4
    <2>7. /\ got(m, p) \in {"handler", "unauthorized"} <=> matching # {}
          /\ got(m, p) = "handler" <=> \E r \in Best(matching) : AccessRegistration >= r.need
      BY <2>3, OutcomeOfTokenA
    <2>8. ASSUME NEW r \in Best(matching), NEW s \in Best(matching) PROVE r = s
      <3>1. r \in mounted /\ s \in mounted /\ r.method = s.method
        BY DEF Best
      <3>2. Covers(r.path, s.path) /\ Covers(s.path, r.path)
        BY DEF Best
      <3>3. Overlaps(r.path, s.path)
        BY <3>2 DEF Covers, Overlaps
      <3>4. QED
        BY <2>2, <3>1, <3>2, <3>3 DEF RoutesMatch, Conflict
    <2>9. \A r \in Best(matching) : AccessRegistration >= r.need <=> r.need = AccessRegistration
      <3>1. \A r \in Best(matching) : r.need \in {AccessRegistration, AccessModules}
        BY <2>5 DEF Best
      <3>2. QED
        BY <3>1 DEF AccessRegistration, AccessModules
    <2> HIDE DEF matching, fits, got
    <2>10. QED
      BY <2>6, <2>7, <2>8, <2>9
  <1>2. QED
    BY <1>1, DrainInvariant, ConfigInit, ConfigNext, RoutesInit, RoutesNext, PTL DEF RunSpec
=============================================================================
