--------------------------- MODULE StationsProofs ---------------------------
(***************************************************************************)
(* Stations for every number of connections and connectors, and for calls  *)
(* of every queue length: only the latest connection is open, and the      *)
(* status of every EVSE follows the reports.                               *)
(***************************************************************************)
EXTENDS Stations, TLAPS

InboundCall == [kind : {"StatusNotification", "MeterValues"}, connector : Connectors,
                status : WireStatuses \cup {""}]

\* Every EVSE with a status to show is one recompute goes through.
ShownIsKnown ==
  /\ Mapped \subseteq known
  /\ \A e \in EVSEs : reported[e] # "none" => e \in known

StationsInv ==
  /\ TypeOK
  /\ calls \in [Conns -> Seq(InboundCall)]
  /\ ShownIsKnown
  /\ OnlyRegisteredOpen
  /\ EffectiveFollowsReports

LEMMA MapStatusType == \A s : MapStatus(s) \in Statuses
  BY DEF MapStatus, Statuses

LEMMA EffectiveStatusType ==
  \A on \in BOOLEAN, whole \in Statuses, c \in Statuses \cup {"none"} :
    EffectiveStatus(on, whole, c) \in Statuses
  BY DEF EffectiveStatus, Statuses

LEMMA InitStations == Init => StationsInv
  <1> SUFFICES ASSUME Init PROVE StationsInv
    OBVIOUS
  <1> USE StationsAssumption DEF Init
  <1>1. \A c \in Conns : calls[c] = <<>> /\ Len(calls[c]) <= CallBuffer
    <2>1. Len(<<>>) = 0 /\ 0 <= CallBuffer
      OBVIOUS
    <2>2. QED
      BY <2>1
  <1>2. TypeOK
    BY <1>1 DEF TypeOK, Statuses, Serving, EVSEs
  <1>3. calls \in [Conns -> Seq(InboundCall)]
    OBVIOUS
  <1>4. ShownIsKnown /\ OnlyRegisteredOpen
    BY DEF ShownIsKnown, OnlyRegisteredOpen, EVSEs
  <1>5. EffectiveFollowsReports
    BY DEF EffectiveFollowsReports, EffectiveStatus
  <1>6. QED
    BY <1>2, <1>3, <1>4, <1>5 DEF StationsInv

(* After a recompute, whatever the section has set before it. *)
LEMMA RecomputeFollows ==
  ASSUME TypeOK, Recompute,
         online' \in BOOLEAN, station' \in Statuses, known' \subseteq EVSEs,
         reported' \in [EVSEs -> Statuses \cup {"none"}],
         ShownIsKnown'
  PROVE  effective' \in [EVSEs -> Statuses] /\ EffectiveFollowsReports'
  <1>1. \A e \in EVSEs : EffectiveStatus(online', station', reported'[e]) \in Statuses
    BY EffectiveStatusType
  <1>2. effective' \in [EVSEs -> Statuses]
    BY <1>1 DEF Recompute, TypeOK
  <1>3. \A e \in EVSEs : e \in known' => effective'[e] = EffectiveStatus(online', station', reported'[e])
    BY DEF Recompute
  <1>4. QED
    BY <1>2, <1>3 DEF EffectiveFollowsReports, ShownIsKnown, EVSEs

(* A step of csms that core does not notice. *)
LEMMA CoreUntouched ==
  ASSUME ShownIsKnown, EffectiveFollowsReports, UNCHANGED core
  PROVE  ShownIsKnown' /\ EffectiveFollowsReports'
  <1>1. UNCHANGED <<online, station, known, reported, effective>>
    BY DEF core
  <1>2. QED
    BY <1>1 DEF ShownIsKnown, EffectiveFollowsReports

LEMMA ServeInv ==
  ASSUME StationsInv, NEW c \in Conns, Dial(c) \/ Serve(c) \/ Closes(c)
  PROVE  StationsInv'
  <1> USE DEF StationsInv
  <1>1. CASE Dial(c)
    BY <1>1, CoreUntouched DEF Dial, Goto, At, core, TypeOK, Serving, OnlyRegisteredOpen
  <1>2. CASE Upgrade(c)
    BY <1>2, CoreUntouched DEF Upgrade, Goto, At, core, TypeOK, Serving, OnlyRegisteredOpen
  <1>3. CASE Spawn(c)
    BY <1>3, CoreUntouched DEF Spawn, Goto, At, core, TypeOK, Serving, OnlyRegisteredOpen
  <1>4. CASE Register(c)
    BY <1>4, CoreUntouched DEF Register, Goto, At, core, TypeOK, Serving, OnlyRegisteredOpen
  <1>5. CASE Connected(c)
    <2>1. /\ online' = TRUE /\ UNCHANGED <<station, known, reported>> /\ Recompute
          /\ UNCHANGED <<open, registered, calls, shutdown>>
          /\ pc[c] = "registered" /\ pc' = [pc EXCEPT ![c] = "running"]
      BY <1>5 DEF Connected, Goto, At
    <2>2. ShownIsKnown'
      BY <2>1 DEF ShownIsKnown
    <2>3. effective' \in [EVSEs -> Statuses] /\ EffectiveFollowsReports'
      BY <2>1, <2>2, RecomputeFollows DEF TypeOK
    <2>4. TypeOK'
      BY <2>1, <2>3 DEF TypeOK, Serving
    <2>5. OnlyRegisteredOpen'
      BY <2>1 DEF OnlyRegisteredOpen, TypeOK
    <2>6. QED
      BY <2>1, <2>2, <2>3, <2>4, <2>5
  <1>6. CASE RunReturns(c)
    <2>1. /\ UNCHANGED <<open, registered, core, shutdown>> /\ pc[c] = "running"
          /\ pc' = [pc EXCEPT ![c] = "ended"] /\ calls' = [calls EXCEPT ![c] = <<>>]
      BY <1>6 DEF RunReturns, Goto, At
    <2>2. calls' \in [Conns -> Seq(InboundCall)]
      BY <2>1
    <2>3. \A d \in Conns : Len(calls'[d]) <= CallBuffer
      BY <2>1, StationsAssumption DEF TypeOK
    <2>4. TypeOK' /\ OnlyRegisteredOpen'
      BY <2>1, <2>3 DEF TypeOK, core, Serving, OnlyRegisteredOpen
    <2>5. QED
      BY <2>1, <2>2, <2>4, CoreUntouched
  <1>7. CASE Unregister(c)
    BY <1>7, CoreUntouched DEF Unregister, Goto, At, core, TypeOK, Serving, OnlyRegisteredOpen
  <1>8. CASE Disconnected(c)
    <2>1. /\ UNCHANGED <<open, registered, calls, shutdown>>
          /\ pc[c] = "unregistered" /\ pc' = [pc EXCEPT ![c] = "gone"]
      BY <1>8 DEF Disconnected, Goto, At
    <2>2. ShownIsKnown' /\ EffectiveFollowsReports'
            /\ online' \in BOOLEAN /\ effective' \in [EVSEs -> Statuses]
            /\ UNCHANGED <<station, known, reported>>
      <3>1. CASE UNCHANGED core
        BY <3>1, CoreUntouched DEF TypeOK, core
      <3>2. CASE online' = FALSE /\ UNCHANGED <<station, known, reported>> /\ Recompute
        BY <3>2, RecomputeFollows DEF TypeOK, ShownIsKnown
      <3>3. QED
        BY <1>8, <3>1, <3>2 DEF Disconnected
    <2>3. TypeOK' /\ OnlyRegisteredOpen'
      BY <2>1, <2>2 DEF TypeOK, Serving, OnlyRegisteredOpen
    <2>4. QED
      BY <2>1, <2>2, <2>3
  <1>9. CASE Closes(c)
    BY <1>9, CoreUntouched DEF Closes, At, core, TypeOK, OnlyRegisteredOpen
  <1>10. QED
    BY <1>1, <1>2, <1>3, <1>4, <1>5, <1>6, <1>7, <1>8, <1>9 DEF Serve

(* What a queue holds after a call has come in, or one was taken. *)
LEMMA QueueFacts ==
  ASSUME StationsInv, NEW c \in Conns
  PROVE  /\ \A call \in InboundCall : Len(calls[c]) < CallBuffer =>
              /\ Append(calls[c], call) \in Seq(InboundCall)
              /\ Len(Append(calls[c], call)) <= CallBuffer
         /\ calls[c] # <<>> => /\ Head(calls[c]) \in InboundCall
                               /\ Tail(calls[c]) \in Seq(InboundCall)
                               /\ Len(Tail(calls[c])) <= CallBuffer
  <1>1. calls[c] \in Seq(InboundCall) /\ Len(calls[c]) <= CallBuffer /\ CallBuffer \in Nat
    BY StationsAssumption DEF StationsInv, TypeOK
  <1>2. QED
    BY <1>1

LEMMA SendsInv ==
  ASSUME StationsInv, NEW c \in Conns, NEW call \in InboundCall, Sends(c, call)
  PROVE  StationsInv'
  <1>1. /\ Len(calls[c]) < CallBuffer /\ calls' = [calls EXCEPT ![c] = Append(calls[c], call)]
        /\ UNCHANGED <<pc, open, registered, core, shutdown>>
    BY DEF Sends, server
  <1>2. calls' \in [Conns -> Seq(InboundCall)] /\ \A d \in Conns : Len(calls'[d]) <= CallBuffer
    BY <1>1, QueueFacts DEF StationsInv, TypeOK
  <1>3. TypeOK' /\ OnlyRegisteredOpen'
    BY <1>1, <1>2 DEF StationsInv, TypeOK, core, OnlyRegisteredOpen
  <1>4. QED
    BY <1>1, <1>2, <1>3, CoreUntouched DEF StationsInv

LEMMA HandleInv ==
  ASSUME StationsInv, NEW c \in Conns, Handle(c)
  PROVE  StationsInv'
  <1> DEFINE m == Head(calls[c])
  <1>1. /\ calls[c] # <<>> /\ calls' = [calls EXCEPT ![c] = Tail(calls[c])]
        /\ UNCHANGED <<pc, open, registered, shutdown>>
    BY DEF Handle, SetConnectorStatus, RecordMeterValues, Take, server
  <1>2. /\ calls' \in [Conns -> Seq(InboundCall)] /\ \A d \in Conns : Len(calls'[d]) <= CallBuffer
        /\ m.connector \in EVSEs
    BY <1>1, QueueFacts DEF StationsInv, TypeOK, InboundCall, EVSEs
  <1> HIDE DEF m
  <1>3. OnlyRegisteredOpen'
    BY <1>1 DEF StationsInv, OnlyRegisteredOpen
  <1>4. CASE SetConnectorStatus(c)
    <2>1. /\ station' \in Statuses /\ known' \subseteq EVSEs
          /\ reported' \in [EVSEs -> Statuses \cup {"none"}]
          /\ ShownIsKnown' /\ online' = online /\ Recompute
      <3>1. online' = online /\ Recompute
        BY <1>4 DEF SetConnectorStatus
      <3>2. CASE station' = MapStatus(m.status) /\ UNCHANGED <<known, reported>>
        BY <3>1, <3>2, MapStatusType DEF StationsInv, TypeOK, ShownIsKnown
      <3>3. CASE /\ known' = known \cup {m.connector} /\ UNCHANGED station
                 /\ reported' = [reported EXCEPT ![m.connector] = MapStatus(m.status)]
        BY <1>2, <3>1, <3>3, MapStatusType DEF StationsInv, TypeOK, ShownIsKnown
      <3>4. QED
        BY <1>4, <3>2, <3>3 DEF SetConnectorStatus, m
    <2>2. online' \in BOOLEAN
      BY <2>1 DEF StationsInv, TypeOK
    <2>3. effective' \in [EVSEs -> Statuses] /\ EffectiveFollowsReports'
      BY <2>1, <2>2, RecomputeFollows DEF StationsInv
    <2>4. TypeOK'
      BY <1>1, <1>2, <2>1, <2>2, <2>3 DEF StationsInv, TypeOK
    <2>5. QED
      BY <1>2, <1>3, <2>1, <2>3, <2>4 DEF StationsInv
  <1>5. CASE RecordMeterValues(c)
    <2>1. known' = known \cup {m.connector} /\ UNCHANGED <<online, station, reported, effective>>
      BY <1>5 DEF RecordMeterValues, m
    <2>2. TypeOK' /\ ShownIsKnown' /\ EffectiveFollowsReports'
      BY <1>1, <1>2, <2>1 DEF StationsInv, TypeOK, ShownIsKnown, EffectiveFollowsReports
    <2>3. QED
      BY <1>2, <1>3, <2>2 DEF StationsInv
  <1>6. QED
    BY <1>4, <1>5 DEF Handle

LEMMA ShutdownInv ==
  ASSUME StationsInv, ShutdownCancel \/ ShutdownStep
  PROVE  StationsInv'
  <1>1. /\ UNCHANGED <<pc, registered, calls, core>> /\ open' \subseteq open
        /\ shutdown' \in {"no", "cancelled", "closed", "draining", "returned"}
    BY DEF ShutdownCancel, ShutdownStep, ShutdownClose, ShutdownListener, ShutdownReturns, server
  <1>2. TypeOK' /\ OnlyRegisteredOpen'
    BY <1>1 DEF StationsInv, TypeOK, core, OnlyRegisteredOpen
  <1>3. QED
    BY <1>1, <1>2, CoreUntouched DEF StationsInv

LEMMA NextStations == StationsInv /\ [Next]_vars => StationsInv'
  <1> SUFFICES ASSUME StationsInv, [Next]_vars PROVE StationsInv'
    OBVIOUS
  <1>1. ASSUME NEW c \in Conns, NEW n \in Connectors,
               SendsMeterValues(c, n) \/ \E s \in WireStatuses : SendsStatus(c, n, s)
        PROVE  StationsInv'
    <2> DEFINE call(k, s) == [kind |-> k, connector |-> n, status |-> s]
    <2>1. \A s \in WireStatuses : call("StatusNotification", s) \in InboundCall
      BY DEF InboundCall
    <2>2. call("MeterValues", "") \in InboundCall
      BY DEF InboundCall
    <2>3. \/ Sends(c, call("MeterValues", ""))
          \/ \E s \in WireStatuses : Sends(c, call("StatusNotification", s))
      BY <1>1 DEF SendsMeterValues, SendsStatus
    <2> HIDE DEF call
    <2>4. QED
      BY <2>1, <2>2, <2>3, SendsInv
  <1>2. CASE UNCHANGED vars
    <2>1. UNCHANGED <<pc, open, registered, calls, core, shutdown>>
      BY <1>2 DEF vars, server
    <2>2. QED
      BY <2>1, CoreUntouched DEF StationsInv, TypeOK, core, OnlyRegisteredOpen
  <1>3. QED
    BY <1>1, <1>2, ServeInv, HandleInv, ShutdownInv DEF Next

(* StationsInv is an invariant, whatever the station sends and however often *)
(* it reconnects, with the goroutines of its connections in any order.       *)
THEOREM StationsInvariant == Spec => []StationsInv
  BY InitStations, NextStations, PTL DEF Spec

(* Of the connections csms serves only the one it has registered is open.    *)
THEOREM LatestConnectionOnly == Spec => []OnlyRegisteredOpen
  <1>1. StationsInv => OnlyRegisteredOpen
    BY DEF StationsInv
  <1>2. QED
    BY StationsInvariant, <1>1, PTL

(* The status cpms shows of an EVSE is what effectiveStatus makes of the     *)
(* last reports.                                                            *)
THEOREM StatusFollowsReports == Spec => []EffectiveFollowsReports
  <1>1. StationsInv => EffectiveFollowsReports
    BY DEF StationsInv
  <1>2. QED
    BY StationsInvariant, <1>1, PTL
=============================================================================
