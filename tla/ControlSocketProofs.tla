------------------------ MODULE ControlSocketProofs ------------------------
(***************************************************************************)
(* Any number of processes that lock, listen, serve, stop and die: the     *)
(* lock still excludes, a live socket keeps its name, and the processes    *)
(* together implement the one daemon of module Daemon.                     *)
(***************************************************************************)
EXTENDS ControlSocket, TLAPS
-----------------------------------------------------------------------------
(* The lock alone.  The protocol of StateLock excludes for every number of   *)
(* processes and inodes: LockInv is inductive, and MutualExclusion follows   *)
(* because two holders would have locked the one inode the path names.       *)

LEMMA InitLockInv == Init => LockInv
  BY StateLockAssumption DEF Init, LockInv, TypeOK, OpenFiles, LocksOpen, OwnersOpen,
                             HolderNamed, PCs

(* Closing a descriptor keeps the invariant when the caller's next state has *)
(* no file open: the step of WouldBlock, Retry, ReleaseClose and Die.        *)
LEMMA CloseFileInv ==
  ASSUME LockInv, NEW p \in Procs, NEW to \in {"out", "loop"},
         CloseFile(p, to), UNCHANGED path
  PROVE  LockInv'
  <1> USE StateLockAssumption DEF LockInv, TypeOK, CloseFile, PCs
  <1>1. TypeOK'
    OBVIOUS
  <1>2. OpenFiles'
    BY DEF OpenFiles
  <1>3. LocksOpen'
    BY DEF LocksOpen
  <1>4. OwnersOpen'
    BY DEF OwnersOpen
  <1>5. HolderNamed'
    BY DEF HolderNamed
  <1>6. QED
    BY <1>1, <1>2, <1>3, <1>4, <1>5

LEMMA NextLockInv == LockInv /\ [Next]_vars => LockInv'
  <1> SUFFICES ASSUME LockInv, [Next]_vars PROVE LockInv'
    OBVIOUS
  <1> USE StateLockAssumption DEF LockInv, TypeOK, PCs
  <1>1. ASSUME NEW p \in Procs, Call(p) PROVE LockInv'
    BY <1>1 DEF Call, OpenFiles, LocksOpen, OwnersOpen, HolderNamed
  <1>2. ASSUME NEW p \in Procs, Open(p) PROVE LockInv'
    <2> PICK i \in Inodes : /\ IF path = None THEN Free(i) ELSE path = i
                            /\ path' = i
                            /\ fd' = [fd EXCEPT ![p] = i]
      BY <1>2 DEF Open
    <2> USE <1>2 DEF Open
    <2>1. TypeOK'
      OBVIOUS
    <2>2. OpenFiles'
      BY DEF OpenFiles
    <2>3. LocksOpen'
      BY DEF LocksOpen
    <2>4. OwnersOpen'
      <3> SUFFICES ASSUME NEW j \in Inodes, owner[j] # None PROVE fd'[owner[j]] = j
        BY DEF OwnersOpen
      <3>1. owner[j] # p
        BY DEF LocksOpen
      <3>2. QED
        BY <3>1 DEF OwnersOpen
    <2>5. HolderNamed'
      <3> SUFFICES ASSUME NEW q \in Procs, pc'[q] = "held" PROVE path' = fd'[q]
        BY DEF HolderNamed
      <3>1. q # p /\ pc[q] = "held"
        OBVIOUS
      <3>2. path = fd[q] /\ fd[q] # None
        BY <3>1 DEF HolderNamed, OpenFiles
      <3>3. QED
        BY <3>1, <3>2
    <2>6. QED
      BY <2>1, <2>2, <2>3, <2>4, <2>5
  <1>3. ASSUME NEW p \in Procs, Flock(p) PROVE LockInv'
    <2> USE <1>3 DEF Flock
    <2>1. fd[p] \in Inodes
      BY DEF OpenFiles
    <2>2. TypeOK' /\ OpenFiles' /\ HolderNamed'
      BY <2>1 DEF OpenFiles, HolderNamed
    <2>3. LocksOpen'
      BY <2>1 DEF LocksOpen
    <2>4. OwnersOpen'
      BY <2>1 DEF OwnersOpen
    <2>5. QED
      BY <2>2, <2>3, <2>4
  <1>4. ASSUME NEW p \in Procs, SameFile(p) PROVE LockInv'
    BY <1>4 DEF SameFile, OpenFiles, LocksOpen, OwnersOpen, HolderNamed
  <1>5. ASSUME NEW p \in Procs, ReleaseRemove(p) PROVE LockInv'
    <2> USE <1>5 DEF ReleaseRemove
    <2>1. TypeOK' /\ OpenFiles' /\ LocksOpen' /\ OwnersOpen'
      BY DEF OpenFiles, LocksOpen, OwnersOpen
    <2>2. HolderNamed'
      <3> SUFFICES ASSUME NEW q \in Procs, q # p, pc[q] = "held" PROVE FALSE
        BY DEF HolderNamed
      <3>1. fd[p] = path /\ fd[q] = path
        BY DEF HolderNamed
      <3>2. PICK i \in Inodes, j \in Inodes : owner[i] = p /\ owner[j] = q
        BY DEF LocksOpen
      <3>3. i = j
        BY <3>1, <3>2 DEF OwnersOpen
      <3>4. QED
        BY <3>2, <3>3
    <2>3. QED
      BY <2>1, <2>2
  <1>6. ASSUME NEW p \in Procs, WouldBlock(p) \/ Retry(p) \/ ReleaseClose(p) \/ Die(p)
        PROVE LockInv'
    <2>1. PICK to \in {"out", "loop"} : CloseFile(p, to) /\ UNCHANGED path
      BY <1>6 DEF WouldBlock, Retry, ReleaseClose, Die
    <2>2. QED
      BY <2>1, CloseFileInv DEF LockInv
  <1>7. CASE UNCHANGED vars
    BY <1>7 DEF vars, OpenFiles, LocksOpen, OwnersOpen, HolderNamed
  <1>8. QED
    BY <1>1, <1>2, <1>3, <1>4, <1>5, <1>6, <1>7 DEF Next

(* Two holders would have locked the one inode that the path names.          *)
LEMMA HoldersExclude == LockInv => MutualExclusion
  <1> SUFFICES ASSUME LockInv, NEW p \in Procs, NEW q \in Procs,
                      pc[p] = "held", pc[q] = "held"
               PROVE  p = q
    BY DEF MutualExclusion
  <1>1. fd[p] = fd[q]
    BY DEF LockInv, HolderNamed
  <1>2. PICK i \in Inodes, j \in Inodes : owner[i] = p /\ owner[j] = q
    BY DEF LockInv, LocksOpen
  <1>3. i = j
    BY <1>1, <1>2, StateLockAssumption DEF LockInv, OwnersOpen
  <1>4. QED
    BY <1>2, <1>3

(* An inode's flock belongs to a process that is still in LockPath or holds. *)
LEMMA OwnersRun == LockInv => NoStaleLock
  <1> SUFFICES ASSUME LockInv, NEW p \in Procs,
                      \A q \in Procs \ {p} : pc[q] \in {"out", "loop"},
                      pc[p] = "opened", owner[fd[p]] # None
               PROVE  FALSE
    BY DEF NoStaleLock
  <1>1. fd[p] \in Inodes
    BY DEF LockInv, TypeOK, OpenFiles
  <1>2. owner[fd[p]] \in Procs
    BY <1>1 DEF LockInv, TypeOK
  <1>3. pc[owner[fd[p]]] \in {"locked", "held", "unlinked"}
    BY <1>1, <1>2 DEF LockInv, LocksOpen
  <1>4. QED
    BY <1>2, <1>3

(* LockInv holds in every reachable state. *)
THEOREM LockInvariant == Spec => []LockInv
  BY InitLockInv, NextLockInv, PTL DEF Spec

(* LockPath lets at most one process use the state file at a time. *)
THEOREM LockExcludes == Spec => []MutualExclusion
  BY HoldersExclude, LockInvariant, PTL

(* LockPath reports ErrLocked only while another process is using the lock   *)
(* file: a crash never leaves a stale lock behind.                           *)
THEOREM LockNeverStale == Spec => []NoStaleLock
  BY OwnersRun, LockInvariant, PTL
-----------------------------------------------------------------------------
(* The socket *)

Stages == {"off", "lstat", "dial", "remove", "unreached", "listen", "bound", "serving", "unlinked",
           "draining", "done"}

SocketTypeOK ==
  /\ stage \in [Procs -> Stages]
  /\ sock \in [kind : {"none", "socket", "file"}, by : Procs \cup {None}]
  /\ bound \subseteq Procs \cup {None}
  /\ request \in [Requests -> [pc : {"none", "connected", "handling", "answered", "reset"},
                               at : Procs \cup {None}]]
  /\ cut \in BOOLEAN

\* Whoever is between Listen and the end of Close holds the lock.
SocketUnderLock ==
  \A p \in Procs : /\ stage[p] \notin {"off", "done"} => pc[p] = "held"
                   /\ stage[p] = "done" => pc[p] \in {"held", "unlinked"}

\* Only a process that serves has a listening socket.
BoundServes == \A p \in Procs : p \in bound => stage[p] \in {"serving", "unlinked"}

\* The cpms that was there first listens, and under the path.
FirstLives == sock.kind = "socket" /\ sock.by = None /\ None \in bound

\* Nobody whose dial was refused, or who has bound the path, finds it there.
Past == {"remove", "bound", "serving"}
FirstServed == \A p \in Procs : stage[p] \in Past => ~FirstLives

\* A request is with a process that still serves, or waits for it to end.
RequestsServed ==
  \A r \in Requests :
    /\ request[r].pc = "connected" => /\ request[r].at \in Procs
                                      /\ stage[request[r].at] \in {"serving", "unlinked"}
    /\ request[r].pc = "handling" => /\ request[r].at \in Procs
                                     /\ stage[request[r].at] \in {"serving", "unlinked", "draining"}

SocketInv ==
  LockInv /\ SocketTypeOK /\ SocketUnderLock /\ BoundServes /\ FirstServed /\ RequestsServed
    /\ LiveSocketUntouched
-----------------------------------------------------------------------------
\* Two processes are never both at their sockets.
LEMMA OneAtSocket ==
  ASSUME SocketInv, NEW p \in Procs, NEW q \in Procs,
         stage[p] \notin {"off", "done"}, stage[q] \notin {"off", "done"}
  PROVE  p = q
  BY HoldersExclude DEF SocketInv, SocketUnderLock, MutualExclusion

LEMMA InitSocketInv == SocketInit => SocketInv
  <1> SUFFICES ASSUME SocketInit PROVE SocketInv
    OBVIOUS
  <1>1. LockInv
    BY InitLockInv DEF SocketInit
  <1>2. SocketTypeOK
    <2>1. sock \in [kind : {"none", "socket", "file"}, by : Procs \cup {None}]
      BY DEF SocketInit, Nothing, SocketOf, Other
    <2>2. bound \subseteq Procs \cup {None} /\ cut \in BOOLEAN /\ stage \in [Procs -> Stages]
      BY DEF SocketInit, Stages
    <2>3. request \in [Requests -> [pc : {"none", "connected", "handling", "answered", "reset"},
                                    at : Procs \cup {None}]]
      BY DEF SocketInit
    <2>4. QED
      BY <2>1, <2>2, <2>3 DEF SocketTypeOK
  <1>3. SocketUnderLock /\ BoundServes /\ FirstServed /\ RequestsServed /\ LiveSocketUntouched
    BY StateLockAssumption
    DEF SocketInit, SocketUnderLock, BoundServes, FirstServed, Past, RequestsServed, LiveSocketUntouched
  <1>4. QED
    BY <1>1, <1>2, <1>3 DEF SocketInv

\* The steps of the lock: before there is a socket, and after it is closed.
LEMMA LockStepsInv ==
  ASSUME SocketInv, NEW p \in Procs, LockStep(p) \/ ReleaseStep(p)
  PROVE  SocketInv'
  <1>1. LockInv'
    BY NextLockInv DEF SocketInv, LockStep, ReleaseStep, Next
  <1>2. /\ stage[p] \in {"off", "done"} /\ stage'[p] \in {"off", "done"}
        /\ \A q \in Procs : q # p => stage'[q] = stage[q] /\ pc'[q] = pc[q]
        /\ stage'[p] = "done" => pc'[p] = "unlinked"
        /\ stage' \in [Procs -> Stages]
        /\ UNCHANGED <<sock, bound, request, cut>>
    BY DEF LockStep, ReleaseStep, At, Goto, socketVars, SocketInv, SocketTypeOK, Stages, LockInv, TypeOK,
           Call, Open, Flock, WouldBlock, SameFile, Retry, ReleaseRemove, ReleaseClose, CloseFile
  <1>3. SocketTypeOK' /\ SocketUnderLock'
    BY <1>2 DEF SocketInv, SocketTypeOK, SocketUnderLock
  <1>4. BoundServes' /\ FirstServed' /\ RequestsServed' /\ LiveSocketUntouched'
    BY <1>2 DEF SocketInv, BoundServes, FirstServed, FirstLives, Past, RequestsServed, LiveSocketUntouched, Nothing
  <1>5. QED
    BY <1>1, <1>3, <1>4 DEF SocketInv

\* A process moves on without touching the path, its socket or a request.
LEMMA StageMovesInv ==
  ASSUME SocketInv, NEW p \in Procs, NEW s \in Stages \ {"off"}, Goto(p, s), pc[p] = "held",
         UNCHANGED <<vars, sock, bound, request, cut>>,
         p \notin bound,
         s \in Past => ~FirstLives,
         \A r \in Requests : request[r].at = p => request[r].pc \notin {"connected", "handling"}
  PROVE  SocketInv'
  <1>1. LockInv'
    BY NextLockInv DEF SocketInv
  <1>2. /\ stage' \in [Procs -> Stages] /\ stage'[p] = s
        /\ \A q \in Procs : q # p => stage'[q] = stage[q]
        /\ UNCHANGED <<pc, fd, path, owner>>
    BY DEF Goto, SocketInv, SocketTypeOK, vars
  <1>3. SocketTypeOK' /\ SocketUnderLock'
    BY <1>2 DEF SocketInv, SocketTypeOK, SocketUnderLock
  <1>4. BoundServes' /\ FirstServed' /\ RequestsServed' /\ LiveSocketUntouched'
    BY <1>2 DEF SocketInv, BoundServes, FirstServed, FirstLives, Past, RequestsServed, LiveSocketUntouched, Nothing
  <1>5. QED
    BY <1>1, <1>3, <1>4 DEF SocketInv

LEMMA ListenInv ==
  ASSUME SocketInv, NEW p \in Procs,
         Listen(p) \/ Lstat(p) \/ DialAnswered(p) \/ DialRefused(p) \/ DialFails(p) \/ CloseReturns(p)
  PROVE  SocketInv'
  <1>1. /\ UNCHANGED <<vars, sock, bound, request, cut>>
        /\ pc[p] = "held"
        /\ stage[p] \in {"off", "lstat", "dial", "draining"}
    BY DEF Listen, Lstat, DialAnswered, DialRefused, DialFails, CloseReturns, At, SocketInv, SocketUnderLock
  <1>2. p \notin bound
    BY <1>1 DEF SocketInv, BoundServes
  <1>3. \A r \in Requests : request[r].at = p => request[r].pc \notin {"connected", "handling"}
    BY <1>1 DEF Listen, Lstat, DialAnswered, DialRefused, DialFails, CloseReturns, At, SocketInv, RequestsServed
  <1>4. PICK s \in Stages \ {"off"} : Goto(p, s) /\ (s \in Past => ~FirstLives)
    <2>1. CASE Listen(p) \/ DialAnswered(p) \/ DialFails(p) \/ CloseReturns(p)
      BY <2>1 DEF Listen, DialAnswered, DialFails, CloseReturns, Stages, Past
    <2>2. CASE Lstat(p)
      BY <2>2 DEF Lstat, Stages, Past, SocketInv, SocketTypeOK
    <2>3. CASE DialRefused(p)
      BY <2>3 DEF DialRefused, Live, Stages, FirstLives
    <2>4. QED
      BY <2>1, <2>2, <2>3
  <1>5. QED
    BY <1>1, <1>2, <1>3, <1>4, StageMovesInv

\* The path changes hands only while nobody listens on what it names.
LEMMA PathInv ==
  ASSUME SocketInv, NEW p \in Procs, RemoveStale(p) \/ Bind(p) \/ ListenSocket(p) \/ CloseUnlink(p)
  PROVE  SocketInv'
  <1>1. LockInv' /\ UNCHANGED <<pc, fd, path, owner>>
    BY NextLockInv DEF SocketInv, RemoveStale, Bind, ListenSocket, CloseUnlink, vars
  <1>2. /\ stage[p] \in {"remove", "unreached", "listen", "bound", "serving"}
        /\ stage'[p] \in Stages \ {"off"} /\ stage' \in [Procs -> Stages]
        /\ \A q \in Procs : q # p => stage'[q] = stage[q]
        /\ request' = request
    BY DEF RemoveStale, Bind, ListenSocket, CloseUnlink, At, Goto, Stages, SocketInv, SocketTypeOK
  <1>3. \A q \in Procs : q \in bound => q = p
    BY <1>2, OneAtSocket DEF SocketInv, BoundServes
  <1>4. /\ bound' \subseteq Procs \cup {None} /\ (None \in bound' => None \in bound)
        /\ \A q \in Procs : q \in bound' => q = p
        /\ p \in bound' => stage'[p] \in {"serving", "unlinked"}
    BY <1>2, <1>3, StateLockAssumption
    DEF RemoveStale, Bind, ListenSocket, CloseUnlink, At, Goto, SocketInv, SocketTypeOK, BoundServes
  <1>5. /\ cut' = FALSE
        /\ sock' \in [kind : {"none", "socket", "file"}, by : Procs \cup {None}]
    <2>1. stage[p] \in {"remove", "unreached"} => p \notin bound
      BY DEF SocketInv, BoundServes
    <2>2. sock.by \in Procs \cup {None} /\ cut = FALSE
      BY DEF SocketInv, SocketTypeOK, LiveSocketUntouched
    <2>3. CASE RemoveStale(p)
      BY <1>3, <2>1, <2>2, <2>3 DEF RemoveStale, At, Nothing, Live, SocketInv, FirstServed, Past, FirstLives
    <2>4. CASE CloseUnlink(p)
      BY <1>3, <2>2, <2>4 DEF CloseUnlink, At, Nothing, Live, SocketInv, FirstServed, Past, FirstLives
    <2>5. CASE Bind(p) \/ ListenSocket(p)
      BY <2>2, <2>5 DEF Bind, ListenSocket, SocketOf, SocketInv, SocketTypeOK
    <2>6. QED
      BY <2>3, <2>4, <2>5
  <1>6. SocketTypeOK' /\ LiveSocketUntouched'
    BY <1>2, <1>4, <1>5 DEF SocketInv, SocketTypeOK, LiveSocketUntouched
  <1>7. SocketUnderLock'
    BY <1>1, <1>2 DEF SocketInv, SocketUnderLock
  <1>8. BoundServes'
    BY <1>2, <1>4 DEF BoundServes
  <1>9. FirstServed'
    <2>1. \A q \in Procs : q # p => stage'[q] \notin Past
      BY <1>2, OneAtSocket DEF Past
    <2>2. stage'[p] \in Past => ~FirstLives'
      <3>1. CASE RemoveStale(p) \/ CloseUnlink(p)
        BY <3>1 DEF RemoveStale, CloseUnlink, Nothing, FirstLives
      <3>2. CASE Bind(p)
        BY <3>2, StateLockAssumption DEF Bind, Goto, SocketInv, SocketTypeOK, SocketOf, Past, FirstLives
      <3>3. CASE ListenSocket(p)
        BY <1>4, <3>3 DEF ListenSocket, At, SocketInv, FirstServed, Past, FirstLives
      <3>4. QED
        BY <3>1, <3>2, <3>3
    <2>3. QED
      BY <2>1, <2>2 DEF FirstServed
  <1>10. RequestsServed'
    <2>1. stage[p] = "serving" => stage'[p] = "unlinked"
      BY DEF RemoveStale, Bind, ListenSocket, CloseUnlink, At, Goto, SocketInv, SocketTypeOK
    <2>2. QED
      BY <1>2, <2>1 DEF SocketInv, RequestsServed
  <1>11. QED
    BY <1>1, <1>6, <1>7, <1>8, <1>9, <1>10 DEF SocketInv

LEMMA CloseListenerInv ==
  ASSUME SocketInv, NEW p \in Procs, CloseListener(p)
  PROVE  SocketInv'
  <1>1. LockInv' /\ UNCHANGED <<pc, fd, path, owner>>
    BY NextLockInv DEF SocketInv, CloseListener, vars
  <1>2. /\ stage[p] = "unlinked" /\ stage'[p] = "draining" /\ stage' \in [Procs -> Stages]
        /\ \A q \in Procs : q # p => stage'[q] = stage[q]
        /\ bound' = bound \ {p} /\ UNCHANGED <<sock, cut>>
    BY DEF CloseListener, At, Goto, Stages, SocketInv, SocketTypeOK
  <1>3. \A r \in Requests :
          /\ request'[r].at = request[r].at
          /\ request'[r].pc = IF request[r].at = p /\ request[r].pc = "connected" THEN "reset" ELSE request[r].pc
    BY DEF CloseListener, Reset, SocketInv, SocketTypeOK
  <1>4. SocketTypeOK'
    BY <1>2 DEF SocketInv, SocketTypeOK, CloseListener, Reset
  <1>5. SocketUnderLock' /\ BoundServes' /\ FirstServed' /\ LiveSocketUntouched'
    BY <1>1, <1>2 DEF SocketInv, SocketUnderLock, BoundServes, FirstServed, FirstLives, Past, LiveSocketUntouched
  <1>6. RequestsServed'
    BY <1>2, <1>3 DEF SocketInv, RequestsServed
  <1>7. QED
    BY <1>1, <1>4, <1>5, <1>6 DEF SocketInv

LEMMA ProcessDiesInv ==
  ASSUME SocketInv, NEW p \in Procs, ProcessDies(p)
  PROVE  SocketInv'
  <1>1. LockInv'
    BY NextLockInv DEF SocketInv, ProcessDies, Next
  <1>2. /\ stage'[p] = "off" /\ stage' \in [Procs -> Stages]
        /\ \A q \in Procs : q # p => stage'[q] = stage[q] /\ pc'[q] = pc[q]
        /\ bound' = bound \ {p} /\ UNCHANGED <<sock, cut>>
    BY DEF ProcessDies, Die, CloseFile, Goto, Stages, SocketInv, SocketTypeOK, LockInv, TypeOK
  <1>3. \A r \in Requests :
          /\ request'[r].at = request[r].at
          /\ request'[r].pc = IF request[r].at = p /\ request[r].pc \in {"connected", "handling"} THEN "reset" ELSE request[r].pc
    BY DEF ProcessDies, Reset, SocketInv, SocketTypeOK
  <1>4. SocketTypeOK'
    BY <1>2 DEF SocketInv, SocketTypeOK, ProcessDies, Reset
  <1>5. SocketUnderLock' /\ BoundServes' /\ FirstServed' /\ LiveSocketUntouched'
    BY <1>2 DEF SocketInv, SocketUnderLock, BoundServes, FirstServed, FirstLives, Past, LiveSocketUntouched
  <1>6. RequestsServed'
    BY <1>2, <1>3 DEF SocketInv, RequestsServed
  <1>7. QED
    BY <1>1, <1>4, <1>5, <1>6 DEF SocketInv

LEMMA RequestInv ==
  ASSUME SocketInv, NEW r \in Requests, Connect(r) \/ Accept(r) \/ Answer(r)
  PROVE  SocketInv'
  <1>1. LockInv' /\ UNCHANGED <<pc, fd, path, owner, stage, sock, bound, cut>>
    BY NextLockInv DEF SocketInv, Connect, Accept, Answer, vars
  <1>2. \A q \in Requests : q # r => request'[q] = request[q]
    BY DEF Connect, Accept, Answer, SocketInv, SocketTypeOK
  <1>3. /\ request'[r].at \in Procs \cup {None} /\ request'[r].pc \in {"connected", "handling", "answered"}
        /\ request'[r].pc \in {"connected", "handling"} => request'[r].at \in bound \ {None}
        /\ request' \in [Requests -> [pc : {"none", "connected", "handling", "answered", "reset"},
                                      at : Procs \cup {None}]]
    BY StateLockAssumption DEF Connect, Accept, Answer, SocketInv, SocketTypeOK, RequestsServed
  <1>4. SocketTypeOK' /\ SocketUnderLock' /\ BoundServes' /\ FirstServed' /\ LiveSocketUntouched'
    BY <1>1, <1>3 DEF SocketInv, SocketTypeOK, SocketUnderLock, BoundServes, FirstServed, FirstLives, Past, LiveSocketUntouched
  <1>5. RequestsServed'
    BY <1>1, <1>2, <1>3 DEF SocketInv, RequestsServed, BoundServes, SocketTypeOK
  <1>6. QED
    BY <1>1, <1>4, <1>5 DEF SocketInv

LEMMA OtherEndsInv ==
  ASSUME SocketInv, OtherEnds \/ UNCHANGED allVars
  PROVE  SocketInv'
  <1>1. LockInv' /\ UNCHANGED <<pc, fd, path, owner, stage, request, cut>>
    BY NextLockInv DEF SocketInv, OtherEnds, vars, allVars, socketVars
  <1>2. bound' \subseteq bound /\ (sock' = sock \/ sock' = Nothing)
    BY DEF OtherEnds, allVars, socketVars, Nothing
  <1>3. SocketTypeOK'
    BY <1>1, <1>2 DEF SocketInv, SocketTypeOK, Nothing
  <1>4. SocketUnderLock' /\ BoundServes' /\ FirstServed' /\ RequestsServed' /\ LiveSocketUntouched'
    BY <1>1, <1>2 DEF SocketInv, SocketUnderLock, BoundServes, FirstServed, FirstLives, Past, RequestsServed, LiveSocketUntouched, Nothing
  <1>5. QED
    BY <1>1, <1>3, <1>4 DEF SocketInv

LEMMA NextSocketInv == SocketInv /\ [SocketNext]_allVars => SocketInv'
  BY LockStepsInv, ListenInv, PathInv, CloseListenerInv, ProcessDiesInv, RequestInv, OtherEndsInv
  DEF SocketNext

(* SocketInv holds in every reachable state, wherever processes die.         *)
THEOREM SocketInvariant == SocketSpec => []SocketInv
  BY InitSocketInv, NextSocketInv, PTL DEF SocketSpec

(* The lock excludes as cpms run uses it, with the socket under it.          *)
THEOREM RunExcludes == SocketSpec => []MutualExclusion
  <1>1. SocketInv => MutualExclusion
    BY HoldersExclude DEF SocketInv
  <1>2. QED
    BY SocketInvariant, <1>1, PTL

(* A dead process keeps nobody out, wherever in its life it was killed.      *)
THEOREM RunNeverStale == SocketSpec => []NoStaleLock
  <1>1. SocketInv => NoStaleLock
    BY OwnersRun DEF SocketInv
  <1>2. QED
    BY SocketInvariant, <1>1, PTL

(* No start and no close takes the path from a process of this state file    *)
(* that listens, though any error of the dial counts as nobody listening     *)
(* (server.go:79); nor from the cpms of another state file, unless the dial  *)
(* of it failed while it listened.                                           *)
THEOREM LiveSocketKept == SocketSpec => []LiveSocketUntouched
  <1>1. SocketInv => LiveSocketUntouched
    BY DEF SocketInv
  <1>2. QED
    BY SocketInvariant, <1>1, PTL
-----------------------------------------------------------------------------
(* The processes implement one daemon.                                       *)

LEMMA ChooseOnly ==
  ASSUME NEW p
  PROVE  (CHOOSE x \in {p} : TRUE) = p
  OBVIOUS

LEMMA HolderIsDaemon ==
  /\ \A p \in Procs : LockInv /\ pc[p] = "held" => Daemon = p
  /\ (\A p \in Procs : pc[p] # "held") => Daemon = None
  <1>1. ASSUME NEW p \in Procs, LockInv, pc[p] = "held" PROVE Daemon = p
    <2>1. Holders = {p}
      BY <1>1, HoldersExclude DEF Holders, MutualExclusion
    <2>2. QED
      BY <2>1, ChooseOnly DEF Daemon
  <1>2. ASSUME \A p \in Procs : pc[p] # "held" PROVE Daemon = None
    BY <1>2 DEF Daemon, Holders
  <1>3. QED
    BY <1>1, <1>2

\* The same of the state after a step.
LEMMA NextHolderIsDaemon ==
  /\ \A p \in Procs : LockInv' /\ pc'[p] = "held" => Daemon' = p
  /\ (\A p \in Procs : pc'[p] # "held") => Daemon' = None
  <1>1. (/\ \A p \in Procs : LockInv /\ pc[p] = "held" => Daemon = p
         /\ (\A p \in Procs : pc[p] # "held") => Daemon = None)'
    BY HolderIsDaemon, PTL
  <1>2. QED
    BY <1>1

\* A step that changes neither who holds the lock nor a request in hand.
LEMMA Stutters ==
  ASSUME \A q \in Procs : pc'[q] = "held" <=> pc[q] = "held",
         \A r \in Requests : Work'[r] = Work[r]
  PROVE  UNCHANGED OneDaemon!vars
  <1>1. Holders' = Holders
    BY DEF Holders
  <1>2. Daemon' = Daemon
    BY <1>1 DEF Daemon
  <1>3. Work' = Work
    BY DEF Work
  <1>4. QED
    BY <1>2, <1>3 DEF OneDaemon!vars

LEMMA WorkOf ==
  ASSUME SocketTypeOK, NEW r \in Requests
  PROVE  /\ request[r].pc \in {"none", "connected"} <=> Work[r].pc = "new"
         /\ request[r].pc = "handling" <=> Work[r].pc = "taken"
         /\ request[r].pc = "handling" => Work[r].at = request[r].at
  <1>1. Work[r] = WorkOn(r)
    BY DEF Work
  <1>2. request[r].pc \in {"none", "connected", "handling", "answered", "reset"}
    BY DEF SocketTypeOK
  <1>3. QED
    BY <1>1, <1>2 DEF WorkOn

LEMMA NextWorkOf ==
  ASSUME NEW r \in Requests
  PROVE  /\ request'[r].pc \in {"none", "connected"} => Work'[r] = [pc |-> "new", at |-> None]
         /\ request'[r].pc = "handling" => Work'[r] = [pc |-> "taken", at |-> request'[r].at]
         /\ request'[r].pc = "answered" => Work'[r] = [pc |-> "answered", at |-> None]
         /\ request'[r].pc = "reset" => Work'[r] = [pc |-> "failed", at |-> None]
         /\ request'[r] = request[r] => Work'[r] = Work[r]
         /\ request[r].pc \in {"none", "connected"} => Work[r] = [pc |-> "new", at |-> None]
  <1>1. Work[r] = WorkOn(r) /\ Work'[r] = WorkOn(r)'
    BY DEF Work
  <1>2. request'[r] = request[r] => WorkOn(r)' = WorkOn(r)
    BY DEF WorkOn
  <1>3. request[r].pc \in {"none", "connected"} => WorkOn(r) = [pc |-> "new", at |-> None]
    BY DEF WorkOn
  <1>4. /\ request'[r].pc \in {"none", "connected"} => WorkOn(r)' = [pc |-> "new", at |-> None]
        /\ request'[r].pc = "handling" => WorkOn(r)' = [pc |-> "taken", at |-> request'[r].at]
        /\ request'[r].pc = "answered" => WorkOn(r)' = [pc |-> "answered", at |-> None]
        /\ request'[r].pc = "reset" => WorkOn(r)' = [pc |-> "failed", at |-> None]
    BY DEF WorkOn
  <1>5. QED
    BY <1>1, <1>2, <1>3, <1>4

\* Work and Work' are functions on the requests.
LEMMA WorkIsFunction ==
  ASSUME NEW W, \A r \in Requests : Work'[r] = W[r]
  PROVE  Work' = [r \in Requests |-> W[r]] /\ Work = [r \in Requests |-> Work[r]]
  BY DEF Work

\* The daemon is at its socket while it has requests in hand.
LEMMA HandlingIsDaemon ==
  ASSUME SocketInv, NEW r \in Requests, request[r].pc \in {"connected", "handling"}
  PROVE  /\ request[r].at \in Procs /\ pc[request[r].at] = "held"
         /\ Daemon = request[r].at /\ Daemon # None
         /\ stage[request[r].at] \in {"serving", "unlinked", "draining"}
  BY HolderIsDaemon, StateLockAssumption DEF SocketInv, RequestsServed, SocketUnderLock

LEMMA StepStarts ==
  ASSUME SocketInv, SocketInv', NEW p \in Procs, LockStep(p)
  PROVE  [OneDaemon!Next]_OneDaemon!vars
  <1>1. request' = request
    BY DEF LockStep, socketVars
  <1>2. CASE SameFile(p)
    <2>1. pc'[p] = "held" /\ pc[p] = "locked" /\ \A q \in Procs : q # p => pc'[q] = pc[q]
      BY <1>2 DEF SameFile, SocketInv, LockInv, TypeOK
    <2>2. \A q \in Procs : pc'[q] = "held" => q = p
      <3>1. MutualExclusion'
        BY HoldersExclude, PTL DEF SocketInv
      <3>2. QED
        BY <2>1, <3>1 DEF MutualExclusion
    <2>3. Daemon = None /\ Daemon' = p
      BY <2>1, <2>2, HolderIsDaemon, NextHolderIsDaemon DEF SocketInv
    <2>4. Work' = Work
      BY <1>1 DEF Work, WorkOn
    <2>5. OneDaemon!Start(p)
      BY <2>3, <2>4 DEF OneDaemon!Start
    <2>6. QED
      BY <2>5 DEF OneDaemon!Next
  <1>3. CASE Call(p) \/ Open(p) \/ Flock(p) \/ WouldBlock(p) \/ Retry(p)
    <2>1. \A q \in Procs : pc'[q] = "held" <=> pc[q] = "held"
      BY <1>3 DEF Call, Open, Flock, WouldBlock, Retry, CloseFile, SocketInv, LockInv, TypeOK
    <2>2. QED
      BY <1>1, <2>1, NextWorkOf, Stutters
  <1>4. QED
    BY <1>2, <1>3 DEF LockStep

LEMMA StepStops ==
  ASSUME SocketInv, NEW p \in Procs, ReleaseStep(p)
  PROVE  [OneDaemon!Next]_OneDaemon!vars
  <1>1. request' = request /\ stage[p] = "done"
    BY DEF ReleaseStep, At
  <1>2. CASE ReleaseRemove(p)
    <2>1. pc[p] = "held" /\ pc'[p] = "unlinked" /\ \A q \in Procs : q # p => pc'[q] = pc[q]
      BY <1>2 DEF ReleaseRemove, SocketInv, LockInv, TypeOK
    <2>2. \A q \in Procs : pc'[q] # "held"
      BY <2>1, HoldersExclude DEF SocketInv, MutualExclusion
    <2>3. Daemon = p /\ Daemon' = None
      BY <2>1, <2>2, HolderIsDaemon, NextHolderIsDaemon DEF SocketInv
    <2>4. OneDaemon!InHand = {}
      <3> SUFFICES ASSUME NEW r \in Requests, Work[r].pc = "taken" PROVE FALSE
        BY DEF OneDaemon!InHand
      <3>1. request[r].pc = "handling"
        BY WorkOf DEF SocketInv
      <3>2. QED
        BY <1>1, <2>3, <3>1, HandlingIsDaemon
    <2>5. Work' = Work
      BY <1>1 DEF Work, WorkOn
    <2>6. OneDaemon!Stop
      BY <2>3, <2>4, <2>5, StateLockAssumption DEF OneDaemon!Stop
    <2>7. QED
      BY <2>6 DEF OneDaemon!Next
  <1>3. CASE ReleaseClose(p)
    <2>1. \A q \in Procs : pc'[q] = "held" <=> pc[q] = "held"
      BY <1>3 DEF ReleaseClose, CloseFile, SocketInv, LockInv, TypeOK
    <2>2. QED
      BY <1>1, <2>1, NextWorkOf, Stutters
  <1>4. QED
    BY <1>2, <1>3 DEF ReleaseStep

LEMMA StepAnswers ==
  ASSUME SocketInv, NEW r \in Requests, Connect(r) \/ Accept(r) \/ Answer(r)
  PROVE  [OneDaemon!Next]_OneDaemon!vars
  <1>1. pc' = pc /\ \A q \in Requests : q # r => request'[q] = request[q]
    BY DEF Connect, Accept, Answer, vars, SocketInv, SocketTypeOK
  <1>2. \A q \in Requests : q # r => Work'[q] = Work[q]
    BY <1>1, NextWorkOf
  <1>3. Daemon' = Daemon
    BY <1>1 DEF Daemon, Holders
  <1>4. Work' = [Work EXCEPT ![r] = Work'[r]]
    BY <1>2 DEF Work
  <1>5. CASE Connect(r)
    <2>1. Work'[r] = Work[r]
      BY <1>5, NextWorkOf DEF Connect, SocketInv, SocketTypeOK
    <2>2. QED
      BY <1>1, <1>2, <2>1, Stutters
  <1>6. CASE Accept(r)
    <2>1. /\ request[r].pc = "connected" /\ request'[r].pc = "handling"
          /\ request'[r].at = request[r].at
      BY <1>6 DEF Accept, SocketInv, SocketTypeOK
    <2>2. Daemon # None /\ Work[r].pc = "new" /\ Work'[r] = [pc |-> "taken", at |-> Daemon]
      BY <2>1, WorkOf, NextWorkOf, HandlingIsDaemon DEF SocketInv
    <2>3. OneDaemon!Take(r)
      BY <1>3, <1>4, <2>2 DEF OneDaemon!Take
    <2>4. QED
      BY <2>3 DEF OneDaemon!Next
  <1>7. CASE Answer(r)
    <2>1. request[r].pc = "handling" /\ request'[r].pc = "answered"
      BY <1>7 DEF Answer, SocketInv, SocketTypeOK
    <2>2. Work[r].pc = "taken" /\ Work[r].at = Daemon /\ Work'[r] = [pc |-> "answered", at |-> None]
      BY <2>1, WorkOf, NextWorkOf, HandlingIsDaemon DEF SocketInv
    <2>3. OneDaemon!Answer(r)
      BY <1>2, <1>3, <2>2 DEF OneDaemon!Answer, OneDaemon!Finish, Work
    <2>4. QED
      BY <2>3 DEF OneDaemon!Next
  <1>8. QED
    BY <1>5, <1>6, <1>7

LEMMA StepRefuses ==
  ASSUME SocketInv, NEW p \in Procs, CloseListener(p)
  PROVE  [OneDaemon!Next]_OneDaemon!vars
  <1> DEFINE rs == {r \in Requests : request[r].at = p /\ request[r].pc = "connected"}
  <1>1. Daemon' = Daemon
    BY DEF CloseListener, vars, Daemon, Holders
  <1>2. \A r \in Requests : IF r \in rs THEN request'[r].pc = "reset" ELSE request'[r] = request[r]
    BY DEF CloseListener, Reset, SocketInv, SocketTypeOK
  <1>3. \A r \in rs : Work[r].pc = "new"
    BY WorkOf DEF SocketInv
  <1>4. \A r \in Requests : Work'[r] = IF r \in rs THEN [pc |-> "failed", at |-> None] ELSE Work[r]
    BY <1>2, NextWorkOf
  <1>5. Work' = OneDaemon!Finish(rs, "failed")
    BY <1>4 DEF OneDaemon!Finish, Work
  <1>6. OneDaemon!Refuse(rs)
    BY <1>1, <1>3, <1>5 DEF OneDaemon!Refuse
  <1>7. QED
    BY <1>6 DEF OneDaemon!Next

LEMMA StepDies ==
  ASSUME SocketInv, NEW p \in Procs, ProcessDies(p)
  PROVE  [OneDaemon!Next]_OneDaemon!vars
  <1>1. pc'[p] = "out" /\ \A q \in Procs : q # p => pc'[q] = pc[q]
    BY DEF ProcessDies, Die, CloseFile, SocketInv, LockInv, TypeOK
  <1> DEFINE rs == {r \in Requests : request[r].at = p /\ request[r].pc = "connected"}
             hs == {r \in Requests : request[r].at = p /\ request[r].pc = "handling"}
  <1>2. \A r \in Requests : IF r \in rs \cup hs THEN request'[r].pc = "reset"
                            ELSE request'[r] = request[r]
    BY DEF ProcessDies, Reset, SocketInv, SocketTypeOK
  <1>3. CASE pc[p] = "held"
    <2>1. \A q \in Procs : pc'[q] # "held"
      BY <1>1, <1>3, HoldersExclude DEF SocketInv, MutualExclusion
    <2>2. Daemon = p /\ Daemon # None /\ Daemon' = None
      BY <1>3, <2>1, HolderIsDaemon, NextHolderIsDaemon, StateLockAssumption DEF SocketInv
    <2>3. OneDaemon!InHand = hs
      <3>1. \A r \in Requests : Work[r].pc = "taken" <=> request[r].pc = "handling"
        BY WorkOf DEF SocketInv
      <3>2. \A r \in Requests : request[r].pc = "handling" => request[r].at = p
        BY <2>2, HandlingIsDaemon
      <3>3. QED
        BY <3>1, <3>2 DEF OneDaemon!InHand
    <2>4. \A r \in rs : Work[r].pc = "new"
      BY WorkOf DEF SocketInv
    <2>5. \A r \in Requests :
            Work'[r] = IF r \in hs \cup rs THEN [pc |-> "failed", at |-> None] ELSE Work[r]
      BY <1>2, NextWorkOf
    <2>6. Work' = OneDaemon!Finish(OneDaemon!InHand \cup rs, "failed")
      BY <2>3, <2>5 DEF OneDaemon!Finish, Work
    <2>7. OneDaemon!Die(rs)
      BY <2>2, <2>4, <2>6 DEF OneDaemon!Die
    <2>8. QED
      BY <2>7 DEF OneDaemon!Next
  <1>4. CASE pc[p] # "held"
    <2>1. \A q \in Procs : pc'[q] = "held" <=> pc[q] = "held"
      BY <1>1, <1>4
    <2>2. rs = {} /\ hs = {}
      BY <1>4, HandlingIsDaemon
    <2>3. \A r \in Requests : Work'[r] = Work[r]
      BY <1>2, <2>2, NextWorkOf
    <2>4. QED
      BY <2>1, <2>3, Stutters
  <1>5. QED
    BY <1>3, <1>4

\* The steps of the socket itself change neither the daemon nor its work.
LEMMA StepAtSocket ==
  ASSUME \/ \E p \in Procs : \/ Listen(p) \/ Lstat(p) \/ DialAnswered(p) \/ DialRefused(p)
                             \/ DialFails(p) \/ RemoveStale(p) \/ Bind(p) \/ ListenSocket(p) \/ CloseUnlink(p)
                             \/ CloseReturns(p)
         \/ OtherEnds \/ UNCHANGED allVars
  PROVE  UNCHANGED OneDaemon!vars
  <1>1. pc' = pc /\ request' = request
    BY DEF Listen, Lstat, DialAnswered, DialRefused, DialFails, RemoveStale, Bind, ListenSocket, CloseUnlink,
           CloseReturns, OtherEnds, vars, allVars, socketVars
  <1>2. QED
    BY <1>1, NextWorkOf, Stutters

(* However processes start, serve, stop and die, they behave like one daemon *)
(* at a time that finishes what it has taken before it lets the next one in. *)
THEOREM ProcessesImplementDaemon == SocketSpec => ImplementsDaemon
  <1>1. SocketInit => OneDaemon!Init
    <2> SUFFICES ASSUME SocketInit PROVE OneDaemon!Init
      OBVIOUS
    <2>1. Daemon = None
      BY HolderIsDaemon DEF SocketInit, Init
    <2>2. Work = [r \in Requests |-> [pc |-> "new", at |-> None]]
      BY DEF SocketInit, Work, WorkOn
    <2>3. QED
      BY <2>1, <2>2 DEF OneDaemon!Init
  <1>2. SocketInv /\ SocketInv' /\ [SocketNext]_allVars => [OneDaemon!Next]_OneDaemon!vars
    BY StepStarts, StepStops, StepAnswers, StepRefuses, StepDies, StepAtSocket DEF SocketNext
  <1>3. QED
    BY <1>1, <1>2, SocketInvariant, PTL DEF SocketSpec, ImplementsDaemon, OneDaemon!Spec
=============================================================================
