----------------------------- MODULE StateLock -----------------------------
(***************************************************************************)
(* The claim a cpms process takes on its state file before it reads it     *)
(* (internal/state/lock_unix.go): an flock on "<path>.lock", a file that   *)
(* every holder unlinks when it is done.  Every system call is a step.     *)
(*                                                                         *)
(* An inode that no process has open and that the path does not name is    *)
(* free, and a later open may be given its number again.                   *)
(***************************************************************************)
CONSTANTS Procs, Inodes, None

ASSUME StateLockAssumption == None \notin Procs \cup Inodes

VARIABLES
  pc,      \* where each process is in LockPath or Release
  fd,      \* the inode each process has open, or None
  path,    \* the inode the lock path names, or None
  owner    \* the process that holds the flock on each inode, or None

vars == <<pc, fd, path, owner>>

PCs == {"out", "loop", "opened", "locked", "held", "unlinked"}

Free(i) == path # i /\ \A p \in Procs : fd[p] # i

Init ==
  /\ pc = [p \in Procs |-> "out"]
  /\ fd = [p \in Procs |-> None]
  /\ path \in Inodes \cup {None}      \* a crash may have left the file behind
  /\ owner = [i \in Inodes |-> None]

\* Closing the descriptor, or dying, releases the flock with it.
CloseFile(p, to) ==
  /\ pc' = [pc EXCEPT ![p] = to]
  /\ fd' = [fd EXCEPT ![p] = None]
  /\ owner' = [i \in Inodes |-> IF owner[i] = p THEN None ELSE owner[i]]

\* cpms run calls LockPath.
Call(p) ==
  /\ pc[p] = "out"
  /\ pc' = [pc EXCEPT ![p] = "loop"]
  /\ UNCHANGED <<fd, path, owner>>

\* os.OpenFile with O_CREATE.
Open(p) ==
  /\ pc[p] = "loop"
  /\ \E i \in Inodes :
       /\ IF path = None THEN Free(i) ELSE path = i
       /\ path' = i
       /\ fd' = [fd EXCEPT ![p] = i]
  /\ pc' = [pc EXCEPT ![p] = "opened"]
  /\ UNCHANGED owner

\* syscall.Flock(LOCK_EX|LOCK_NB).
Flock(p) ==
  /\ pc[p] = "opened"
  /\ owner[fd[p]] = None
  /\ owner' = [owner EXCEPT ![fd[p]] = p]
  /\ pc' = [pc EXCEPT ![p] = "locked"]
  /\ UNCHANGED <<fd, path>>

\* EWOULDBLOCK: LockPath returns ErrLocked (the caller may try again later).
WouldBlock(p) ==
  /\ pc[p] = "opened"
  /\ owner[fd[p]] # None
  /\ CloseFile(p, "out")
  /\ UNCHANGED path

\* Mutant: the lock is taken to be good without looking at the path again.
SameFileAssumed(p) ==
  /\ pc[p] = "locked"
  /\ pc' = [pc EXCEPT ![p] = "held"]
  /\ UNCHANGED <<fd, path, owner>>

\* os.SameFile: the inode we locked is the one the path names.
SameFile(p) ==
  /\ pc[p] = "locked"
  /\ path = fd[p]
  /\ pc' = [pc EXCEPT ![p] = "held"]
  /\ UNCHANGED <<fd, path, owner>>

\* Mutant: the file of the first attempt stays open, and locked.
RetryOpen(p) ==
  /\ pc[p] = "locked"
  /\ path # fd[p]
  /\ pc' = [pc EXCEPT ![p] = "loop"]
  /\ fd' = [fd EXCEPT ![p] = None]
  /\ UNCHANGED <<path, owner>>

\* It is not: close it and go round the loop again.
Retry(p) ==
  /\ pc[p] = "locked"
  /\ path # fd[p]
  /\ CloseFile(p, "loop")
  /\ UNCHANGED path

\* Release, first half: os.Remove while still holding the flock.
ReleaseRemove(p) ==
  /\ pc[p] = "held"
  /\ path' = None
  /\ pc' = [pc EXCEPT ![p] = "unlinked"]
  /\ UNCHANGED <<fd, owner>>

\* Release, second half: close, and with it the flock.
ReleaseClose(p) ==
  /\ pc[p] = "unlinked"
  /\ CloseFile(p, "out")
  /\ UNCHANGED path

\* The kernel closes the descriptor; the file stays.
Die(p) ==
  /\ pc[p] # "out"
  /\ CloseFile(p, "out")
  /\ UNCHANGED path

Next ==
  \E p \in Procs :
    \/ Call(p) \/ Open(p) \/ Flock(p) \/ WouldBlock(p) \/ SameFile(p) \/ Retry(p)
    \/ ReleaseRemove(p) \/ ReleaseClose(p) \/ Die(p)

Spec == Init /\ [][Next]_vars

-----------------------------------------------------------------------------
\* Types: a lock on an inode has one owner or none.
TypeOK ==
  /\ pc \in [Procs -> PCs]
  /\ fd \in [Procs -> Inodes \cup {None}]
  /\ path \in Inodes \cup {None}
  /\ owner \in [Inodes -> Procs \cup {None}]

(* At most one process at a time believes it may use the state file.  It     *)
(* takes the check after the flock and the order of Release together: either *)
(* one alone lets two processes hold locks on two inodes of one name.        *)
MutualExclusion ==
  \A p, q \in Procs : pc[p] = "held" /\ pc[q] = "held" => p = q

(* "a crash never leaves a stale lock behind" (lock_unix.go:17): LockPath     *)
(* reports ErrLocked only while another process is in LockPath or has yet to  *)
(* finish Release.                                                            *)
NoStaleLock ==
  \A p \in Procs :
    (\A q \in Procs \ {p} : pc[q] \in {"out", "loop"})
      => ~(pc[p] = "opened" /\ owner[fd[p]] # None)

\* A process has a file open exactly while it is in LockPath or holds a lock.
OpenFiles == \A p \in Procs : fd[p] = None <=> pc[p] \in {"out", "loop"}

\* The flock on an inode belongs to a process that has it open.
LocksOpen ==
  \A p \in Procs : pc[p] \in {"locked", "held", "unlinked"} <=> (\E i \in Inodes : owner[i] = p)

OwnersOpen == \A i \in Inodes : owner[i] # None => fd[owner[i]] = i

\* While a process holds the lock, the path names the inode it locked.
HolderNamed == \A p \in Procs : pc[p] = "held" => path = fd[p]

(* The inductive strengthening of MutualExclusion. *)
LockInv == TypeOK /\ OpenFiles /\ LocksOpen /\ OwnersOpen /\ HolderNamed
=============================================================================
