------------------------------- MODULE Daemon -------------------------------
(***************************************************************************)
(* What the state lock and the control socket are for: one daemon at a     *)
(* time owns the state file, only the owner works on requests, and a       *)
(* daemon that is not killed finishes the requests it has taken before it  *)
(* gives the file up.                                                      *)
(***************************************************************************)
CONSTANTS Procs, Requests, None

VARIABLES
  daemon,   \* the process that owns the state file, or None
  work      \* each request: [pc, at], at the daemon that has taken it

vars == <<daemon, work>>

InHand == {r \in Requests : work[r].pc = "taken"}
Finish(rs, how) == [r \in Requests |-> IF r \in rs THEN [pc |-> how, at |-> None] ELSE work[r]]

Init ==
  /\ daemon = None
  /\ work = [r \in Requests |-> [pc |-> "new", at |-> None]]

Start(p) == daemon = None /\ daemon' = p /\ UNCHANGED work

Take(r) ==
  /\ daemon # None
  /\ work[r].pc = "new"
  /\ work' = [work EXCEPT ![r] = [pc |-> "taken", at |-> daemon]]
  /\ UNCHANGED daemon

Answer(r) ==
  /\ work[r].pc = "taken"
  /\ work[r].at = daemon
  /\ work' = Finish({r}, "answered")
  /\ UNCHANGED daemon

\* Turned away before a daemon took them.
Refuse(rs) ==
  /\ \A r \in rs : work[r].pc = "new"
  /\ work' = Finish(rs, "failed")
  /\ UNCHANGED daemon

Stop == daemon # None /\ InHand = {} /\ daemon' = None /\ UNCHANGED work

\* Killed: the requests in hand fail with the process, and so may new ones.
Die(rs) ==
  /\ daemon # None
  /\ \A r \in rs : work[r].pc = "new"
  /\ daemon' = None
  /\ work' = Finish(InHand \cup rs, "failed")

Next ==
  \/ \E p \in Procs : Start(p)
  \/ \E r \in Requests : Take(r) \/ Answer(r)
  \/ Stop
  \/ \E rs \in SUBSET Requests : Refuse(rs) \/ Die(rs)

Spec == Init /\ [][Next]_vars
=============================================================================
