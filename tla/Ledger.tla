------------------------------- MODULE Ledger -------------------------------
(***************************************************************************)
(* What core promises of a reservation, without goroutines, snapshots or   *)
(* timers: a ledger that survives crashes.                                 *)
(*                                                                         *)
(* An id is given out once.  A reservation is open until the ledger keeps  *)
(* it; only what is kept survives a crash.  What is kept leaves only after *)
(* it was struck out, and a crash undoes a striking that the ledger has    *)
(* not taken up yet.  What has left never comes back.                      *)
(***************************************************************************)
CONSTANT Records      \* reservations that can be made: [id, evse, tag]

VARIABLES
  used,     \* ids that were given out
  open,     \* reservations that a crash would lose
  kept,     \* reservations that a crash does not lose
  struck    \* kept ones that have ended: the ledger is to drop them

vars == <<used, open, kept, struck>>

\* At most one reservation of each EVSE.
Exclusive(rs) == \A r, s \in rs : r.evse = s.evse => r = s

Init == used = {} /\ open = {} /\ kept = {} /\ struck = {}

\* A caller learns a new id.
Give(r) ==
  /\ r.id \notin used
  /\ used' = used \cup {r.id}
  /\ open' = open \cup {r}
  /\ Exclusive(open')
  /\ UNCHANGED <<kept, struck>>

\* An open reservation ends, or several at once.
Drop(rs) ==
  /\ open' = open \ rs
  /\ UNCHANGED <<used, kept, struck>>

\* A kept reservation ends, as far as this process is concerned; at a start,
\* several may.
Strike(rs) ==
  /\ rs \subseteq kept
  /\ struck' = struck \cup rs
  /\ UNCHANGED <<used, open, kept>>

\* The ledger takes up what has happened so far: some of what is open, and
\* some of what is struck.  What it keeps for the first time may have ended
\* meanwhile.
Commit(added, dropped) ==
  /\ added \subseteq open
  /\ dropped \subseteq struck
  /\ kept' = (kept \ dropped) \cup added
  /\ Exclusive(kept')
  /\ open' = open \ added
  /\ struck' \in {(struck \ dropped) \cup late : late \in SUBSET added}
  /\ UNCHANGED used

\* The process dies: only what is kept is left.
Lose == open' = {} /\ struck' = {} /\ UNCHANGED <<used, kept>>

Next ==
  \/ \E r \in Records : Give(r)
  \/ \E rs \in SUBSET open : Drop(rs)
  \/ \E rs \in SUBSET kept : Strike(rs)
  \/ \E added \in SUBSET open, dropped \in SUBSET struck : Commit(added, dropped)
  \/ Lose

Spec == Init /\ [][Next]_vars
=============================================================================
