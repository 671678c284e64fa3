---------------------------- MODULE DurableStore ----------------------------
(***************************************************************************)
(* What the write-ahead log promises of the statements that change the     *)
(* database ("Write-Ahead Log" in docs/file-format.rst): each one is kept  *)
(* whole or not at all, one that was acknowledged is kept for ever, and    *)
(* one that was discarded never appears. The failure of the power may take *)
(* back a statement that nobody was told about.                            *)
(***************************************************************************)
CONSTANT Statement

VARIABLES
  power,       \* whether the power may fail
  store,       \* the statements that are kept
  acked,       \* the statements that were reported to have succeeded
  discarded    \* the statements that failed before they were committed

vars == <<power, store, acked, discarded>>

Init == power \in BOOLEAN /\ store = {} /\ acked = {} /\ discarded = {}

Commit(n) ==
  /\ n \notin store \cup discarded
  /\ store' = store \cup {n}
  /\ UNCHANGED <<power, acked, discarded>>

Acknowledge(n) ==
  /\ n \in store
  /\ acked' = acked \cup {n}
  /\ UNCHANGED <<power, store, discarded>>

Discard(n) ==
  /\ n \notin store
  /\ discarded' = discarded \cup {n}
  /\ UNCHANGED <<power, store, acked>>

LosePower ==
  /\ power
  /\ store' \in SUBSET store /\ acked \subseteq store'
  /\ UNCHANGED <<power, acked, discarded>>

Next ==
  \/ \E n \in Statement : Commit(n) \/ Acknowledge(n) \/ Discard(n)
  \/ LosePower

Spec == Init /\ [][Next]_vars
=============================================================================
