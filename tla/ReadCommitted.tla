--------------------------- MODULE ReadCommitted ---------------------------
(***************************************************************************)
(* What vsql promises of its transactions (docs/transactions.rst,          *)
(* docs/commit.rst, docs/rollback.rst): one table of committed rows, and   *)
(* for each open transaction the keys it has changed. Nobody else sees     *)
(* those changes until COMMIT applies all of them; ROLLBACK applies none;  *)
(* a key that one transaction has changed can't be changed by another.     *)
(***************************************************************************)
CONSTANTS Key, Value, Tid,
          NoRow,      \* there is no row with the key
          Untouched   \* a transaction hasn't changed the key

VARIABLES
  table,   \* the committed row of each key, or NoRow
  open,    \* the transactions that are open
  owned,   \* those that still have a client
  writes   \* writes[t][k]: the change of t to the row of k

vars == <<table, open, owned, writes>>

Nothing == [k \in Key |-> Untouched]
Change  == [Key -> Value \cup {NoRow, Untouched}]

Init ==
  /\ table = [k \in Key |-> NoRow]
  /\ open = {} /\ owned = {}
  /\ writes = [t \in Tid |-> Nothing]

(* A change doesn't touch a key that another open transaction has changed. *)
Free(change, others) ==
  \A k \in Key, u \in others : change[k] # Untouched => writes[u][k] = Untouched

Apply(row, change) ==
  [k \in Key |-> IF change[k] = Untouched THEN row[k] ELSE change[k]]

Without(D) == [t \in Tid |-> IF t \in D THEN Nothing ELSE writes[t]]

(* The client of a transaction goes away: its changes stay until a later   *)
(* step discards it. Any step may discard such transactions, and no other. *)
Abandon(t) ==
  /\ owned' = owned \ {t}
  /\ UNCHANGED <<table, open, writes>>

Begin(D) ==
  /\ \E t \in Tid \ open : open' = (open \ D) \cup {t} /\ owned' = owned \cup {t}
  /\ writes' = Without(D)
  /\ UNCHANGED table

Write(t, D) ==
  /\ open' = open \ D
  /\ UNCHANGED <<table, owned>>
  /\ \E change \in Change :
       /\ Free(change, open \ (D \cup {t}))
       /\ writes' = [Without(D) EXCEPT ![t] = Apply(writes[t], change)]

(* A statement outside of a transaction. *)
WriteThrough(D) ==
  /\ open' = open \ D
  /\ writes' = Without(D)
  /\ UNCHANGED owned
  /\ \E change \in Change :
       /\ Free(change, open \ D)
       /\ table' = Apply(table, change)

Commit(t, D) ==
  /\ open' = open \ (D \cup {t}) /\ owned' = owned \ {t}
  /\ table' = Apply(table, writes[t])
  /\ writes' = Without(D \cup {t})

Rollback(t, D) ==
  /\ open' = open \ (D \cup {t}) /\ owned' = owned \ {t}
  /\ writes' = Without(D \cup {t})
  /\ UNCHANGED table

Next ==
  \/ \E t \in owned : Abandon(t)
  \/ \E D \in SUBSET (open \ owned) :
       \/ Begin(D)
       \/ WriteThrough(D)
       \/ \E t \in owned : Write(t, D) \/ Commit(t, D) \/ Rollback(t, D)

Spec == Init /\ [][Next]_vars
=============================================================================
