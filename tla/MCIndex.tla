------------------------------- MODULE MCIndex ------------------------------
(* Two connections, and a table with one row to start with. *)
EXTENDS Index, TLC

MCUnique  == {1}
MCInitial == UNION {[{k} -> Value] : k \in Key}

Symmetry == Permutations(Conn) \cup Permutations(Key) \cup Permutations(Value)

(* What a connection remembers of an older schema_version than the file's  *)
(* is never used again, and only the difference to the file's matters. Once *)
(* `ahead' is set, it stays, and every property but the types holds of     *)
(* itself (the types are proved in IndexProofs).                           *)
Relative(c) ==
  IF cache[c].version < schema_version
  THEN NoSchema
  ELSE [cache[c] EXCEPT !.version = @ - schema_version + 1]

View ==
  IF ahead
  THEN <<>>
  ELSE <<transaction_id, active, index_id, objects, session, txn,
         [c \in Conn |-> Relative(c)], waiting, damaged>>
=============================================================================
