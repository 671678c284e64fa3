--------------------------- MODULE MvccImplements ---------------------------
(***************************************************************************)
(* Mvcc implements ReadCommitted. The committed row of a key is the one a  *)
(* reader without a transaction finds, and the change of a transaction to  *)
(* a key is what it finds there itself, once it has created or expired a   *)
(* version of it.                                                          *)
(***************************************************************************)
EXTENDS Mvcc

CONSTANTS NoRow, Untouched

ASSUME NoRowAssumption ==
  NoRow \notin Value /\ Untouched \notin Value /\ NoRow # Untouched

Found(k, current) ==
  LET rows == Rows(objects, k, current, active)
  IN  IF rows = {} THEN NoRow ELSE (CHOOSE o \in rows : TRUE).value

RC == INSTANCE ReadCommitted WITH
        Tid    <- Tid,
        table  <- [k \in Key |-> Found(k, 0)],
        open   <- active,
        owned  <- {txn[c] : c \in Conn} \ {0},
        writes <- [t \in Tid |->
                     [k \in Key |-> IF t \in Holders(k) THEN Found(k, t) ELSE Untouched]]

(* The behaviours in which no key gets damaged: a COMMIT or ROLLBACK that  *)
(* would leave one wrong, and ThirdVersion, don't happen.                  *)
CleanSpec == Init /\ [][Next /\ UNCHANGED damaged]_vars

(* Every step of the storage is a step of READ COMMITTED, or changes       *)
(* nothing that a client can find (docs/transactions.rst:15-20).           *)
ImplementsReadCommitted == RC!Spec
=============================================================================
