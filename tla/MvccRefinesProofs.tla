------------------------- MODULE MvccRefinesProofs -------------------------
(***************************************************************************)
(* Mvcc implements ReadCommitted, for every set of connections, keys and   *)
(* values and every bound, as long as no key gets damaged.                 *)
(*                                                                         *)
(* The change of a transaction to a key is what it finds there once it has *)
(* created or expired a version. Every step of the storage is put together *)
(* from what MvccViewProofs says of recovery, of a new ID, of a write and  *)
(* of the end of an ID.                                                    *)
(***************************************************************************)
EXTENDS MvccImplements, MvccViewProofs

-----------------------------------------------------------------------------
(* What a reader finds in the objects os with the active IDs act, and what *)
(* a transaction has changed.                                              *)
FoundIn(os, act, k, u) ==
  LET rows == Rows(os, k, u, act)
  IN  IF rows = {} THEN NoRow ELSE (CHOOSE o \in rows : TRUE).value

ChangeIn(os, act, k, u) ==
  IF u \in HoldersIn(os, act, k) THEN FoundIn(os, act, k, u) ELSE Untouched

(* The same of the file. *)
Changed(u, k) == IF u \in Holders(k) THEN Found(k, u) ELSE Untouched

(* Found and the changes of the refinement, in terms of the objects and    *)
(* active IDs.                                                             *)
LEMMA FoundNow ==
  ASSUME NEW k, NEW u
  PROVE  /\ Found(k, u) = FoundIn(objects, active, k, u)
         /\ Changed(u, k) = ChangeIn(objects, active, k, u)
<1>1. Found(k, u) = FoundIn(objects, active, k, u)
  BY DEF Found, FoundIn
<1>2. Holders(k) = HoldersIn(objects, active, k)
  BY DEF Holders, HoldersIn, At
<1> QED BY <1>1, <1>2 DEF Changed, ChangeIn

(* The same of the next state.                                             *)
LEMMA FoundNext ==
  ASSUME NEW k, NEW u
  PROVE  /\ Found(k, u)' = FoundIn(objects', active', k, u)
         /\ Changed(u, k)' = ChangeIn(objects', active', k, u)
<1>1. Found(k, u)' = FoundIn(objects', active', k, u)
  BY DEF Found, FoundIn, Rows, Visible
<1>2. Holders(k)' = HoldersIn(objects', active', k)
  BY DEF Holders, HoldersIn, At
<1> QED BY <1>1, <1>2 DEF Changed, ChangeIn

(* One row is found, whatever CHOOSE takes.                                *)
LEMMA FoundValues ==
  ASSUME NEW os, NEW act, NEW ps, NEW bct, NEW k, NEW u,
         Values(ps, k, u, bct) = Values(os, k, u, act),
         \A o, p \in Rows(os, k, u, act) : o = p
  PROVE  FoundIn(ps, bct, k, u) = FoundIn(os, act, k, u)
<1> DEFINE R == Rows(os, k, u, act)
           S == Rows(ps, k, u, bct)
<1>1. {o.value : o \in S} = {o.value : o \in R} /\ \A o, p \in R : o = p
  BY DEF Values
<1> HIDE DEF R, S
<1>2. S = {} <=> R = {}
  BY <1>1
<1>3. ASSUME R # {}
      PROVE  (CHOOSE o \in S : TRUE).value = (CHOOSE o \in R : TRUE).value
  <2>1. (CHOOSE o \in S : TRUE) \in S /\ (CHOOSE o \in R : TRUE) \in R
    BY <1>2, <1>3
  <2>2. (CHOOSE o \in S : TRUE).value \in {o.value : o \in R}
    BY <1>1, <2>1
  <2> QED BY <1>1, <2>1, <2>2
<1> QED BY <1>2, <1>3 DEF FoundIn, R, S

(* The same rows are found as the same row.                                *)
LEMMA FoundRows ==
  ASSUME NEW os, NEW act, NEW ps, NEW bct, NEW k, NEW u, NEW w,
         Rows(ps, k, w, bct) = Rows(os, k, u, act)
  PROVE  FoundIn(ps, bct, k, w) = FoundIn(os, act, k, u)
BY DEF FoundIn

(* A row or no row, never Untouched.                                       *)
LEMMA FoundType ==
  ASSUME NEW n, NEW os \in SUBSET ObjectUpTo(n), NEW act, NEW k, NEW u
  PROVE  /\ FoundIn(os, act, k, u) \in Value \cup {NoRow}
         /\ FoundIn(os, act, k, u) # Untouched
<1> DEFINE R == Rows(os, k, u, act)
<1>1. \A o \in R : o.value \in Value
  BY DEF Rows, ObjectUpTo
<1> HIDE DEF R
<1>2. R # {} => (CHOOSE o \in R : TRUE) \in R
  OBVIOUS
<1> QED BY <1>1, <1>2, NoRowAssumption DEF FoundIn, R

-----------------------------------------------------------------------------
(* The steps of ReadCommitted, said of the rows and changes of each key.   *)

Owned == {txn[c] : c \in Conn} \ {0}

(* The transactions D are discarded, and the changes of the others stay.   *)
Discards(D) ==
  \A u \in Tid, k \in Key : Changed(u, k)' = IF u \in D THEN Untouched ELSE Changed(u, k)

(* A change of t is added to those it has made.                            *)
Makes(t, change, D) ==
  \A u \in Tid, k \in Key :
    Changed(u, k)' = IF u = t
                     THEN IF change[k] = Untouched THEN Changed(t, k) ELSE change[k]
                     ELSE IF u \in D THEN Untouched ELSE Changed(u, k)

SameTable == \A k \in Key : Found(k, 0)' = Found(k, 0)

(* The keys of the change, which nobody else has changed.                  *)
FreeOf(change, others) ==
  \A k \in Key, u \in others : change[k] # Untouched => Changed(u, k) = Untouched

Changes == [Key -> Value \cup {NoRow, Untouched}]

(* The writes that the refinement maps the file to.                        *)
LEMMA TheWrites ==
  /\ [u \in Tid |-> [k \in Key |-> IF u \in Holders(k) THEN Found(k, u) ELSE Untouched]]
       = [u \in Tid |-> [k \in Key |-> Changed(u, k)]]
  /\ [u \in Tid |-> [k \in Key |-> IF u \in Holders(k) THEN Found(k, u) ELSE Untouched]]'
       = [u \in Tid |-> [k \in Key |-> Changed(u, k)']]
BY DEF Changed

(* START TRANSACTION, with the transactions D recovered.                   *)
LEMMA BeginRefines ==
  ASSUME NEW D, NEW t \in Tid, t \notin active,
         active' = (active \ D) \cup {t}, Owned' = Owned \cup {t}, Discards(D), SameTable
  PROVE  RC!Begin(D)
<1> DEFINE W  == [u \in Tid |-> [k \in Key |-> Changed(u, k)]]
           W2 == [u \in Tid |-> [k \in Key |-> Changed(u, k)']]
           Nothing == [k \in Key |-> Untouched]
<1>1. W2 = [u \in Tid |-> IF u \in D THEN Nothing ELSE W[u]]
  BY DEF Discards
<1>2. [k \in Key |-> Found(k, 0)]' = [k \in Key |-> Found(k, 0)]
  BY DEF SameTable
<1> HIDE DEF W, W2
<1>3. RC!Without(D) = [u \in Tid |-> IF u \in D THEN Nothing ELSE W[u]]
  BY TheWrites DEF RC!Without, RC!Nothing, W
<1> QED BY <1>1, <1>2, <1>3, TheWrites DEF RC!Begin, Owned, W2

(* A statement of a transaction.                                           *)
LEMMA WriteRefines ==
  ASSUME NEW D, NEW t \in Tid, NEW change \in Changes,
         active' = active \ D, Owned' = Owned, SameTable, Makes(t, change, D), t \notin D,
         FreeOf(change, active \ (D \cup {t})), active \in SUBSET Tid
  PROVE  RC!Write(t, D)
<1> DEFINE W  == [u \in Tid |-> [k \in Key |-> Changed(u, k)]]
           W2 == [u \in Tid |-> [k \in Key |-> Changed(u, k)']]
           Nothing == [k \in Key |-> Untouched]
           made == [k \in Key |-> IF change[k] = Untouched THEN Changed(t, k) ELSE change[k]]
<1>1. W2 = [u \in Tid |-> IF u = t THEN made ELSE IF u \in D THEN Nothing ELSE W[u]]
  BY DEF Makes
<1>2. [k \in Key |-> Found(k, 0)]' = [k \in Key |-> Found(k, 0)]
  BY DEF SameTable
<1>3. W[t] = [k \in Key |-> Changed(t, k)]
  OBVIOUS
<1>4. made = [k \in Key |-> IF change[k] = Untouched THEN W[t][k] ELSE change[k]]
  OBVIOUS
<1>5. \A k \in Key, u \in active \ (D \cup {t}) : change[k] # Untouched => W[u][k] = Untouched
  BY DEF FreeOf
<1> HIDE DEF W, W2, made
<1>6. RC!Without(D) = [u \in Tid |-> IF u \in D THEN Nothing ELSE W[u]]
  BY TheWrites DEF RC!Without, RC!Nothing, W
<1>7. W2 = [RC!Without(D) EXCEPT ![t] = made]
  BY <1>1, <1>6
<1>8. RC!Apply(W[t], change) = made
  BY <1>4 DEF RC!Apply
<1>9. RC!Free(change, active \ (D \cup {t}))
  BY <1>5, TheWrites DEF RC!Free, W
<1>10. change \in RC!Change
  BY DEF RC!Change, Changes
<1> QED BY <1>2, <1>7, <1>8, <1>9, <1>10, TheWrites DEF RC!Write, Owned, W, W2

(* The committed row of each key that isn't Untouched.                     *)
Applies(change) ==
  \A k \in Key : Found(k, 0)' = IF change[k] = Untouched THEN Found(k, 0) ELSE change[k]

(* A statement outside of a transaction.                                   *)
LEMMA WriteThroughRefines ==
  ASSUME NEW D, NEW change \in Changes, active' = active \ D, Owned' = Owned,
         Discards(D), Applies(change), FreeOf(change, active \ D), active \in SUBSET Tid
  PROVE  RC!WriteThrough(D)
<1> DEFINE W  == [u \in Tid |-> [k \in Key |-> Changed(u, k)]]
           W2 == [u \in Tid |-> [k \in Key |-> Changed(u, k)']]
           T  == [k \in Key |-> Found(k, 0)]
           Nothing == [k \in Key |-> Untouched]
<1>1. W2 = [u \in Tid |-> IF u \in D THEN Nothing ELSE W[u]]
  BY DEF Discards
<1>2. [k \in Key |-> Found(k, 0)]' =
        [k \in Key |-> IF change[k] = Untouched THEN T[k] ELSE change[k]]
  BY DEF Applies
<1>3. \A k \in Key, u \in active \ D : change[k] # Untouched => W[u][k] = Untouched
  BY DEF FreeOf
<1> HIDE DEF W, W2, T
<1>4. RC!Without(D) = [u \in Tid |-> IF u \in D THEN Nothing ELSE W[u]]
  BY TheWrites DEF RC!Without, RC!Nothing, W
<1>5. RC!Apply(T, change) = [k \in Key |-> IF change[k] = Untouched THEN T[k] ELSE change[k]]
  BY DEF RC!Apply
<1>6. RC!Free(change, active \ D)
  BY <1>3, TheWrites DEF RC!Free, W
<1>7. change \in RC!Change
  BY DEF RC!Change, Changes
<1> QED BY <1>1, <1>2, <1>4, <1>5, <1>6, <1>7, TheWrites DEF RC!WriteThrough, Owned, T, W2

(* COMMIT.                                                                 *)
LEMMA CommitRefines ==
  ASSUME NEW D, NEW t \in Tid, active' = active \ (D \cup {t}), Owned' = Owned \ {t},
         Discards(D \cup {t}), Applies([k \in Key |-> Changed(t, k)])
  PROVE  RC!Commit(t, D)
<1> DEFINE W  == [u \in Tid |-> [k \in Key |-> Changed(u, k)]]
           W2 == [u \in Tid |-> [k \in Key |-> Changed(u, k)']]
           T  == [k \in Key |-> Found(k, 0)]
           Nothing == [k \in Key |-> Untouched]
<1>1. W2 = [u \in Tid |-> IF u \in D \cup {t} THEN Nothing ELSE W[u]]
  BY DEF Discards
<1>2. W[t] = [k \in Key |-> Changed(t, k)]
  OBVIOUS
<1>3. [k \in Key |-> Found(k, 0)]' =
        [k \in Key |-> IF W[t][k] = Untouched THEN T[k] ELSE W[t][k]]
  BY DEF Applies
<1> HIDE DEF W, W2, T
<1>4. RC!Without(D \cup {t}) = [u \in Tid |-> IF u \in D \cup {t} THEN Nothing ELSE W[u]]
  BY TheWrites DEF RC!Without, RC!Nothing, W
<1>5. RC!Apply(T, W[t]) = [k \in Key |-> IF W[t][k] = Untouched THEN T[k] ELSE W[t][k]]
  BY DEF RC!Apply
<1> QED BY <1>1, <1>3, <1>4, <1>5, TheWrites DEF RC!Commit, Owned, T, W, W2

(* ROLLBACK.                                                               *)
LEMMA RollbackRefines ==
  ASSUME NEW D, NEW t \in Tid, active' = active \ (D \cup {t}), Owned' = Owned \ {t},
         Discards(D \cup {t}), SameTable
  PROVE  RC!Rollback(t, D)
<1> DEFINE W  == [u \in Tid |-> [k \in Key |-> Changed(u, k)]]
           W2 == [u \in Tid |-> [k \in Key |-> Changed(u, k)']]
           Nothing == [k \in Key |-> Untouched]
<1>1. W2 = [u \in Tid |-> IF u \in D \cup {t} THEN Nothing ELSE W[u]]
  BY DEF Discards
<1>2. [k \in Key |-> Found(k, 0)]' = [k \in Key |-> Found(k, 0)]
  BY DEF SameTable
<1> HIDE DEF W, W2
<1>3. RC!Without(D \cup {t}) = [u \in Tid |-> IF u \in D \cup {t} THEN Nothing ELSE W[u]]
  BY TheWrites DEF RC!Without, RC!Nothing, W
<1> QED BY <1>1, <1>2, <1>3, TheWrites DEF RC!Rollback, Owned, W2

(* Steps that leave the objects and active IDs alone.                      *)
LEMMA SameFound ==
  ASSUME UNCHANGED <<objects, active>>
  PROVE  /\ [k \in Key |-> Found(k, 0)]' = [k \in Key |-> Found(k, 0)]
         /\ [u \in Tid |-> [k \in Key |-> IF u \in Holders(k) THEN Found(k, u) ELSE Untouched]]'
              = [u \in Tid |->
                   [k \in Key |-> IF u \in Holders(k) THEN Found(k, u) ELSE Untouched]]
<1>1. \A k, u : Found(k, u)' = Found(k, u) /\ Changed(u, k)' = Changed(u, k)
  BY FoundNow, FoundNext
<1> QED BY <1>1, TheWrites

(* A transaction loses its connection, and stays in the file.              *)
LEMMA AbandonRefines ==
  ASSUME NEW t, UNCHANGED <<objects, active>>, Owned' = Owned \ {t}
  PROVE  RC!Abandon(t)
BY SameFound DEF RC!Abandon, Owned

(* Nothing that a client can find has changed.                             *)
LEMMA StutterRefines ==
  ASSUME UNCHANGED <<objects, active>>, Owned' = Owned
  PROVE  UNCHANGED RC!vars
BY SameFound DEF RC!vars, Owned

-----------------------------------------------------------------------------
(* What recovery, a new ID, a write and the end of an ID do to the changes *)
(* of each transaction.                                                    *)

(* A key has one row at most for each reader.                              *)
LEMMA RowsOnce ==
  ASSUME NEW os, NEW act, 0 \notin act, NEW k, StructureAt(os, act, k), NEW u \in act \cup {0}
  PROVE  \A o, p \in Rows(os, k, u, act) : o = p
BY RowsSeen, SeenOnce

(* The same versions are found as the same row.                            *)
LEMMA SameAt ==
  ASSUME NEW os, NEW ps, NEW act, NEW k, NEW u, At(ps, k) = At(os, k)
  PROVE  FoundIn(ps, act, k, u) = FoundIn(os, act, k, u)
BY SameVersions, FoundRows

(* The same versions are the same change.                                  *)
LEMMA SameChange ==
  ASSUME NEW os, NEW ps, NEW act, NEW k, NEW u, At(ps, k) = At(os, k)
  PROVE  ChangeIn(ps, act, k, u) = ChangeIn(os, act, k, u)
<1>1. HoldersIn(ps, act, k) = HoldersIn(os, act, k)
  BY SameVersions
<1>2. FoundIn(ps, act, k, u) = FoundIn(os, act, k, u)
  BY SameAt
<1> QED BY <1>1, <1>2 DEF ChangeIn

(* The structure of a sound key in the file.                               *)
LEMMA ObjectsAt ==
  ASSUME IInv, NEW k \in Sound
  PROVE  0 \notin active /\ StructureAt(objects, active, k)
BY StructureNow DEF IInv, Structure, TypeOK

(* Opening the file. *)
LEMMA OpenedFound ==
  ASSUME IInv, NEW c \in Conn, NEW k \in Sound
  PROVE  FoundIn(Opened(c), ActiveIn(c), k, 0) = FoundIn(objects, active, k, 0)
<1>1. \A o, p \in Rows(objects, k, 0, active) : o = p
  BY ObjectsAt, RowsOnce
<1>2. Values(Opened(c), k, 0, ActiveIn(c)) = Values(objects, k, 0, active)
  BY OpenedView
<1> QED BY <1>1, <1>2, FoundValues

(* Recovery discards the changes of the dead transactions and no others.   *)
LEMMA OpenedChange ==
  ASSUME IInv, NEW c \in Conn, NEW k \in Sound, NEW u
  PROVE  ChangeIn(Opened(c), ActiveIn(c), k, u) =
           IF u \in Dead(c) THEN Untouched ELSE ChangeIn(objects, active, k, u)
<1>1. HoldersIn(Opened(c), ActiveIn(c), k) = HoldersIn(objects, active, k) \ Dead(c)
  BY OpenedView
<1>2. ASSUME u \in HoldersIn(objects, active, k) \ Dead(c)
      PROVE  FoundIn(Opened(c), ActiveIn(c), k, u) = FoundIn(objects, active, k, u)
  <2>1. Rows(Opened(c), k, u, ActiveIn(c)) = Rows(objects, k, u, active)
    BY <1>2, OpenedView
  <2> QED BY <2>1, FoundRows
<1> QED BY <1>1, <1>2 DEF ChangeIn

(* COMMIT and isolation_end. *)
LEMMA EndedChange ==
  ASSUME NEW os, NEW act, 0 \notin act, NEW t, NEW k, StructureAt(os, act, k), t \in act, NEW u
  PROVE  ChangeIn(Unexpired(os, t), act \ {t}, k, u) =
           IF u = t THEN Untouched ELSE ChangeIn(os, act, k, u)
<1>1. HoldersIn(Unexpired(os, t), act \ {t}, k) = HoldersIn(os, act, k) \ {t}
  BY EndedHolders
<1>2. ASSUME u \in HoldersIn(os, act, k), u # t
      PROVE  FoundIn(Unexpired(os, t), act \ {t}, k, u) = FoundIn(os, act, k, u)
  <2>1. Rows(Unexpired(os, t), k, u, act \ {t}) = Rows(os, k, u, act)
    BY <1>2, EndedOthers
  <2> QED BY <2>1, FoundRows
<1> QED BY <1>1, <1>2 DEF ChangeIn

(* What the transaction found becomes the committed row.                   *)
LEMMA EndedFound ==
  ASSUME NEW os, NEW act, 0 \notin act, NEW t, NEW k, StructureAt(os, act, k), t \in act
  PROVE  FoundIn(Unexpired(os, t), act \ {t}, k, 0) = FoundIn(os, act, k, t)
<1>1. Rows(Unexpired(os, t), k, 0, act \ {t}) = Rows(os, k, t, act)
  BY EndedView
<1> QED BY <1>1, FoundRows

(* Who hasn't changed a key finds the committed row. *)
LEMMA UnchangedFound ==
  ASSUME NEW os, NEW act, 0 \notin act, NEW k, StructureAt(os, act, k),
         NEW t, t \in act, t \notin HoldersIn(os, act, k)
  PROVE  FoundIn(os, act, k, t) = FoundIn(os, act, k, 0)
<1>1. Rows(os, k, t, act) = Rows(os, k, 0, act)
  BY OthersFindCommitted
<1> QED BY <1>1, FoundRows

(* ROLLBACK. *)
LEMMA UndoneChange ==
  ASSUME NEW n, NEW os, NEW act, NEW D, NEW lf, NEW pages, NEW k,
         Undoable(n, os, act, D, lf, pages, k), NEW u
  PROVE  ChangeIn(Undo(os, lf, D, pages), act \ D, k, u) =
           IF u \in D THEN Untouched ELSE ChangeIn(os, act, k, u)
<1>1. HoldersIn(Undo(os, lf, D, pages), act \ D, k) = HoldersIn(os, act, k) \ D
  BY UndoneHolders
<1>2. ASSUME u \in HoldersIn(os, act, k), u \notin D
      PROVE  FoundIn(Undo(os, lf, D, pages), act \ D, k, u) = FoundIn(os, act, k, u)
  <2>1. Rows(Undo(os, lf, D, pages), k, u, act \ D) = Rows(os, k, u, act)
    BY <1>2, UndoneOthers
  <2> QED BY <2>1, FoundRows
<1> QED BY <1>1, <1>2 DEF ChangeIn

(* The committed row survives a ROLLBACK.                                  *)
LEMMA UndoneFound ==
  ASSUME NEW n, NEW os, NEW act, NEW D, NEW lf, NEW pages, NEW k,
         Undoable(n, os, act, D, lf, pages, k)
  PROVE  FoundIn(Undo(os, lf, D, pages), act \ D, k, 0) = FoundIn(os, act, k, 0)
<1>1. 0 \notin act /\ StructureAt(os, act, k)
  BY DEF Undoable
<1>2. \A o, p \in Rows(os, k, 0, act) : o = p
  BY <1>1, RowsOnce
<1>3. Values(Undo(os, lf, D, pages), k, 0, act \ D) = Values(os, k, 0, act)
  BY UndoneView
<1> QED BY <1>2, <1>3, FoundValues

(* A write of the keys ks, with nobody else's changes among them.          *)
LEMMA WroteChange ==
  ASSUME IInv, NEW c \in Conn, NEW os, NEW ks, Wrote(c, os, ks, Sound), NEW k \in Sound,
         NEW u, u # TidOf(c)
  PROVE  /\ ChangeIn(os, ActiveIn(c), k, u) = ChangeIn(Opened(c), ActiveIn(c), k, u)
         /\ k \in ks => ChangeIn(Opened(c), ActiveIn(c), k, u) = Untouched
<1>1. CASE k \in ks
  <2> DEFINE t   == TidOf(c)
             act == ActiveIn(c)
             ops == Opened(c)
  <2>1. ~ Contended(ops, k, t, act) /\ t \in HoldersIn(os, act, k) /\ StructureAt(os, act, k)
    BY <1>1 DEF Wrote
  <2>2. 0 \notin act /\ u # t
    BY Starts
  <2> HIDE DEF t, act, ops
  <2>3. HoldersIn(ops, act, k) \subseteq {t}
    BY <2>1, <2>2, ContendedByHolder
  <2>4. u \notin HoldersIn(os, act, k)
    BY <2>1, <2>2, HolderAlone
  <2> QED BY <2>2, <2>3, <2>4 DEF ChangeIn, act, ops
<1>2. CASE k \notin ks
  <2>1. At(os, k) = At(Opened(c), k)
    BY <1>2 DEF Wrote
  <2> QED BY <1>2, <2>1, SameChange
<1> QED BY <1>1, <1>2

(* The committed row survives the write of an active transaction.          *)
LEMMA WroteFound ==
  ASSUME IInv, NEW c \in Conn, NEW os, NEW ks, Wrote(c, os, ks, Sound), NEW k \in Sound
  PROVE  FoundIn(os, ActiveIn(c), k, 0) = FoundIn(Opened(c), ActiveIn(c), k, 0)
<1> DEFINE t   == TidOf(c)
           act == ActiveIn(c)
           ops == Opened(c)
<1>1. /\ StructureAt(os, act, k) /\ StructureAt(ops, act, k) /\ 0 \notin act /\ t \in act
      /\ k \notin ks => At(os, k) = At(ops, k)
      /\ k \in ks => KeepsOthers(ops, os, k, t)
  BY Starts DEF Wrote
<1> HIDE DEF t, act, ops
<1>2. CASE k \in ks
  <2>1. Values(os, k, 0, act) = Values(ops, k, 0, act)
    BY <1>1, <1>2, WriteView
  <2>2. \A o, p \in Rows(ops, k, 0, act) : o = p
    BY <1>1, RowsOnce
  <2>3. FoundIn(os, act, k, 0) = FoundIn(ops, act, k, 0)
    BY <2>1, <2>2, FoundValues
  <2> QED BY <2>3 DEF act, ops
<1>3. CASE k \notin ks
  BY <1>1, <1>3, SameAt DEF act, ops
<1> QED BY <1>2, <1>3

-----------------------------------------------------------------------------
(* Every step of the storage is one of READ COMMITTED, while no key gets   *)
(* damaged.                                                                *)

CInv ==
  /\ IInv
  /\ damaged = {}
  /\ FirstTid <= transaction_id
  /\ active \subseteq Tid

(* What the steps need of the invariant.                                   *)
LEMMA CleanFacts ==
  ASSUME CInv
  PROVE  /\ IInv /\ Sound = Key /\ active \in SUBSET Tid /\ transaction_id \in Nat
         /\ objects \in SUBSET ObjectUpTo(transaction_id)
         /\ txn \in [Conn -> 0 .. transaction_id]
BY DEF CInv, IInv, TypeOK, Sound, ObjectUpTo

(* Recovery discards transactions that have lost their connection.         *)
LEMMA DeadAbandoned ==
  ASSUME CInv, NEW c \in Conn
  PROVE  Dead(c) \in SUBSET (active \ Owned)
BY DEF CInv, IInv, LiveTransactions, Dead, Owned

(* The transaction of a connection is in the header.                       *)
LEMMA OwnedOpen ==
  ASSUME CInv
  PROVE  Owned \subseteq active
BY DEF CInv, IInv, LiveTransactions, Owned

(* Steps that start and end no transaction.                                *)
LEMMA OwnedSame ==
  ASSUME UNCHANGED txn
  PROVE  Owned' = Owned
BY DEF Owned

(* A connection gets a transaction.                                        *)
LEMMA OwnedStarts ==
  ASSUME CInv, NEW c \in Conn, NEW t, t # 0, txn[c] = 0, txn' = [txn EXCEPT ![c] = t]
  PROVE  Owned' = Owned \cup {t}
<1>1. \A d \in Conn : txn'[d] = IF d = c THEN t ELSE txn[d]
  BY CleanFacts
<1>2. ASSUME NEW u \in Owned
      PROVE  u \in Owned'
  BY <1>1, <1>2 DEF Owned
<1> QED BY <1>1, <1>2 DEF Owned

(* The transaction of a connection ends, and no other connection has it.   *)
LEMMA OwnedEnds ==
  ASSUME CInv, NEW c \in Conn, txn[c] # 0, txn' = [txn EXCEPT ![c] = 0]
  PROVE  Owned' = Owned \ {txn[c]} /\ txn[c] \in Owned
<1>1. \A d \in Conn : txn'[d] = IF d = c THEN 0 ELSE txn[d]
  BY CleanFacts
<1>2. \A d \in Conn : txn[d] = txn[c] => d = c
  BY DEF CInv, IInv, LiveTransactions
<1>3. ASSUME NEW u \in Owned, u # txn[c]
      PROVE  u \in Owned'
  BY <1>1, <1>3 DEF Owned
<1>4. ASSUME NEW u \in Owned'
      PROVE  u \in Owned /\ u # txn[c]
  BY <1>1, <1>2, <1>4 DEF Owned
<1>5. txn[c] \in Owned
  BY DEF Owned
<1> QED BY <1>3, <1>4, <1>5

(* What a transaction has done to a key after the file was opened.         *)
LEMMA OpenedChanged ==
  ASSUME CInv, NEW c \in Conn, NEW k \in Key, NEW u
  PROVE  ChangeIn(Opened(c), ActiveIn(c), k, u) =
           IF u \in Dead(c) THEN Untouched ELSE Changed(u, k)
BY CleanFacts, OpenedChange, FoundNow

(* The change that a statement makes, with the ID t.                       *)
ChangeOf(c, os, ks) ==
  [k \in Key |-> IF k \in ks THEN FoundIn(os, ActiveIn(c), k, TidOf(c)) ELSE Untouched]

(* The change has a row, or no row, for each key of the statement.         *)
LEMMA ChangeOfType ==
  ASSUME CInv, NEW c \in Conn, NEW os, NEW ks, Wrote(c, os, ks, Key)
  PROVE  /\ ChangeOf(c, os, ks) \in Changes
         /\ \A k \in Key : /\ k \in ks => /\ ChangeOf(c, os, ks)[k] # Untouched
                                          /\ ChangeOf(c, os, ks)[k] =
                                               FoundIn(os, ActiveIn(c), k, TidOf(c))
                           /\ k \notin ks => ChangeOf(c, os, ks)[k] = Untouched
<1> DEFINE act == ActiveIn(c)
           t == TidOf(c)
           n == transaction_id + 1
<1>1. os \in SUBSET ObjectUpTo(n)
  BY DEF Wrote
<1> HIDE DEF act, t, n
<1>2. \A k : FoundIn(os, act, k, t) \in Value \cup {NoRow} /\ FoundIn(os, act, k, t) # Untouched
  BY <1>1, FoundType
<1> QED BY <1>2 DEF ChangeOf, Changes, act, t

(* Nobody else's changes are among the keys of a statement.                *)
LEMMA ChangeOfFree ==
  ASSUME CInv, NEW c \in Conn, NEW os, NEW ks, Wrote(c, os, ks, Key),
         NEW others, \A u \in others : u \notin Dead(c) /\ u # TidOf(c)
  PROVE  FreeOf(ChangeOf(c, os, ks), others)
<1> SUFFICES ASSUME NEW k \in Key, NEW u \in others, ChangeOf(c, os, ks)[k] # Untouched
             PROVE  Changed(u, k) = Untouched
  BY DEF FreeOf
<1>1. k \in ks
  BY ChangeOfType
<1>2. ChangeIn(Opened(c), ActiveIn(c), k, u) = Untouched
  BY <1>1, CleanFacts, WroteChange
<1> QED BY <1>2, OpenedChanged

(* A statement of a transaction. *)
LEMMA StatementWrites ==
  ASSUME CInv, NEW c \in Conn, txn[c] # 0, Statement(c, Key)
  PROVE  \E t \in Owned, D \in SUBSET (active \ Owned) : RC!Write(t, D)
<1>1. PICK os, ks : Wrote(c, os, ks, Key) /\ Ended(c, os)
  BY DEF Statement
<1> DEFINE t == txn[c]
           change == ChangeOf(c, os, ks)
<1>2. /\ objects' = os /\ active' = ActiveIn(c) /\ active' = active \ Dead(c)
      /\ t = TidOf(c) /\ Owned' = Owned
  BY <1>1, CleanFacts, OpenedStructure, OwnedSame DEF Ended, TidOf, Live
<1>3. t \in Owned /\ t \in active /\ t \in Tid /\ t \notin Dead(c)
  BY OwnedOpen, CleanFacts, DeadAbandoned DEF Owned
<1>4. SameTable
  <2> SUFFICES ASSUME NEW k \in Key
               PROVE  Found(k, 0)' = Found(k, 0)
    BY DEF SameTable
  <2>1. Found(k, 0)' = FoundIn(os, ActiveIn(c), k, 0)
    BY <1>2, FoundNext
  <2>2. FoundIn(os, ActiveIn(c), k, 0) = FoundIn(Opened(c), ActiveIn(c), k, 0)
    BY <1>1, CleanFacts, WroteFound
  <2>3. FoundIn(Opened(c), ActiveIn(c), k, 0) = Found(k, 0)
    BY CleanFacts, OpenedFound, FoundNow
  <2> QED BY <2>1, <2>2, <2>3
<1>5. Makes(t, change, Dead(c))
  <2> SUFFICES ASSUME NEW u \in Tid, NEW k \in Key
               PROVE  Changed(u, k)' = IF u = t
                        THEN IF change[k] = Untouched THEN Changed(t, k) ELSE change[k]
                        ELSE IF u \in Dead(c) THEN Untouched ELSE Changed(u, k)
    BY DEF Makes
  <2> HIDE DEF t, change
  <2>1. Changed(u, k)' = ChangeIn(os, ActiveIn(c), k, u)
    BY <1>2, FoundNext
  <2>2. CASE u # t
    <3>1. ChangeIn(os, ActiveIn(c), k, u) = ChangeIn(Opened(c), ActiveIn(c), k, u)
      <4>1. IInv /\ Wrote(c, os, ks, Sound) /\ k \in Sound /\ u # TidOf(c)
        BY <1>1, <1>2, <2>2, CleanFacts
      <4> QED BY <4>1, WroteChange
    <3> QED BY <2>1, <2>2, <3>1, OpenedChanged
  <2>3. CASE u = t /\ k \in ks
    <3>1. t \in HoldersIn(os, ActiveIn(c), k)
      BY <1>1, <1>2, <2>3 DEF Wrote
    <3>2. change[k] # Untouched /\ change[k] = FoundIn(os, ActiveIn(c), k, t)
      <4>1. t = TidOf(c) /\ k \in ks
        BY <1>2, <2>3
      <4> QED BY <1>1, <4>1, ChangeOfType DEF change
    <3> QED BY <2>1, <2>3, <3>1, <3>2 DEF ChangeIn
  <2>4. CASE u = t /\ k \notin ks
    <3>1. At(os, k) = At(Opened(c), k)
      BY <1>1, <2>4 DEF Wrote
    <3>2. ChangeIn(os, ActiveIn(c), k, u) = ChangeIn(Opened(c), ActiveIn(c), k, u)
      BY <3>1, SameChange
    <3>3. change[k] = Untouched
      BY <1>1, <2>4, ChangeOfType DEF change
    <3> QED BY <1>3, <2>1, <2>4, <3>2, <3>3, OpenedChanged
  <2> QED BY <2>2, <2>3, <2>4
<1>6. FreeOf(change, active \ (Dead(c) \cup {t}))
  BY <1>1, <1>2, ChangeOfFree
<1>7. change \in Changes /\ active \in SUBSET Tid
  BY <1>1, ChangeOfType, CleanFacts
<1>8. PICK r, D, ch : r = t /\ D = Dead(c) /\ ch = change
  OBVIOUS
<1> HIDE DEF t, change
<1>9. /\ r \in Tid /\ ch \in Changes /\ active' = active \ D /\ Owned' = Owned
      /\ SameTable /\ Makes(r, ch, D) /\ r \notin D
      /\ FreeOf(ch, active \ (D \cup {r})) /\ active \in SUBSET Tid
  BY <1>2, <1>3, <1>4, <1>5, <1>6, <1>7, <1>8
<1>10. RC!Write(r, D)
  BY ONLY <1>9, WriteRefines
<1> QED BY <1>3, <1>8, <1>10, DeadAbandoned

(* A statement outside of a transaction. *)
LEMMA StatementWritesThrough ==
  ASSUME CInv, NEW c \in Conn, txn[c] = 0, Statement(c, Key)
  PROVE  \E D \in SUBSET (active \ Owned) : RC!WriteThrough(D)
<1>1. PICK os, ks : Wrote(c, os, ks, Key) /\ Ended(c, os)
  BY DEF Statement
<1>2. PICK t, act : t = TidOf(c) /\ act = ActiveIn(c)
  OBVIOUS
<1>3. /\ objects' = Unexpired(os, t) /\ active' = act \ {t} /\ active' = active \ Dead(c)
      /\ t \notin active /\ t \in act /\ t \notin Dead(c) /\ 0 \notin act /\ Owned' = Owned
      /\ \A k \in Key : StructureAt(os, act, k) /\ StructureAt(Opened(c), act, k)
  <2>1. t = transaction_id + 1 /\ Dead(c) \subseteq active
    BY <1>2, CleanFacts DEF TidOf, Dead
  <2>2. t \notin active /\ t \in act /\ 0 \notin act
    <3>1. active \in SUBSET (1 .. transaction_id) /\ transaction_id \in Nat
      BY CleanFacts, Starts
    <3>2. TidOf(c) \in ActiveIn(c) /\ 0 \notin ActiveIn(c)
      BY CleanFacts, Starts
    <3> QED BY <1>2, <2>1, <3>1, <3>2
  <2>3. active' = act \ {t} /\ active' = active \ Dead(c)
    BY <1>1, <1>2, CleanFacts, OpenedStructure DEF Ended, Live
  <2>4. objects' = Unexpired(os, t) /\ Owned' = Owned
    BY <1>1, <1>2, OwnedSame DEF Ended
  <2>5. \A k \in Key : StructureAt(os, act, k) /\ StructureAt(Opened(c), act, k)
    BY <1>1, <1>2, CleanFacts, Starts DEF Wrote
  <2> QED BY <2>1, <2>2, <2>3, <2>4, <2>5
<1>4. PICK D, change : D = Dead(c) /\ change = ChangeOf(c, os, ks)
  OBVIOUS
<1>5. ASSUME NEW k \in Key
      PROVE  Found(k, 0)' = IF change[k] = Untouched THEN Found(k, 0) ELSE change[k]
  <2>1. Found(k, 0)' = FoundIn(Unexpired(os, t), act \ {t}, k, 0)
    BY <1>3, FoundNext
  <2>2. FoundIn(Unexpired(os, t), act \ {t}, k, 0) = FoundIn(os, act, k, t)
    BY <1>3, EndedFound
  <2>3. CASE k \in ks
    BY <1>1, <1>2, <1>4, <2>1, <2>2, <2>3, ChangeOfType
  <2>4. CASE k \notin ks
    <3>1. At(os, k) = At(Opened(c), k)
      BY <1>1, <2>4 DEF Wrote
    <3>2. FoundIn(os, act, k, t) = FoundIn(Opened(c), act, k, t)
      BY <3>1, SameAt
    <3>3. t \notin HoldersIn(Opened(c), act, k)
      <4>1. HoldersIn(Opened(c), act, k) = HoldersIn(objects, active, k) \ Dead(c)
        BY <1>2, CleanFacts, OpenedView
      <4> QED BY <1>3, <4>1 DEF HoldersIn
    <3>4. FoundIn(Opened(c), act, k, t) = FoundIn(Opened(c), act, k, 0)
      <4>1. PICK ops : ops = Opened(c)
        OBVIOUS
      <4>2. 0 \notin act /\ StructureAt(ops, act, k) /\ t \in act /\ t \notin HoldersIn(ops, act, k)
        BY <1>3, <3>3, <4>1
      <4>3. FoundIn(ops, act, k, t) = FoundIn(ops, act, k, 0)
        BY ONLY <4>2, UnchangedFound
      <4> QED BY <4>1, <4>3
    <3>5. FoundIn(Opened(c), act, k, 0) = Found(k, 0)
      BY <1>2, CleanFacts, OpenedFound, FoundNow
    <3>6. change[k] = Untouched
      BY <1>1, <1>4, <2>4, ChangeOfType
    <3> QED BY <2>1, <2>2, <3>2, <3>4, <3>5, <3>6
  <2> QED BY <2>3, <2>4
<1>6. ASSUME NEW u \in Tid, NEW k \in Key
      PROVE  Changed(u, k)' = IF u \in D THEN Untouched ELSE Changed(u, k)
  <2>1. Changed(u, k)' = ChangeIn(Unexpired(os, t), act \ {t}, k, u)
    BY <1>3, FoundNext
  <2>2. ChangeIn(Unexpired(os, t), act \ {t}, k, u) =
          IF u = t THEN Untouched ELSE ChangeIn(os, act, k, u)
    BY <1>3, EndedChange
  <2>3. CASE u = t
    <3>1. Changed(t, k) = Untouched
      BY <1>3 DEF Changed, Holders
    <3> QED BY <2>1, <2>2, <2>3, <3>1
  <2>4. CASE u # t
    <3>1. IInv /\ Wrote(c, os, ks, Sound) /\ k \in Sound /\ u # TidOf(c)
      BY <1>1, <1>2, <2>4, CleanFacts
    <3>2. ChangeIn(os, ActiveIn(c), k, u) = ChangeIn(Opened(c), ActiveIn(c), k, u)
      BY <3>1, WroteChange
    <3> QED BY <1>2, <1>4, <2>1, <2>2, <2>4, <3>2, OpenedChanged
  <2> QED BY <2>3, <2>4
<1>7. FreeOf(change, active \ D)
  BY <1>1, <1>2, <1>3, <1>4, ChangeOfFree
<1>8. /\ change \in Changes /\ active' = active \ D /\ Owned' = Owned
      /\ Discards(D) /\ Applies(change) /\ FreeOf(change, active \ D) /\ active \in SUBSET Tid
  BY <1>1, <1>3, <1>4, <1>5, <1>6, <1>7, ChangeOfType, CleanFacts DEF Discards, Applies
<1>9. RC!WriteThrough(D)
  BY ONLY <1>8, WriteThroughRefines
<1> QED BY <1>4, <1>9, DeadAbandoned

(* START TRANSACTION. *)
LEMMA StartBegins ==
  ASSUME CInv, NEW c \in Conn, StartTransaction(c)
  PROVE  \E D \in SUBSET (active \ Owned) : RC!Begin(D)
<1>1. PICK t, D : t = TidOf(c) /\ D = Dead(c)
  OBVIOUS
<1>2. /\ t = transaction_id + 1 /\ t \in Tid /\ t # 0 /\ t \notin active
      /\ objects' = Opened(c) /\ active' = ActiveIn(c) /\ active' = (active \ D) \cup {t}
      /\ Owned' = Owned \cup {t}
  <2>1. /\ t = transaction_id + 1 /\ transaction_id < MaxTid
        /\ objects' = Opened(c) /\ active' = ActiveIn(c) /\ active' = (active \ D) \cup {t}
        /\ txn[c] = 0 /\ txn' = [txn EXCEPT ![c] = t]
    BY <1>1 DEF StartTransaction, HasTid, TidOf, ActiveIn, Live
  <2>2. t \in Tid /\ t # 0 /\ t \notin active
    BY <2>1, CleanFacts, Starts, MvccAssumption DEF CInv, Tid, FirstTid
  <2> QED BY <2>1, <2>2, OwnedStarts
<1>3. SameTable
  <2> SUFFICES ASSUME NEW k \in Key
               PROVE  Found(k, 0)' = Found(k, 0)
    BY DEF SameTable
  <2>1. Found(k, 0)' = FoundIn(Opened(c), ActiveIn(c), k, 0)
    BY <1>2, FoundNext
  <2> QED BY <2>1, CleanFacts, OpenedFound, FoundNow
<1>4. Discards(D)
  <2> SUFFICES ASSUME NEW u \in Tid, NEW k \in Key
               PROVE  Changed(u, k)' = IF u \in D THEN Untouched ELSE Changed(u, k)
    BY DEF Discards
  <2>1. Changed(u, k)' = ChangeIn(Opened(c), ActiveIn(c), k, u)
    BY <1>2, FoundNext
  <2> QED BY <1>1, <2>1, OpenedChanged
<1>5. RC!Begin(D)
  BY <1>2, <1>3, <1>4, BeginRefines
<1> QED BY <1>1, <1>5, DeadAbandoned

(* The end of a transaction leaves every key as it should be.              *)
LEMMA EndsClean ==
  ASSUME CInv, UNCHANGED damaged, NEW c \in Conn, NEW os, NEW intended, txn[c] # 0,
         EndTransaction(c, os, intended)
  PROVE  /\ \A k \in Key : At(objects', k) = At(intended, k)
         /\ active' = ActiveIn(c) \ {txn[c]} /\ active' = active \ (Dead(c) \cup {txn[c]})
         /\ TidOf(c) = txn[c] /\ txn[c] \in ActiveIn(c) /\ txn[c] \in Tid
         /\ txn[c] \in Owned /\ Owned' = Owned \ {txn[c]} /\ txn[c] \notin Dead(c)
<1>1. \A k \in Key : At(objects', k) = At(intended, k)
  <2>1. Sound' = Key
    BY DEF CInv, Sound
  <2> QED BY <2>1, CleanFacts, EndTransactionView
<1>2. /\ active' = Live(c) \ {txn[c]} /\ txn' = [txn EXCEPT ![c] = 0]
  BY DEF EndTransaction
<1>3. ActiveIn(c) = Live(c) /\ TidOf(c) = txn[c] /\ txn[c] \in ActiveIn(c)
  BY CleanFacts, OpenedStructure DEF TidOf
<1>4. Owned' = Owned \ {txn[c]} /\ txn[c] \in Owned
  BY <1>2, OwnedEnds
<1>5. txn[c] \in Tid /\ txn[c] \notin Dead(c)
  BY <1>4, OwnedOpen, CleanFacts, DeadAbandoned
<1> QED BY <1>1, <1>2, <1>3, <1>4, <1>5 DEF Live

(* COMMIT. *)
LEMMA CommitCommits ==
  ASSUME CInv, UNCHANGED damaged, NEW c \in Conn, Commit(c)
  PROVE  \E t \in Owned, D \in SUBSET (active \ Owned) : RC!Commit(t, D)
<1>1. PICK t, D, act, os : t = txn[c] /\ D = Dead(c) /\ act = ActiveIn(c) /\ os = Opened(c)
  OBVIOUS
<1>2. /\ t # 0 /\ \A k \in Key : At(objects', k) = At(Unexpired(os, t), k)
      /\ active' = act \ {t} /\ active' = active \ (D \cup {t})
      /\ TidOf(c) = t /\ t \in act /\ t \in Tid /\ t \in Owned /\ Owned' = Owned \ {t}
      /\ t \notin D
  <2>1. t # 0 /\ EndTransaction(c, objects', Unexpired(os, t))
    BY <1>1 DEF Commit, EndTransaction, Unexpired
  <2>2. PICK ps, qs : ps = objects' /\ qs = Unexpired(os, t)
    OBVIOUS
  <2>3. EndTransaction(c, ps, qs)
    BY <2>1, <2>2
  <2> QED BY <1>1, <2>1, <2>2, <2>3, EndsClean
<1>3. 0 \notin act /\ \A k \in Key : StructureAt(os, act, k)
  BY <1>1, CleanFacts, Starts
<1>4. ASSUME NEW k \in Key
      PROVE  Found(k, 0)' = IF Changed(t, k) = Untouched THEN Found(k, 0) ELSE Changed(t, k)
  <2>1. Found(k, 0)' = FoundIn(Unexpired(os, t), act \ {t}, k, 0)
    <3>1. PICK ps, bct : ps = objects' /\ bct = active'
      OBVIOUS
    <3>2. FoundIn(ps, bct, k, 0) = FoundIn(Unexpired(os, t), bct, k, 0)
      BY <1>2, <3>1, SameAt
    <3> QED BY <1>2, <3>1, <3>2, FoundNext
  <2>2. FoundIn(Unexpired(os, t), act \ {t}, k, 0) = FoundIn(os, act, k, t)
    BY <1>2, <1>3, EndedFound
  <2>3. ChangeIn(os, act, k, t) = Changed(t, k)
    BY <1>1, <1>2, OpenedChanged
  <2>4. CASE t \in HoldersIn(os, act, k)
    <3>1. Changed(t, k) = FoundIn(os, act, k, t)
      BY <2>3, <2>4 DEF ChangeIn
    <3>2. FoundIn(os, act, k, t) # Untouched
      BY <1>1, CleanFacts, Starts, FoundType
    <3> QED BY <2>1, <2>2, <3>1, <3>2
  <2>5. CASE t \notin HoldersIn(os, act, k)
    <3>1. Changed(t, k) = Untouched
      BY <2>3, <2>5 DEF ChangeIn
    <3>2. FoundIn(os, act, k, t) = FoundIn(os, act, k, 0)
      BY <1>2, <1>3, <2>5, UnchangedFound
    <3>3. FoundIn(os, act, k, 0) = Found(k, 0)
      BY <1>1, CleanFacts, OpenedFound, FoundNow
    <3> QED BY <2>1, <2>2, <3>1, <3>2, <3>3
  <2> QED BY <2>4, <2>5
<1>5. ASSUME NEW u \in Tid, NEW k \in Key
      PROVE  Changed(u, k)' = IF u \in D \cup {t} THEN Untouched ELSE Changed(u, k)
  <2>1. Changed(u, k)' = ChangeIn(Unexpired(os, t), act \ {t}, k, u)
    <3>1. PICK ps, bct : ps = objects' /\ bct = active'
      OBVIOUS
    <3>2. ChangeIn(ps, bct, k, u) = ChangeIn(Unexpired(os, t), bct, k, u)
      BY <1>2, <3>1, SameChange
    <3> QED BY <1>2, <3>1, <3>2, FoundNext
  <2>2. ChangeIn(Unexpired(os, t), act \ {t}, k, u) =
          IF u = t THEN Untouched ELSE ChangeIn(os, act, k, u)
    BY <1>2, <1>3, EndedChange
  <2> QED BY <1>1, <2>1, <2>2, OpenedChanged
<1>6. Discards(D \cup {t}) /\ Applies([k \in Key |-> Changed(t, k)])
  BY <1>4, <1>5 DEF Discards, Applies
<1>7. RC!Commit(t, D)
  BY <1>2, <1>6, CommitRefines
<1> QED BY <1>1, <1>2, <1>7, DeadAbandoned

(* ROLLBACK, by the client or after a 40001. *)
LEMMA RollbackRollsBack ==
  ASSUME CInv, UNCHANGED damaged, NEW c \in Conn, Rollback(c)
  PROVE  \E t \in Owned, D \in SUBSET (active \ Owned) : RC!Rollback(t, D)
<1>1. PICK t, D, act, os : t = txn[c] /\ D = Dead(c) /\ act = ActiveIn(c) /\ os = Opened(c)
  OBVIOUS
<1>2. PICK lf, pages, n, ends : /\ lf = leaf /\ pages = 1 .. total_pages
                                /\ n = transaction_id + 1 /\ ends = {t}
  OBVIOUS
<1>3. /\ t # 0 /\ \A k \in Key : At(objects', k) = At(Undo(os, lf, ends, pages), k)
      /\ active' = act \ ends /\ active' = active \ (D \cup {t})
      /\ TidOf(c) = t /\ t \in act /\ t \in Tid /\ t \in Owned /\ Owned' = Owned \ {t}
      /\ t \notin D
  <2>1. t # 0 /\ EndTransaction(c, objects', Undo(os, lf, ends, pages))
    BY <1>1, <1>2 DEF Rollback, EndTransaction
  <2>2. PICK ps, qs : ps = objects' /\ qs = Undo(os, lf, ends, pages)
    OBVIOUS
  <2>3. EndTransaction(c, ps, qs)
    BY <2>1, <2>2
  <2> QED BY <1>1, <1>2, <2>1, <2>2, <2>3, EndsClean
<1>4. ASSUME NEW k \in Key
      PROVE  Undoable(n, os, act, ends, lf, pages, k)
  <2>1. /\ n \in Nat /\ os \in SUBSET ObjectUpTo(n) /\ act \in SUBSET (1 .. n)
        /\ StructureAt(os, act, k)
    BY <1>1, <1>2, CleanFacts, Starts
  <2>2. ends \in SUBSET act
    BY <1>2, <1>3
  <2>3. lf[k] \in pages
    BY <1>2, CleanFacts, Starts DEF TypeOK
  <2> QED BY <2>1, <2>2, <2>3 DEF Undoable
<1>5. SameTable
  <2> SUFFICES ASSUME NEW k \in Key
               PROVE  Found(k, 0)' = Found(k, 0)
    BY DEF SameTable
  <2>1. PICK ps, bct : ps = objects' /\ bct = active'
    OBVIOUS
  <2>2. FoundIn(ps, bct, k, 0) = FoundIn(Undo(os, lf, ends, pages), bct, k, 0)
    BY <1>3, <2>1, SameAt
  <2>3. FoundIn(Undo(os, lf, ends, pages), act \ ends, k, 0) = FoundIn(os, act, k, 0)
    BY <1>4, UndoneFound
  <2>4. FoundIn(os, act, k, 0) = Found(k, 0)
    BY <1>1, CleanFacts, OpenedFound, FoundNow
  <2> QED BY <1>3, <2>1, <2>2, <2>3, <2>4, FoundNext
<1>6. Discards(D \cup {t})
  <2> SUFFICES ASSUME NEW u \in Tid, NEW k \in Key
               PROVE  Changed(u, k)' = IF u \in D \cup {t} THEN Untouched ELSE Changed(u, k)
    BY DEF Discards
  <2>1. PICK ps, bct : ps = objects' /\ bct = active'
    OBVIOUS
  <2>2. ChangeIn(ps, bct, k, u) = ChangeIn(Undo(os, lf, ends, pages), bct, k, u)
    BY <1>3, <2>1, SameChange
  <2>3. ChangeIn(Undo(os, lf, ends, pages), act \ ends, k, u) =
          IF u \in ends THEN Untouched ELSE ChangeIn(os, act, k, u)
    BY <1>4, UndoneChange
  <2>4. ChangeIn(os, act, k, u) = IF u \in D THEN Untouched ELSE Changed(u, k)
    BY <1>1, OpenedChanged
  <2> QED BY <1>2, <1>3, <2>1, <2>2, <2>3, <2>4, FoundNext
<1>7. RC!Rollback(t, D)
  BY <1>3, <1>5, <1>6, RollbackRefines
<1> QED BY <1>1, <1>3, <1>7, DeadAbandoned

(* The client of a transaction goes away. *)
LEMMA CloseAbandons ==
  ASSUME CInv, NEW c \in Conn, Close(c)
  PROVE  (\E t \in Owned : RC!Abandon(t)) \/ UNCHANGED RC!vars
<1>1. UNCHANGED <<objects, active>> /\ txn' = [txn EXCEPT ![c] = 0]
  BY DEF Close, file
<1>2. CASE txn[c] = 0
  <2>1. Owned' = Owned
    <3>1. txn' = txn
      BY <1>1, <1>2, CleanFacts
    <3> QED BY <3>1, OwnedSame
  <2> QED BY <1>1, <2>1, StutterRefines
<1>3. CASE txn[c] # 0
  <2>1. PICK t : t = txn[c]
    OBVIOUS
  <2>2. Owned' = Owned \ {t} /\ t \in Owned
    BY <1>1, <1>3, <2>1, OwnedEnds
  <2> QED BY <1>1, <2>2, AbandonRefines
<1> QED BY <1>2, <1>3

-----------------------------------------------------------------------------
(* The theorem. *)

(* The steps that damage no key: an operation that writes is a Statement.  *)
LEMMA CleanStepIs ==
  ASSUME CInv, Next, UNCHANGED damaged
  PROVE  \E c \in Conn : \/ Statement(c, Key)
                         \/ StartTransaction(c)
                         \/ Commit(c)
                         \/ Rollback(c)
                         \/ Conflict(c) \/ RollbackFails(c) \/ Open(c)
                         \/ Close(c)
<1>1. IInv /\ Sound = Key
  BY CleanFacts
<1>2. ASSUME NEW c \in Conn, NEW k \in Key, NEW v \in Value, Insert(c, k, v)
      PROVE  Statement(c, Key)
  BY <1>1, <1>2, InsertIs
<1>3. ASSUME NEW c \in Conn, NEW k \in Key, NEW v \in Value, Update(c, k, v)
      PROVE  Statement(c, Key)
  BY <1>1, <1>3, UpdateIs
<1>4. ASSUME NEW c \in Conn, NEW k \in Key, Delete(c, k)
      PROVE  Statement(c, Key)
  BY <1>1, <1>4, DeleteIs
<1>5. ASSUME NEW c \in Conn, NEW k \in Key, NEW j \in Key, NEW v \in Value, Move(c, k, j, v)
      PROVE  Statement(c, Key)
  BY <1>1, <1>5, MoveIs
<1>6. ASSUME NEW c \in Conn, NEW k \in Key, NEW v \in Value, ThirdVersion(c, k, v)
      PROVE  FALSE
  BY <1>1, <1>6, ThirdVersionIs DEF Sound
<1> QED BY <1>2, <1>3, <1>4, <1>5, <1>6 DEF Next

(* Every active ID is one that a transaction got.                          *)
LEMMA CInvStep ==
  ASSUME CInv, [Next /\ UNCHANGED damaged]_vars
  PROVE  CInv'
<1>1. IInv' /\ damaged' = {}
  BY IInvStep DEF CInv, vars
<1>2. FirstTid <= transaction_id' /\ active' \subseteq Tid
  <2>1. CASE UNCHANGED vars
    BY <2>1 DEF CInv, vars, file, Tid, FirstTid
  <2>2. CASE Next /\ UNCHANGED damaged
    <3>1. PICK c \in Conn : \/ Statement(c, Key)
                            \/ StartTransaction(c)
                            \/ Commit(c)
                            \/ Rollback(c)
                            \/ Conflict(c) \/ RollbackFails(c) \/ Open(c)
                            \/ Close(c)
      BY <2>2, CleanStepIs
    <3>2. /\ Live(c) \subseteq Tid /\ transaction_id \in Nat /\ FirstTid <= transaction_id
          /\ TidOf(c) \in {txn[c], transaction_id + 1}
      BY CleanFacts DEF CInv, Live, TidOf
    <3>3. CASE Statement(c, Key)
      <4>1. active' = Live(c) /\ transaction_id' \in {transaction_id, transaction_id + 1}
        BY <3>3 DEF Statement, Ended, TidOf
      <4> QED BY <3>2, <4>1 DEF FirstTid
    <3>4. CASE StartTransaction(c)
      <4>1. /\ active' = Live(c) \cup {transaction_id + 1} /\ transaction_id < MaxTid
            /\ transaction_id' = transaction_id + 1
        BY <3>4 DEF StartTransaction, HasTid, TidOf, ActiveIn
      <4> QED BY <3>2, <4>1, MvccAssumption DEF Tid, FirstTid
    <3>5. CASE Commit(c) \/ Rollback(c)
      BY <3>2, <3>5 DEF Commit, Rollback, EndTransaction
    <3>6. CASE Conflict(c) \/ RollbackFails(c) \/ Open(c) \/ Close(c)
      BY <3>2, <3>6 DEF Conflict, RollbackFails, Open, Close, file, CInv
    <3> QED BY <3>1, <3>3, <3>4, <3>5, <3>6
  <2> QED BY <2>1, <2>2
<1> QED BY <1>1, <1>2 DEF CInv

(* Every such step is a step of READ COMMITTED or a stutter.               *)
LEMMA CleanStepRefines ==
  ASSUME CInv, [Next /\ UNCHANGED damaged]_vars
  PROVE  [RC!Next]_(RC!vars)
<1>1. CASE UNCHANGED vars
  BY <1>1, OwnedSame, StutterRefines DEF vars, file
<1>2. CASE Next /\ UNCHANGED damaged
  <2>1. PICK c \in Conn : \/ Statement(c, Key)
                          \/ StartTransaction(c)
                          \/ Commit(c)
                          \/ Rollback(c)
                          \/ Conflict(c) \/ RollbackFails(c) \/ Open(c)
                          \/ Close(c)
    BY <1>2, CleanStepIs
  <2>2. CASE Statement(c, Key) /\ txn[c] # 0
    BY <2>2, StatementWrites DEF RC!Next, Owned
  <2>3. CASE Statement(c, Key) /\ txn[c] = 0
    BY <2>3, StatementWritesThrough DEF RC!Next, Owned
  <2>4. CASE StartTransaction(c)
    BY <2>4, StartBegins DEF RC!Next, Owned
  <2>5. CASE Commit(c)
    BY <1>2, <2>5, CommitCommits DEF RC!Next, Owned
  <2>6. CASE Rollback(c)
    BY <1>2, <2>6, RollbackRollsBack DEF RC!Next, Owned
  <2>7. CASE Conflict(c) \/ RollbackFails(c) \/ Open(c)
    <3>1. UNCHANGED <<objects, active>> /\ UNCHANGED txn
      BY <2>7 DEF Conflict, RollbackFails, Open, file
    <3> QED BY <3>1, OwnedSame, StutterRefines
  <2>8. CASE Close(c)
    BY <2>8, CloseAbandons DEF RC!Next, Owned
  <2> QED BY <2>1, <2>2, <2>3, <2>4, <2>5, <2>6, <2>7, <2>8
<1> QED BY <1>1, <1>2

(* The statements, START TRANSACTION, COMMIT, ROLLBACK, recoveries and     *)
(* crashes of storage.v and the transaction statements are those of READ   *)
(* COMMITTED, as long as no key gets damaged: nobody finds a change that   *)
(* isn't committed, COMMIT applies all of a transaction's changes at once, *)
(* ROLLBACK and recovery none, and no two open transactions have changed   *)
(* the same key.                                                           *)
THEOREM CleanImplements == CleanSpec => ImplementsReadCommitted
<1>1. Init => CInv /\ RC!Init
  <2> SUFFICES ASSUME Init
               PROVE  CInv /\ RC!Init
    OBVIOUS
  <2>1. CInv
    BY DEF Init, CInv, IInv, TypeOK, FirstTid, LiveTransactions, VersionStructure, ExpiryHeld,
           OwnExpiry, TwoVersions
  <2>2. \A k, u : Found(k, u) = NoRow /\ Holders(k) = {}
    BY DEF Init, Found, Holders, Rows
  <2>3. {txn[c] : c \in Conn} \ {0} = {} /\ active = {}
    BY DEF Init
  <2> QED BY <2>1, <2>2, <2>3 DEF RC!Init, RC!Nothing
<1>2. CInv /\ [Next /\ UNCHANGED damaged]_vars => CInv' /\ [RC!Next]_(RC!vars)
  BY CInvStep, CleanStepRefines
<1> QED BY <1>1, <1>2, PTL DEF CleanSpec, ImplementsReadCommitted, RC!Spec
=============================================================================
