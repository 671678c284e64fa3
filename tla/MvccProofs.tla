----------------------------- MODULE MvccProofs -----------------------------
(***************************************************************************)
(* The invariants of Mvcc for every set of connections, keys and values    *)
(* and every bound.                                                        *)
(***************************************************************************)
EXTENDS Mvcc, TLAPS

(* The objects whose IDs are at most n. *)
ObjectUpTo(n) == [key : Key, tid : 1 .. n, xid : 0 .. n, value : Value]

-----------------------------------------------------------------------------
(* Types. *)

(* Page.delete only removes. *)
LEMMA PageDeleteSubset ==
  ASSUME NEW os, NEW S
  PROVE  PageDelete(os, S) \subseteq os
BY DEF PageDelete

(* Page.expire keeps an object and stores an ID in it. *)
LEMMA SetXidType ==
  ASSUME NEW n \in Nat, NEW os \in SUBSET ObjectUpTo(n), NEW S, NEW x \in 0 .. n
  PROVE  SetXid(os, S, x) \in SUBSET ObjectUpTo(n)
BY DEF SetXid, ObjectUpTo

(* Rollback and recovery keep the type of the objects. *)
LEMMA UndoType ==
  ASSUME NEW n \in Nat, NEW os \in SUBSET ObjectUpTo(n), NEW lf, NEW tids, NEW pages
  PROVE  Undo(os, lf, tids, pages) \in SUBSET ObjectUpTo(n)
<1> DEFINE here == {o \in os : lf[o.key] \in pages}
           kept == PageDelete(os, {o \in here : o.tid \in tids})
           back == {o \in here \cap kept : o.xid \in tids}
<1>1. kept \in SUBSET ObjectUpTo(n)
  BY PageDeleteSubset
<1>2. SetXid(kept, back, 0) \in SUBSET ObjectUpTo(n)
  <2> HIDE DEF kept, back
  <2> QED BY <1>1, SetXidType
<1> QED BY <1>2 DEF Undo

(* An ID issued later is no less an ID. *)
LEMMA ObjectUpToMono ==
  ASSUME NEW n \in Nat, NEW m \in Nat, n <= m
  PROVE  ObjectUpTo(n) \subseteq ObjectUpTo(m)
BY DEF ObjectUpTo

(* The ID of a statement's transaction, and the IDs it finds active. *)
LEMMA TidType ==
  ASSUME TypeOK, NEW c \in Conn
  PROVE  /\ TidOf(c) \in 1 .. (transaction_id + 1)
         /\ txn[c] # 0 => TidOf(c) = txn[c] /\ TidOf(c) <= transaction_id
         /\ txn[c] = 0 => TidOf(c) = transaction_id + 1
         /\ Live(c) \subseteq active
         /\ Opened(c) \in SUBSET ObjectUpTo(transaction_id)
<1>1. objects \in SUBSET ObjectUpTo(transaction_id) /\ transaction_id \in Nat
  BY DEF TypeOK, ObjectUpTo
<1>2. Opened(c) \in SUBSET ObjectUpTo(transaction_id)
  BY <1>1, UndoType DEF Opened
<1>3. txn[c] \in 0 .. transaction_id
  BY DEF TypeOK
<1> QED BY <1>1, <1>2, <1>3 DEF TidOf, Live

(* A new layout only uses the pages that exist after it, and so do the     *)
(* pages a statement remembers.                                            *)
LEMMA LayoutType ==
  ASSUME TypeOK, NEW os, NEW k \in Key, NEW lf \in Layouts(os, k), SetLeaf(lf),
         NEW ks \in SUBSET Key
  PROVE  /\ total_pages' \in Nat /\ total_pages <= total_pages'
         /\ leaf' = lf /\ lf \in [Key -> 1 .. total_pages']
         /\ Written(lf, ks) \subseteq 1 .. total_pages'
<1>1. leaf \in [Key -> 1 .. total_pages] /\ total_pages \in Nat
  BY DEF TypeOK
<1>2. CASE lf = leaf
  BY <1>1, <1>2 DEF SetLeaf, Written
<1>3. CASE lf # leaf
  <2>1. PICK h \in SplitKeys(os, k) : lf = SplitAt(k, h)
    BY <1>3 DEF Layouts
  <2>2. lf \in [Key -> 1 .. (total_pages + 1)]
    BY <1>1, <2>1 DEF SplitAt
  <2>3. leaf' = lf /\ total_pages' = total_pages + 1
    BY <1>3 DEF SetLeaf
  <2> QED BY <1>1, <2>2, <2>3 DEF Written
<1> QED BY <1>2, <1>3

(* The end of a statement keeps the types, when its objects, its layout    *)
(* and its pages have theirs.                                              *)
LEMMA IsolationEndType ==
  ASSUME TypeOK, NEW c \in Conn, NEW os, NEW lf, NEW written,
         os \in SUBSET ObjectUpTo(IF txn[c] # 0 THEN transaction_id ELSE transaction_id + 1),
         total_pages' \in Nat, total_pages <= total_pages',
         lf \in [Key -> 1 .. total_pages'],
         written \subseteq 1 .. total_pages',
         IsolationEnd(c, os, lf, written), damaged' \subseteq Key
  PROVE  TypeOK'
<1>1. leaf' = lf
  BY DEF IsolationEnd, SetLeaf
<1>2. transaction_id' \in Nat /\ transaction_id <= transaction_id'
      /\ transaction_id' = IF txn[c] # 0 THEN transaction_id ELSE transaction_id + 1
  BY TidType DEF IsolationEnd, TypeOK
<1>3. objects' \subseteq os
  BY PageDeleteSubset DEF IsolationEnd, RemoveExpired
<1>4. objects' \subseteq [key : Key, tid : 1 .. transaction_id',
                          xid : 0 .. transaction_id', value : Value]
  BY <1>2, <1>3 DEF ObjectUpTo
<1>5. active' \subseteq 1 .. transaction_id'
  <2>1. active' \subseteq active
    BY TidType DEF IsolationEnd
  <2> QED BY <1>2, <2>1 DEF TypeOK
<1>6. transaction_pages' \in [Conn -> SUBSET (1 .. total_pages')]
  <2>1. transaction_pages \in [Conn -> SUBSET (1 .. total_pages)] /\ total_pages \in Nat
    BY DEF TypeOK
  <2>2. \A d \in Conn : transaction_pages[d] \subseteq 1 .. total_pages'
    BY <2>1
  <2>3. CASE txn[c] # 0
    BY <2>1, <2>2, <2>3 DEF IsolationEnd
  <2>4. CASE txn[c] = 0
    BY <2>1, <2>2, <2>4 DEF IsolationEnd
  <2> QED BY <2>3, <2>4
<1>7. txn' \in [Conn -> 0 .. transaction_id'] /\ session' \subseteq Conn
      /\ doomed' \subseteq Conn /\ damaged' \subseteq Key
  BY <1>2 DEF IsolationEnd, TypeOK
<1> QED BY <1>1, <1>2, <1>4, <1>5, <1>6, <1>7 DEF TypeOK

(* The end of a statement that damages no key.                             *)
LEMMA EndStatementType ==
  ASSUME TypeOK, NEW c \in Conn, NEW os, NEW lf, NEW written,
         os \in SUBSET ObjectUpTo(IF txn[c] # 0 THEN transaction_id ELSE transaction_id + 1),
         total_pages' \in Nat, total_pages <= total_pages',
         lf \in [Key -> 1 .. total_pages'],
         written \subseteq 1 .. total_pages',
         EndStatement(c, os, lf, written)
  PROVE  TypeOK'
<1>1. IsolationEnd(c, os, lf, written) /\ damaged' \subseteq Key
  BY DEF EndStatement, TypeOK
<1> QED BY <1>1, IsolationEndType

(* Every action keeps the type of every variable.                          *)
LEMMA TypeStep == TypeOK /\ [Next]_vars => TypeOK'
<1> SUFFICES ASSUME TypeOK, [Next]_vars
             PROVE  TypeOK'
  OBVIOUS
<1> DEFINE n(c) == IF txn[c] # 0 THEN transaction_id ELSE transaction_id + 1
<1>1. ASSUME NEW c \in Conn, HasTid(c)
      PROVE  /\ n(c) \in Nat /\ TidOf(c) \in 1 .. n(c)
             /\ Opened(c) \in SUBSET ObjectUpTo(n(c))
  <2>1. /\ transaction_id \in Nat
        /\ txn[c] \in 0 .. transaction_id
    BY DEF TypeOK
  <2>2. /\ Opened(c) \in SUBSET ObjectUpTo(transaction_id)
        /\ TidOf(c) \in 1 .. n(c)
    BY <2>1, TidType
  <2>3. ObjectUpTo(transaction_id) \subseteq ObjectUpTo(n(c))
    BY <2>1, ObjectUpToMono
  <2> QED BY <2>1, <2>2, <2>3
<1>2. ASSUME NEW c \in Conn, NEW k \in Key, NEW v \in Value, HasTid(c)
      PROVE  [key |-> k, tid |-> TidOf(c), xid |-> 0, value |-> v] \in ObjectUpTo(n(c))
  BY <1>1, <1>2 DEF ObjectUpTo
<1>3. ASSUME NEW c \in Conn, NEW k \in Key, NEW v \in Value, Insert(c, k, v)
      PROVE  TypeOK'
  <2> DEFINE new == [key |-> k, tid |-> TidOf(c), xid |-> 0, value |-> v]
  <2>1. PICK lf \in Layouts(Opened(c), k) :
          EndStatement(c, Opened(c) \cup {new}, lf, Written(lf, {k}))
    BY <1>3 DEF Insert
  <2>2. Opened(c) \cup {new} \in SUBSET ObjectUpTo(n(c))
    BY <1>1, <1>2, <1>3 DEF Insert
  <2>3. SetLeaf(lf)
    BY <2>1 DEF EndStatement, IsolationEnd
  <2> QED
    BY <2>1, <2>2, <2>3, LayoutType, EndStatementType
<1>4. ASSUME NEW c \in Conn, NEW k \in Key, NEW v \in Value, Update(c, k, v)
      PROVE  TypeOK'
  <2> DEFINE new == [key |-> k, tid |-> TidOf(c), xid |-> 0, value |-> v]
             kept == PageUpdate(Opened(c), k, TidOf(c))
  <2>1. PICK lf \in Layouts(kept, k) :
          EndStatement(c, kept \cup {new}, lf, Written(lf, {k}))
    BY <1>4 DEF Update
  <2>2. kept \in SUBSET ObjectUpTo(n(c))
    BY <1>1, <1>4, SetXidType, PageDeleteSubset DEF Update, PageUpdate
  <2>3. kept \cup {new} \in SUBSET ObjectUpTo(n(c))
    BY <1>2, <1>4, <2>2 DEF Update
  <2>4. SetLeaf(lf)
    BY <2>1 DEF EndStatement, IsolationEnd
  <2> QED
    BY <2>1, <2>3, <2>4, LayoutType, EndStatementType
<1>5. ASSUME NEW c \in Conn, NEW k \in Key, Delete(c, k)
      PROVE  TypeOK'
  <2> DEFINE kept == SetXid(Opened(c), Rows(Opened(c), k, TidOf(c), ActiveIn(c)), TidOf(c))
  <2>1. EndStatement(c, kept, leaf, {leaf[k]})
    BY <1>5 DEF Delete
  <2>2. kept \in SUBSET ObjectUpTo(n(c))
    BY <1>1, <1>5, SetXidType DEF Delete
  <2>3. /\ total_pages' = total_pages /\ total_pages \in Nat
        /\ leaf \in [Key -> 1 .. total_pages]
    BY <2>1 DEF EndStatement, IsolationEnd, SetLeaf, TypeOK
  <2> QED
    BY <2>1, <2>2, <2>3, EndStatementType
<1>6. ASSUME NEW c \in Conn, NEW k \in Key, NEW j \in Key, NEW v \in Value, Move(c, k, j, v)
      PROVE  TypeOK'
  <2> DEFINE new == [key |-> j, tid |-> TidOf(c), xid |-> 0, value |-> v]
             kept == SetXid(Opened(c), Rows(Opened(c), k, TidOf(c), ActiveIn(c)), TidOf(c))
  <2>1. PICK lf \in Layouts(kept, j) :
          EndStatement(c, kept \cup {new}, lf, Written(lf, {k, j}))
    BY <1>6 DEF Move
  <2>2. kept \in SUBSET ObjectUpTo(n(c))
    BY <1>1, <1>6, SetXidType DEF Move
  <2>3. kept \cup {new} \in SUBSET ObjectUpTo(n(c))
    BY <1>2, <1>6, <2>2 DEF Move
  <2>4. SetLeaf(lf)
    BY <2>1 DEF EndStatement, IsolationEnd
  <2> QED
    BY <2>1, <2>3, <2>4, LayoutType, EndStatementType
<1>7. ASSUME NEW c \in Conn, StartTransaction(c)
      PROVE  TypeOK'
  <2>1. txn[c] = 0 /\ HasTid(c)
    BY <1>7 DEF StartTransaction
  <2>2. /\ transaction_id' = transaction_id + 1 /\ TidOf(c) = transaction_id + 1
        /\ transaction_id \in Nat /\ Live(c) \subseteq active
    BY <1>7, <2>1, TidType DEF StartTransaction, TypeOK
  <2>3. objects' \in SUBSET ObjectUpTo(transaction_id')
    BY <1>1, <1>7, <2>1, <2>2 DEF StartTransaction
  <2>4. active' \subseteq 1 .. transaction_id'
    <3>1. active' = Live(c) \cup {transaction_id + 1}
      BY <1>7, <2>2 DEF StartTransaction, ActiveIn
    <3>2. active \subseteq 1 .. transaction_id
      BY DEF TypeOK
    <3>3. \A t \in active : t \in 1 .. (transaction_id + 1)
      BY <2>2, <3>2
    <3>4. transaction_id + 1 \in 1 .. (transaction_id + 1)
      BY <2>2
    <3> QED BY <2>2, <3>1, <3>3, <3>4
  <2>5. /\ txn' \in [Conn -> 0 .. transaction_id']
        /\ transaction_pages' \in [Conn -> SUBSET (1 .. total_pages')]
    BY <1>7, <2>2 DEF StartTransaction, TypeOK
  <2>6. objects' \subseteq [key : Key, tid : 1 .. transaction_id',
                            xid : 0 .. transaction_id', value : Value]
    BY <2>3 DEF ObjectUpTo
  <2>7. UNCHANGED <<leaf, total_pages, session, doomed, damaged>> /\ transaction_id' \in Nat
    BY <1>7, <2>2 DEF StartTransaction
  <2> QED BY <2>4, <2>5, <2>6, <2>7 DEF TypeOK
<1>8. ASSUME NEW c \in Conn, NEW os, NEW intended, EndTransaction(c, os, intended),
             os \in SUBSET ObjectUpTo(transaction_id), doomed' \subseteq Conn
      PROVE  TypeOK'
  <2>1. active' \subseteq active
    BY <1>8, TidType DEF EndTransaction
  <2>2. /\ txn' \in [Conn -> 0 .. transaction_id']
        /\ transaction_pages' \in [Conn -> SUBSET (1 .. total_pages')]
    BY <1>8 DEF EndTransaction, TypeOK
  <2>3. damaged' \subseteq Key
    BY <1>8 DEF EndTransaction, TypeOK, Differ
  <2> QED BY <1>8, <2>1, <2>2, <2>3 DEF EndTransaction, TypeOK, ObjectUpTo
<1>9. ASSUME NEW c \in Conn, Commit(c)
      PROVE  TypeOK'
  <2>1. RemoveExpired(Opened(c), leaf, txn[c], transaction_pages[c])
          \in SUBSET ObjectUpTo(transaction_id)
    BY TidType, PageDeleteSubset DEF RemoveExpired
  <2> QED BY <1>8, <1>9, <2>1 DEF Commit, TypeOK
<1>10. ASSUME NEW c \in Conn, Rollback(c)
       PROVE  TypeOK'
  <2>1. Undo(Opened(c), leaf, {txn[c]}, transaction_pages[c]) \in SUBSET ObjectUpTo(transaction_id)
    BY TidType, UndoType DEF TypeOK
  <2> QED BY <1>8, <1>10, <2>1 DEF Rollback, TypeOK
<1>11. ASSUME NEW c \in Conn, Conflict(c) \/ RollbackFails(c) \/ Open(c) \/ Close(c)
       PROVE  TypeOK'
  <2>1. CASE Conflict(c)
    BY <2>1 DEF Conflict, TypeOK, file
  <2>2. CASE RollbackFails(c)
    BY <2>2 DEF RollbackFails, TypeOK, file
  <2>3. CASE Open(c)
    BY <2>3 DEF Open, TypeOK, file
  <2>4. CASE Close(c)
    <3>1. /\ txn' \in [Conn -> 0 .. transaction_id']
          /\ transaction_pages' \in [Conn -> SUBSET (1 .. total_pages')]
      BY <2>4 DEF Close, TypeOK, file
    <3> QED BY <2>4, <3>1 DEF Close, TypeOK, file
  <2> QED BY <1>11, <2>1, <2>2, <2>3, <2>4
<1>12. ASSUME NEW c \in Conn, NEW k \in Key, NEW v \in Value, ThirdVersion(c, k, v)
       PROVE  TypeOK'
  <2> DEFINE new == [key |-> k, tid |-> TidOf(c), xid |-> 0, value |-> v]
  <2>1. ASSUME NEW kept \in SUBSET ObjectUpTo(n(c)), NEW ks \in SUBSET Key,
               AddThird(c, kept, ks, k, v)
        PROVE  TypeOK'
    <3> DEFINE lf == SplitAt(k, k)
    <3>1. /\ IsolationEnd(c, kept \cup {new}, lf, Written(lf, ks))
          /\ damaged' = damaged \cup {k} /\ lf \in Layouts(kept, k)
      BY <2>1 DEF AddThird, Layouts
    <3>2. SetLeaf(lf) /\ damaged' \subseteq Key
      BY <3>1 DEF IsolationEnd, TypeOK
    <3>3. kept \cup {new} \in SUBSET ObjectUpTo(n(c))
      BY <1>2, <1>12 DEF ThirdVersion
    <3> HIDE DEF lf, new
    <3> QED BY <3>1, <3>2, <3>3, LayoutType, IsolationEndType
  <2>2. Opened(c) \in SUBSET ObjectUpTo(n(c)) /\ n(c) \in Nat /\ TidOf(c) \in 0 .. n(c)
    BY <1>1, <1>12 DEF ThirdVersion
  <2>3. PageUpdate(Opened(c), k, TidOf(c)) \in SUBSET ObjectUpTo(n(c))
    BY <2>2, SetXidType, PageDeleteSubset DEF PageUpdate
  <2>4. ASSUME NEW S PROVE SetXid(Opened(c), S, TidOf(c)) \in SUBSET ObjectUpTo(n(c))
    BY <2>2, SetXidType
  <2>5. Sound \subseteq Key
    BY DEF Sound
  <2>6. CASE AddThird(c, Opened(c), {k}, k, v)
    BY <2>1, <2>2, <2>6
  <2>7. CASE AddThird(c, PageUpdate(Opened(c), k, TidOf(c)), {k}, k, v)
    BY <2>1, <2>3, <2>7
  <2>8. ASSUME NEW j \in Sound, NEW S, AddThird(c, SetXid(Opened(c), S, TidOf(c)), {k, j}, k, v)
        PROVE  TypeOK'
    BY <2>1, <2>4, <2>5, <2>8
  <2> HIDE DEF n
  <2> QED BY <1>12, <2>6, <2>7, <2>8 DEF ThirdVersion
<1>13. CASE UNCHANGED vars
  BY <1>13 DEF vars, file, TypeOK
<1> QED
  BY <1>3, <1>4, <1>5, <1>6, <1>7, <1>9, <1>10, <1>11, <1>12, <1>13 DEF Next

(* Every reachable state has the types of TypeOK.                          *)
THEOREM TypeCorrect == Spec => []TypeOK
<1>1. Init => TypeOK
  BY DEF Init, TypeOK, FirstTid
<1>2. TypeOK /\ [Next]_vars => TypeOK'
  BY TypeStep
<1> QED BY <1>1, <1>2, PTL DEF Spec

-----------------------------------------------------------------------------
(* The versions of one key. *)

(* What VersionStructure says of the key k of the objects os.              *)
StructureAt(os, act, k) ==
  /\ \A o \in os : o.key = k /\ o.xid # 0 => o.xid \in act
  /\ \A o \in os : o.key = k /\ o.xid # 0 /\ o.tid \in act => o.xid = o.tid
  /\ \A o, p \in os :
       o # p /\ o.key = k /\ p.key = k =>
         \E t \in act : (o.xid = t /\ p.tid = t) \/ (p.xid = t /\ o.tid = t)

Structure(os, act, K) == \A k \in K : StructureAt(os, act, k)

(* The invariant and its form by key, in a state and in the next one.      *)
LEMMA StructureNow ==
  ASSUME TypeOK, VersionStructure
  PROVE  Structure(objects, active, Sound)
<1>1. \A o \in objects : o.key \in Key
  BY DEF TypeOK
<1> QED BY <1>1 DEF VersionStructure, ExpiryHeld, OwnExpiry, TwoVersions, Structure, StructureAt

(* The same for the next state, where a step leaves the next objects and   *)
(* active IDs.                                                             *)
LEMMA StructureNext ==
  ASSUME Structure(objects', active', Sound')
  PROVE  VersionStructure'
<1>1. ExpiryHeld'
  BY DEF ExpiryHeld, Structure, StructureAt
<1>2. OwnExpiry'
  BY DEF OwnExpiry, Structure, StructureAt
<1>3. TwoVersions'
  BY DEF TwoVersions, Structure, StructureAt
<1> QED BY <1>1, <1>2, <1>3 DEF VersionStructure

(* Objects with the same versions of a key have the same structure there.  *)
LEMMA StructureSame ==
  ASSUME NEW os, NEW ps, NEW act, NEW k, StructureAt(os, act, k),
         {o \in ps : o.key = k} = {o \in os : o.key = k}
  PROVE  StructureAt(ps, act, k)
<1>1. \A o \in ps : o.key = k => o \in os
  OBVIOUS
<1> QED BY <1>1 DEF StructureAt

(* An ID that nothing is written with yet may become active.               *)
LEMMA StructureFresh ==
  ASSUME NEW os, NEW act, NEW t, NEW k, StructureAt(os, act, k),
         t \in act \/ \A o \in os : o.tid # t
  PROVE  StructureAt(os, act \cup {t}, k)
BY DEF StructureAt

(* COMMIT and isolation_end: without what the transaction expired.         *)
LEMMA StructureCommitted ==
  ASSUME NEW os, NEW act, NEW t, NEW k, StructureAt(os, act, k)
  PROVE  StructureAt({o \in os : o.xid # t}, act \ {t}, k)
BY DEF StructureAt

(* What ROLLBACK and recover leave of a key whose page they visit: the     *)
(* versions that others created, visible again.                            *)
Undone(os, D, k) ==
  {IF o.xid \in D THEN [o EXCEPT !.xid = 0] ELSE o :
     o \in {p \in os : p.key = k /\ p.tid \notin D}}

(* They do just that, although Page.delete and Page.expire find a version  *)
(* by its key and tid only.                                                *)
LEMMA UndoneAt ==
  ASSUME NEW n \in Nat, NEW os \in SUBSET ObjectUpTo(n),
         NEW act \in SUBSET (1 .. n), NEW D \in SUBSET act,
         NEW lf, NEW pages, NEW k, lf[k] \in pages,
         StructureAt(os, act, k)
  PROVE  {r \in Undo(os, lf, D, pages) : r.key = k} = Undone(os, D, k)
<1> DEFINE here == {o \in os : lf[o.key] \in pages}
           kept == PageDelete(os, {o \in here : o.tid \in D})
           back == {o \in here \cap kept : o.xid \in D}
           Hit(o) == \E e \in back : e.key = o.key /\ e.tid = o.tid
           reset(o) == IF Hit(o) THEN [o EXCEPT !.xid = 0] ELSE o
<1>1. \A o \in os : o.key = k => (o \in kept <=> o.tid \notin D)
  BY DEF PageDelete
<1>2. kept \subseteq os
  BY PageDeleteSubset
<1>3. ASSUME NEW o \in kept, o.key = k
      PROVE  Hit(o) <=> o.xid \in D
  <2>1. o \in os /\ o.tid \notin D
    BY <1>1, <1>2, <1>3
  <2>2. o.xid \in D => Hit(o)
    BY <1>3, <2>1
  <2>3. ASSUME NEW e \in back, e.key = o.key, e.tid = o.tid, o.xid \notin D
        PROVE  FALSE
    <3>1. e \in os /\ e.xid \in D /\ e.xid # 0 /\ e # o
      BY <1>2, <2>3
    <3>2. PICK t \in act : (e.xid = t /\ o.tid = t) \/ (o.xid = t /\ e.tid = t)
      BY <1>3, <2>1, <2>3, <3>1 DEF StructureAt
    <3>3. e.tid = t /\ e.xid = t
      BY <1>3, <2>3, <3>1, <3>2 DEF StructureAt
    <3> QED BY <2>1, <2>3, <3>1, <3>3
  <2> QED BY <2>2, <2>3
<1>4. Undo(os, lf, D, pages) = {reset(o) : o \in kept}
  BY DEF Undo, SetXid
<1>5. \A o \in os : reset(o).key = o.key
  BY DEF ObjectUpTo
<1> HIDE DEF here, kept, back, Hit
<1> QED BY <1>1, <1>2, <1>3, <1>4, <1>5 DEF Undone

(* So their objects keep the structure, without the IDs of D.              *)
LEMMA StructureUndone ==
  ASSUME NEW n \in Nat, NEW os \in SUBSET ObjectUpTo(n),
         NEW act \in SUBSET (1 .. n), NEW D \in SUBSET act,
         NEW lf, NEW pages, NEW k, lf[k] \in pages,
         StructureAt(os, act, k)
  PROVE  StructureAt(Undo(os, lf, D, pages), act \ D, k)
<1> DEFINE rs == {r \in Undo(os, lf, D, pages) : r.key = k}
<1>1. ASSUME NEW r \in rs
      PROVE  \E o \in os : /\ o.key = k /\ o.tid \notin D /\ r.tid = o.tid
                           /\ o.xid \in D => r.xid = 0 /\ r = [o EXCEPT !.xid = 0]
                           /\ o.xid \notin D => r = o
  <2>1. PICK o \in os : /\ o.key = k /\ o.tid \notin D
                        /\ r = IF o.xid \in D THEN [o EXCEPT !.xid = 0] ELSE o
    BY UndoneAt DEF Undone
  <2> QED BY <2>1 DEF ObjectUpTo
<1>2. ASSUME NEW r \in rs, r.xid # 0
      PROVE  /\ r.xid \in act \ D
             /\ r.tid \in act \ D => r.xid = r.tid
  BY <1>1, <1>2 DEF StructureAt
<1>3. ASSUME NEW r \in rs, NEW s \in rs, r # s
      PROVE  \E t \in act \ D : (r.xid = t /\ s.tid = t) \/ (s.xid = t /\ r.tid = t)
  <2>1. PICK o \in os : /\ o.key = k /\ o.tid \notin D /\ r.tid = o.tid
                        /\ o.xid \in D => r = [o EXCEPT !.xid = 0]
                        /\ o.xid \notin D => r = o
    BY <1>1
  <2>2. PICK p \in os : /\ p.key = k /\ p.tid \notin D /\ s.tid = p.tid
                        /\ p.xid \in D => s = [p EXCEPT !.xid = 0]
                        /\ p.xid \notin D => s = p
    BY <1>1
  <2>3. o # p
    BY <1>3, <2>1, <2>2
  <2>4. PICK t \in act : (o.xid = t /\ p.tid = t) \/ (p.xid = t /\ o.tid = t)
    BY <2>1, <2>2, <2>3 DEF StructureAt
  <2> QED BY <2>1, <2>2, <2>4
<1> QED BY <1>2, <1>3 DEF StructureAt

(* INSERT: the versions that check_primary_key lets pass are expired by    *)
(* the transaction itself.                                                 *)
LEMMA StructureInserted ==
  ASSUME NEW n \in Nat, NEW os \in SUBSET ObjectUpTo(n),
         NEW act, NEW t \in act, NEW k \in Key, NEW v \in Value, NEW l,
         t # 0, StructureAt(os, act, l), CanInsert(os, k, t, act)
  PROVE  StructureAt(os \cup {[key |-> k, tid |-> t, xid |-> 0, value |-> v]}, act, l)
<1> DEFINE new == [key |-> k, tid |-> t, xid |-> 0, value |-> v]
<1>1. ASSUME NEW o \in os, o.key = k, k = l
      PROVE  o.xid = t
  <2>1. o.xid # 0 /\ ~ Concurrent(o, t, act)
    BY <1>1 DEF CanInsert, Contended, Duplicate
  <2> QED BY <1>1, <2>1 DEF Concurrent, StructureAt
<1>2. new.key = k /\ new.tid = t /\ new.xid = 0
  OBVIOUS
<1> HIDE DEF new
<1> QED BY <1>1, <1>2 DEF StructureAt

(* DELETE: a row that a transaction finds was created by it or by an ended *)
(* one.                                                                    *)
LEMMA StructureExpired ==
  ASSUME NEW n \in Nat, NEW os \in SUBSET ObjectUpTo(n),
         NEW act, NEW t \in act, NEW k \in Key, NEW l,
         t # 0, StructureAt(os, act, l), ~ DeleteConflict(os, k, t, act)
  PROVE  StructureAt(SetXid(os, Rows(os, k, t, act), t), act, l)
<1> DEFINE rows == Rows(os, k, t, act)
           Hit(o) == \E e \in rows : e.key = o.key /\ e.tid = o.tid
<1>1. ASSUME NEW r \in SetXid(os, rows, t)
      PROVE  \E o \in os : /\ r.key = o.key /\ r.tid = o.tid
                           /\ \/ r = o
                              \/ /\ r.xid = t /\ o.xid \in {0, t}
                                 /\ o.tid \in act => o.tid = t
                           /\ r = IF Hit(o) THEN [o EXCEPT !.xid = t] ELSE o
  <2>1. PICK o \in os : r = IF Hit(o) THEN [o EXCEPT !.xid = t] ELSE o
    BY DEF SetXid
  <2>2. CASE Hit(o)
    <3>1. PICK e \in rows : e.key = o.key /\ e.tid = o.tid
      BY <2>2
    <3>2. o.xid \in {0, t}
      BY <3>1 DEF DeleteConflict, ExpireConflict
    <3>3. o.tid \in act => o.tid = t
      BY <3>1 DEF Rows, Visible
    <3>4. r = [o EXCEPT !.xid = t]
      BY <2>1, <2>2
    <3>5. r.key = o.key /\ r.tid = o.tid /\ r.xid = t
      BY <3>4 DEF ObjectUpTo
    <3> QED BY <2>1, <3>2, <3>3, <3>5
  <2>3. CASE ~ Hit(o)
    BY <2>1, <2>3
  <2> QED BY <2>2, <2>3
<1> DEFINE new == SetXid(os, rows, t)
<1> HIDE DEF rows, new
<1>2. ASSUME NEW r \in new, r.key = l, r.xid # 0
      PROVE  r.xid \in act /\ (r.tid \in act => r.xid = r.tid)
  BY <1>1, <1>2 DEF StructureAt, new
<1>3. ASSUME NEW r \in new, NEW s \in new, r # s, r.key = l, s.key = l
      PROVE  \E u \in act : (r.xid = u /\ s.tid = u) \/ (s.xid = u /\ r.tid = u)
  <2>1. PICK o \in os : /\ r.key = o.key /\ r.tid = o.tid
                        /\ r = o \/ (r.xid = t /\ o.xid \in {0, t})
                        /\ r = IF Hit(o) THEN [o EXCEPT !.xid = t] ELSE o
    BY <1>1 DEF new
  <2>2. PICK p \in os : /\ s.key = p.key /\ s.tid = p.tid
                        /\ s = p \/ (s.xid = t /\ p.xid \in {0, t})
                        /\ s = IF Hit(p) THEN [p EXCEPT !.xid = t] ELSE p
    BY <1>1 DEF new
  <2>3. CASE o # p
    <3>1. PICK u \in act : (o.xid = u /\ p.tid = u) \/ (p.xid = u /\ o.tid = u)
      BY <1>3, <2>1, <2>2, <2>3 DEF StructureAt
    <3>2. o.xid = r.xid \/ (o.xid \in {0, t} /\ r.xid = t)
      BY <2>1
    <3>3. p.xid = s.xid \/ (p.xid \in {0, t} /\ s.xid = t)
      BY <2>2
    <3>4. o.tid # 0 /\ p.tid # 0
      BY DEF ObjectUpTo
    <3> QED BY <2>1, <2>2, <3>1, <3>2, <3>3, <3>4
  <2>4. CASE o = p
    BY <1>3, <2>1, <2>2, <2>4
  <2> QED BY <2>3, <2>4
<1> QED BY <1>2, <1>3 DEF StructureAt, new, rows

(* UPDATE: Page.update leaves no version of another transaction, but the   *)
(* one it has just expired.                                                *)
LEMMA StructureUpdated ==
  ASSUME NEW n \in Nat, NEW os \in SUBSET ObjectUpTo(n),
         NEW act, NEW t \in act, NEW k \in Key, NEW v \in Value, NEW l,
         t # 0, StructureAt(os, act, l),
         Rows(os, k, t, act) # {}, ~ UpdateConflict(os, k, t)
  PROVE  StructureAt(PageUpdate(os, k, t) \cup
                       {[key |-> k, tid |-> t, xid |-> 0, value |-> v]}, act, l)
<1> DEFINE new  == [key |-> k, tid |-> t, xid |-> 0, value |-> v]
           kept == PageUpdate(os, k, t)
<1>1. new.key = k /\ new.tid = t /\ new.xid = 0
  OBVIOUS
<1>2. CASE UpdateExpires(os, k, t)
  <2> DEFINE at == {o \in os : o.key = k}
  <2>1. PICK o \in os : o.key = k /\ Visible(o, t, act)
    BY DEF Rows
  <2>2. at = {o} /\ o.tid # t
    BY <1>2, <2>1 DEF UpdateExpires, HasTwoVersions, Own
  <2>3. o.tid \notin act
    BY <2>1, <2>2 DEF Visible
  <2>4. \A r \in kept : \/ r.key # k /\ r \in os
                        \/ r = [o EXCEPT !.xid = t]
    BY <1>2, <2>2 DEF PageUpdate, SetXid
  <2>5. LET r == [o EXCEPT !.xid = t] IN r.key = k /\ r.xid = t /\ r.tid = o.tid
    BY <2>1 DEF ObjectUpTo
  <2> DEFINE old == [o EXCEPT !.xid = t]
  <2> HIDE DEF new, kept, old
  <2>6. /\ \A r \in kept : (r.key # k /\ r \in os) \/ r = old
        /\ old.key = k /\ old.xid = t /\ old.tid \notin act
    BY <2>3, <2>4, <2>5 DEF old
  <2>7. StructureAt(kept \cup {new}, act, l)
    BY <1>1, <2>6 DEF StructureAt
  <2> QED BY <2>7 DEF new, kept
<1>3. CASE ~ UpdateExpires(os, k, t)
  <2>1. kept \subseteq os /\ \A o \in kept : o.key = k => o.tid # t
    BY <1>3 DEF PageUpdate, PageDelete, Own
  <2>2. ~ HasTwoVersions(kept, k)
    BY DEF UpdateConflict
  <2>3. ASSUME NEW o \in kept, o.key = k, k = l
        PROVE  o.xid = t
    <3>1. Own(os, k, t) # {}
      <4> SUFFICES ASSUME Own(os, k, t) = {}
                   PROVE  FALSE
        OBVIOUS
      <4>1. HasTwoVersions(os, k)
        BY <1>3 DEF UpdateExpires
      <4>2. kept = os
        BY <1>3 DEF PageUpdate, PageDelete
      <4> QED BY <2>2, <4>1, <4>2
    <3>2. PICK e \in os : e.key = k /\ e.tid = t
      BY <3>1 DEF Own
    <3>3. PICK u \in act : (o.xid = u /\ e.tid = u) \/ (e.xid = u /\ o.tid = u)
      BY <2>1, <2>3, <3>2 DEF StructureAt
    <3>4. o.tid # t /\ o.tid # 0
      BY <2>1, <2>3 DEF ObjectUpTo
    <3> QED BY <2>3, <3>2, <3>3, <3>4 DEF StructureAt
  <2> HIDE DEF new, kept
  <2>4. StructureAt(kept \cup {new}, act, l)
    BY <1>1, <2>1, <2>3 DEF StructureAt
  <2> QED BY <2>4 DEF new, kept
<1> QED BY <1>2, <1>3

(* Where the structure holds, the versions of a key alone tell Page.expire *)
(* and Page.add whether another active transaction has written the key.    *)
LEMMA ConflictOfStructure ==
  ASSUME NEW n \in Nat, NEW os \in SUBSET ObjectUpTo(n), NEW act, NEW t \in act, NEW k,
         t # 0, StructureAt(os, act, k)
  PROVE  ConflictAt(os, k, t, act)
<1> DEFINE contended == Contended(os, k, t, act)
           found     == Rows(os, k, t, act) # {}
<1>1. ASSUME NEW o \in os, o.key = k, o.tid = t, o.xid # 0
      PROVE  o.xid = t
  BY <1>1 DEF StructureAt
<1>2. DeleteConflict(os, k, t, act) => contended
  BY DEF DeleteConflict, ExpireConflict, Rows, Contended, Concurrent, StructureAt
<1>3. ASSUME contended, found
      PROVE  DeleteConflict(os, k, t, act)
  <2>1. PICK r \in os : r.key = k /\ Visible(r, t, act)
    BY <1>3 DEF Rows
  <2>2. PICK o \in os : o.key = k /\ Concurrent(o, t, act)
    BY <1>3 DEF Contended
  <2>3. CASE r.xid # 0
    BY <2>1, <2>3 DEF DeleteConflict, ExpireConflict, Rows, Visible
  <2>4. CASE r.xid = 0
    <3>1. o # r
      BY <2>1, <2>2, <2>4 DEF Visible, Concurrent
    <3>2. PICK w \in act : (o.xid = w /\ r.tid = w) \/ (r.xid = w /\ o.tid = w)
      BY <2>1, <2>2, <3>1 DEF StructureAt
    <3>3. o.tid # 0
      BY DEF ObjectUpTo
    <3>4. CASE o.xid = w /\ r.tid = w
      BY <2>1, <2>2, <3>4 DEF Visible, Concurrent, StructureAt
    <3>5. CASE r.xid = w /\ o.tid = w
      BY <2>4, <3>3, <3>5
    <3> QED BY <3>2, <3>4, <3>5
  <2> QED BY <2>3, <2>4
<1>4. UpdateConflict(os, k, t) => contended
  <2>1. CASE UpdateExpires(os, k, t)
    <3>1. ~ HasTwoVersions(PageUpdate(os, k, t), k)
      <4>1. \A o \in os : [o EXCEPT !.xid = t].key = o.key
        BY DEF ObjectUpTo
      <4>2. \A r \in PageUpdate(os, k, t) : r.key = k =>
              \E o \in os : o.key = k /\ r = [o EXCEPT !.xid = t]
        BY <2>1, <4>1 DEF PageUpdate, SetXid
      <4> QED BY <2>1, <4>2 DEF UpdateExpires, HasTwoVersions
    <3> QED BY <3>1 DEF UpdateConflict, ExpireConflict, Contended, Concurrent, StructureAt
  <2>2. CASE ~ UpdateExpires(os, k, t)
    <3>1. \A o \in PageUpdate(os, k, t) : o \in os /\ (o.key = k => o.tid # t)
      BY <2>2 DEF PageUpdate, PageDelete, Own
    <3> QED BY <2>2, <3>1 DEF UpdateConflict, HasTwoVersions, Contended, Concurrent, StructureAt
  <2> QED BY <2>1, <2>2
<1>5. ASSUME contended, found
      PROVE  UpdateConflict(os, k, t)
  <2>1. PICK r \in os : r.key = k /\ Visible(r, t, act)
    BY <1>5 DEF Rows
  <2>2. PICK o \in os : o.key = k /\ Concurrent(o, t, act)
    BY <1>5 DEF Contended
  <2>3. Own(os, k, t) = {}
    <3> SUFFICES ASSUME NEW e \in os, e.key = k, e.tid = t
                 PROVE  FALSE
      BY DEF Own
    <3>1. o # e
      BY <1>1, <2>2 DEF Concurrent
    <3>2. PICK w \in act : (o.xid = w /\ e.tid = w) \/ (e.xid = w /\ o.tid = w)
      BY <2>2, <3>1 DEF StructureAt
    <3>3. CASE o.xid = t
      BY <2>2, <3>3 DEF Concurrent, StructureAt
    <3>4. CASE o.tid = t
      BY <1>1, <2>2, <3>4 DEF Concurrent
    <3>5. CASE e.xid = w /\ o.tid = w /\ w # 0
      BY <1>1, <2>2, <3>4, <3>5
    <3>6. CASE e.xid = 0 /\ o.tid = 0 /\ w = 0
      BY <3>6 DEF ObjectUpTo
    <3> QED BY <3>2, <3>3, <3>5, <3>6
  <2>4. CASE HasTwoVersions(os, k)
    <3>1. PageUpdate(os, k, t) = os
      BY <2>3, <2>4 DEF PageUpdate, UpdateExpires, PageDelete
    <3> QED BY <2>4, <3>1 DEF UpdateConflict
  <2>5. CASE ~ HasTwoVersions(os, k)
    <3>1. o = r
      BY <2>1, <2>2, <2>5 DEF HasTwoVersions
    <3>2. r.xid # 0 /\ r.xid # t
      BY <2>1, <2>2, <3>1 DEF Visible, Concurrent
    <3>3. UpdateExpires(os, k, t)
      BY <2>3, <2>5 DEF UpdateExpires
    <3> QED BY <2>1, <3>2, <3>3 DEF UpdateConflict, ExpireConflict
  <2> QED BY <2>4, <2>5
<1>6. ASSUME InsertConflict(os, k, t, act), ~ contended
      PROVE  Replaced(os, k, t)
  <2>1. PICK o \in os, p \in os : o # p /\ o.key = k /\ p.key = k
    BY <1>6 DEF InsertConflict, HasTwoVersions
  <2>2. \A q \in os : q.key = k => q.xid # 0 /\ ~ Concurrent(q, t, act)
    BY <1>6 DEF InsertConflict, Contended, Duplicate
  <2>3. PICK w \in act : (o.xid = w /\ p.tid = w) \/ (p.xid = w /\ o.tid = w)
    BY <2>1 DEF StructureAt
  <2>4. o.tid = t \/ p.tid = t
    BY <2>1, <2>2, <2>3 DEF Concurrent
  <2> QED BY <1>1, <2>1, <2>2, <2>4 DEF Replaced
<1>7. ASSUME ~ contended
      PROVE  Duplicate(os, k, t, act) <=> found
  <2>1. Duplicate(os, k, t, act) => found
    BY DEF Duplicate, Rows, Visible, Concurrent
  <2>2. ASSUME found
        PROVE  Duplicate(os, k, t, act)
    <3>1. PICK r \in os : r.key = k /\ Visible(r, t, act)
      BY <2>2 DEF Rows
    <3>2. ~ Concurrent(r, t, act)
      BY <1>7, <3>1 DEF Contended
    <3>3. r.xid = 0
      BY <3>1, <3>2 DEF Visible, Concurrent
    <3> QED BY <3>1, <3>2, <3>3 DEF Duplicate
  <2> QED BY <2>1, <2>2
<1>8. contended => InsertConflict(os, k, t, act)
  BY DEF InsertConflict
<1> QED BY <1>2, <1>3, <1>4, <1>5, <1>6, <1>7, <1>8 DEF ConflictAt

-----------------------------------------------------------------------------
(* The inductive invariant: a live transaction is in the header, and the   *)
(* versions of every key that isn't damaged have their structure.          *)
IInv == TypeOK /\ LiveTransactions /\ VersionStructure

(* What a statement finds once the file is open for writing, with dead     *)
(* transactions rolled back and its own transaction active.                *)
LEMMA OpenedStructure ==
  ASSUME IInv, NEW c \in Conn
  PROVE  /\ TidOf(c) \in ActiveIn(c) /\ TidOf(c) # 0
         /\ \A k \in Sound : /\ StructureAt(Opened(c), Live(c), k)
                             /\ StructureAt(Opened(c), ActiveIn(c), k)
         /\ txn[c] # 0 => ActiveIn(c) = Live(c)
         /\ txn[c] = 0 => /\ Live(c) = ActiveIn(c) \ {TidOf(c)}
                          /\ \A o \in Opened(c) : TidOf(c) \notin {o.tid, o.xid}
<1>1. /\ TypeOK /\ transaction_id \in Nat /\ active \in SUBSET (1 .. transaction_id)
      /\ objects \in SUBSET ObjectUpTo(transaction_id)
      /\ txn[c] \in 0 .. transaction_id
  BY DEF IInv, TypeOK, ObjectUpTo
<1>2. TidOf(c) \in ActiveIn(c) /\ TidOf(c) # 0
  BY <1>1, TidType DEF ActiveIn
<1>3. Dead(c) \in SUBSET active
  BY DEF Dead
<1>4. ASSUME NEW k \in Sound
      PROVE  StructureAt(Opened(c), Live(c), k)
  <2>1. leaf[k] \in 1 .. total_pages
    BY <1>1 DEF TypeOK, Sound
  <2>2. StructureAt(objects, active, k)
    BY <1>1, StructureNow DEF IInv, Structure
  <2> QED BY <1>1, <1>3, <2>1, <2>2, StructureUndone DEF Opened, Live
<1>5. txn[c] # 0 => TidOf(c) \in Live(c)
  BY DEF IInv, LiveTransactions, Live, Dead, TidOf
<1>6. txn[c] = 0 => /\ TidOf(c) \notin Live(c)
                    /\ \A o \in Opened(c) : TidOf(c) \notin {o.tid, o.xid}
  BY <1>1, TidType DEF ObjectUpTo
<1>7. \A k \in Sound : StructureAt(Opened(c), ActiveIn(c), k)
  BY <1>4, <1>5, <1>6, StructureFresh DEF ActiveIn
<1> QED BY <1>2, <1>4, <1>5, <1>6, <1>7 DEF ActiveIn

(* The end of a statement outside of a transaction: when everything that   *)
(* the statement expired is on its pages, and nothing else has the same    *)
(* version, that is what isolation_end removes.                            *)
LEMMA IsolationEndObjects ==
  ASSUME NEW c \in Conn, NEW os, NEW lf, NEW written, txn[c] = 0,
         IsolationEnd(c, os, lf, written),
         \A o \in os : o.xid = TidOf(c) =>
           /\ lf[o.key] \in written
           /\ \A p \in os : p.key = o.key /\ p.tid = o.tid => p.xid = TidOf(c)
  PROVE  objects' = {o \in os : o.xid # TidOf(c)}
<1>1. objects' = RemoveExpired(os, lf, TidOf(c), written)
  BY DEF IsolationEnd
<1>2. \A o \in os : o.xid = TidOf(c) => o \notin objects'
  BY <1>1 DEF RemoveExpired, PageDelete
<1>3. \A o \in os : o.xid # TidOf(c) => o \in objects'
  BY <1>1 DEF RemoveExpired, PageDelete
<1>4. objects' \subseteq os
  BY <1>1, PageDeleteSubset DEF RemoveExpired
<1> QED BY <1>2, <1>3, <1>4

(* So the end of a statement keeps the structure.                          *)
LEMMA IsolationEndStructure ==
  ASSUME IInv, NEW c \in Conn, NEW os, NEW lf, NEW written, NEW K,
         IsolationEnd(c, os, lf, written),
         \A k \in K : StructureAt(os, ActiveIn(c), k),
         \A o \in os : txn[c] = 0 /\ o.xid = TidOf(c) =>
           /\ lf[o.key] \in written
           /\ \A p \in os : p.key = o.key /\ p.tid = o.tid => p.xid = TidOf(c)
  PROVE  Structure(objects', active', K)
<1>1. active' = Live(c)
  BY DEF IsolationEnd
<1>2. CASE txn[c] # 0
  <2>1. objects' = os /\ active' = ActiveIn(c)
    BY <1>1, <1>2, OpenedStructure DEF IsolationEnd
  <2> QED BY <2>1 DEF Structure
<1>3. CASE txn[c] = 0
  <2>1. objects' = {o \in os : o.xid # TidOf(c)}
    BY <1>3, IsolationEndObjects
  <2>2. active' = ActiveIn(c) \ {TidOf(c)}
    BY <1>1, <1>3, OpenedStructure
  <2>3. ASSUME NEW k \in K
        PROVE  StructureAt({o \in os : o.xid # TidOf(c)}, ActiveIn(c) \ {TidOf(c)}, k)
    BY StructureCommitted
  <2> QED BY <2>1, <2>2, <2>3 DEF Structure
<1> QED BY <1>2, <1>3

(* isolation_end keeps the structure of the versions at each sound key.    *)
LEMMA EndStatementStructure ==
  ASSUME IInv, NEW c \in Conn, NEW os, NEW lf, NEW written,
         EndStatement(c, os, lf, written), TypeOK',
         \A k \in Sound : StructureAt(os, ActiveIn(c), k),
         \A o \in os : txn[c] = 0 /\ o.xid = TidOf(c) =>
           /\ lf[o.key] \in written
           /\ \A p \in os : p.key = o.key /\ p.tid = o.tid => p.xid = TidOf(c)
  PROVE  VersionStructure'
<1>1. IsolationEnd(c, os, lf, written) /\ Sound' = Sound
  BY DEF EndStatement, Sound
<1>2. Structure(objects', active', Sound)
  BY <1>1, IsolationEndStructure
<1> QED BY <1>1, <1>2, StructureNext

-----------------------------------------------------------------------------
(* Every action keeps the invariant. *)

(* What a statement wrote at a key is on the pages it remembers, whether   *)
(* the key stays on its page or moves to the one that was appended.        *)
LEMMA WrittenHere ==
  ASSUME TypeOK, NEW os, NEW k \in Key, NEW lf \in Layouts(os, k), SetLeaf(lf),
         NEW ks \in SUBSET Key
  PROVE  \A j \in ks : lf[j] \in Written(lf, ks)
<1> SUFFICES ASSUME NEW j \in ks, lf[j] # leaf[j]
             PROVE  lf[j] \in Written(lf, ks)
  BY DEF Written
<1>1. lf # leaf
  OBVIOUS
<1>2. PICK h \in SplitKeys(os, k) : lf = SplitAt(k, h)
  BY <1>1 DEF Layouts
<1>3. lf[j] = total_pages + 1 /\ total_pages \in Nat
  BY <1>2 DEF SplitAt, TypeOK
<1>4. lf[j] \notin 1 .. total_pages
  BY <1>3
<1> QED BY <1>4 DEF Written

(* INSERT (write_row) keeps the structure of the versions of a page.       *)
LEMMA InsertStep ==
  ASSUME IInv, TypeOK', NEW c \in Conn, NEW k \in Key, NEW v \in Value, Insert(c, k, v)
  PROVE  VersionStructure'
<1> DEFINE new == [key |-> k, tid |-> TidOf(c), xid |-> 0, value |-> v]
           os  == Opened(c) \cup {new}
<1>1. PICK lf \in Layouts(Opened(c), k) : EndStatement(c, os, lf, Written(lf, {k}))
  BY DEF Insert
<1>2. TypeOK /\ transaction_id \in Nat /\ Opened(c) \in SUBSET ObjectUpTo(transaction_id)
  BY TidType DEF IInv, TypeOK
<1>3. \A l \in Sound : StructureAt(os, ActiveIn(c), l)
  BY <1>2, OpenedStructure, StructureInserted DEF Insert
<1>4. \A o \in os : txn[c] = 0 => o.xid # TidOf(c)
  BY OpenedStructure
<1> HIDE DEF os
<1> QED BY <1>1, <1>3, <1>4, EndStatementStructure

(* What Page.update expires outside of a transaction.                      *)
LEMMA UpdatedHere ==
  ASSUME IInv, NEW c \in Conn, NEW k \in Key, txn[c] = 0,
         NEW o \in PageUpdate(Opened(c), k, TidOf(c)), o.xid = TidOf(c)
  PROVE  /\ o.key = k /\ o.tid # TidOf(c)
         /\ \A p \in PageUpdate(Opened(c), k, TidOf(c)) : p.key = k => p.xid = TidOf(c)
<1>1. TypeOK /\ transaction_id \in Nat /\ Opened(c) \in SUBSET ObjectUpTo(transaction_id)
  BY TidType DEF IInv, TypeOK
<1>2. o \notin Opened(c)
  BY OpenedStructure
<1>3. UpdateExpires(Opened(c), k, TidOf(c))
  BY <1>2, PageDeleteSubset DEF PageUpdate
<1>4. PICK e \in Opened(c) : e.key = k /\ o = [e EXCEPT !.xid = TidOf(c)]
  BY <1>2, <1>3 DEF PageUpdate, SetXid
<1>5. o.key = k /\ o.tid = e.tid /\ o.tid # TidOf(c)
  BY <1>1, <1>4, OpenedStructure DEF ObjectUpTo
<1>6. \A q \in Opened(c) : q.key = k => [q EXCEPT !.xid = TidOf(c)].xid = TidOf(c)
  BY <1>1 DEF ObjectUpTo
<1>7. \A p \in PageUpdate(Opened(c), k, TidOf(c)) : p.key = k => p.xid = TidOf(c)
  BY <1>3, <1>6 DEF PageUpdate, SetXid
<1> QED BY <1>5, <1>7

(* So does UPDATE (Page.update and Page.add).                              *)
LEMMA UpdateStep ==
  ASSUME IInv, TypeOK', NEW c \in Conn, NEW k \in Key, NEW v \in Value, Update(c, k, v)
  PROVE  VersionStructure'
<1> DEFINE new  == [key |-> k, tid |-> TidOf(c), xid |-> 0, value |-> v]
           kept == PageUpdate(Opened(c), k, TidOf(c))
           os   == kept \cup {new}
<1>1. PICK lf \in Layouts(kept, k) : EndStatement(c, os, lf, Written(lf, {k}))
  BY DEF Update
<1>2. TypeOK /\ transaction_id \in Nat /\ Opened(c) \in SUBSET ObjectUpTo(transaction_id)
  BY TidType DEF IInv, TypeOK
<1>3. \A l \in Sound : StructureAt(os, ActiveIn(c), l)
  BY <1>2, OpenedStructure, StructureUpdated DEF Update
<1>4. ASSUME NEW o \in os, txn[c] = 0, o.xid = TidOf(c)
      PROVE  /\ lf[o.key] \in Written(lf, {k})
             /\ \A p \in os : p.key = o.key /\ p.tid = o.tid => p.xid = TidOf(c)
  <2>1. new.tid = TidOf(c) /\ new.xid = 0 /\ TidOf(c) # 0 /\ o \in kept
    BY <1>4, OpenedStructure
  <2>2. /\ o.key = k /\ o.tid # TidOf(c)
        /\ \A p \in kept : p.key = k => p.xid = TidOf(c)
    BY <1>4, <2>1, UpdatedHere
  <2>3. lf[k] \in Written(lf, {k})
    BY <1>1, <1>2, WrittenHere DEF EndStatement, IsolationEnd
  <2> HIDE DEF new, kept
  <2> QED BY <2>1, <2>2, <2>3
<1> HIDE DEF os
<1> QED BY <1>1, <1>3, <1>4, EndStatementStructure

(* A row that DELETE expires outside of a transaction.                     *)
LEMMA ExpiredHere ==
  ASSUME IInv, NEW c \in Conn, NEW k \in Key, txn[c] = 0,
         NEW o \in SetXid(Opened(c), Rows(Opened(c), k, TidOf(c), ActiveIn(c)), TidOf(c)),
         o.xid = TidOf(c)
  PROVE  /\ o.key = k /\ o.tid # TidOf(c)
         /\ \A p \in SetXid(Opened(c), Rows(Opened(c), k, TidOf(c), ActiveIn(c)), TidOf(c)) :
              p.key = o.key /\ p.tid = o.tid => p.xid = TidOf(c)
<1> DEFINE rows == Rows(Opened(c), k, TidOf(c), ActiveIn(c))
<1>1. Opened(c) \in SUBSET ObjectUpTo(transaction_id)
  BY TidType DEF IInv
<1>2. \A q \in Opened(c) : LET r == [q EXCEPT !.xid = TidOf(c)]
                           IN  r.key = q.key /\ r.tid = q.tid /\ r.xid = TidOf(c)
  BY <1>1 DEF ObjectUpTo
<1>3. PICK q \in Opened(c) : /\ o = [q EXCEPT !.xid = TidOf(c)]
                             /\ \E e \in rows : e.key = q.key /\ e.tid = q.tid
  BY OpenedStructure DEF SetXid
<1>4. o.key = q.key /\ o.tid = q.tid /\ q.key = k
  BY <1>2, <1>3 DEF Rows
<1>5. o.tid # TidOf(c)
  BY <1>4, OpenedStructure
<1>6. \A p \in SetXid(Opened(c), rows, TidOf(c)) :
        p.key = o.key /\ p.tid = o.tid => p.xid = TidOf(c)
  <2> SUFFICES ASSUME NEW p \in SetXid(Opened(c), rows, TidOf(c)), p.key = o.key, p.tid = o.tid
               PROVE  p.xid = TidOf(c)
    OBVIOUS
  <2>1. PICK e \in rows : e.key = o.key /\ e.tid = o.tid
    BY <1>3, <1>4
  <2>2. PICK r \in Opened(c) :
          p = IF \E d \in rows : d.key = r.key /\ d.tid = r.tid
              THEN [r EXCEPT !.xid = TidOf(c)] ELSE r
    BY DEF SetXid
  <2>3. p.key = r.key /\ p.tid = r.tid
    BY <1>2, <2>2
  <2> QED BY <1>2, <2>1, <2>2, <2>3
<1> QED BY <1>4, <1>5, <1>6

(* So does DELETE (Page.expire).                                           *)
LEMMA DeleteStep ==
  ASSUME IInv, TypeOK', NEW c \in Conn, NEW k \in Key, Delete(c, k)
  PROVE  VersionStructure'
<1> DEFINE os == SetXid(Opened(c), Rows(Opened(c), k, TidOf(c), ActiveIn(c)), TidOf(c))
<1>1. EndStatement(c, os, leaf, {leaf[k]})
  BY DEF Delete
<1>2. TypeOK /\ transaction_id \in Nat /\ Opened(c) \in SUBSET ObjectUpTo(transaction_id)
  BY TidType DEF IInv, TypeOK
<1>3. \A l \in Sound : StructureAt(os, ActiveIn(c), l)
  BY <1>2, OpenedStructure, StructureExpired DEF Delete
<1>4. \A o \in os : txn[c] = 0 /\ o.xid = TidOf(c) =>
        /\ leaf[o.key] \in {leaf[k]}
        /\ \A p \in os : p.key = o.key /\ p.tid = o.tid => p.xid = TidOf(c)
  BY ExpiredHere
<1> HIDE DEF os
<1> QED BY <1>1, <1>3, <1>4, EndStatementStructure

(* So does an UPDATE of the PRIMARY KEY (update_row's delete and write).   *)
LEMMA MoveStep ==
  ASSUME IInv, TypeOK', NEW c \in Conn, NEW k \in Key, NEW j \in Key, NEW v \in Value,
         Move(c, k, j, v)
  PROVE  VersionStructure'
<1> DEFINE new  == [key |-> j, tid |-> TidOf(c), xid |-> 0, value |-> v]
           kept == SetXid(Opened(c), Rows(Opened(c), k, TidOf(c), ActiveIn(c)), TidOf(c))
           os   == kept \cup {new}
           n    == transaction_id + 1
<1>1. PICK lf \in Layouts(kept, j) : EndStatement(c, os, lf, Written(lf, {k, j}))
  BY DEF Move
<1>2. /\ TypeOK /\ transaction_id \in Nat /\ n \in Nat
      /\ Opened(c) \in SUBSET ObjectUpTo(transaction_id)
      /\ Opened(c) \in SUBSET ObjectUpTo(n) /\ TidOf(c) \in 0 .. n
  BY TidType, ObjectUpToMono DEF IInv, TypeOK
<1>3. kept \in SUBSET ObjectUpTo(n)
  BY <1>2, SetXidType
<1>4. \A l \in Sound : StructureAt(kept, ActiveIn(c), l)
  BY <1>2, OpenedStructure, StructureExpired DEF Move
<1>5. CanInsert(kept, j, TidOf(c), ActiveIn(c))
  BY DEF Move
<1>6. TidOf(c) \in ActiveIn(c) /\ TidOf(c) # 0
  BY OpenedStructure
<1>7. ASSUME NEW o \in kept, txn[c] = 0, o.xid = TidOf(c)
      PROVE  /\ o.key = k /\ o.tid # TidOf(c)
             /\ \A p \in kept : p.key = o.key /\ p.tid = o.tid => p.xid = TidOf(c)
  BY <1>7, ExpiredHere
<1>8. lf[k] \in Written(lf, {k, j})
  BY <1>1, <1>2, WrittenHere DEF EndStatement, IsolationEnd
<1> HIDE DEF kept, n
<1>9. \A l \in Sound : StructureAt(os, ActiveIn(c), l)
  BY <1>2, <1>3, <1>4, <1>5, <1>6, StructureInserted
<1>10. new.xid = 0 /\ new.tid = TidOf(c)
  OBVIOUS
<1>11. \A o \in os : txn[c] = 0 /\ o.xid = TidOf(c) =>
         /\ lf[o.key] \in Written(lf, {k, j})
         /\ \A p \in os : p.key = o.key /\ p.tid = o.tid => p.xid = TidOf(c)
  BY <1>6, <1>7, <1>8, <1>10
<1> DEFINE written == Written(lf, {k, j})
<1>12. /\ EndStatement(c, os, lf, written)
       /\ \A o \in os : txn[c] = 0 /\ o.xid = TidOf(c) =>
            /\ lf[o.key] \in written
            /\ \A p \in os : p.key = o.key /\ p.tid = o.tid => p.xid = TidOf(c)
  BY <1>1, <1>11
<1> HIDE DEF os, written, new
<1> QED BY <1>9, <1>12, EndStatementStructure

(* A version that is added between two others only damages its own key.    *)
LEMMA AddThirdStructure ==
  ASSUME IInv, NEW c \in Conn, NEW k \in Key, NEW v \in Value, NEW kept, NEW ks \in SUBSET Key,
         AddThird(c, kept, ks, k, v),
         \A l \in Sound \ {k} : StructureAt(kept, ActiveIn(c), l),
         \A o \in kept : txn[c] = 0 /\ o.xid = TidOf(c) =>
           /\ o.key \in ks /\ o.tid # TidOf(c)
           /\ \A p \in kept : p.key = o.key /\ p.tid = o.tid => p.xid = TidOf(c)
  PROVE  VersionStructure'
<1> DEFINE new == [key |-> k, tid |-> TidOf(c), xid |-> 0, value |-> v]
           lf  == SplitAt(k, k)
           os  == kept \cup {new}
           K   == Sound \ {k}
           written == Written(lf, ks)
<1>1. /\ IsolationEnd(c, os, lf, written) /\ SetLeaf(lf) /\ lf \in Layouts(kept, k)
      /\ Sound' = K
  BY DEF AddThird, IsolationEnd, Layouts, Sound
<1>2. new.key = k /\ new.tid = TidOf(c) /\ new.xid = 0 /\ TidOf(c) # 0
  BY OpenedStructure
<1>3. \A j \in ks : lf[j] \in written
  BY <1>1, WrittenHere DEF IInv
<1> HIDE DEF new, lf, written
<1>4. ASSUME NEW l \in K
      PROVE  StructureAt(os, ActiveIn(c), l)
  <2>1. {o \in os : o.key = l} = {o \in kept : o.key = l}
    BY <1>2
  <2> QED BY <2>1, StructureSame
<1>5. \A o \in os : txn[c] = 0 /\ o.xid = TidOf(c) =>
        /\ lf[o.key] \in written
        /\ \A p \in os : p.key = o.key /\ p.tid = o.tid => p.xid = TidOf(c)
  BY <1>2, <1>3
<1> HIDE DEF os, K
<1>6. Structure(objects', active', K)
  BY <1>1, <1>4, <1>5, IsolationEndStructure
<1> QED BY <1>1, <1>6, StructureNext

(* Page.update leaves the other keys of the page alone.                    *)
LEMMA PageUpdateOther ==
  ASSUME NEW n \in Nat, NEW os \in SUBSET ObjectUpTo(n), NEW k, NEW t, NEW l, l # k
  PROVE  \A o : o.key = l => (o \in PageUpdate(os, k, t) <=> o \in os)
<1>1. \A o \in os : [o EXCEPT !.xid = t].key = o.key
  BY DEF ObjectUpTo
<1>2. CASE UpdateExpires(os, k, t)
  <2> DEFINE at == {o \in os : o.key = k}
             new(o) == IF \E e \in at : e.key = o.key /\ e.tid = o.tid
                       THEN [o EXCEPT !.xid = t] ELSE o
  <2>1. PageUpdate(os, k, t) = {new(o) : o \in os}
    BY <1>2 DEF PageUpdate, SetXid
  <2>2. \A o \in os : /\ new(o).key = o.key
                      /\ o.key = l => new(o) = o
    BY <1>1
  <2> HIDE DEF new
  <2> QED BY <2>1, <2>2
<1>3. CASE ~ UpdateExpires(os, k, t)
  BY <1>3 DEF PageUpdate, PageDelete, Own
<1> QED BY <1>2, <1>3

(* So the other keys keep their structure when a third version is          *)
(* accepted.                                                               *)
LEMMA ThirdVersionStep ==
  ASSUME IInv, NEW c \in Conn, NEW k \in Key, NEW v \in Value, ThirdVersion(c, k, v)
  PROVE  VersionStructure'
<1> DEFINE os == Opened(c)
           t  == TidOf(c)
           updated == PageUpdate(os, k, t)
           moved(j) == SetXid(os, Rows(os, j, t, ActiveIn(c)), t)
<1>1. /\ TypeOK /\ transaction_id \in Nat /\ os \in SUBSET ObjectUpTo(transaction_id)
      /\ Sound \subseteq Key
  BY TidType DEF IInv, TypeOK, Sound
<1>2. CASE AddThird(c, os, {k}, k, v)
  <2>1. \A o \in os : ~ (txn[c] = 0 /\ o.xid = t)
    BY OpenedStructure
  <2>2. \A l \in Sound \ {k} : StructureAt(os, ActiveIn(c), l)
    BY OpenedStructure
  <2> HIDE DEF os, t
  <2> QED BY <1>2, <2>1, <2>2, AddThirdStructure DEF os, t
<1>3. CASE AddThird(c, updated, {k}, k, v)
  <2>1. ASSUME NEW l \in Sound \ {k}
        PROVE  StructureAt(updated, ActiveIn(c), l)
    <3>1. \A o : o.key = l => (o \in updated <=> o \in os)
      <4>1. transaction_id \in Nat /\ os \in SUBSET ObjectUpTo(transaction_id) /\ l # k
        BY <1>1
      <4> HIDE DEF os, t
      <4> QED BY <4>1, PageUpdateOther
    <3>2. StructureAt(os, ActiveIn(c), l)
      BY OpenedStructure
    <3> HIDE DEF updated, os
    <3>3. {o \in updated : o.key = l} = {o \in os : o.key = l}
      BY <3>1
    <3> QED BY <3>2, <3>3, StructureSame
  <2>2. \A o \in updated : txn[c] = 0 /\ o.xid = t =>
          /\ o.key \in {k} /\ o.tid # t
          /\ \A p \in updated : p.key = o.key /\ p.tid = o.tid => p.xid = t
    BY UpdatedHere
  <2> HIDE DEF updated
  <2> QED BY <1>3, <2>1, <2>2, AddThirdStructure
<1>4. ASSUME NEW j \in Sound \ {k}, ~ DeleteConflict(os, j, t, ActiveIn(c)),
             AddThird(c, moved(j), {k, j}, k, v)
      PROVE  VersionStructure'
  <2>1. \A l \in Sound \ {k} : StructureAt(moved(j), ActiveIn(c), l)
    BY <1>1, <1>4, OpenedStructure, StructureExpired
  <2>2. \A o \in moved(j) : txn[c] = 0 /\ o.xid = t =>
          /\ o.key \in {k, j} /\ o.tid # t
          /\ \A p \in moved(j) : p.key = o.key /\ p.tid = o.tid => p.xid = t
    BY <1>1, ExpiredHere
  <2>3. {k, j} \in SUBSET Key
    BY <1>1
  <2> DEFINE kept == moved(j)
  <2> HIDE DEF moved
  <2>4. AddThird(c, kept, {k, j}, k, v)
    BY <1>4
  <2> HIDE DEF kept
  <2> QED BY <2>1, <2>2, <2>3, <2>4, AddThirdStructure DEF kept
<1> QED BY <1>2, <1>3, <1>4 DEF ThirdVersion

(* START TRANSACTION: the recovered objects, and a fresh ID.               *)
LEMMA StartStep ==
  ASSUME IInv, NEW c \in Conn, StartTransaction(c)
  PROVE  VersionStructure'
<1>1. objects' = Opened(c) /\ active' = ActiveIn(c) /\ Sound' = Sound
  BY DEF StartTransaction, Sound
<1>2. Structure(objects', active', Sound')
  BY <1>1, OpenedStructure DEF Structure
<1> QED BY <1>2, StructureNext

(* What the end of a transaction leaves at the keys that it doesn't        *)
(* damage.                                                                 *)
LEMMA EndTransactionStructure ==
  ASSUME IInv, NEW c \in Conn, NEW os, NEW intended, EndTransaction(c, os, intended),
         \A k \in Sound : StructureAt(intended, active', k)
  PROVE  VersionStructure'
<1>1. ASSUME NEW k \in Sound'
      PROVE  StructureAt(objects', active', k)
  <2>1. k \in Sound /\ k \in Key /\ k \notin Differ(os, intended) /\ objects' = os
    BY <1>1 DEF EndTransaction, Sound
  <2>2. {o \in os : o.key = k} = {o \in intended : o.key = k}
    BY <2>1 DEF Differ
  <2> QED BY <2>1, <2>2, StructureSame
<1>2. Structure(objects', active', Sound')
  BY <1>1 DEF Structure
<1> QED BY <1>2, StructureNext

(* COMMIT keeps the structure at the keys it doesn't damage.               *)
LEMMA CommitStep ==
  ASSUME IInv, NEW c \in Conn, Commit(c)
  PROVE  VersionStructure'
<1> DEFINE intended == {o \in Opened(c) : o.xid # txn[c]}
<1>1. EndTransaction(c, RemoveExpired(Opened(c), leaf, txn[c], transaction_pages[c]), intended)
  BY DEF Commit
<1>2. active' = Live(c) \ {txn[c]}
  BY DEF Commit, EndTransaction
<1>3. \A k \in Sound : StructureAt(intended, active', k)
  BY <1>2, OpenedStructure, StructureCommitted
<1> HIDE DEF intended
<1> QED BY <1>1, <1>3, EndTransactionStructure

(* ROLLBACK keeps the structure at the keys it doesn't damage.             *)
LEMMA RollbackStep ==
  ASSUME IInv, NEW c \in Conn, Rollback(c)
  PROVE  VersionStructure'
<1> DEFINE intended == Undo(Opened(c), leaf, {txn[c]}, 1 .. total_pages)
<1>1. EndTransaction(c, Undo(Opened(c), leaf, {txn[c]}, transaction_pages[c]), intended)
  BY DEF Rollback
<1>2. active' = Live(c) \ {txn[c]} /\ txn[c] # 0
  BY DEF Rollback, EndTransaction
<1>3. /\ TypeOK /\ transaction_id \in Nat /\ Opened(c) \in SUBSET ObjectUpTo(transaction_id)
      /\ Live(c) \in SUBSET (1 .. transaction_id)
  BY TidType DEF IInv, TypeOK
<1>4. {txn[c]} \in SUBSET Live(c)
  BY <1>2 DEF IInv, LiveTransactions, Live, Dead
<1>5. \A k \in Sound : leaf[k] \in 1 .. total_pages
  BY <1>3 DEF TypeOK, Sound
<1>6. \A k \in Sound : StructureAt(intended, active', k)
  BY <1>2, <1>3, <1>4, <1>5, OpenedStructure, StructureUndone
<1> HIDE DEF intended
<1> QED BY <1>1, <1>6, EndTransactionStructure

(* Nothing that leaves the file alone, and no history, changes a version.  *)
LEMMA OtherStep ==
  ASSUME IInv, UNCHANGED <<objects, active, damaged>>
  PROVE  VersionStructure'
<1>1. Structure(objects', active', Sound')
  BY StructureNow DEF IInv, Sound
<1> QED BY <1>1, StructureNext

(* A connection's own ID is never taken for a dead one, and nobody else's  *)
(* is while two connections hold the session lock.                         *)
LEMMA LiveStep ==
  ASSUME IInv, [Next]_vars
  PROVE  LiveTransactions'
<1>1. ASSUME NEW c \in Conn, active' = Live(c), UNCHANGED <<session, txn>>
      PROVE  LiveTransactions'
  BY <1>1 DEF IInv, LiveTransactions, Live, Dead
<1>2. ASSUME NEW c \in Conn, NEW k \in Key, NEW v \in Value, Insert(c, k, v) \/ Update(c, k, v)
      PROVE  LiveTransactions'
  BY <1>1, <1>2 DEF Insert, Update, EndStatement, IsolationEnd
<1>3. ASSUME NEW c \in Conn, NEW k \in Key, Delete(c, k)
      PROVE  LiveTransactions'
  BY <1>1, <1>3 DEF Delete, EndStatement, IsolationEnd
<1>4. ASSUME NEW c \in Conn, NEW k \in Key, NEW j \in Key, NEW v \in Value, Move(c, k, j, v)
      PROVE  LiveTransactions'
  BY <1>1, <1>4 DEF Move, EndStatement, IsolationEnd
<1>5. ASSUME NEW c \in Conn, Conflict(c) \/ RollbackFails(c)
      PROVE  LiveTransactions'
  BY <1>5 DEF Conflict, RollbackFails, file, IInv, LiveTransactions
<1>6. ASSUME NEW c \in Conn, StartTransaction(c)
      PROVE  LiveTransactions'
  <2>1. /\ txn' = [txn EXCEPT ![c] = transaction_id + 1] /\ c \in session
        /\ active' = Live(c) \cup {transaction_id + 1} /\ session' = session
    BY <1>6, TidType DEF StartTransaction, Ready, ActiveIn, IInv
  <2>2. txn \in [Conn -> 0 .. transaction_id] /\ transaction_id \in Nat
    BY DEF IInv, TypeOK
  <2>3. ASSUME NEW d \in Conn, d # c, txn[d] # 0
        PROVE  txn[d] \in Live(c) /\ d \in session
    BY <2>1, <2>3 DEF IInv, LiveTransactions, Live, Dead
  <2>4. \A d \in Conn : txn[d] # transaction_id + 1
    BY <2>2
  <2>5. \A d \in Conn : txn'[d] = IF d = c THEN transaction_id + 1 ELSE txn[d]
    BY <2>1, <2>2
  <2>6. \A d, e \in Conn : txn[d] # 0 /\ txn[e] = txn[d] => e = d
    BY DEF IInv, LiveTransactions
  <2> QED BY <2>1, <2>3, <2>4, <2>5, <2>6 DEF LiveTransactions
<1>7. ASSUME NEW c \in Conn, Commit(c) \/ Rollback(c)
      PROVE  LiveTransactions'
  <2>1. /\ txn' = [txn EXCEPT ![c] = 0] /\ active' = Live(c) \ {txn[c]}
        /\ session' = session /\ txn[c] # 0 /\ c \in session
    BY <1>7 DEF Commit, Rollback, EndTransaction, Ready
  <2>2. \A d \in Conn : txn'[d] = IF d = c THEN 0 ELSE txn[d]
    BY <2>1 DEF IInv, TypeOK
  <2> QED BY <2>1, <2>2 DEF IInv, LiveTransactions, Live, Dead
<1>8. ASSUME NEW c \in Conn, Open(c)
      PROVE  LiveTransactions'
  BY <1>8 DEF Open, file, IInv, LiveTransactions
<1>9. ASSUME NEW c \in Conn, Close(c)
      PROVE  LiveTransactions'
  <2>1. \A d \in Conn : txn'[d] = IF d = c THEN 0 ELSE txn[d]
    BY <1>9 DEF Close, IInv, TypeOK
  <2> QED BY <1>9, <2>1 DEF Close, file, IInv, LiveTransactions
<1>10. ASSUME NEW c \in Conn, NEW k \in Key, NEW v \in Value, ThirdVersion(c, k, v)
       PROVE  LiveTransactions'
  BY <1>1, <1>10 DEF ThirdVersion, AddThird, IsolationEnd
<1>11. CASE UNCHANGED vars
  BY <1>11 DEF vars, file, IInv, LiveTransactions
<1> QED
  BY <1>2, <1>3, <1>4, <1>5, <1>6, <1>7, <1>8, <1>9, <1>10, <1>11 DEF Next

(* The inductive invariant: every action of the storage keeps it.          *)
LEMMA IInvStep == IInv /\ [Next]_vars => IInv'
<1> SUFFICES ASSUME IInv, [Next]_vars
             PROVE  IInv'
  OBVIOUS
<1>1. TypeOK'
  BY TypeStep DEF IInv
<1>2. LiveTransactions'
  BY LiveStep
<1>3. VersionStructure'
  <2>1. ASSUME NEW c \in Conn, Conflict(c) \/ RollbackFails(c) \/ Open(c) \/ Close(c)
        PROVE  UNCHANGED <<objects, active, damaged>>
    BY <2>1 DEF Conflict, RollbackFails, Open, Close, file
  <2>2. CASE UNCHANGED vars
    BY <2>2, OtherStep DEF vars, file
  <2> QED
    BY <1>1, <2>1, <2>2, InsertStep, UpdateStep, DeleteStep, MoveStep,
       ThirdVersionStep, StartStep, CommitStep, RollbackStep, OtherStep DEF Next
<1> QED BY <1>1, <1>2, <1>3 DEF IInv

(* Every reachable state has the types, its live transactions in the       *)
(* header, and the version structure of Page.add at every sound key.       *)
THEOREM Invariance == Spec => []IInv
<1>1. Init => IInv
  BY DEF Init, IInv, TypeOK, FirstTid, LiveTransactions, VersionStructure, ExpiryHeld,
         OwnExpiry, TwoVersions
<1>2. IInv /\ [Next]_vars => IInv'
  BY IInvStep
<1> QED BY <1>1, <1>2, PTL DEF Spec

(* No recovery rolls back the transaction of a connection that still has   *)
(* the session lock, and no ID is used twice.                              *)
THEOREM TransactionsLive == Spec => []LiveTransactions
<1>1. IInv => LiveTransactions
  BY DEF IInv
<1> QED BY <1>1, Invariance, PTL

(* The versions of a key have the structure that Page.add relies on.       *)
THEOREM VersionsStructured == Spec => []VersionStructure
<1>1. IInv => VersionStructure
  BY DEF IInv
<1> QED BY <1>1, Invariance, PTL

(* No reader finds two rows with one key.                                  *)
THEOREM RowsUnique == Spec => []UniqueRows
<1>1. IInv => UniqueRows
  <2> SUFFICES ASSUME IInv, NEW current \in active \cup {0}, NEW o \in objects, NEW p \in objects,
                      o # p, o.key = p.key, o.key \in Sound,
                      Visible(o, current, active), Visible(p, current, active)
               PROVE  FALSE
    BY DEF UniqueRows
  <2>1. PICK t \in active : (o.xid = t /\ p.tid = t) \/ (p.xid = t /\ o.tid = t)
    BY DEF IInv, VersionStructure, TwoVersions
  <2>2. t # 0
    BY DEF IInv, TypeOK
  <2> QED BY <2>1, <2>2 DEF Visible
<1> QED BY <1>1, Invariance, PTL

(* What Page.expire, Page.add and check_primary_key find out from the      *)
(* versions of a key is whether another active transaction has written it. *)
THEOREM ConflictsExact == Spec => []ConflictExact
<1>1. IInv => ConflictExact
  <2> SUFFICES ASSUME IInv, NEW c \in Conn, NEW k \in Sound
               PROVE  ConflictAt(Opened(c), k, TidOf(c), ActiveIn(c))
    BY DEF ConflictExact
  <2>1. transaction_id \in Nat /\ Opened(c) \in SUBSET ObjectUpTo(transaction_id)
    BY TidType DEF IInv, TypeOK
  <2> QED BY <2>1, OpenedStructure, ConflictOfStructure
<1> QED BY <1>1, Invariance, PTL

(* No two active transactions have changed one row.                        *)
THEOREM HolderUnique == Spec => []OneHolder
<1>1. IInv => OneHolder
  <2> SUFFICES ASSUME IInv, NEW k \in Sound, NEW t \in Holders(k), NEW u \in Holders(k)
               PROVE  t = u
    BY DEF OneHolder
  <2>1. PICK o \in objects : o.key = k /\ (o.tid = t \/ o.xid = t)
    BY DEF Holders
  <2>2. PICK p \in objects : p.key = k /\ (p.tid = u \/ p.xid = u)
    BY DEF Holders
  <2>3. t \in active /\ u \in active /\ 0 \notin active
    BY DEF Holders, IInv, TypeOK
  <2>4. \A q \in objects : q.key = k /\ q.xid # 0 /\ q.tid \in active => q.xid = q.tid
    BY DEF IInv, VersionStructure, OwnExpiry
  <2>5. CASE o = p
    BY <2>1, <2>2, <2>3, <2>4, <2>5
  <2>6. CASE o # p
    <3>1. PICK w \in active : (o.xid = w /\ p.tid = w) \/ (p.xid = w /\ o.tid = w)
      BY <2>1, <2>2, <2>6 DEF IInv, VersionStructure, TwoVersions
    <3> QED BY <2>1, <2>2, <2>3, <2>4, <3>1
  <2> QED BY <2>5, <2>6
<1> QED BY <1>1, Invariance, PTL
=============================================================================
