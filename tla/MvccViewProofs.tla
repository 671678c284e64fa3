--------------------------- MODULE MvccViewProofs ---------------------------
(***************************************************************************)
(* What readers find in Mvcc, for every set of connections, keys and       *)
(* values and every bound: which steps change the committed rows, and that *)
(* COMMIT and ROLLBACK do exactly what they say at a key whose changes are *)
(* on the pages the transaction remembers.                                 *)
(*                                                                         *)
(* Everything is said of the versions of one key, in the objects os with   *)
(* the active IDs act: recovery, a new ID, a write, the end of the ID.     *)
(***************************************************************************)
EXTENDS MvccProofs

-----------------------------------------------------------------------------
(* The versions of one key, and who has changed it. *)

At(os, k) == {o \in os : o.key = k}

HoldersIn(os, act, k) ==
  {t \in act : \E o \in At(os, k) : o.tid = t \/ o.xid = t}

(* What a transaction of act, or a reader outside of one (0), finds: a     *)
(* version of an ended transaction or of its own that it hasn't expired.   *)
Seen(os, k, u, act) ==
  {o \in At(os, k) : /\ o.tid \notin act \/ o.tid = u
                     /\ u = 0 \/ o.xid # u}

Values(os, k, u, act) == {o.value : o \in Rows(os, k, u, act)}

(* The versions of os and ps at k that t hasn't created are of the same    *)
(* transactions with the same values, whoever has expired them.            *)
KeepsOthers(os, ps, k, t) ==
  /\ \A o \in At(os, k) : o.tid # t => \E p \in At(ps, k) : p.tid = o.tid /\ p.value = o.value
  /\ \A p \in At(ps, k) : p.tid # t => \E o \in At(os, k) : o.tid = p.tid /\ o.value = p.value

(* Two sets of objects with the same values.                               *)
LEMMA SameValues ==
  ASSUME NEW R, NEW S,
         \A r \in R : \E o \in S : r.value = o.value,
         \A o \in S : \E r \in R : r.value = o.value
  PROVE  {r.value : r \in R} = {o.value : o \in S}
OBVIOUS

(* Where the versions are structured, object_is_visible comes to that: a   *)
(* version is expired by an active transaction or not at all.              *)
LEMMA RowsSeen ==
  ASSUME NEW os, NEW act, 0 \notin act, NEW k, StructureAt(os, act, k),
         NEW u \in act \cup {0}
  PROVE  Rows(os, k, u, act) = Seen(os, k, u, act)
<1>1. 0 \notin act
  OBVIOUS
<1>2. \A o \in os : o.key = k => (o.xid = 0 \/ o.xid \in act)
  BY DEF StructureAt
<1>3. ASSUME NEW o \in os, o.key = k
      PROVE  Visible(o, u, act) <=> (o.tid \notin act \/ o.tid = u) /\ (u = 0 \/ o.xid # u)
  BY <1>1, <1>2, <1>3 DEF Visible
<1> QED BY <1>3 DEF Rows, Seen, At

(* Every reader finds one row or none.                                     *)
LEMMA SeenOnce ==
  ASSUME NEW os, NEW act, 0 \notin act, NEW k, StructureAt(os, act, k),
         NEW u \in act \cup {0}
  PROVE  \A o, p \in Seen(os, k, u, act) : o = p
<1> SUFFICES ASSUME NEW o \in Seen(os, k, u, act), NEW p \in Seen(os, k, u, act), o # p
             PROVE  FALSE
  OBVIOUS
<1>1. PICK t \in act : (o.xid = t /\ p.tid = t) \/ (p.xid = t /\ o.tid = t)
  BY DEF StructureAt, Seen, At
<1>2. t # 0
  OBVIOUS
<1> QED BY <1>1, <1>2 DEF Seen

(* No two active transactions have changed one key.                        *)
LEMMA HolderAlone ==
  ASSUME NEW os, NEW act, 0 \notin act, NEW k, StructureAt(os, act, k),
         NEW t \in HoldersIn(os, act, k), NEW u \in HoldersIn(os, act, k)
  PROVE  t = u
<1>1. PICK o \in os : o.key = k /\ (o.tid = t \/ o.xid = t)
  BY DEF HoldersIn, At
<1>2. PICK p \in os : p.key = k /\ (p.tid = u \/ p.xid = u)
  BY DEF HoldersIn, At
<1>3. t \in act /\ u \in act /\ 0 \notin act
  BY DEF HoldersIn
<1>4. \A q \in os : q.key = k /\ q.xid # 0 /\ q.tid \in act => q.xid = q.tid
  BY DEF StructureAt
<1>5. CASE o = p
  BY <1>1, <1>2, <1>3, <1>4, <1>5
<1>6. CASE o # p
  <2>1. PICK w \in act : (o.xid = w /\ p.tid = w) \/ (p.xid = w /\ o.tid = w)
    BY <1>1, <1>2, <1>6 DEF StructureAt
  <2> QED BY <1>1, <1>2, <1>3, <1>4, <2>1
<1> QED BY <1>5, <1>6

(* Who hasn't changed a key finds the committed row.                       *)
LEMMA OthersFindCommitted ==
  ASSUME NEW os, NEW act, 0 \notin act, NEW k, StructureAt(os, act, k),
         NEW u \in act, u \notin HoldersIn(os, act, k)
  PROVE  Rows(os, k, u, act) = Rows(os, k, 0, act)
<1>1. \A o \in At(os, k) : o.tid # u /\ o.xid # u
  BY DEF HoldersIn
<1>2. Seen(os, k, u, act) = Seen(os, k, 0, act)
  BY <1>1 DEF Seen
<1> QED BY <1>2, RowsSeen

(* Readers depend on the versions of their key only.                       *)
LEMMA SameVersions ==
  ASSUME NEW os, NEW ps, NEW act, NEW k, At(ps, k) = At(os, k)
  PROVE  /\ \A u : Rows(ps, k, u, act) = Rows(os, k, u, act)
         /\ HoldersIn(ps, act, k) = HoldersIn(os, act, k)
BY DEF At, Rows, HoldersIn

(* ROLLBACK and recovery leave a key alone that their transactions haven't *)
(* changed, on whatever pages they visit.                                  *)
LEMMA UndoneNothing ==
  ASSUME NEW n \in Nat, NEW os \in SUBSET ObjectUpTo(n), NEW D, NEW lf, NEW pages, NEW k,
         \A o \in At(os, k) : o.tid \notin D /\ o.xid \notin D
  PROVE  At(Undo(os, lf, D, pages), k) = At(os, k)
<1> DEFINE here == {o \in os : lf[o.key] \in pages}
           kept == PageDelete(os, {o \in here : o.tid \in D})
           back == {o \in here \cap kept : o.xid \in D}
           reset(o) == IF \E e \in back : e.key = o.key /\ e.tid = o.tid
                       THEN [o EXCEPT !.xid = 0] ELSE o
<1>1. \A o \in os : o.key = k => o \in kept
  BY DEF PageDelete, At
<1>2. kept \subseteq os
  BY PageDeleteSubset
<1>3. \A e \in back : e.key # k
  BY <1>2 DEF At
<1>4. Undo(os, lf, D, pages) = {reset(o) : o \in kept}
  BY DEF Undo, SetXid
<1>5. \A o \in os : reset(o).key = o.key /\ (o.key = k => reset(o) = o)
  BY <1>3 DEF ObjectUpTo
<1> HIDE DEF here, kept, back, reset
<1> QED BY <1>1, <1>2, <1>4, <1>5 DEF At

(* The transactions D of act end, and the page of the key k is visited.    *)
Undoable(n, os, act, D, lf, pages, k) ==
  /\ n \in Nat /\ os \in SUBSET ObjectUpTo(n)
  /\ act \in SUBSET (1 .. n) /\ D \in SUBSET act /\ lf[k] \in pages
  /\ StructureAt(os, act, k)

(* Where they visit the page of a key, they make the versions of others    *)
(* visible again, and leave nothing of their transactions.                 *)
LEMMA UndoneVersions ==
  ASSUME NEW n, NEW os, NEW act, NEW D, NEW lf, NEW pages, NEW k,
         Undoable(n, os, act, D, lf, pages, k)
  PROVE  \A r \in At(Undo(os, lf, D, pages), k) :
           /\ r.tid \notin D /\ r.xid \notin D
           /\ \E o \in At(os, k) : /\ o.tid \notin D /\ r.tid = o.tid /\ r.value = o.value
                                  /\ r.xid \in {0, o.xid}
<1> /\ n \in Nat /\ os \in SUBSET ObjectUpTo(n)
    /\ act \in SUBSET (1 .. n) /\ D \in SUBSET act /\ lf[k] \in pages
    /\ StructureAt(os, act, k)
  BY DEF Undoable
<1> DEFINE rs == Undo(os, lf, D, pages)
           back(o) == IF o.xid \in D THEN [o EXCEPT !.xid = 0] ELSE o
<1>1. At(rs, k) = {back(o) : o \in {p \in os : p.key = k /\ p.tid \notin D}}
  <2>1. {r \in rs : r.key = k} = Undone(os, D, k)
    BY UndoneAt
  <2> QED BY <2>1 DEF Undone, At
<1>2. \A o \in os : /\ back(o).tid = o.tid /\ back(o).value = o.value
                    /\ back(o).xid \notin D /\ back(o).xid \in {0, o.xid}
  BY DEF ObjectUpTo
<1> HIDE DEF rs, back
<1>3. ASSUME NEW r \in At(rs, k)
      PROVE  \E o \in At(os, k) : o.tid \notin D /\ r = back(o)
  BY <1>1, <1>3 DEF At
<1>4. \A o \in At(os, k) : o \in os
  BY DEF At
<1> QED BY <1>2, <1>3, <1>4 DEF rs

(* All of the versions of others.                                          *)
LEMMA UndoneBack ==
  ASSUME NEW n, NEW os, NEW act, NEW D, NEW lf, NEW pages, NEW k,
         Undoable(n, os, act, D, lf, pages, k)
  PROVE  \A o \in At(os, k) : o.tid \notin D =>
           \E r \in At(Undo(os, lf, D, pages), k) : r.tid = o.tid /\ r.value = o.value
<1> /\ n \in Nat /\ os \in SUBSET ObjectUpTo(n)
    /\ act \in SUBSET (1 .. n) /\ D \in SUBSET act /\ lf[k] \in pages
    /\ StructureAt(os, act, k)
  BY DEF Undoable
<1> DEFINE rs == Undo(os, lf, D, pages)
           back(o) == IF o.xid \in D THEN [o EXCEPT !.xid = 0] ELSE o
<1>1. At(rs, k) = {back(o) : o \in {p \in os : p.key = k /\ p.tid \notin D}}
  <2>1. {r \in rs : r.key = k} = Undone(os, D, k)
    BY UndoneAt
  <2> QED BY <2>1 DEF Undone, At
<1>2. \A o \in os : back(o).tid = o.tid /\ back(o).value = o.value
  BY DEF ObjectUpTo
<1> HIDE DEF rs, back
<1>3. ASSUME NEW o \in At(os, k), o.tid \notin D
      PROVE  \E r \in At(rs, k) : r.tid = o.tid /\ r.value = o.value
  <2>1. o \in os /\ back(o) \in At(rs, k)
    BY <1>1, <1>3 DEF At
  <2> QED BY <1>2, <2>1
<1> QED BY <1>3 DEF rs

(* So the committed row stays as it was.                                   *)
LEMMA UndoneView ==
  ASSUME NEW n, NEW os, NEW act, NEW D, NEW lf, NEW pages, NEW k,
         Undoable(n, os, act, D, lf, pages, k)
  PROVE  Values(Undo(os, lf, D, pages), k, 0, act \ D) = Values(os, k, 0, act)
<1> /\ n \in Nat /\ os \in SUBSET ObjectUpTo(n)
    /\ act \in SUBSET (1 .. n) /\ D \in SUBSET act /\ lf[k] \in pages
    /\ StructureAt(os, act, k)
  BY DEF Undoable
<1> DEFINE rs == Undo(os, lf, D, pages)
<1>1. 0 \notin act \ D /\ 0 \notin act /\ StructureAt(rs, act \ D, k)
  BY StructureUndone
<1>2. \A r \in At(rs, k) :
        \E o \in At(os, k) : o.tid \notin D /\ r.tid = o.tid /\ r.value = o.value
  BY UndoneVersions
<1>3. \A o \in At(os, k) : o.tid \notin D =>
        \E r \in At(rs, k) : r.tid = o.tid /\ r.value = o.value
  BY UndoneBack
<1> HIDE DEF rs
<1>4. ASSUME NEW r \in Seen(rs, k, 0, act \ D)
      PROVE  \E o \in Seen(os, k, 0, act) : r.value = o.value
  <2>1. r \in At(rs, k) /\ (r.tid \notin act \ D \/ r.tid = 0)
    BY <1>4 DEF Seen
  <2>2. PICK o \in At(os, k) : o.tid \notin D /\ r.tid = o.tid /\ r.value = o.value
    BY <1>2, <2>1
  <2> QED BY <2>1, <2>2 DEF Seen
<1>5. ASSUME NEW o \in Seen(os, k, 0, act)
      PROVE  \E r \in Seen(rs, k, 0, act \ D) : r.value = o.value
  <2>1. o \in At(os, k) /\ (o.tid \notin act \/ o.tid = 0) /\ o.tid \notin D
    BY <1>1, <1>5 DEF Seen
  <2>2. PICK r \in At(rs, k) : r.tid = o.tid /\ r.value = o.value
    BY <1>3, <2>1
  <2> QED BY <2>1, <2>2 DEF Seen
<1>6. {r.value : r \in Seen(rs, k, 0, act \ D)} = {o.value : o \in Seen(os, k, 0, act)}
  BY <1>4, <1>5, SameValues
<1>7. /\ Rows(rs, k, 0, act \ D) = Seen(rs, k, 0, act \ D)
      /\ Rows(os, k, 0, act) = Seen(os, k, 0, act)
  BY <1>1, RowsSeen
<1> QED BY <1>6, <1>7 DEF Values, rs

(* A key that another transaction has changed isn't theirs to undo.        *)
LEMMA UndoneApart ==
  ASSUME NEW os, NEW act, 0 \notin act, NEW D \in SUBSET act, NEW k,
         StructureAt(os, act, k), NEW u \in HoldersIn(os, act, k), u \notin D
  PROVE  \A o \in At(os, k) : o.tid \notin D /\ o.xid \notin D
<1>1. ASSUME NEW w \in D, w \in HoldersIn(os, act, k)
      PROVE  FALSE
  <2>1. w = u
    BY <1>1, HolderAlone
  <2> QED BY <1>1, <2>1
<1> QED BY <1>1 DEF HoldersIn

(* Another transaction that has changed the key keeps its changes.         *)
LEMMA UndoneOthers ==
  ASSUME NEW n, NEW os, NEW act, NEW D, NEW lf, NEW pages, NEW k,
         Undoable(n, os, act, D, lf, pages, k),
         NEW u \in HoldersIn(os, act, k), u \notin D
  PROVE  Rows(Undo(os, lf, D, pages), k, u, act \ D) = Rows(os, k, u, act)
<1> /\ n \in Nat /\ os \in SUBSET ObjectUpTo(n)
    /\ act \in SUBSET (1 .. n) /\ D \in SUBSET act /\ lf[k] \in pages
    /\ StructureAt(os, act, k)
  BY DEF Undoable
<1> DEFINE rs == Undo(os, lf, D, pages)
<1>1. 0 \notin act \ D /\ 0 \notin act /\ StructureAt(rs, act \ D, k)
  BY StructureUndone
<1>2. \A o \in At(os, k) : o.tid \notin D /\ o.xid \notin D
  BY <1>1, UndoneApart
<1>3. At(rs, k) = At(os, k)
  BY <1>2, UndoneNothing
<1>4. u \in act \ D /\ u \in act
  BY DEF HoldersIn
<1> HIDE DEF rs
<1>5. Seen(rs, k, u, act \ D) = Seen(os, k, u, act)
  BY <1>2, <1>3 DEF Seen
<1>6. Rows(rs, k, u, act \ D) = Seen(rs, k, u, act \ D)
  BY <1>1, <1>4, RowsSeen
<1>7. Rows(os, k, u, act) = Seen(os, k, u, act)
  BY <1>1, <1>4, RowsSeen
<1> QED BY <1>5, <1>6, <1>7 DEF rs

(* Nobody holds a key any more because others are rolled back, and those   *)
(* are gone.                                                               *)
LEMMA UndoneHolders ==
  ASSUME NEW n, NEW os, NEW act, NEW D, NEW lf, NEW pages, NEW k,
         Undoable(n, os, act, D, lf, pages, k)
  PROVE  HoldersIn(Undo(os, lf, D, pages), act \ D, k) = HoldersIn(os, act, k) \ D
<1> /\ n \in Nat /\ os \in SUBSET ObjectUpTo(n)
    /\ act \in SUBSET (1 .. n) /\ D \in SUBSET act /\ lf[k] \in pages
    /\ StructureAt(os, act, k)
  BY DEF Undoable
<1> DEFINE rs == Undo(os, lf, D, pages)
<1>1. ASSUME NEW u \in HoldersIn(rs, act \ D, k)
      PROVE  u \in HoldersIn(os, act, k) \ D
  <2>1. PICK r \in At(rs, k) : r.tid = u \/ r.xid = u
    BY <1>1 DEF HoldersIn
  <2>2. PICK o \in At(os, k) : r.tid = o.tid /\ r.xid \in {0, o.xid}
    BY <2>1, UndoneVersions
  <2>3. u \in act /\ u \notin D /\ u # 0
    BY <1>1 DEF HoldersIn
  <2> QED BY <2>1, <2>2, <2>3 DEF HoldersIn
<1>2. ASSUME NEW u \in HoldersIn(os, act, k) \ D
      PROVE  u \in HoldersIn(rs, act \ D, k)
  <2>1. \A o \in At(os, k) : o.tid \notin D /\ o.xid \notin D
    <3>1. 0 \notin act
      OBVIOUS
    <3> QED BY <1>2, <3>1, UndoneApart
  <2>2. At(rs, k) = At(os, k)
    BY <2>1, UndoneNothing
  <2> QED BY <1>2, <2>2 DEF HoldersIn
<1> HIDE DEF rs
<1>3. HoldersIn(rs, act \ D, k) = HoldersIn(os, act, k) \ D
  BY <1>1, <1>2
<1> QED BY <1>3 DEF rs

(* START TRANSACTION, or a statement outside of a transaction: a new ID    *)
(* changes nothing.                                                        *)
Unused(os, k, t) == \A o \in At(os, k) : o.tid # t /\ o.xid # t

(* A new ID changes nothing of what others find.                           *)
LEMMA FreshView ==
  ASSUME NEW os, NEW act, NEW t, NEW k, 0 \notin act, t # 0,
         StructureAt(os, act, k), Unused(os, k, t),
         NEW u \in act \cup {0}
  PROVE  Rows(os, k, u, act \cup {t}) = Rows(os, k, u, act)
<1>1. 0 \notin act \cup {t} /\ StructureAt(os, act \cup {t}, k)
  <2>1. \A o \in os : o.key = k => o.tid # t
    BY DEF At, Unused
  <2> QED BY <2>1 DEF StructureAt
<1>2. Seen(os, k, u, act \cup {t}) = Seen(os, k, u, act)
  BY DEF Seen, Unused
<1>3. Rows(os, k, u, act \cup {t}) = Seen(os, k, u, act \cup {t})
  BY <1>1, RowsSeen
<1>4. Rows(os, k, u, act) = Seen(os, k, u, act)
  BY RowsSeen
<1> QED BY <1>2, <1>3, <1>4

(* A new ID holds no key yet.                                              *)
LEMMA FreshHolders ==
  ASSUME NEW os, NEW act, NEW t, NEW k, Unused(os, k, t)
  PROVE  HoldersIn(os, act \cup {t}, k) = HoldersIn(os, act, k)
BY DEF HoldersIn, Unused

(* COMMIT and isolation_end: without what the transaction expired, and the *)
(* ID, everyone finds what the transaction found.                          *)
Unexpired(os, t) == {o \in os : o.xid # t}

(* What the transaction found is what everybody finds once its ID is gone. *)
LEMMA EndedView ==
  ASSUME NEW os, NEW act, 0 \notin act, NEW t \in act, NEW k, StructureAt(os, act, k)
  PROVE  Rows(Unexpired(os, t), k, 0, act \ {t}) = Rows(os, k, t, act)
<1> DEFINE ps == Unexpired(os, t)
<1>1. 0 \notin act \ {t} /\ StructureAt(ps, act \ {t}, k) /\ t # 0
  BY StructureCommitted DEF Unexpired
<1>2. Seen(ps, k, 0, act \ {t}) = Seen(os, k, t, act)
  BY <1>1 DEF Seen, At, Unexpired
<1> HIDE DEF ps
<1>3. Rows(ps, k, 0, act \ {t}) = Seen(ps, k, 0, act \ {t})
  BY <1>1, RowsSeen
<1>4. Rows(os, k, t, act) = Seen(os, k, t, act)
  BY RowsSeen
<1> QED BY <1>2, <1>3, <1>4 DEF ps

(* A key that another transaction has changed stays as it is.              *)
LEMMA EndedNothing ==
  ASSUME NEW os, NEW act, 0 \notin act, NEW t, NEW k, StructureAt(os, act, k), t \in act,
         NEW u \in HoldersIn(os, act, k), u # t
  PROVE  At(Unexpired(os, t), k) = At(os, k) /\ \A o \in At(os, k) : o.tid # t
<1>1. t \notin HoldersIn(os, act, k)
  <2>1. t \in HoldersIn(os, act, k) => t = u
    BY HolderAlone
  <2> QED BY <2>1
<1>2. \A o \in At(os, k) : o.tid # t /\ o.xid # t
  BY <1>1 DEF HoldersIn
<1> QED BY <1>2 DEF At, Unexpired

(* The end of t changes nothing for a transaction that holds the key.      *)
LEMMA EndedOthers ==
  ASSUME NEW os, NEW act, 0 \notin act, NEW t, NEW k, StructureAt(os, act, k), t \in act,
         NEW u \in HoldersIn(os, act, k), u # t
  PROVE  Rows(Unexpired(os, t), k, u, act \ {t}) = Rows(os, k, u, act)
<1> DEFINE ps == Unexpired(os, t)
<1>1. 0 \notin act \ {t} /\ StructureAt(ps, act \ {t}, k)
  BY StructureCommitted DEF Unexpired
<1>2. At(ps, k) = At(os, k) /\ \A o \in At(os, k) : o.tid # t
  BY EndedNothing
<1>3. u \in act \ {t} /\ u \in act
  BY DEF HoldersIn
<1> HIDE DEF ps
<1>4. Seen(ps, k, u, act \ {t}) = Seen(os, k, u, act)
  BY <1>2 DEF Seen
<1>5. Rows(ps, k, u, act \ {t}) = Seen(ps, k, u, act \ {t})
  BY <1>1, <1>3, RowsSeen
<1>6. Rows(os, k, u, act) = Seen(os, k, u, act)
  BY <1>3, RowsSeen
<1> QED BY <1>4, <1>5, <1>6 DEF ps

(* The others hold the keys they held.                                     *)
LEMMA EndedHolders ==
  ASSUME NEW os, NEW act, 0 \notin act, NEW t, NEW k, StructureAt(os, act, k), t \in act
  PROVE  HoldersIn(Unexpired(os, t), act \ {t}, k) = HoldersIn(os, act, k) \ {t}
<1>1. ASSUME NEW u \in HoldersIn(os, act, k), u # t
      PROVE  u \in HoldersIn(Unexpired(os, t), act \ {t}, k)
  <2>1. At(Unexpired(os, t), k) = At(os, k)
    BY <1>1, EndedNothing
  <2> QED BY <1>1, <2>1 DEF HoldersIn
<1>2. HoldersIn(Unexpired(os, t), act \ {t}, k) \subseteq HoldersIn(os, act, k) \ {t}
  BY DEF HoldersIn, At, Unexpired
<1> QED BY <1>1, <1>2

(* A write of an active transaction leaves the committed row as it was.    *)
LEMMA WriteView ==
  ASSUME NEW os, NEW ps, NEW act, 0 \notin act, NEW t \in act, NEW k,
         StructureAt(os, act, k), StructureAt(ps, act, k), KeepsOthers(os, ps, k, t)
  PROVE  Values(ps, k, 0, act) = Values(os, k, 0, act)
<1>1. ASSUME NEW p \in Seen(ps, k, 0, act)
      PROVE  \E o \in Seen(os, k, 0, act) : p.value = o.value
  <2>1. p \in At(ps, k) /\ p.tid # t /\ (p.tid \notin act \/ p.tid = 0)
    BY <1>1 DEF Seen
  <2>2. PICK o \in At(os, k) : o.tid = p.tid /\ o.value = p.value
    BY <2>1 DEF KeepsOthers
  <2> QED BY <2>1, <2>2 DEF Seen
<1>2. ASSUME NEW o \in Seen(os, k, 0, act)
      PROVE  \E p \in Seen(ps, k, 0, act) : p.value = o.value
  <2>1. o \in At(os, k) /\ o.tid # t /\ (o.tid \notin act \/ o.tid = 0)
    BY <1>2 DEF Seen
  <2>2. PICK p \in At(ps, k) : p.tid = o.tid /\ p.value = o.value
    BY <2>1 DEF KeepsOthers
  <2> QED BY <2>1, <2>2 DEF Seen
<1>3. {p.value : p \in Seen(ps, k, 0, act)} = {o.value : o \in Seen(os, k, 0, act)}
  BY <1>1, <1>2, SameValues
<1>4. /\ Rows(ps, k, 0, act) = Seen(ps, k, 0, act)
      /\ Rows(os, k, 0, act) = Seen(os, k, 0, act)
  BY RowsSeen
<1> QED BY <1>3, <1>4 DEF Values

-----------------------------------------------------------------------------
(* What Page.add, Page.update and Page.expire do to the versions of others *)
(* at the key, and to the other keys: nothing that a reader could tell.    *)

NewVersion(k, t, v) == [key |-> k, tid |-> t, xid |-> 0, value |-> v]

(* Adding a version of t: Btree.add.                                       *)
LEMMA AddKeepsOthers ==
  ASSUME NEW os, NEW ps, NEW k, NEW t, NEW v, NEW l, KeepsOthers(os, ps, l, t)
  PROVE  KeepsOthers(os, ps \cup {NewVersion(k, t, v)}, l, t)
BY DEF KeepsOthers, At, NewVersion

(* A key that isn't touched.                                               *)
LEMMA NothingKeepsOthers ==
  ASSUME NEW os, NEW ps, NEW k, NEW t, At(ps, k) = At(os, k)
  PROVE  KeepsOthers(os, ps, k, t)
BY DEF KeepsOthers

(* Page.expire for t changes no tid and no value.                          *)
LEMMA ExpireKeepsOthers ==
  ASSUME NEW n \in Nat, NEW os \in SUBSET ObjectUpTo(n), NEW S, NEW k, NEW t
  PROVE  KeepsOthers(os, SetXid(os, S, t), k, t)
<1> DEFINE new(o) == IF \E e \in S : e.key = o.key /\ e.tid = o.tid
                     THEN [o EXCEPT !.xid = t] ELSE o
<1>1. SetXid(os, S, t) = {new(o) : o \in os}
  BY DEF SetXid
<1>2. \A o \in os : new(o).key = o.key /\ new(o).tid = o.tid /\ new(o).value = o.value
  BY DEF ObjectUpTo
<1> HIDE DEF new
<1>3. \A o \in At(os, k) : new(o) \in At(SetXid(os, S, t), k)
  BY <1>1, <1>2 DEF At
<1>4. \A p \in At(SetXid(os, S, t), k) : \E o \in At(os, k) : p = new(o)
  BY <1>1, <1>2 DEF At
<1>5. \A o \in At(os, k) : o \in os
  BY DEF At
<1> QED BY <1>2, <1>3, <1>4, <1>5 DEF KeepsOthers

(* Page.update for t expires a version or removes one of t.                *)
LEMMA UpdateKeepsOthers ==
  ASSUME NEW n \in Nat, NEW os \in SUBSET ObjectUpTo(n), NEW k, NEW t, NEW l
  PROVE  KeepsOthers(os, PageUpdate(os, k, t), l, t)
<1>1. CASE UpdateExpires(os, k, t)
  BY <1>1, ExpireKeepsOthers DEF PageUpdate
<1>2. CASE ~ UpdateExpires(os, k, t)
  BY <1>2 DEF PageUpdate, PageDelete, Own, KeepsOthers, At
<1> QED BY <1>1, <1>2

(* Expiring the row of a key leaves the other keys alone.                  *)
LEMMA ExpireOther ==
  ASSUME NEW n \in Nat, NEW os \in SUBSET ObjectUpTo(n), NEW k, NEW t, NEW act, NEW l, l # k
  PROVE  At(SetXid(os, Rows(os, k, t, act), t), l) = At(os, l)
<1> DEFINE new(o) == IF \E e \in Rows(os, k, t, act) : e.key = o.key /\ e.tid = o.tid
                     THEN [o EXCEPT !.xid = t] ELSE o
<1>1. SetXid(os, Rows(os, k, t, act), t) = {new(o) : o \in os}
  BY DEF SetXid
<1>2. \A o \in os : new(o).key = o.key /\ (o.key = l => new(o) = o)
  BY DEF ObjectUpTo, Rows
<1> HIDE DEF new
<1> QED BY <1>1, <1>2 DEF At

(* An expired row is the transaction's.                                    *)
LEMMA ExpireHolds ==
  ASSUME NEW n \in Nat, NEW os \in SUBSET ObjectUpTo(n), NEW k, NEW t, NEW act, t \in act,
         Rows(os, k, t, act) # {}
  PROVE  t \in HoldersIn(SetXid(os, Rows(os, k, t, act), t), act, k)
<1>1. PICK e \in Rows(os, k, t, act) : e \in os /\ e.key = k
  BY DEF Rows
<1>2. [e EXCEPT !.xid = t] \in SetXid(os, Rows(os, k, t, act), t)
  BY <1>1 DEF SetXid
<1>3. [e EXCEPT !.xid = t].key = k /\ [e EXCEPT !.xid = t].xid = t
  BY <1>1 DEF ObjectUpTo
<1> QED BY <1>2, <1>3 DEF HoldersIn, At

(* A write that isn't contended finds nobody else's change.                *)
LEMMA ContendedByHolder ==
  ASSUME NEW os, NEW act, 0 \notin act, NEW k, NEW t,
         ~ Contended(os, k, t, act)
  PROVE  HoldersIn(os, act, k) \subseteq {t}
BY DEF Contended, Concurrent, HoldersIn, At

-----------------------------------------------------------------------------
(* What a statement of the connection c did before isolation_end: os is    *)
(* what it leaves of the objects it has opened, ks the keys it has written *)
(* and K the keys that aren't damaged.                                     *)
Wrote(c, os, ks, K) ==
  /\ os \in SUBSET ObjectUpTo(transaction_id + 1)
  /\ \A l \in K : StructureAt(os, ActiveIn(c), l)
  /\ \A l \in K \ ks : At(os, l) = At(Opened(c), l)
  /\ \A l \in K \cap ks : /\ KeepsOthers(Opened(c), os, l, TidOf(c))
                          /\ ~ Contended(Opened(c), l, TidOf(c), ActiveIn(c))
                          /\ TidOf(c) \in HoldersIn(os, ActiveIn(c), l)

(* isolation_end: an explicit transaction goes on, an implicit one ends    *)
(* with what it has expired removed.                                       *)
Ended(c, os) ==
  /\ active' = Live(c)
  /\ txn[c] # 0 => objects' = os /\ transaction_id' = transaction_id
  /\ txn[c] = 0 => /\ objects' = Unexpired(os, TidOf(c))
                   /\ transaction_id' = TidOf(c)
  /\ UNCHANGED <<session, txn>>

Statement(c, K) == \E os, ks : Wrote(c, os, ks, K) /\ Ended(c, os)

(* isolation_end, on pages that have all that an implicit transaction      *)
(* expired.                                                                *)
LEMMA EndedHere ==
  ASSUME NEW c \in Conn, NEW os, NEW lf, NEW written, IsolationEnd(c, os, lf, written),
         txn[c] = 0 => \A o \in os : o.xid = TidOf(c) =>
           /\ lf[o.key] \in written
           /\ \A p \in os : p.key = o.key /\ p.tid = o.tid => p.xid = TidOf(c)
  PROVE  Ended(c, os)
<1>1. txn[c] = 0 => objects' = {o \in os : o.xid # TidOf(c)}
  BY IsolationEndObjects
<1> QED BY <1>1 DEF IsolationEnd, Ended, Unexpired

(* What every statement starts with.                                       *)
LEMMA Starts ==
  ASSUME IInv, NEW c \in Conn
  PROVE  /\ TypeOK /\ transaction_id \in Nat /\ transaction_id + 1 \in Nat
         /\ Opened(c) \in SUBSET ObjectUpTo(transaction_id)
         /\ Opened(c) \in SUBSET ObjectUpTo(transaction_id + 1)
         /\ TidOf(c) \in 1 .. (transaction_id + 1) /\ TidOf(c) # 0
         /\ TidOf(c) \in ActiveIn(c)
         /\ ActiveIn(c) \in SUBSET (1 .. (transaction_id + 1)) /\ 0 \notin ActiveIn(c)
         /\ active \in SUBSET (1 .. transaction_id) /\ Live(c) \in SUBSET active
         /\ 0 \notin active /\ 0 \notin Live(c)
         /\ \A k \in Sound : StructureAt(Opened(c), ActiveIn(c), k)
<1>1. TypeOK /\ transaction_id \in Nat /\ active \in SUBSET (1 .. transaction_id)
  BY DEF IInv, TypeOK
<1>2. /\ Opened(c) \in SUBSET ObjectUpTo(transaction_id)
      /\ TidOf(c) \in 1 .. (transaction_id + 1) /\ Live(c) \in SUBSET active
  BY <1>1, TidType
<1>3. Opened(c) \in SUBSET ObjectUpTo(transaction_id + 1)
  BY <1>1, <1>2, ObjectUpToMono
<1>4. TidOf(c) \in ActiveIn(c) /\ \A k \in Sound : StructureAt(Opened(c), ActiveIn(c), k)
  BY OpenedStructure
<1>5. ActiveIn(c) \in SUBSET (1 .. (transaction_id + 1))
  <2>1. 1 .. transaction_id \subseteq 1 .. (transaction_id + 1)
    BY <1>1
  <2> QED BY <1>1, <1>2, <2>1 DEF ActiveIn
<1> QED BY <1>1, <1>2, <1>3, <1>4, <1>5

(* The version that a statement writes.                                    *)
LEMMA NewVersionType ==
  ASSUME IInv, NEW c \in Conn, NEW k \in Key, NEW v \in Value
  PROVE  /\ NewVersion(k, TidOf(c), v) \in ObjectUpTo(transaction_id + 1)
         /\ NewVersion(k, TidOf(c), v).key = k
         /\ NewVersion(k, TidOf(c), v).tid = TidOf(c)
         /\ NewVersion(k, TidOf(c), v).xid = 0
BY Starts DEF NewVersion, ObjectUpTo

(* INSERT (write_row). *)
LEMMA InsertIs ==
  ASSUME IInv, NEW c \in Conn, NEW k \in Key, NEW v \in Value, Insert(c, k, v)
  PROVE  Statement(c, Sound)
<1> DEFINE t   == TidOf(c)
           new == NewVersion(k, t, v)
           os  == Opened(c) \cup {new}
<1>1. PICK lf : IsolationEnd(c, os, lf, Written(lf, {k}))
  BY DEF Insert, EndStatement, NewVersion
<1>2. CanInsert(Opened(c), k, t, ActiveIn(c)) /\ k \in Sound
  BY DEF Insert
<1>3. /\ new \in ObjectUpTo(transaction_id + 1)
      /\ new.key = k /\ new.tid = t /\ new.xid = 0
  BY NewVersionType
<1>4. os \in SUBSET ObjectUpTo(transaction_id + 1)
  BY <1>3, Starts
<1>5. \A l \in Sound : StructureAt(os, ActiveIn(c), l)
  BY <1>2, Starts, StructureInserted DEF NewVersion
<1>6. \A l \in Sound \ {k} : At(os, l) = At(Opened(c), l)
  BY <1>3 DEF At
<1>7. KeepsOthers(Opened(c), os, k, t)
  BY NothingKeepsOthers, AddKeepsOthers
<1>8. ~ Contended(Opened(c), k, t, ActiveIn(c))
  BY <1>2 DEF CanInsert
<1>9. t \in HoldersIn(os, ActiveIn(c), k)
  BY <1>3, Starts DEF HoldersIn, At
<1>10. txn[c] = 0 => \A o \in os : o.xid # t
  BY <1>3, Starts, OpenedStructure
<1> HIDE DEF os, t
<1>11. Ended(c, os)
  BY <1>1, <1>10, EndedHere DEF t
<1>12. Wrote(c, os, {k}, Sound)
  BY <1>4, <1>5, <1>6, <1>7, <1>8, <1>9 DEF Wrote, t
<1> QED BY <1>11, <1>12 DEF Statement

(* UPDATE (update_row). *)
LEMMA UpdateIs ==
  ASSUME IInv, NEW c \in Conn, NEW k \in Key, NEW v \in Value, Update(c, k, v)
  PROVE  Statement(c, Sound)
<1> DEFINE t    == TidOf(c)
           new  == NewVersion(k, t, v)
           kept == PageUpdate(Opened(c), k, t)
           os   == kept \cup {new}
<1>1. PICK lf \in Layouts(kept, k) : IsolationEnd(c, os, lf, Written(lf, {k})) /\ SetLeaf(lf)
  BY DEF Update, EndStatement, IsolationEnd, NewVersion
<1>2. /\ Rows(Opened(c), k, t, ActiveIn(c)) # {} /\ ~ UpdateConflict(Opened(c), k, t)
      /\ k \in Sound
  BY DEF Update
<1>3. /\ new \in ObjectUpTo(transaction_id + 1)
      /\ new.key = k /\ new.tid = t /\ new.xid = 0
  BY NewVersionType
<1>4. os \in SUBSET ObjectUpTo(transaction_id + 1)
  BY <1>3, Starts, PageDeleteSubset, SetXidType DEF PageUpdate
<1>5. \A l \in Sound : StructureAt(os, ActiveIn(c), l)
  BY <1>2, Starts, StructureUpdated DEF NewVersion
<1>6. ASSUME NEW l \in Sound \ {k}
      PROVE  At(os, l) = At(Opened(c), l)
  <2>1. l # k /\ \A o : o.key = l => (o \in kept <=> o \in Opened(c))
    BY <1>6, Starts, PageUpdateOther
  <2> QED BY <1>3, <2>1 DEF At
<1>7. KeepsOthers(Opened(c), os, k, t)
  BY Starts, UpdateKeepsOthers, AddKeepsOthers
<1>8. ~ Contended(Opened(c), k, t, ActiveIn(c))
  <2>1. ConflictAt(Opened(c), k, t, ActiveIn(c))
    BY <1>2, Starts, ConflictOfStructure
  <2> QED BY <1>2, <2>1 DEF ConflictAt
<1>9. t \in HoldersIn(os, ActiveIn(c), k)
  BY <1>3, Starts DEF HoldersIn, At
<1>10. ASSUME txn[c] = 0, NEW o \in os, o.xid = t
       PROVE  /\ lf[o.key] \in Written(lf, {k})
              /\ \A p \in os : p.key = o.key /\ p.tid = o.tid => p.xid = t
  <2>1. o \in kept
    BY <1>3, <1>10, Starts
  <2>2. o.key = k /\ o.tid # t /\ \A p \in kept : p.key = k => p.xid = t
    BY <1>10, <2>1, UpdatedHere
  <2>3. lf[k] \in Written(lf, {k})
    BY <1>1, Starts, WrittenHere
  <2> QED BY <1>3, <2>2, <2>3
<1> HIDE DEF os, t
<1>11. Ended(c, os)
  BY <1>1, <1>10, EndedHere DEF t
<1>12. Wrote(c, os, {k}, Sound)
  BY <1>4, <1>5, <1>6, <1>7, <1>8, <1>9 DEF Wrote, t
<1> QED BY <1>11, <1>12 DEF Statement

(* DELETE (delete_row). *)
LEMMA DeleteIs ==
  ASSUME IInv, NEW c \in Conn, NEW k \in Key, Delete(c, k)
  PROVE  Statement(c, Sound)
<1> DEFINE t    == TidOf(c)
           rows == Rows(Opened(c), k, t, ActiveIn(c))
           os   == SetXid(Opened(c), rows, t)
<1>1. IsolationEnd(c, os, leaf, {leaf[k]})
  BY DEF Delete, EndStatement
<1>2. rows # {} /\ ~ DeleteConflict(Opened(c), k, t, ActiveIn(c)) /\ k \in Sound
  BY DEF Delete
<1>3. os \in SUBSET ObjectUpTo(transaction_id + 1)
  BY Starts, SetXidType
<1>4. \A l \in Sound : StructureAt(os, ActiveIn(c), l)
  BY <1>2, Starts, StructureExpired
<1>5. \A l \in Sound \ {k} : At(os, l) = At(Opened(c), l)
  BY Starts, ExpireOther
<1>6. KeepsOthers(Opened(c), os, k, t)
  BY Starts, ExpireKeepsOthers
<1>7. ~ Contended(Opened(c), k, t, ActiveIn(c))
  <2>1. ConflictAt(Opened(c), k, t, ActiveIn(c))
    BY <1>2, Starts, ConflictOfStructure
  <2> QED BY <1>2, <2>1 DEF ConflictAt
<1>8. t \in HoldersIn(os, ActiveIn(c), k)
  BY <1>2, Starts, ExpireHolds
<1>9. ASSUME txn[c] = 0, NEW o \in os, o.xid = t
      PROVE  /\ leaf[o.key] \in {leaf[k]}
             /\ \A p \in os : p.key = o.key /\ p.tid = o.tid => p.xid = t
  BY <1>9, ExpiredHere
<1> HIDE DEF os, t
<1>10. Ended(c, os)
  BY <1>1, <1>9, EndedHere DEF t
<1>11. Wrote(c, os, {k}, Sound)
  BY <1>3, <1>4, <1>5, <1>6, <1>7, <1>8 DEF Wrote, t
<1> QED BY <1>10, <1>11 DEF Statement

(* The row of k is expired, and a version of another key is added: the     *)
(* UPDATE of a PRIMARY KEY.                                                *)
LEMMA ExpiredWrote ==
  ASSUME IInv, NEW c \in Conn, NEW k \in Sound, NEW l \in Sound, l # k,
         Rows(Opened(c), k, TidOf(c), ActiveIn(c)) # {},
         ~ DeleteConflict(Opened(c), k, TidOf(c), ActiveIn(c)),
         NEW j \in Key, NEW v \in Value, j # k,
         NEW kept, kept = SetXid(Opened(c), Rows(Opened(c), k, TidOf(c), ActiveIn(c)), TidOf(c))
  PROVE  LET os == kept \cup {NewVersion(j, TidOf(c), v)}
         IN  /\ os \in SUBSET ObjectUpTo(transaction_id + 1)
             /\ StructureAt(os, ActiveIn(c), k)
             /\ KeepsOthers(Opened(c), os, k, TidOf(c))
             /\ ~ Contended(Opened(c), k, TidOf(c), ActiveIn(c))
             /\ TidOf(c) \in HoldersIn(os, ActiveIn(c), k)
             /\ l # j => At(os, l) = At(Opened(c), l)
             /\ At(kept, l) = At(Opened(c), l)
<1> DEFINE t   == TidOf(c)
           new == NewVersion(j, t, v)
           os  == kept \cup {new}
<1>1. /\ new \in ObjectUpTo(transaction_id + 1)
      /\ new.key = j /\ new.tid = t /\ new.xid = 0
  BY NewVersionType
<1>2. kept \in SUBSET ObjectUpTo(transaction_id + 1)
  BY Starts, SetXidType
<1>3. At(os, k) = At(kept, k)
  BY <1>1 DEF At
<1>4. StructureAt(os, ActiveIn(c), k)
  <2>1. StructureAt(kept, ActiveIn(c), k)
    BY Starts, StructureExpired DEF Sound
  <2> QED BY <1>3, <2>1, StructureSame DEF At
<1>5. KeepsOthers(Opened(c), os, k, t)
  BY Starts, ExpireKeepsOthers, AddKeepsOthers
<1>6. ~ Contended(Opened(c), k, t, ActiveIn(c))
  <2>1. ConflictAt(Opened(c), k, t, ActiveIn(c))
    BY Starts, ConflictOfStructure
  <2> QED BY <2>1 DEF ConflictAt
<1>7. t \in HoldersIn(os, ActiveIn(c), k)
  <2>1. t \in HoldersIn(kept, ActiveIn(c), k)
    BY Starts, ExpireHolds
  <2> QED BY <1>3, <2>1, SameVersions
<1>8. At(kept, l) = At(Opened(c), l)
  BY Starts, ExpireOther
<1>9. l # j => At(os, l) = At(kept, l)
  BY <1>1 DEF At
<1> QED BY <1>1, <1>2, <1>4, <1>5, <1>6, <1>7, <1>8, <1>9

(* What the row of k has been expired with is on the pages of the          *)
(* statement.                                                              *)
LEMMA ExpiredEnded ==
  ASSUME IInv, NEW c \in Conn, NEW k \in Key, NEW j \in Key, NEW v \in Value,
         NEW kept, kept = SetXid(Opened(c), Rows(Opened(c), k, TidOf(c), ActiveIn(c)), TidOf(c)),
         NEW lf \in Layouts(kept, j), SetLeaf(lf),
         IsolationEnd(c, kept \cup {NewVersion(j, TidOf(c), v)}, lf, Written(lf, {k, j}))
  PROVE  Ended(c, kept \cup {NewVersion(j, TidOf(c), v)})
<1> DEFINE t   == TidOf(c)
           new == NewVersion(j, t, v)
           os  == kept \cup {new}
<1>1. new.tid = t /\ new.xid = 0
  BY NewVersionType
<1>2. lf[k] \in Written(lf, {k, j})
  <2>1. {k, j} \in SUBSET Key
    OBVIOUS
  <2> QED BY <2>1, Starts, WrittenHere
<1>3. ASSUME txn[c] = 0, NEW o \in os, o.xid = t
      PROVE  /\ lf[o.key] \in Written(lf, {k, j})
             /\ \A p \in os : p.key = o.key /\ p.tid = o.tid => p.xid = t
  <2>1. o \in kept
    BY <1>1, <1>3, Starts
  <2>2. /\ o.key = k /\ o.tid # t
        /\ \A p \in kept : p.key = o.key /\ p.tid = o.tid => p.xid = t
    BY <1>3, <2>1, ExpiredHere
  <2> QED BY <1>1, <1>2, <2>2
<1> HIDE DEF os, t
<1>4. Ended(c, os)
  BY <1>3, EndedHere DEF os, t
<1> QED BY <1>4 DEF os, t

(* UPDATE that changes the PRIMARY KEY. *)
LEMMA MoveIs ==
  ASSUME IInv, NEW c \in Conn, NEW k \in Key, NEW j \in Key, NEW v \in Value, Move(c, k, j, v)
  PROVE  Statement(c, Sound)
<1> DEFINE t    == TidOf(c)
           act  == ActiveIn(c)
           rows == Rows(Opened(c), k, t, act)
           kept == SetXid(Opened(c), rows, t)
           new  == NewVersion(j, t, v)
           os   == kept \cup {new}
<1>1. PICK lf \in Layouts(kept, j) :
        IsolationEnd(c, os, lf, Written(lf, {k, j})) /\ SetLeaf(lf)
  BY DEF Move, EndStatement, IsolationEnd, NewVersion
<1>2. /\ rows # {} /\ ~ DeleteConflict(Opened(c), k, t, act)
      /\ k \in Sound /\ j \in Sound /\ k # j /\ CanInsert(kept, j, t, act)
  BY DEF Move
<1>3. Ended(c, os)
  BY <1>1, ExpiredEnded
<1>4. /\ os \in SUBSET ObjectUpTo(transaction_id + 1)
      /\ KeepsOthers(Opened(c), os, k, t)
      /\ ~ Contended(Opened(c), k, t, act)
      /\ t \in HoldersIn(os, act, k)
      /\ At(kept, j) = At(Opened(c), j)
  BY <1>2, ExpiredWrote
<1>5. \A l \in Sound \ {k, j} : At(os, l) = At(Opened(c), l)
  BY <1>2, ExpiredWrote
<1>6. \A l \in Sound : StructureAt(os, act, l)
  <2>1. kept \in SUBSET ObjectUpTo(transaction_id + 1)
    BY Starts, SetXidType
  <2>2. \A l \in Sound : StructureAt(kept, act, l)
    BY <1>2, Starts, StructureExpired
  <2> HIDE DEF kept
  <2> QED BY <1>2, <2>1, <2>2, Starts, StructureInserted DEF NewVersion
<1>7. KeepsOthers(Opened(c), os, j, t)
  BY <1>4, NothingKeepsOthers, AddKeepsOthers
<1>8. ~ Contended(Opened(c), j, t, act)
  BY <1>2, <1>4 DEF CanInsert, Contended, At
<1>9. t \in HoldersIn(os, act, j)
  BY NewVersionType, Starts DEF HoldersIn, At
<1> HIDE DEF os, t, act
<1>10. Wrote(c, os, {k, j}, Sound)
  BY <1>4, <1>5, <1>6, <1>7, <1>8, <1>9 DEF Wrote, t, act
<1> QED BY <1>3, <1>10 DEF Statement

(* A third version damages its key. The statement does the same to the     *)
(* other keys.                                                             *)
LEMMA ThirdVersionIs ==
  ASSUME IInv, NEW c \in Conn, NEW k \in Key, NEW v \in Value, ThirdVersion(c, k, v)
  PROVE  Statement(c, Sound \ {k}) /\ damaged' = damaged \cup {k} /\ k \in Sound
<1> DEFINE t   == TidOf(c)
           act == ActiveIn(c)
           new == NewVersion(k, t, v)
<1>1. k \in Sound /\ damaged' = damaged \cup {k} /\ Sound \subseteq Key
  BY DEF ThirdVersion, AddThird, Sound
<1>2. /\ new \in ObjectUpTo(transaction_id + 1)
      /\ new.key = k /\ new.tid = t /\ new.xid = 0
  BY NewVersionType
<1>3. ASSUME NEW kept, NEW ks, AddThird(c, kept, ks, k, v)
      PROVE  \E lf \in Layouts(kept, k) :
               IsolationEnd(c, kept \cup {new}, lf, Written(lf, ks)) /\ SetLeaf(lf)
  BY <1>3 DEF AddThird, Layouts, IsolationEnd, NewVersion
<1>4. ASSUME NEW kept, kept \in SUBSET ObjectUpTo(transaction_id + 1),
             Ended(c, kept \cup {new}),
             \A l \in Sound \ {k} : At(kept, l) = At(Opened(c), l)
      PROVE  Statement(c, Sound \ {k})
  <2> DEFINE os == kept \cup {new}
  <2>1. \A l \in Sound \ {k} : At(os, l) = At(Opened(c), l)
    BY <1>2, <1>4 DEF At
  <2>2. \A l \in Sound \ {k} : StructureAt(os, act, l)
    BY <2>1, Starts, StructureSame DEF At
  <2>3. os \in SUBSET ObjectUpTo(transaction_id + 1)
    BY <1>2, <1>4
  <2> HIDE DEF os
  <2>4. Wrote(c, os, {k}, Sound \ {k})
    BY <2>1, <2>2, <2>3 DEF Wrote
  <2>5. Ended(c, os)
    BY <1>4 DEF os
  <2> QED BY <2>4, <2>5 DEF Statement
<1>5. ASSUME AddThird(c, Opened(c), {k}, k, v)
      PROVE  Statement(c, Sound \ {k})
  <2>1. PICK lf : IsolationEnd(c, Opened(c) \cup {new}, lf, Written(lf, {k}))
    BY <1>3, <1>5
  <2>2. txn[c] = 0 => \A o \in Opened(c) \cup {new} : o.xid # t
    BY <1>2, Starts, OpenedStructure
  <2> DEFINE os == Opened(c) \cup {new}
  <2>3. Ended(c, os)
    <3> HIDE DEF os
    <3> QED BY <2>1, <2>2, EndedHere DEF os
  <2> QED BY <1>4, <2>3, Starts
<1>6. ASSUME AddThird(c, PageUpdate(Opened(c), k, t), {k}, k, v)
      PROVE  Statement(c, Sound \ {k})
  <2> DEFINE kept == PageUpdate(Opened(c), k, t)
             os   == kept \cup {new}
  <2>1. PICK lf \in Layouts(kept, k) : IsolationEnd(c, os, lf, Written(lf, {k})) /\ SetLeaf(lf)
    BY <1>3, <1>6
  <2>2. ASSUME txn[c] = 0, NEW o \in os, o.xid = t
        PROVE  /\ lf[o.key] \in Written(lf, {k})
               /\ \A p \in os : p.key = o.key /\ p.tid = o.tid => p.xid = t
    <3>1. o \in kept
      BY <1>2, <2>2, Starts
    <3>2. o.key = k /\ o.tid # t /\ \A p \in kept : p.key = k => p.xid = t
      BY <2>2, <3>1, UpdatedHere
    <3>3. lf[k] \in Written(lf, {k})
      BY <2>1, Starts, WrittenHere
    <3> QED BY <1>2, <3>2, <3>3
  <2>3. kept \in SUBSET ObjectUpTo(transaction_id + 1)
    BY Starts, PageDeleteSubset, SetXidType DEF PageUpdate
  <2>4. ASSUME NEW l \in Sound \ {k}
        PROVE  At(kept, l) = At(Opened(c), l)
    <3>1. l # k /\ \A o : o.key = l => (o \in kept <=> o \in Opened(c))
      BY <2>4, Starts, PageUpdateOther
    <3> QED BY <3>1 DEF At
  <2>5. Ended(c, os)
    <3> HIDE DEF os, t
    <3> QED BY <2>1, <2>2, EndedHere DEF t
  <2> HIDE DEF kept
  <2> QED BY <1>4, <2>3, <2>4, <2>5
<1> DEFINE moved(j) == SetXid(Opened(c), Rows(Opened(c), j, t, act), t)
<1>7. ASSUME NEW j \in Sound \ {k}, Rows(Opened(c), j, t, act) # {},
             ~ DeleteConflict(Opened(c), j, t, act), AddThird(c, moved(j), {k, j}, k, v)
      PROVE  Statement(c, Sound \ {k})
  <2> DEFINE kept == moved(j)
             os   == kept \cup {new}
  <2>1. PICK lf \in Layouts(kept, k) :
          IsolationEnd(c, os, lf, Written(lf, {j, k})) /\ SetLeaf(lf)
    <3>1. {j, k} = {k, j}
      OBVIOUS
    <3> QED BY <1>3, <1>7, <3>1
  <2>2. Ended(c, os)
    BY <1>1, <2>1, ExpiredEnded
  <2>3. /\ os \in SUBSET ObjectUpTo(transaction_id + 1)
        /\ StructureAt(os, act, j)
        /\ KeepsOthers(Opened(c), os, j, t)
        /\ ~ Contended(Opened(c), j, t, act)
        /\ t \in HoldersIn(os, act, j)
    BY <1>1, <1>7, ExpiredWrote
  <2>4. \A l \in Sound \ {k, j} : At(os, l) = At(Opened(c), l)
    BY <1>1, <1>7, ExpiredWrote
  <2>5. \A l \in Sound \ {k, j} : StructureAt(os, act, l)
    BY <2>4, Starts, StructureSame DEF At
  <2> HIDE DEF os, t, act
  <2>6. Wrote(c, os, {k, j}, Sound \ {k})
    BY <2>3, <2>4, <2>5 DEF Wrote, t, act
  <2> QED BY <2>2, <2>6 DEF Statement
<1>8. Statement(c, Sound \ {k})
  BY <1>5, <1>6, <1>7 DEF ThirdVersion
<1> QED BY <1>1, <1>8

-----------------------------------------------------------------------------
(* Every action, seen by the readers of a key.                             *)

(* Opening the file: recovery and a new ID change no committed row, nor    *)
(* what a transaction that isn't dead finds where it has changed a row.    *)
LEMMA OpenedView ==
  ASSUME IInv, NEW c \in Conn, NEW k \in Sound
  PROVE  /\ Values(Opened(c), k, 0, ActiveIn(c)) = Values(objects, k, 0, active)
         /\ HoldersIn(Opened(c), ActiveIn(c), k) = HoldersIn(objects, active, k) \ Dead(c)
         /\ \A u \in HoldersIn(objects, active, k) \ Dead(c) :
              Rows(Opened(c), k, u, ActiveIn(c)) = Rows(objects, k, u, active)
<1> DEFINE os == Opened(c)
           H  == HoldersIn(objects, active, k) \ Dead(c)
<1>1. /\ transaction_id \in Nat /\ objects \in SUBSET ObjectUpTo(transaction_id)
      /\ active \in SUBSET (1 .. transaction_id) /\ Dead(c) \in SUBSET active
      /\ leaf[k] \in 1 .. total_pages
      /\ StructureAt(objects, active, k)
  BY StructureNow DEF IInv, TypeOK, ObjectUpTo, Dead, Sound, Structure
<1>2. /\ Values(os, k, 0, Live(c)) = Values(objects, k, 0, active)
      /\ HoldersIn(os, Live(c), k) = H
      /\ \A u \in H : Rows(os, k, u, Live(c)) = Rows(objects, k, u, active)
  <2> DEFINE D == Dead(c)
             pages == 1 .. total_pages
             rs == Undo(objects, leaf, D, pages)
  <2>1. /\ transaction_id \in Nat /\ objects \in SUBSET ObjectUpTo(transaction_id)
        /\ active \in SUBSET (1 .. transaction_id) /\ D \in SUBSET active
        /\ leaf[k] \in pages /\ StructureAt(objects, active, k)
    BY <1>1
  <2> HIDE DEF D, pages
  <2> Undoable(transaction_id, objects, active, D, leaf, pages, k)
    BY <2>1 DEF Undoable
  <2>2. Values(rs, k, 0, active \ D) = Values(objects, k, 0, active)
    BY UndoneView
  <2>3. HoldersIn(rs, active \ D, k) = HoldersIn(objects, active, k) \ D
    BY UndoneHolders
  <2>4. \A u \in HoldersIn(objects, active, k) \ D :
          Rows(rs, k, u, active \ D) = Rows(objects, k, u, active)
    BY UndoneOthers
  <2>5. os = rs /\ Live(c) = active \ D
    BY DEF Opened, Live, D, pages
  <2> QED BY <2>2, <2>3, <2>4, <2>5 DEF D
<1>4. CASE txn[c] # 0
  <2>1. ActiveIn(c) = Live(c)
    BY <1>4, OpenedStructure
  <2> QED BY <1>2, <2>1
<1>5. CASE txn[c] = 0
  <2>1. ActiveIn(c) = Live(c) \cup {TidOf(c)}
    BY DEF ActiveIn
  <2>2. \A o \in At(os, k) : o.tid # TidOf(c) /\ o.xid # TidOf(c)
    BY <1>5, OpenedStructure DEF At
  <2>4. /\ HoldersIn(os, ActiveIn(c), k) = HoldersIn(os, Live(c), k)
        /\ \A u \in Live(c) \cup {0} : Rows(os, k, u, ActiveIn(c)) = Rows(os, k, u, Live(c))
    <3> DEFINE L == Live(c)
               t == TidOf(c)
    <3>1. 0 \notin L /\ t # 0 /\ StructureAt(os, L, k) /\ Unused(os, k, t)
      BY <2>2, Starts, OpenedStructure DEF Unused
    <3> HIDE DEF os, L, t
    <3>2. HoldersIn(os, L \cup {t}, k) = HoldersIn(os, L, k)
      BY ONLY <3>1, FreshHolders
    <3>3. ASSUME NEW u \in L \cup {0}
          PROVE  Rows(os, k, u, L \cup {t}) = Rows(os, k, u, L)
      BY ONLY <3>1, <3>3, FreshView
    <3> QED BY <2>1, <3>2, <3>3 DEF L, t
  <2>5. \A u \in H : u \in Live(c)
    BY DEF HoldersIn, Live
  <2> HIDE DEF H, os
  <2> QED BY <1>2, <2>4, <2>5 DEF Values, H, os
<1> QED BY <1>4, <1>5

(* A statement of an explicit transaction. *)
LEMMA StatementView ==
  ASSUME IInv, NEW c \in Conn, NEW K \in SUBSET Sound, Statement(c, K), txn[c] # 0, NEW k \in K
  PROVE  Values(objects', k, 0, active') = Values(objects, k, 0, active)
<1>1. PICK os, ks : Wrote(c, os, ks, K) /\ Ended(c, os)
  BY DEF Statement
<1>2. objects' = os /\ active' = ActiveIn(c)
  BY <1>1, OpenedStructure DEF Ended
<1>3. KeepsOthers(Opened(c), os, k, TidOf(c))
  <2>1. CASE k \in ks
    BY <1>1, <2>1 DEF Wrote
  <2>2. CASE k \notin ks
    <3>1. At(os, k) = At(Opened(c), k)
      BY <1>1, <2>2 DEF Wrote
    <3> QED BY <3>1, NothingKeepsOthers
  <2> QED BY <2>1, <2>2
<1>4. StructureAt(os, ActiveIn(c), k) /\ StructureAt(Opened(c), ActiveIn(c), k)
  BY <1>1, Starts DEF Wrote
<1>5. Values(os, k, 0, ActiveIn(c)) = Values(Opened(c), k, 0, ActiveIn(c))
  <2> DEFINE act == ActiveIn(c)
             t == TidOf(c)
             ops == Opened(c)
  <2>1. /\ 0 \notin act /\ t \in act
        /\ StructureAt(ops, act, k) /\ StructureAt(os, act, k) /\ KeepsOthers(ops, os, k, t)
    BY <1>3, <1>4, Starts
  <2> HIDE DEF act, t, ops
  <2>2. Values(os, k, 0, act) = Values(ops, k, 0, act)
    BY ONLY <2>1, WriteView
  <2> QED BY <2>2 DEF act, ops
<1> QED BY <1>2, <1>5, OpenedView

(* The versions of a key that the end of a transaction doesn't damage.     *)
LEMMA EndTransactionView ==
  ASSUME IInv, NEW c \in Conn, NEW os, NEW intended, EndTransaction(c, os, intended),
         NEW k \in Sound'
  PROVE  k \in Sound /\ At(objects', k) = At(intended, k)
BY DEF EndTransaction, Sound, Differ, At

(* COMMIT makes what the transaction found at a key the committed row.     *)
LEMMA CommitView ==
  ASSUME IInv, NEW c \in Conn, txn[c] # 0, NEW k \in Sound, active' = Live(c) \ {txn[c]},
         At(objects', k) = At(Unexpired(Opened(c), txn[c]), k)
  PROVE  /\ txn[c] \in HoldersIn(objects, active, k) =>
              Values(objects', k, 0, active') = Values(objects, k, txn[c], active)
         /\ txn[c] \notin HoldersIn(objects, active, k) =>
              Values(objects', k, 0, active') = Values(objects, k, 0, active)
<1> DEFINE t  == txn[c]
           os == Opened(c)
           ps == Unexpired(os, t)
<1>1. /\ TidOf(c) = t /\ ActiveIn(c) = Live(c) /\ t \in ActiveIn(c)
      /\ StructureAt(os, ActiveIn(c), k) /\ t \notin Dead(c)
  BY OpenedStructure DEF TidOf, Dead
<1>2. Rows(ps, k, 0, active') = Rows(os, k, t, ActiveIn(c))
  <2> DEFINE act == ActiveIn(c)
  <2>1. 0 \notin act /\ t \in act /\ StructureAt(os, act, k)
    BY <1>1, Starts
  <2> HIDE DEF act, t, os
  <2>2. Rows(ps, k, 0, act \ {t}) = Rows(os, k, t, act)
    BY ONLY <2>1, EndedView
  <2>3. active' = act \ {t}
    BY <1>1 DEF act, t
  <2> QED BY <2>2, <2>3 DEF act
<1>3. Rows(objects', k, 0, active') = Rows(ps, k, 0, active')
  BY SameVersions
<1> HIDE DEF os, ps
<1>4. ASSUME t \in HoldersIn(objects, active, k)
      PROVE  Rows(os, k, t, ActiveIn(c)) = Rows(objects, k, t, active)
  BY <1>1, <1>4, OpenedView DEF os
<1>5. ASSUME t \notin HoldersIn(objects, active, k)
      PROVE  Values(os, k, t, ActiveIn(c)) = Values(objects, k, 0, active)
  <2>1. t \notin HoldersIn(os, ActiveIn(c), k)
    BY <1>5, OpenedView DEF os
  <2>2. Rows(os, k, t, ActiveIn(c)) = Rows(os, k, 0, ActiveIn(c))
    BY <1>1, <2>1, Starts, OthersFindCommitted
  <2> QED BY <2>2, OpenedView DEF Values, os
<1> QED BY <1>2, <1>3, <1>4, <1>5 DEF Values

(* ROLLBACK leaves the committed row as it was, and nothing else.          *)
LEMMA RollbackView ==
  ASSUME IInv, NEW c \in Conn, txn[c] # 0, NEW k \in Sound, active' = Live(c) \ {txn[c]},
         NEW pages, leaf[k] \in pages,
         At(objects', k) = At(Undo(Opened(c), leaf, {txn[c]}, pages), k)
  PROVE  /\ Values(objects', k, 0, active') = Values(objects, k, 0, active)
         /\ \A o \in At(objects', k) : o.tid # txn[c] /\ o.xid # txn[c]
<1> DEFINE t  == txn[c]
           os == Opened(c)
           rs == Undo(os, leaf, {t}, pages)
<1>1. /\ ActiveIn(c) = Live(c) /\ {t} \in SUBSET ActiveIn(c)
      /\ StructureAt(os, ActiveIn(c), k)
  BY OpenedStructure DEF TidOf
<1>2. /\ Values(rs, k, 0, active') = Values(os, k, 0, ActiveIn(c))
      /\ \A r \in At(rs, k) : r.tid \notin {t} /\ r.xid \notin {t}
  <2> DEFINE n == transaction_id + 1
             act == ActiveIn(c)
             D == {t}
  <2>1. /\ n \in Nat /\ os \in SUBSET ObjectUpTo(n) /\ act \in SUBSET (1 .. n)
        /\ D \in SUBSET act /\ leaf[k] \in pages /\ StructureAt(os, act, k)
    BY <1>1, Starts
  <2>2. active' = act \ D
    BY <1>1
  <2>3. rs = Undo(os, leaf, D, pages)
    OBVIOUS
  <2> HIDE DEF n, act, os, D, rs
  <2> Undoable(n, os, act, D, leaf, pages, k)
    BY <2>1 DEF Undoable
  <2>4. Values(Undo(os, leaf, D, pages), k, 0, act \ D) = Values(os, k, 0, act)
    BY UndoneView
  <2>5. \A r \in At(Undo(os, leaf, D, pages), k) : r.tid \notin D /\ r.xid \notin D
    BY UndoneVersions
  <2> QED BY <2>2, <2>3, <2>4, <2>5 DEF act, D
<1>3. Rows(objects', k, 0, active') = Rows(rs, k, 0, active')
  <2> HIDE DEF rs
  <2>1. At(objects', k) = At(rs, k)
    BY DEF rs
  <2> QED BY <2>1, SameVersions
<1> HIDE DEF rs
<1>4. Values(objects', k, 0, active') = Values(rs, k, 0, active')
  BY <1>3 DEF Values
<1>5. \A o \in At(objects', k) : o.tid # t /\ o.xid # t
  BY <1>2 DEF rs
<1> QED BY <1>2, <1>4, <1>5, OpenedView

(* Nothing else changes a row, or the IDs that are active.                 *)
LEMMA SameFile ==
  ASSUME UNCHANGED <<objects, active>>, NEW k
  PROVE  Committed(k)' = Committed(k)
BY DEF Committed, Rows, Visible

(* Statements only change committed rows outside of a transaction, with an *)
(* ID of their own that ends with them.                                    *)
LEMMA StatementChange ==
  ASSUME IInv, NEW c \in Conn, Statement(c, Sound'), Sound' \subseteq Sound
  PROVE  CommittedChange
<1>1. CASE txn[c] # 0
  <2>1. \A k \in Sound' : Values(objects', k, 0, active') = Values(objects, k, 0, active)
    BY <1>1, StatementView
  <2> QED BY <2>1 DEF CommittedChange, Committed, Values
<1>2. CASE txn[c] = 0
  <2>1. transaction_id' = TidOf(c) /\ active' = Live(c)
    BY <1>2 DEF Statement, Ended
  <2>2. TidOf(c) = transaction_id + 1
    BY <1>2, Starts, TidType
  <2> QED BY <2>1, <2>2, Starts DEF CommittedChange
<1> QED BY <1>1, <1>2

(* START TRANSACTION. *)
LEMMA StartChange ==
  ASSUME IInv, NEW c \in Conn, StartTransaction(c), NEW k \in Sound
  PROVE  Values(objects', k, 0, active') = Values(objects, k, 0, active)
BY OpenedView DEF StartTransaction

(* COMMIT. *)
LEMMA CommitChange ==
  ASSUME IInv, NEW c \in Conn, Commit(c), NEW k \in Sound', txn[c] \notin Holders(k)
  PROVE  Committed(k)' = Committed(k)
<1>1. txn[c] # 0 /\ active' = Live(c) \ {txn[c]}
  BY DEF Commit, EndTransaction
<1>2. k \in Sound /\ At(objects', k) = At(Unexpired(Opened(c), txn[c]), k)
  BY EndTransactionView DEF Commit, Unexpired
<1>3. txn[c] \notin HoldersIn(objects, active, k)
  BY DEF Holders, HoldersIn, At
<1>4. Values(objects', k, 0, active') = Values(objects, k, 0, active)
  BY <1>1, <1>2, <1>3, CommitView
<1> QED BY <1>4 DEF Committed, Values

(* ROLLBACK. *)
LEMMA RollbackChange ==
  ASSUME IInv, NEW c \in Conn, Rollback(c), NEW k \in Sound'
  PROVE  Committed(k)' = Committed(k)
<1> DEFINE pages == 1 .. total_pages
<1>1. txn[c] # 0 /\ active' = Live(c) \ {txn[c]}
  BY DEF Rollback, EndTransaction
<1>2. k \in Sound /\ At(objects', k) = At(Undo(Opened(c), leaf, {txn[c]}, pages), k)
  BY EndTransactionView DEF Rollback
<1>3. leaf[k] \in pages
  BY <1>2 DEF IInv, TypeOK, Sound
<1> HIDE DEF pages
<1>4. Values(objects', k, 0, active') = Values(objects, k, 0, active)
  BY <1>1, <1>2, <1>3, RollbackView
<1> QED BY <1>4 DEF Committed, Values

(* Every step keeps the committed rows, but for those of a COMMIT or an    *)
(* implicit transaction.                                                   *)
LEMMA CommittedStep == IInv /\ [Next]_vars => [CommittedChange]_vars
<1> SUFFICES ASSUME IInv, [Next]_vars
             PROVE  [CommittedChange]_vars
  OBVIOUS
<1>1. ASSUME NEW c \in Conn, Statement(c, Sound), UNCHANGED damaged
      PROVE  CommittedChange
  <2>1. Sound' = Sound
    BY <1>1 DEF Sound
  <2> QED BY <1>1, <2>1, StatementChange
<1>2. ASSUME NEW c \in Conn, NEW k \in Key, NEW v \in Value, Insert(c, k, v)
      PROVE  CommittedChange
  BY <1>1, <1>2, InsertIs DEF Insert, EndStatement
<1>3. ASSUME NEW c \in Conn, NEW k \in Key, NEW v \in Value, Update(c, k, v)
      PROVE  CommittedChange
  BY <1>1, <1>3, UpdateIs DEF Update, EndStatement
<1>4. ASSUME NEW c \in Conn, NEW k \in Key, Delete(c, k)
      PROVE  CommittedChange
  BY <1>1, <1>4, DeleteIs DEF Delete, EndStatement
<1>5. ASSUME NEW c \in Conn, NEW k \in Key, NEW j \in Key, NEW v \in Value, Move(c, k, j, v)
      PROVE  CommittedChange
  BY <1>1, <1>5, MoveIs DEF Move, EndStatement
<1>6. ASSUME NEW c \in Conn, NEW k \in Key, NEW v \in Value, ThirdVersion(c, k, v)
      PROVE  CommittedChange
  <2>1. Statement(c, Sound \ {k}) /\ damaged' = damaged \cup {k}
    BY <1>6, ThirdVersionIs
  <2>2. Sound' = Sound \ {k}
    BY <2>1 DEF Sound
  <2> QED BY <2>1, <2>2, StatementChange
<1>7. ASSUME NEW c \in Conn, StartTransaction(c)
      PROVE  CommittedChange
  <2>1. Sound' = Sound
    BY <1>7 DEF StartTransaction, Sound
  <2>2. \A k \in Sound : Values(objects', k, 0, active') = Values(objects, k, 0, active)
    BY <1>7, StartChange
  <2> QED BY <2>1, <2>2 DEF CommittedChange, Committed, Values
<1>8. ASSUME NEW c \in Conn, Commit(c)
      PROVE  CommittedChange
  BY <1>8, CommitChange DEF CommittedChange
<1>9. ASSUME NEW c \in Conn, Rollback(c)
      PROVE  CommittedChange
  BY <1>9, RollbackChange DEF CommittedChange
<1>10. ASSUME NEW c \in Conn, Conflict(c) \/ RollbackFails(c) \/ Open(c) \/ Close(c)
       PROVE  CommittedChange
  <2>1. UNCHANGED <<objects, active>>
    BY <1>10 DEF Conflict, RollbackFails, Open, Close, file
  <2> QED BY <2>1, SameFile DEF CommittedChange
<1> QED
  BY <1>2, <1>3, <1>4, <1>5, <1>6, <1>7, <1>8, <1>9, <1>10 DEF Next

-----------------------------------------------------------------------------
(* The theorems. *)

(* A committed row changes only when a transaction that held its key       *)
(* commits, or a statement outside of a transaction writes it: recovery,   *)
(* ROLLBACK, conflicts, crashes and the statements of open transactions    *)
(* keep it (storage.v open, recover, isolation_end; rollback_transaction). *)
THEOREM CommittedStays == Spec => CommittedStable
<1>1. IInv /\ [Next]_vars => [CommittedChange]_vars
  BY CommittedStep
<1> QED BY <1>1, Invariance, PTL DEF Spec, CommittedStable

(* COMMIT of a key that is on the pages the transaction remembers removes  *)
(* what the transaction expired there, and nothing else, although it looks *)
(* for it by key and tid (commit_transaction).                             *)
LEMMA CommitRemoves ==
  ASSUME IInv, NEW c \in Conn, NEW k \in Sound, Commit(c), Remembered(c, k), OneVersion(c, k)
  PROVE  At(objects', k) = At(Unexpired(Opened(c), txn[c]), k)
<1> DEFINE t     == txn[c]
           pages == transaction_pages[c]
           os    == Opened(c)
           S     == {o \in os : o.xid = t /\ leaf[o.key] \in pages}
<1>1. objects' = PageDelete(os, S) /\ t # 0
  BY DEF Commit, EndTransaction, RemoveExpired
<1>2. StructureAt(os, ActiveIn(c), k) /\ t \in ActiveIn(c) /\ t \in active /\ t \notin Dead(c)
  BY <1>1, OpenedStructure DEF TidOf, IInv, LiveTransactions, Dead
<1>3. ASSUME t \in HoldersIn(objects, active, k)
      PROVE  At(os, k) = At(objects, k)
  <2>1. 0 \notin active /\ Dead(c) \in SUBSET active /\ StructureAt(objects, active, k)
    BY StructureNow, Starts DEF IInv, Structure, Dead
  <2>2. \A o \in At(objects, k) : o.tid \notin Dead(c) /\ o.xid \notin Dead(c)
    BY <1>2, <1>3, <2>1, UndoneApart
  <2>3. transaction_id \in Nat /\ objects \in SUBSET ObjectUpTo(transaction_id)
    BY DEF IInv, TypeOK, ObjectUpTo
  <2> QED BY <2>2, <2>3, UndoneNothing DEF Opened
<1>4. ASSUME NEW o \in At(os, k), o.tid = t \/ o.xid = t
      PROVE  t \in HoldersIn(objects, active, k)
  <2>1. t \in HoldersIn(os, ActiveIn(c), k)
    BY <1>2, <1>4 DEF HoldersIn
  <2> QED BY <2>1, OpenedView
<1>5. ASSUME NEW o \in At(os, k), o.xid = t
      PROVE  leaf[k] \in pages
  <2>1. o \in objects /\ o.key = k
    BY <1>3, <1>4, <1>5 DEF At
  <2> QED BY <1>5, <2>1 DEF Remembered
<1>6. ASSUME NEW o \in At(os, k), NEW e \in At(os, k), e.xid = t, e.tid = o.tid
      PROVE  o.xid = t
  <2> SUFFICES ASSUME o # e
               PROVE  FALSE
    BY <1>6
  <2>1. o \in os /\ e \in os /\ o.key = k /\ e.key = k
    BY DEF At
  <2>2. PICK u \in ActiveIn(c) : (o.xid = u /\ e.tid = u) \/ (e.xid = u /\ o.tid = u)
    BY <1>2, <2>1 DEF StructureAt
  <2>3. e.tid \in ActiveIn(c)
    BY <1>6, <2>2
  <2>4. e.tid = t /\ o.tid = t
    BY <1>1, <1>2, <1>6, <2>1, <2>3 DEF StructureAt
  <2>5. o \in At(objects, k) /\ e \in At(objects, k)
    BY <1>3, <1>4, <1>6
  <2> QED BY <2>4, <2>5 DEF OneVersion, Own, At
<1>7. ASSUME NEW o \in At(os, k)
      PROVE  o \in objects' <=> o.xid # t
  <2>1. o \in os /\ o.key = k
    BY DEF At
  <2>2. o.xid = t => o \in S
    BY <1>5, <2>1
  <2>3. ASSUME NEW e \in S, e.key = o.key, e.tid = o.tid
        PROVE  o.xid = t
    <3>1. e \in At(os, k) /\ e.xid = t
      BY <2>1, <2>3 DEF At
    <3> QED BY <1>6, <2>3, <3>1
  <2> QED BY <1>1, <2>1, <2>2, <2>3 DEF PageDelete
<1>8. objects' \subseteq os
  BY <1>1, PageDeleteSubset
<1> HIDE DEF os, t, S, pages
<1>9. At(objects', k) = At(Unexpired(os, t), k)
  BY <1>7, <1>8 DEF At, Unexpired
<1> QED BY <1>9 DEF os, t

(* COMMIT publishes what the transaction saw, no more and no less.         *)
LEMMA CommitStepExact ==
  ASSUME IInv, NEW c \in Conn, NEW k \in Sound, Commit(c), Remembered(c, k), OneVersion(c, k)
  PROVE  Publishes(c, k)
<1>1. txn[c] # 0 /\ active' = Live(c) \ {txn[c]}
  BY DEF Commit, EndTransaction
<1>2. At(objects', k) = At(Unexpired(Opened(c), txn[c]), k)
  BY CommitRemoves
<1>3. /\ txn[c] \in HoldersIn(objects, active, k) =>
           Values(objects', k, 0, active') = Values(objects, k, txn[c], active)
      /\ txn[c] \notin HoldersIn(objects, active, k) =>
           Values(objects', k, 0, active') = Values(objects, k, 0, active)
  BY <1>1, <1>2, CommitView
<1>4. txn[c] \notin HoldersIn(objects, active, k) =>
        Values(objects, k, txn[c], active) = Values(objects, k, 0, active)
  <2>1. txn[c] \in active /\ 0 \notin active /\ StructureAt(objects, active, k)
    BY <1>1, StructureNow, Starts DEF IInv, Structure, LiveTransactions
  <2>2. txn[c] \notin HoldersIn(objects, active, k) =>
          Rows(objects, k, txn[c], active) = Rows(objects, k, 0, active)
    BY <2>1, OthersFindCommitted
  <2> QED BY <2>2 DEF Values
<1>5. Values(objects', k, 0, active') = Values(objects, k, txn[c], active)
  BY <1>3, <1>4
<1> QED BY <1>5 DEF Publishes, Committed, View, Values

(* COMMIT publishes what the transaction saw of every key whose changes    *)
(* are on the pages it remembers and which it hasn't expired two versions  *)
(* of (commit_transaction, Page.update).                                   *)
THEOREM CommitIsExact == Spec => CommitExact
<1> DEFINE A == \A c \in Conn, k \in Sound :
                  Commit(c) /\ Remembered(c, k) /\ OneVersion(c, k) => Publishes(c, k)
<1>1. IInv => A
  BY CommitStepExact
<1>2. Spec => [][A]_vars
  <2> HIDE DEF A
  <2> QED BY <1>1, Invariance, PTL
<1> QED BY <1>2 DEF CommitExact

(* ROLLBACK of a key that is on the pages the transaction remembers, or    *)
(* that it hasn't changed.                                                 *)
LEMMA RollbackStepExact ==
  ASSUME IInv, NEW c \in Conn, NEW k \in Sound, Rollback(c), Remembered(c, k)
  PROVE  Undoes(c, k)
<1> DEFINE t     == txn[c]
           pages == transaction_pages[c]
           os    == Opened(c)
<1>1. t # 0 /\ active' = Live(c) \ {t} /\ objects' = Undo(os, leaf, {t}, pages)
  BY DEF Rollback, EndTransaction
<1>2. /\ StructureAt(os, ActiveIn(c), k) /\ t \in ActiveIn(c) /\ t \notin Dead(c)
      /\ t \in active
  BY <1>1, OpenedStructure DEF TidOf, IInv, LiveTransactions, Dead
<1>3. /\ Values(objects', k, 0, active') = Values(objects, k, 0, active)
      /\ \A o \in At(objects', k) : o.tid # t /\ o.xid # t
  <2>1. CASE t \in HoldersIn(objects, active, k)
    <3>1. PICK o \in objects : o.key = k /\ (o.tid = t \/ o.xid = t)
      BY <2>1 DEF HoldersIn, At
    <3>2. leaf[k] \in pages
      BY <3>1 DEF Remembered
    <3> HIDE DEF pages
    <3> QED BY <1>1, <3>2, RollbackView
  <2>2. CASE t \notin HoldersIn(objects, active, k)
    <3>1. \A o \in At(os, k) : o.tid \notin {t} /\ o.xid \notin {t}
      <4>1. t \notin HoldersIn(os, ActiveIn(c), k)
        BY <2>2, OpenedView
      <4> QED BY <1>2, <4>1 DEF HoldersIn
    <3>2. At(objects', k) = At(os, k)
      BY <1>1, <3>1, Starts, UndoneNothing
    <3>3. At(objects', k) = At(Undo(os, leaf, {t}, 1 .. total_pages), k)
      BY <3>1, <3>2, Starts, UndoneNothing
    <3>4. leaf[k] \in 1 .. total_pages
      BY DEF IInv, TypeOK, Sound
    <3> QED BY <1>1, <3>3, <3>4, RollbackView
  <2> QED BY <2>1, <2>2
<1>4. Committed(k)' = Committed(k)
  BY <1>3 DEF Committed, Values
<1>5. \A o \in objects' : o.key = k => t \notin {o.tid, o.xid}
  BY <1>3 DEF At
<1> QED BY <1>4, <1>5 DEF Undoes

(* ROLLBACK leaves nothing of the transaction at a key whose changes are   *)
(* on the pages it remembers, and the committed row as it was              *)
(* (rollback_transaction).                                                 *)
THEOREM RollbackIsExact == Spec => RollbackExact
<1> DEFINE A == \A c \in Conn, k \in Sound :
                  Rollback(c) /\ Remembered(c, k) => Undoes(c, k)
<1>1. IInv => A
  BY RollbackStepExact
<1>2. Spec => [][A]_vars
  <2> HIDE DEF A
  <2> QED BY <1>1, Invariance, PTL
<1> QED BY <1>2 DEF RollbackExact
=============================================================================
