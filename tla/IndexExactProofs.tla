-------------------------- MODULE IndexExactProofs --------------------------
(***************************************************************************)
(* That an index has exactly one entry for each row in every view, that a  *)
(* UNIQUE index holds, and that a table has one index, for every set of    *)
(* connections, keys and values and every bound.                           *)
(*                                                                         *)
(* The invariant (Good) speaks of the objects alone, not of what somebody  *)
(* sees of them: each version of a row that may still be found has a twin  *)
(* among the entries of the index, which the same transactions have        *)
(* created and expired. Every statement that writes is the recovery of the *)
(* file, a new ID, a change of objects of that ID, and the end of the ID   *)
(* if it's implicit; each of these keeps the invariant on its own.         *)
(***************************************************************************)
EXTENDS IndexProofs, FiniteSetTheorems

Object ==
  {o \in [key : ObjectKey, tid : Nat \ {0}, xid : Nat, value : Value \cup {Nothing}] :
     IsRow(o) => o.value \in Value}

IndexId == 1 .. MaxIndex

-----------------------------------------------------------------------------
(* The invariant. *)

(* The versions of a key: who expires one is active, and expires only his  *)
(* own or what is committed; of two versions, one replaces the other.      *)
ExpiredByActive(os, act) == \A o \in os : o.xid # 0 => o.xid \in act

ExpiredByOwner(os, act) == \A o \in os : o.xid # 0 /\ o.tid \in act => o.xid = o.tid

Replaces(os, act) ==
  \A o, p \in os :
    o # p /\ o.key = p.key =>
      \E t \in act : (o.xid = t /\ p.tid = t) \/ (p.xid = t /\ o.tid = t)

Versioned(os, act) ==
  ExpiredByActive(os, act) /\ ExpiredByOwner(os, act) /\ Replaces(os, act)

(* A transaction has one version of an entry or a definition of its own.   *)
OneOwn(os) ==
  \A o, p \in os : ~ IsRow(o) /\ o.key = p.key /\ o.tid = p.tid => o = p

(* Who has created an entry has written the row, or created an index.      *)
Locks(o, t, k) ==
  \/ o.key = RowKey(k) /\ t \in {o.tid, o.xid}
  \/ IsDefinition(o) /\ o.tid = t

EntriesLocked(os, act) ==
  \A e \in os, i \in IndexId, v \in Value, k \in Key :
    e.key = EntryKey(i, v, k) /\ e.tid \in act => \E o \in os : Locks(o, e.tid, k)

(* Of two definitions, the transaction that created one has dropped the    *)
(* other.                                                                  *)
DefsApart(os) ==
  \A d, e \in os :
    IsDefinition(d) /\ IsDefinition(e) /\ d # e =>
      \/ d.xid # 0 /\ d.xid = e.tid
      \/ e.xid # 0 /\ e.xid = d.tid

(* Nobody but the creator of an index has changes of rows or definitions   *)
(* that aren't committed.                                                  *)
Alone(o, act, t) == (o.tid \in act => o.tid = t) /\ (o.xid # 0 => o.xid = t)

NewDefsAlone(os, act) ==
  \A d, o \in os :
    IsDefinition(d) /\ d.tid \in act /\ ~ IsEntry(o) => Alone(o, act, d.tid)

(* A version that somebody may still find, except its creator if he is the *)
(* one that has dropped the index (x is its xid).                          *)
Lasts(o, act, x) == o.tid \notin act \/ (o.tid # x /\ o.xid = 0)

(* The version of a row and that of its entry are found by the same        *)
(* transactions, except by the one that has dropped the index.             *)
Twins(r, e, act, x) ==
  /\ r.tid = e.tid \/ (r.tid \notin act /\ e.tid \notin act)
  /\ r.xid = e.xid \/ (x # 0 /\ r.xid \in {0, x} /\ e.xid \in {0, x})

(* The index i, whose definition is committed and may have been expired by *)
(* x, at the key k.                                                        *)
RowsHaveEntries(os, act, i, x, k) ==
  \A r \in os : r.key = RowKey(k) /\ Lasts(r, act, x) =>
    \E e \in os : e.key = EntryKey(i, r.value, k) /\ Lasts(e, act, x) /\ Twins(r, e, act, x)

EntriesHaveRows(os, act, i, x, k) ==
  \A e \in os, v \in Value : e.key = EntryKey(i, v, k) /\ Lasts(e, act, x) =>
    \E r \in os : r.key = RowKey(k) /\ r.value = v /\ Lasts(r, act, x) /\ Twins(r, e, act, x)

OldIndex(os, act, i, x, k) ==
  RowsHaveEntries(os, act, i, x, k) /\ EntriesHaveRows(os, act, i, x, k)

(* The index i that the active transaction t has created, at the key k.    *)
NewIndex(os, i, t, k) ==
  /\ \A r \in os : r.key = RowKey(k) /\ r.xid = 0 =>
       \E e \in os : e.key = EntryKey(i, r.value, k) /\ e.xid = 0
  /\ \A e \in os, v \in Value : e.key = EntryKey(i, v, k) =>
       /\ e.tid = t
       /\ e.xid = 0 => \E r \in os : r.key = RowKey(k) /\ r.value = v /\ r.xid = 0

Matching(os, act, ks) ==
  \A d \in os, i \in IndexId, k \in ks : d.key = DefinitionKey(i) =>
    /\ d.tid \notin act => OldIndex(os, act, i, d.xid, k)
    /\ d.tid \in act /\ d.xid = 0 => NewIndex(os, i, d.tid, k)

(* No view has both rows, now or later. *)
Apart(o, p) ==
  \/ o.xid # 0 /\ o.xid \in {o.tid, p.tid}
  \/ p.xid # 0 /\ p.xid \in {o.tid, p.tid}

(* Two rows with the same value, at keys of ks. *)
SameValue(o, p, ks) ==
  \E j, k \in ks : j # k /\ o.key = RowKey(j) /\ p.key = RowKey(k) /\ o.value = p.value

Distinct(os, act, ks) ==
  \A d, o, p \in os :
    IsDefinition(d) /\ d.key[2] \in Unique /\ SameValue(o, p, ks) =>
      /\ d.tid \notin act /\ d.xid \notin {o.tid, p.tid} => Apart(o, p)
      /\ d.tid \in act /\ d.xid = 0 => o.xid # 0 \/ p.xid # 0

Good(os, act, ks) ==
  /\ Versioned(os, act)
  /\ OneOwn(os)
  /\ EntriesLocked(os, act)
  /\ DefsApart(os)
  /\ NewDefsAlone(os, act)
  /\ Matching(os, act, ks)
  /\ Distinct(os, act, ks)

(* An explicit transaction is active, and is one connection's.             *)
Transactions ==
  /\ \A c \in Conn : txn[c] # 0 => c \in session /\ txn[c] \in active
  /\ \A c, d \in Conn : txn[c] # 0 /\ txn[c] = txn[d] => c = d

ExactInv ==
  FreshInv /\ Transactions /\ (~ ahead => Good(objects, active, Key \ damaged))

-----------------------------------------------------------------------------
(* Keys and objects. *)

(* The keys of rows, definitions and entries are different ones (row_key,  *)
(* index_object_key, Index.entry_key).                                     *)
LEMMA KeysDiffer ==
  /\ \A j, k : RowKey(j) = RowKey(k) => j = k
  /\ \A i, j : DefinitionKey(i) = DefinitionKey(j) => i = j
  /\ \A i, v, k, j, w, l : EntryKey(i, v, k) = EntryKey(j, w, l) => i = j /\ v = w /\ k = l
  /\ \A i, v, k, j : EntryKey(i, v, k) # RowKey(j)
  /\ \A i, v, k, j : EntryKey(i, v, k) # DefinitionKey(j)
  /\ \A i, j : RowKey(i) # DefinitionKey(j)
BY DEF RowKey, DefinitionKey, EntryKey

(* An object is a row, a definition or an entry, by its key.               *)
LEMMA Kinds ==
  /\ \A o, k : o.key = RowKey(k) => IsRow(o) /\ ~ IsDefinition(o) /\ ~ IsEntry(o)
  /\ \A o, i : o.key = DefinitionKey(i) =>
       IsDefinition(o) /\ ~ IsRow(o) /\ ~ IsEntry(o) /\ o.key[2] = i
  /\ \A o, i, v, k : o.key = EntryKey(i, v, k) =>
       IsEntry(o) /\ ~ IsRow(o) /\ ~ IsDefinition(o) /\ o.key[2] = i
BY DEF RowKey, DefinitionKey, EntryKey, IsRow, IsDefinition, IsEntry

LEMMA KindOf ==
  ASSUME NEW o \in Object
  PROVE  /\ IsRow(o) => \E k \in Key : o.key = RowKey(k)
         /\ IsDefinition(o) => \E i \in IndexId : o.key = DefinitionKey(i)
         /\ IsEntry(o) => \E i \in IndexId, v \in Value, k \in Key : o.key = EntryKey(i, v, k)
         /\ IsRow(o) \/ IsDefinition(o) \/ IsEntry(o)
<1>1. o.key \in ObjectKey
  BY DEF Object
<1>2. \/ \E k \in Key : o.key = RowKey(k)
      \/ \E i \in IndexId : o.key = DefinitionKey(i)
      \/ \E i \in IndexId, v \in Value, k \in Key : o.key = EntryKey(i, v, k)
  BY <1>1 DEF ObjectKey, IndexId
<1> QED BY <1>2, Kinds

(* The objects that the header's IDs allow are objects.                    *)
LEMMA ObjectsAreObjects ==
  ASSUME NEW n \in Nat, NEW i
  PROVE  ObjectUpTo(n, i) \subseteq Object
BY DEF ObjectUpTo, Object, FirstTid

LEMMA ObjectFields ==
  ASSUME NEW o \in Object
  PROVE  /\ o.tid \in Nat /\ o.tid # 0 /\ o.xid \in Nat
         /\ IsRow(o) => o.value \in Value
BY DEF Object

(* Page.delete and Page.expire find what they change by key and tid.       *)
Named(o, S) == \E e \in S : e.key = o.key /\ e.tid = o.tid

LEMMA PageDeleteHas ==
  ASSUME NEW os, NEW S, NEW o
  PROVE  o \in PageDelete(os, S) <=> o \in os /\ ~ Named(o, S)
BY DEF PageDelete, Named

(* An object and what it is after its xid was set, or not.                 *)
Kept(o, q) == q.key = o.key /\ q.tid = o.tid /\ q.value = o.value

LEMMA SetXidHas ==
  ASSUME NEW os \in SUBSET Object, NEW S, NEW x \in Nat
  PROVE  /\ SetXid(os, S, x) \in SUBSET Object
         /\ \A q \in SetXid(os, S, x) : \E o \in os :
              Kept(o, q) /\ IF Named(o, S) THEN q.xid = x ELSE q = o
         /\ \A o \in os : \E q \in SetXid(os, S, x) :
              Kept(o, q) /\ IF Named(o, S) THEN q.xid = x ELSE q = o
<1> DEFINE After(o) == IF Named(o, S) THEN [o EXCEPT !.xid = x] ELSE o
<1>1. SetXid(os, S, x) = {After(o) : o \in os}
  BY DEF SetXid, Named
<1>2. ASSUME NEW o \in os
      PROVE  /\ After(o) \in Object /\ Kept(o, After(o))
             /\ IF Named(o, S) THEN After(o).xid = x ELSE After(o) = o
  BY <1>2 DEF Object, IsRow, Kept
<1> HIDE DEF After
<1> QED BY <1>1, <1>2

(* Two objects with the same fields are one.                               *)
LEMMA SameObject ==
  ASSUME NEW o \in Object, NEW p \in Object, Kept(o, p), o.xid = p.xid
  PROVE  o = p
BY DEF Object, Kept

-----------------------------------------------------------------------------
(* A new ID, which is in no object yet (isolation_start).                  *)

LEMMA FreshGood ==
  ASSUME NEW os \in SUBSET Object, NEW act, NEW ks \in SUBSET Key, NEW t,
         \A o \in os : o.tid # t /\ o.xid # t, Good(os, act, ks)
  PROVE  Good(os, act \cup {t}, ks)
<1> DEFINE after == act \cup {t}
<1>1. \A o \in os : (o.tid \in after <=> o.tid \in act) /\ (o.xid \in after <=> o.xid \in act)
  OBVIOUS
<1>2. act \subseteq after
  OBVIOUS
<1> HIDE DEF after
<1>3. Versioned(os, after)
  BY <1>1, <1>2 DEF Good, Versioned, ExpiredByActive, ExpiredByOwner, Replaces
<1>4. EntriesLocked(os, after)
  BY <1>1 DEF Good, EntriesLocked
<1>5. NewDefsAlone(os, after)
  BY <1>1 DEF Good, NewDefsAlone, Alone
<1>6. Matching(os, after, ks)
  <2> SUFFICES ASSUME NEW d \in os, NEW i \in IndexId, NEW k \in ks, d.key = DefinitionKey(i)
               PROVE  /\ d.tid \notin after => OldIndex(os, after, i, d.xid, k)
                      /\ d.tid \in after /\ d.xid = 0 => NewIndex(os, i, d.tid, k)
    BY DEF Matching
  <2>1. /\ d.tid \notin act => OldIndex(os, act, i, d.xid, k)
        /\ d.tid \in act /\ d.xid = 0 => NewIndex(os, i, d.tid, k)
    BY DEF Good, Matching
  <2>2. \A o \in os : Lasts(o, act, d.xid) <=> Lasts(o, after, d.xid)
    BY <1>1 DEF Lasts
  <2>3. \A r, e \in os : Twins(r, e, act, d.xid) <=> Twins(r, e, after, d.xid)
    BY <1>1 DEF Twins
  <2>4. OldIndex(os, act, i, d.xid, k) => OldIndex(os, after, i, d.xid, k)
    BY <2>2, <2>3 DEF OldIndex, RowsHaveEntries, EntriesHaveRows
  <2> QED BY <1>1, <2>1, <2>4
<1>7. Distinct(os, after, ks)
  BY <1>1 DEF Good, Distinct
<1> QED BY <1>3, <1>4, <1>5, <1>6, <1>7 DEF Good, after

-----------------------------------------------------------------------------
(* The end of a transaction that is committed (RemoveExpired).             *)

(* No row of ks has two versions of the transaction: see Lost.             *)
NotLost(os, t, ks) ==
  \A k \in ks, o, p \in os :
    o.key = RowKey(k) /\ p.key = RowKey(k) /\ o.tid = t /\ p.tid = t /\ o.xid = t => p.xid # 0

LEMMA RemoveExpiredHas ==
  ASSUME NEW os, NEW t, NEW o
  PROVE  o \in RemoveExpired(os, t) <=>
           o \in os /\ \A e \in os : e.xid = t => ~ (e.key = o.key /\ e.tid = o.tid)
BY PageDeleteHas DEF RemoveExpired, Named

(* What remains is what the transaction hasn't expired.                    *)
LEMMA Remains ==
  ASSUME NEW os \in SUBSET Object, NEW act, 0 \notin act, NEW ks \in SUBSET Key,
         NEW t \in act, NEW ls \in SUBSET ks, NotLost(os, t, ls), Good(os, act, ks),
         NEW o \in os, o.xid # t,
         o.tid # t \/ ~ IsRow(o) \/ \E k \in ls : o.key = RowKey(k)
  PROVE  o \in RemoveExpired(os, t)
<1> SUFFICES ASSUME NEW e \in os, e.xid = t, e.key = o.key, e.tid = o.tid
             PROVE  FALSE
  BY RemoveExpiredHas
<1>1. e # o /\ t # 0
  OBVIOUS
<1>2. e.tid = t /\ o.tid = t
  BY <1>1 DEF Good, Versioned, Replaces, ExpiredByOwner
<1>3. o.xid = 0
  BY <1>2 DEF Good, Versioned, ExpiredByOwner
<1>4. IsRow(o)
  BY <1>1 DEF Good, OneOwn, IsRow
<1> QED BY <1>2, <1>3, <1>4 DEF NotLost

LEMMA CommitVersioned ==
  ASSUME NEW os \in SUBSET Object, NEW act, 0 \notin act, NEW ks \in SUBSET Key,
         NEW t \in act, Good(os, act, ks)
  PROVE  /\ Versioned(RemoveExpired(os, t), act \ {t})
         /\ OneOwn(RemoveExpired(os, t))
         /\ DefsApart(RemoveExpired(os, t))
         /\ NewDefsAlone(RemoveExpired(os, t), act \ {t})
<1> DEFINE ps == RemoveExpired(os, t)
<1>1. \A o \in ps : o \in os /\ o.xid # t
  BY RemoveExpiredHas
<1> HIDE DEF ps
<1>2. Versioned(ps, act \ {t})
  BY <1>1 DEF Good, Versioned, ExpiredByActive, ExpiredByOwner, Replaces
<1>3. OneOwn(ps) /\ DefsApart(ps)
  BY <1>1 DEF Good, OneOwn, DefsApart
<1>4. NewDefsAlone(ps, act \ {t})
  BY <1>1 DEF Good, NewDefsAlone, Alone
<1> QED BY <1>2, <1>3, <1>4 DEF ps

LEMMA CommitLocked ==
  ASSUME NEW os \in SUBSET Object, NEW act, 0 \notin act, NEW ks \in SUBSET Key,
         NEW t \in act, Good(os, act, ks)
  PROVE  EntriesLocked(RemoveExpired(os, t), act \ {t})
<1> SUFFICES ASSUME NEW e \in RemoveExpired(os, t), NEW i \in IndexId, NEW v \in Value,
                    NEW k \in Key, e.key = EntryKey(i, v, k), e.tid \in act, e.tid # t
             PROVE  \E o \in RemoveExpired(os, t) : Locks(o, e.tid, k)
  BY DEF EntriesLocked
<1>1. PICK o \in os : Locks(o, e.tid, k)
  BY RemoveExpiredHas DEF Good, EntriesLocked
<1>2. ASSUME NEW x \in os, x.xid = t, x.key = o.key, x.tid = o.tid
      PROVE  FALSE
  <2>1. t # 0 /\ (x.tid \in act => x.tid = t) /\ (o.xid # 0 /\ o.tid \in act => o.xid = o.tid)
    BY <1>2 DEF Good, Versioned, ExpiredByOwner
  <2>2. o.xid = e.tid
    BY <1>1, <1>2, <2>1 DEF Locks
  <2>3. x # o
    BY <1>2, <2>2
  <2>4. x.tid \in act
    BY <1>2, <2>3 DEF Good, Versioned, Replaces
  <2> QED BY <1>2, <2>1, <2>2, <2>4
<1> QED BY <1>1, <1>2, RemoveExpiredHas

LEMMA CommitMatching ==
  ASSUME NEW os \in SUBSET Object, NEW act, 0 \notin act, NEW ks \in SUBSET Key,
         NEW t \in act, NEW ls \in SUBSET ks, NotLost(os, t, ls), Good(os, act, ks)
  PROVE  Matching(RemoveExpired(os, t), act \ {t}, ls)
<1> DEFINE ps == RemoveExpired(os, t)
           after == act \ {t}
<1>1. \A o \in ps : o \in os /\ o.xid # t
  BY RemoveExpiredHas
<1>2. \A o \in os : o.xid # t /\ (~ IsRow(o) \/ \E k \in ls : o.key = RowKey(k)) => o \in ps
  BY Remains
<1>3. \A o \in ps : o.tid = t => o.xid = 0
  BY <1>1 DEF Good, Versioned, ExpiredByOwner
<1>4. t # 0 /\ ps \subseteq os
  BY <1>1
<1> HIDE DEF ps
<1> SUFFICES ASSUME NEW d \in ps, NEW i \in IndexId, NEW k \in ls, d.key = DefinitionKey(i)
             PROVE  /\ d.tid \notin after => OldIndex(ps, after, i, d.xid, k)
                    /\ d.tid \in after /\ d.xid = 0 => NewIndex(ps, i, d.tid, k)
  BY DEF Matching, ps
<1>5. /\ d.tid \notin act => OldIndex(os, act, i, d.xid, k)
      /\ d.tid \in act /\ d.xid = 0 => NewIndex(os, i, d.tid, k)
  BY <1>1 DEF Good, Matching
<1>6. d.xid # t /\ IsDefinition(d) /\ d \in os
  BY <1>1, Kinds
<1>7. CASE d.tid \notin act
  <2> DEFINE x == d.xid
  <2>0. OldIndex(os, act, i, x, k) /\ x # t
    BY <1>5, <1>6, <1>7
  <2> HIDE DEF x
  <2>1. \A o \in ps : Lasts(o, after, x) => Lasts(o, act, x)
    BY <1>1, <1>3, <2>0 DEF Lasts
  <2>2. \A o \in os : Lasts(o, act, x) => Lasts(o, after, x)
    BY DEF Lasts
  <2>3. \A r, e \in os : Twins(r, e, act, x) => Twins(r, e, after, x) /\ (r.xid = t <=> e.xid = t)
    BY <1>4, <2>0 DEF Twins
  <2>4. RowsHaveEntries(ps, after, i, x, k)
    <3> SUFFICES ASSUME NEW r \in ps, r.key = RowKey(k), Lasts(r, after, x)
                 PROVE  \E e \in ps : e.key = EntryKey(i, r.value, k) /\ Lasts(e, after, x)
                                       /\ Twins(r, e, after, x)
      BY DEF RowsHaveEntries
    <3>1. r \in os /\ r.xid # t /\ Lasts(r, act, x)
      BY <1>1, <2>1
    <3>2. PICK e \in os : e.key = EntryKey(i, r.value, k) /\ Lasts(e, act, x) /\ Twins(r, e, act, x)
      BY <2>0, <3>1 DEF OldIndex, RowsHaveEntries
    <3>3. e \in ps
      BY <1>2, <2>3, <3>1, <3>2, Kinds
    <3> QED BY <2>2, <2>3, <3>1, <3>2, <3>3
  <2>5. EntriesHaveRows(ps, after, i, x, k)
    <3> SUFFICES ASSUME NEW e \in ps, NEW v \in Value, e.key = EntryKey(i, v, k), Lasts(e, after, x)
                 PROVE  \E r \in ps : r.key = RowKey(k) /\ r.value = v /\ Lasts(r, after, x)
                                       /\ Twins(r, e, after, x)
      BY DEF EntriesHaveRows
    <3>1. e \in os /\ e.xid # t /\ Lasts(e, act, x)
      BY <1>1, <2>1
    <3>2. PICK r \in os : r.key = RowKey(k) /\ r.value = v /\ Lasts(r, act, x) /\ Twins(r, e, act, x)
      BY <2>0, <3>1 DEF OldIndex, EntriesHaveRows
    <3>3. r \in ps
      BY <1>2, <2>3, <3>1, <3>2
    <3> QED BY <2>2, <2>3, <3>1, <3>2, <3>3
  <2> QED BY <1>7, <2>4, <2>5 DEF OldIndex, x
<1>8. CASE d.tid \in act
  <2>1. \A r \in os : r.key = RowKey(k) => Alone(r, act, d.tid)
    BY <1>6, <1>8, Kinds DEF Good, NewDefsAlone
  <2>2. CASE d.tid = t
    <3>1. d.xid = 0 /\ NewIndex(os, i, t, k)
      BY <1>3, <1>5, <1>8, <2>2
    <3>2. RowsHaveEntries(ps, after, i, 0, k)
      <4> SUFFICES ASSUME NEW r \in ps, r.key = RowKey(k)
                   PROVE  \E e \in ps : e.key = EntryKey(i, r.value, k) /\ Lasts(e, after, 0)
                                         /\ Twins(r, e, after, 0)
        BY DEF RowsHaveEntries
      <4>1. r \in os /\ r.xid = 0 /\ r.tid \notin after
        BY <1>1, <2>1, <2>2 DEF Alone
      <4>2. PICK e \in os : e.key = EntryKey(i, r.value, k) /\ e.xid = 0
        BY <3>1, <4>1 DEF NewIndex
      <4>3. e.tid = t
        <5>1. r \in Object /\ r.value \in Value
          BY <4>1, ObjectFields, Kinds
        <5> QED BY <3>1, <4>2, <5>1 DEF NewIndex
      <4>4. e \in ps
        BY <1>2, <1>4, <4>2, Kinds
      <4> QED BY <4>1, <4>2, <4>3, <4>4 DEF Lasts, Twins
    <3>3. EntriesHaveRows(ps, after, i, 0, k)
      <4> SUFFICES ASSUME NEW e \in ps, NEW v \in Value, e.key = EntryKey(i, v, k)
                   PROVE  \E r \in ps : r.key = RowKey(k) /\ r.value = v /\ Lasts(r, after, 0)
                                         /\ Twins(r, e, after, 0)
        BY DEF EntriesHaveRows
      <4>1. e \in os /\ e.tid = t /\ e.xid = 0
        BY <1>1, <1>3, <3>1 DEF NewIndex
      <4>2. PICK r \in os : r.key = RowKey(k) /\ r.value = v /\ r.xid = 0
        BY <3>1, <4>1 DEF NewIndex
      <4>3. r \in ps /\ r.tid \notin after
        BY <1>2, <1>4, <2>1, <2>2, <4>2 DEF Alone
      <4> QED BY <4>1, <4>2, <4>3 DEF Lasts, Twins
    <3> QED BY <2>2, <3>1, <3>2, <3>3 DEF OldIndex
  <2>3. CASE d.tid # t
    <3> SUFFICES ASSUME d.xid = 0
                 PROVE  NewIndex(ps, i, d.tid, k)
      BY <1>8, <2>3
    <3>1. NewIndex(os, i, d.tid, k)
      BY <1>5, <1>8
    <3>2. \A o \in os : o.xid = 0 /\ (o.key = RowKey(k) \/ ~ IsRow(o)) => o \in ps
      BY <1>2, <1>4
    <3>3. \A r \in ps : r.key = RowKey(k) /\ r.xid = 0 =>
            \E e \in ps : e.key = EntryKey(i, r.value, k) /\ e.xid = 0
      BY <1>4, <3>1, <3>2, Kinds DEF NewIndex
    <3>4. \A e \in ps, v \in Value : e.key = EntryKey(i, v, k) =>
            /\ e.tid = d.tid
            /\ e.xid = 0 => \E r \in ps : r.key = RowKey(k) /\ r.value = v /\ r.xid = 0
      BY <1>4, <3>1, <3>2 DEF NewIndex
    <3> QED BY <3>3, <3>4 DEF NewIndex
  <2> QED BY <2>2, <2>3
<1> QED BY <1>7, <1>8

LEMMA CommitDistinct ==
  ASSUME NEW os \in SUBSET Object, NEW act, 0 \notin act, NEW ks \in SUBSET Key,
         NEW t \in act, NEW ls \in SUBSET ks, Good(os, act, ks)
  PROVE  Distinct(RemoveExpired(os, t), act \ {t}, ls)
<1> DEFINE ps == RemoveExpired(os, t)
           after == act \ {t}
<1>1. \A o \in ps : o \in os /\ o.xid # t
  BY RemoveExpiredHas
<1> HIDE DEF ps
<1> SUFFICES ASSUME NEW d \in ps, NEW o \in ps, NEW p \in ps,
                    IsDefinition(d), d.key[2] \in Unique, SameValue(o, p, ls)
             PROVE  /\ d.tid \notin after /\ d.xid \notin {o.tid, p.tid} => Apart(o, p)
                    /\ d.tid \in after /\ d.xid = 0 => o.xid # 0 \/ p.xid # 0
  BY DEF Distinct, ps
<1>2. SameValue(o, p, ks)
  BY DEF SameValue
<1>3. /\ d.tid \notin act /\ d.xid \notin {o.tid, p.tid} => Apart(o, p)
      /\ d.tid \in act /\ d.xid = 0 => o.xid # 0 \/ p.xid # 0
  BY <1>1, <1>2 DEF Good, Distinct
<1>4. CASE d.tid = t
  <2>1. d.xid = 0
    BY <1>1, <1>4 DEF Good, Versioned, ExpiredByOwner
  <2>2. ~ IsEntry(o) /\ ~ IsEntry(p)
    BY Kinds DEF SameValue
  <2>3. Alone(o, act, t) /\ Alone(p, act, t)
    BY <1>1, <1>4, <2>2 DEF Good, NewDefsAlone
  <2> QED BY <1>1, <1>3, <1>4, <2>1, <2>3 DEF Alone
<1>5. CASE d.tid # t
  BY <1>3, <1>5
<1> QED BY <1>4, <1>5

(* COMMIT, and the end of a statement outside of a transaction.            *)
LEMMA CommitGood ==
  ASSUME NEW os \in SUBSET Object, NEW act, 0 \notin act, NEW ks \in SUBSET Key,
         NEW t \in act, NEW ls \in SUBSET ks, NotLost(os, t, ls), Good(os, act, ks)
  PROVE  Good(RemoveExpired(os, t), act \ {t}, ls)
BY CommitVersioned, CommitLocked, CommitMatching, CommitDistinct DEF Good

-----------------------------------------------------------------------------
(* ROLLBACK, and the recovery of several transactions (Undo).              *)

(* An object, and what it is afterwards.                                   *)
Restored(o, q, tids) ==
  o.tid \notin tids /\ Kept(o, q) /\ q.xid = IF o.xid \in tids THEN 0 ELSE o.xid

LEMMA UndoHas ==
  ASSUME NEW os \in SUBSET Object, NEW act, 0 \notin act, Versioned(os, act),
         NEW tids \in SUBSET act
  PROVE  /\ Undo(os, tids) \in SUBSET Object
         /\ \A q \in Undo(os, tids) : \E o \in os : Restored(o, q, tids)
         /\ \A o \in os : o.tid \notin tids => \E q \in Undo(os, tids) : Restored(o, q, tids)
<1> DEFINE gone == {o \in os : o.tid \in tids}
           kept == PageDelete(os, gone)
           back == {o \in kept : o.xid \in tids}
<1>1. \A o : o \in kept <=> o \in os /\ o.tid \notin tids
  BY PageDeleteHas DEF Named
<1>2. kept \in SUBSET Object
  BY <1>1
<1> HIDE DEF kept
<1>3. \A o \in kept : Named(o, back) <=> o.xid \in tids
  <2>1. ASSUME NEW o \in kept, NEW e \in back, e.key = o.key, e.tid = o.tid, e # o
        PROVE  FALSE
    <3>1. \E t \in act : (o.xid = t /\ e.tid = t) \/ (e.xid = t /\ o.tid = t)
      BY <1>1, <2>1 DEF Versioned, Replaces
    <3>2. e.xid \in tids /\ e.xid # 0 /\ e.tid \in act /\ e.tid \notin tids
      BY <1>1, <2>1, <3>1
    <3> QED BY <1>1, <3>2 DEF Versioned, ExpiredByOwner
  <2> QED BY <2>1 DEF Named
<1>4. Undo(os, tids) = SetXid(kept, back, 0)
  BY DEF Undo, kept
<1> HIDE DEF back
<1>5. /\ SetXid(kept, back, 0) \in SUBSET Object
      /\ \A q \in SetXid(kept, back, 0) : \E o \in kept :
           Kept(o, q) /\ IF Named(o, back) THEN q.xid = 0 ELSE q = o
      /\ \A o \in kept : \E q \in SetXid(kept, back, 0) :
           Kept(o, q) /\ IF Named(o, back) THEN q.xid = 0 ELSE q = o
  BY <1>2, SetXidHas
<1>6. \A q \in Undo(os, tids) : \E o \in os : Restored(o, q, tids)
  BY <1>1, <1>3, <1>4, <1>5 DEF Restored
<1>7. \A o \in os : o.tid \notin tids => \E q \in Undo(os, tids) : Restored(o, q, tids)
  BY <1>1, <1>3, <1>4, <1>5 DEF Restored
<1> QED BY <1>4, <1>5, <1>6, <1>7

(* The kind of an object is that of its key.                               *)
LEMMA KeptKind ==
  ASSUME NEW o, NEW q, Kept(o, q)
  PROVE  /\ IsRow(q) <=> IsRow(o)
         /\ IsDefinition(q) <=> IsDefinition(o)
         /\ IsEntry(q) <=> IsEntry(o)
BY DEF Kept, IsRow, IsDefinition, IsEntry

LEMMA UndoVersioned ==
  ASSUME NEW os \in SUBSET Object, NEW act, 0 \notin act, NEW ks \in SUBSET Key,
         Good(os, act, ks), NEW tids \in SUBSET act
  PROVE  /\ Versioned(Undo(os, tids), act \ tids)
         /\ OneOwn(Undo(os, tids))
         /\ DefsApart(Undo(os, tids))
         /\ NewDefsAlone(Undo(os, tids), act \ tids)
<1> DEFINE ps == Undo(os, tids)
<1>1. ps \in SUBSET Object /\ \A q \in ps : \E o \in os : Restored(o, q, tids)
  BY UndoHas DEF Good
<1> HIDE DEF ps
<1>2. ExpiredByActive(ps, act \ tids) /\ ExpiredByOwner(ps, act \ tids)
  BY <1>1 DEF Good, Versioned, ExpiredByActive, ExpiredByOwner, Restored, Kept
<1>3. ASSUME NEW p \in ps, NEW q \in ps, NEW o \in os, Restored(o, p, tids), Restored(o, q, tids)
      PROVE  p = q
  BY <1>1, <1>3, SameObject DEF Restored, Kept
<1>4. Replaces(ps, act \ tids)
  <2> SUFFICES ASSUME NEW p \in ps, NEW q \in ps, p # q, p.key = q.key
               PROVE  \E t \in act \ tids : (p.xid = t /\ q.tid = t) \/ (q.xid = t /\ p.tid = t)
    BY DEF Replaces
  <2>1. PICK a \in os, b \in os : Restored(a, p, tids) /\ Restored(b, q, tids)
    BY <1>1
  <2>2. a # b /\ a.key = b.key
    BY <1>3, <2>1 DEF Restored, Kept
  <2> QED BY <2>1, <2>2 DEF Good, Versioned, Replaces, Restored, Kept
<1>5. OneOwn(ps)
  <2> SUFFICES ASSUME NEW p \in ps, NEW q \in ps, ~ IsRow(p), p.key = q.key, p.tid = q.tid
               PROVE  p = q
    BY DEF OneOwn
  <2>1. PICK a \in os, b \in os : Restored(a, p, tids) /\ Restored(b, q, tids)
    BY <1>1
  <2>2. a = b
    BY <2>1, KeptKind DEF Good, OneOwn, Restored, Kept
  <2> QED BY <1>3, <2>1, <2>2
<1>6. DefsApart(ps)
  <2> SUFFICES ASSUME NEW p \in ps, NEW q \in ps, IsDefinition(p), IsDefinition(q), p # q
               PROVE  (p.xid # 0 /\ p.xid = q.tid) \/ (q.xid # 0 /\ q.xid = p.tid)
    BY DEF DefsApart
  <2>1. PICK a \in os, b \in os : Restored(a, p, tids) /\ Restored(b, q, tids)
    BY <1>1
  <2>2. a # b /\ IsDefinition(a) /\ IsDefinition(b)
    BY <1>3, <2>1, KeptKind DEF Restored
  <2> QED BY <2>1, <2>2 DEF Good, DefsApart, Restored, Kept
<1>7. NewDefsAlone(ps, act \ tids)
  <2> SUFFICES ASSUME NEW d \in ps, NEW q \in ps, IsDefinition(d), d.tid \in act, ~ IsEntry(q)
               PROVE  Alone(q, act \ tids, d.tid)
    BY DEF NewDefsAlone
  <2>1. PICK a \in os, b \in os : Restored(a, d, tids) /\ Restored(b, q, tids)
    BY <1>1
  <2>2. IsDefinition(a) /\ ~ IsEntry(b)
    BY <2>1, KeptKind DEF Restored
  <2> QED BY <2>1, <2>2 DEF Good, NewDefsAlone, Restored, Kept, Alone
<1> QED BY <1>2, <1>4, <1>5, <1>6, <1>7 DEF Versioned, ps

LEMMA UndoLocked ==
  ASSUME NEW os \in SUBSET Object, NEW act, 0 \notin act, NEW ks \in SUBSET Key,
         Good(os, act, ks), NEW tids \in SUBSET act
  PROVE  EntriesLocked(Undo(os, tids), act \ tids)
<1> DEFINE ps == Undo(os, tids)
<1>1. /\ ps \in SUBSET Object /\ \A q \in ps : \E o \in os : Restored(o, q, tids)
      /\ \A o \in os : o.tid \notin tids => \E q \in ps : Restored(o, q, tids)
  BY UndoHas DEF Good
<1> HIDE DEF ps
<1> SUFFICES ASSUME NEW e \in ps, NEW i \in IndexId, NEW v \in Value, NEW k \in Key,
                    e.key = EntryKey(i, v, k), e.tid \in act \ tids
             PROVE  \E q \in ps : Locks(q, e.tid, k)
  BY DEF EntriesLocked, ps
<1>2. PICK o \in os : Locks(o, e.tid, k)
  BY <1>1 DEF Good, EntriesLocked, Restored, Kept
<1>3. o.tid \notin tids
  <2>1. CASE o.tid = e.tid
    BY <2>1
  <2>2. CASE o.tid # e.tid
    BY <1>2, <2>2 DEF Locks, Good, Versioned, ExpiredByOwner
  <2> QED BY <2>1, <2>2
<1>4. PICK q \in ps : Restored(o, q, tids)
  BY <1>1, <1>3
<1>5. Locks(q, e.tid, k)
  BY <1>2, <1>4, KeptKind DEF Locks, Restored, Kept
<1> QED BY <1>5

LEMMA UndoMatching ==
  ASSUME NEW os \in SUBSET Object, NEW act, 0 \notin act, NEW ks \in SUBSET Key,
         Good(os, act, ks), NEW tids \in SUBSET act
  PROVE  Matching(Undo(os, tids), act \ tids, ks)
<1> DEFINE ps == Undo(os, tids)
           after == act \ tids
<1>1. /\ ps \in SUBSET Object /\ \A q \in ps : \E o \in os : Restored(o, q, tids)
      /\ \A o \in os : o.tid \notin tids => \E q \in ps : Restored(o, q, tids)
  BY UndoHas DEF Good
<1> HIDE DEF ps
<1> SUFFICES ASSUME NEW d \in ps, NEW i \in IndexId, NEW k \in ks, d.key = DefinitionKey(i)
             PROVE  /\ d.tid \notin after => OldIndex(ps, after, i, d.xid, k)
                    /\ d.tid \in after /\ d.xid = 0 => NewIndex(ps, i, d.tid, k)
  BY DEF Matching, ps
<1>2. PICK d0 \in os : Restored(d0, d, tids)
  BY <1>1
<1>3. d0.key = DefinitionKey(i) /\ d.tid = d0.tid /\ d.tid \notin tids
  BY <1>2 DEF Restored, Kept
<1>4. /\ d.tid \notin act => OldIndex(os, act, i, d0.xid, k)
      /\ d.tid \in act /\ d0.xid = 0 => NewIndex(os, i, d.tid, k)
  BY <1>3 DEF Good, Matching
<1>5. \A o \in os : o.xid \in tids /\ o.tid \in act => o.tid \in tids
  BY DEF Good, Versioned, ExpiredByOwner
<1>6. \A o \in os : o.tid # 0
  BY ObjectFields
<1>7. CASE d.tid \notin act
  <2> DEFINE x == d0.xid
             y == d.xid
  <2>1. y = (IF x \in tids THEN 0 ELSE x) /\ OldIndex(os, act, i, x, k)
    BY <1>2, <1>4, <1>7 DEF Restored
  <2> HIDE DEF x, y
  <2>2. ASSUME NEW o \in os, NEW q, Restored(o, q, tids)
        PROVE  Lasts(q, after, y) <=> Lasts(o, act, x)
    BY <1>5, <1>6, <2>1, <2>2 DEF Lasts, Restored, Kept
  <2>3. ASSUME NEW r \in os, NEW e \in os, Twins(r, e, act, x)
        PROVE  /\ r.tid \in tids <=> e.tid \in tids
               /\ \A p, q : Restored(r, p, tids) /\ Restored(e, q, tids) => Twins(p, q, after, y)
    BY <2>1, <2>3 DEF Twins, Restored, Kept
  <2>4. RowsHaveEntries(ps, after, i, y, k)
    <3> SUFFICES ASSUME NEW r \in ps, r.key = RowKey(k), Lasts(r, after, y)
                 PROVE  \E e \in ps : e.key = EntryKey(i, r.value, k) /\ Lasts(e, after, y)
                                       /\ Twins(r, e, after, y)
      BY DEF RowsHaveEntries
    <3>1. PICK r0 \in os : Restored(r0, r, tids)
      BY <1>1
    <3>2. r0.key = RowKey(k) /\ r0.value = r.value /\ r0.tid \notin tids /\ Lasts(r0, act, x)
      BY <2>2, <3>1 DEF Restored, Kept
    <3>3. PICK e0 \in os : e0.key = EntryKey(i, r.value, k) /\ Lasts(e0, act, x)
                            /\ Twins(r0, e0, act, x)
      BY <2>1, <3>2 DEF OldIndex, RowsHaveEntries
    <3>4. PICK e \in ps : Restored(e0, e, tids)
      BY <1>1, <2>3, <3>2, <3>3
    <3> QED BY <2>2, <2>3, <3>1, <3>3, <3>4 DEF Restored, Kept
  <2>5. EntriesHaveRows(ps, after, i, y, k)
    <3> SUFFICES ASSUME NEW e \in ps, NEW v \in Value, e.key = EntryKey(i, v, k), Lasts(e, after, y)
                 PROVE  \E r \in ps : r.key = RowKey(k) /\ r.value = v /\ Lasts(r, after, y)
                                       /\ Twins(r, e, after, y)
      BY DEF EntriesHaveRows
    <3>1. PICK e0 \in os : Restored(e0, e, tids)
      BY <1>1
    <3>2. e0.key = EntryKey(i, v, k) /\ e0.tid \notin tids /\ Lasts(e0, act, x)
      BY <2>2, <3>1 DEF Restored, Kept
    <3>3. PICK r0 \in os : r0.key = RowKey(k) /\ r0.value = v /\ Lasts(r0, act, x)
                            /\ Twins(r0, e0, act, x)
      BY <2>1, <3>2 DEF OldIndex, EntriesHaveRows
    <3>4. PICK r \in ps : Restored(r0, r, tids)
      BY <1>1, <2>3, <3>2, <3>3
    <3> QED BY <2>2, <2>3, <3>1, <3>3, <3>4 DEF Restored, Kept
  <2> QED BY <1>7, <2>4, <2>5 DEF OldIndex, y
<1>8. CASE d.tid \in act
  <2> SUFFICES ASSUME d.xid = 0
               PROVE  NewIndex(ps, i, d.tid, k)
    BY <1>8, <1>3
  <2>1. NewIndex(os, i, d.tid, k)
    BY <1>2, <1>3, <1>4, <1>5, <1>8 DEF Restored
  <2>2. \A r \in os : r.key = RowKey(k) => Alone(r, act, d.tid)
    BY <1>3, <1>8, Kinds DEF Good, NewDefsAlone
  <2>3. ASSUME NEW r \in ps, r.key = RowKey(k), r.xid = 0
        PROVE  \E e \in ps : e.key = EntryKey(i, r.value, k) /\ e.xid = 0
    <3>1. PICK r0 \in os : Restored(r0, r, tids)
      BY <1>1
    <3>2. r0.key = RowKey(k) /\ r0.value = r.value /\ r0.xid = 0 /\ r.value \in Value
      <4>1. r0.key = RowKey(k) /\ r0.value = r.value /\ (r0.xid \notin tids => r0.xid = 0)
        BY <2>3, <3>1 DEF Restored, Kept
      <4>2. r0.xid = 0
        BY <1>3, <2>2, <4>1 DEF Alone
      <4>3. r0 \in Object /\ IsRow(r0)
        BY <4>1, Kinds
      <4> QED BY <4>1, <4>2, <4>3, ObjectFields
    <3>3. PICK e0 \in os : e0.key = EntryKey(i, r.value, k) /\ e0.xid = 0 /\ e0.tid = d.tid
      BY <2>1, <3>2 DEF NewIndex
    <3> QED BY <1>1, <1>3, <3>3 DEF Restored, Kept
  <2>4. ASSUME NEW e \in ps, NEW v \in Value, e.key = EntryKey(i, v, k)
        PROVE  /\ e.tid = d.tid
               /\ e.xid = 0 => \E r \in ps : r.key = RowKey(k) /\ r.value = v /\ r.xid = 0
    <3>1. PICK e0 \in os : Restored(e0, e, tids)
      BY <1>1
    <3>2. e0.key = EntryKey(i, v, k) /\ e0.tid = d.tid /\ e.tid = d.tid
      <4>1. e0.key = EntryKey(i, v, k) /\ e.tid = e0.tid
        BY <2>4, <3>1 DEF Restored, Kept
      <4> QED BY <2>1, <4>1 DEF NewIndex
    <3>3. e.xid = 0 => e0.xid = 0
      BY <1>3, <1>5, <1>8, <3>1, <3>2 DEF Restored
    <3>4. ASSUME NEW r0 \in os, r0.key = RowKey(k), r0.value = v, r0.xid = 0
          PROVE  \E r \in ps : r.key = RowKey(k) /\ r.value = v /\ r.xid = 0
      BY <1>1, <1>3, <2>2, <3>4 DEF Restored, Kept, Alone
    <3> QED BY <2>1, <3>2, <3>3, <3>4 DEF NewIndex
  <2> QED BY <2>3, <2>4 DEF NewIndex
<1> QED BY <1>7, <1>8

LEMMA UndoDistinct ==
  ASSUME NEW os \in SUBSET Object, NEW act, 0 \notin act, NEW ks \in SUBSET Key,
         Good(os, act, ks), NEW tids \in SUBSET act
  PROVE  Distinct(Undo(os, tids), act \ tids, ks)
<1> DEFINE ps == Undo(os, tids)
           after == act \ tids
<1>1. ps \in SUBSET Object /\ \A q \in ps : \E o \in os : Restored(o, q, tids)
  BY UndoHas DEF Good
<1> HIDE DEF ps
<1> SUFFICES ASSUME NEW d \in ps, NEW o \in ps, NEW p \in ps,
                    IsDefinition(d), d.key[2] \in Unique, SameValue(o, p, ks)
             PROVE  /\ d.tid \notin after /\ d.xid \notin {o.tid, p.tid} => Apart(o, p)
                    /\ d.tid \in after /\ d.xid = 0 => o.xid # 0 \/ p.xid # 0
  BY DEF Distinct, ps
<1>2. PICK d0 \in os, a \in os, b \in os :
        Restored(d0, d, tids) /\ Restored(a, o, tids) /\ Restored(b, p, tids)
  BY <1>1
<1>3. SameValue(a, b, ks) /\ IsDefinition(d0) /\ d0.key[2] \in Unique
  BY <1>2, KeptKind DEF SameValue, Restored, Kept
<1>4. /\ d0.tid \notin act /\ d0.xid \notin {a.tid, b.tid} => Apart(a, b)
      /\ d0.tid \in act /\ d0.xid = 0 => a.xid # 0 \/ b.xid # 0
  BY <1>3 DEF Good, Distinct
<1>5. Apart(a, b) => Apart(o, p)
  BY <1>2 DEF Apart, Restored, Kept
<1>6. CASE d.tid \notin after
  BY <1>2, <1>4, <1>5, <1>6 DEF Restored, Kept
<1>7. CASE d.tid \in after
  <2>1. ~ IsEntry(a) /\ ~ IsEntry(b)
    BY <1>3, Kinds DEF SameValue
  <2>2. Alone(a, act, d0.tid) /\ Alone(b, act, d0.tid)
    BY <1>2, <1>3, <1>7, <2>1 DEF Good, NewDefsAlone, Restored, Kept
  <2>3. d.xid = 0 => d0.xid = 0
    BY <1>2, <1>7 DEF Good, Versioned, ExpiredByOwner, Restored, Kept
  <2> QED BY <1>2, <1>4, <1>7, <2>2, <2>3 DEF Alone, Restored, Kept
<1> QED BY <1>6, <1>7

LEMMA UndoGood ==
  ASSUME NEW os \in SUBSET Object, NEW act, 0 \notin act, NEW ks \in SUBSET Key,
         Good(os, act, ks), NEW tids \in SUBSET act
  PROVE  Good(Undo(os, tids), act \ tids, ks)
BY UndoVersioned, UndoLocked, UndoMatching, UndoDistinct DEF Good

-----------------------------------------------------------------------------
(* A statement that writes one row and its entries.                        *)

(* What the transaction t may expire: what is committed, or its own, and   *)
(* isn't expired by another.                                               *)
Ours(o, t, act) == (o.tid \notin act \/ o.tid = t) /\ o.xid \in {0, t}

(* At the keys K, t expires everything that it doesn't replace by new.     *)
Overwrites(os, ps, t, act, K, new) ==
  /\ \A q \in ps : q.key \in K =>
       q \in new \/ (q.xid = t /\ \E o \in os : Kept(o, q) /\ Ours(o, t, act))
  /\ \A o \in os : o.key \in K =>
       o.tid = t \/ (Ours(o, t, act) /\ \E q \in ps : Kept(o, q) /\ q.xid = t)
  /\ \A o : o.key \notin K => (o \in os <=> o \in ps)

Creates(ps, t, K, new) ==
  /\ \A q \in new : q \in ps /\ q.tid = t /\ q.xid = 0 /\ q.key \in K
  /\ \A q \in new, p \in ps :
       p.key = q.key /\ p.tid = t /\ (IsRow(p) => p \in new) => p = q

(* K are the row of k, and the entries of the value that it had and of the *)
(* value that it gets, in the indexes ix.                                  *)
Covers(os, ps, t, act, k, ix, K, new) ==
  /\ RowKey(k) \in K
  /\ \A key \in K : key = RowKey(k) \/ \E i \in ix, v \in Value : key = EntryKey(i, v, k)
  /\ \E q \in ps : q.key = RowKey(k) /\ t \in {q.tid, q.xid}
  /\ \A r \in os : r.key = RowKey(k) =>
       Ours(r, t, act) /\ (r.xid = 0 => \A i \in ix : EntryKey(i, r.value, k) \in K)
  /\ \A i \in ix, v \in Value :
       (\E q \in new : q.key = EntryKey(i, v, k)) <=>
         (\E q \in new : q.key = RowKey(k) /\ q.value = v)

RowWrite(os, ps, t, act, k, ix, K, new) ==
  /\ Overwrites(os, ps, t, act, K, new)
  /\ Creates(ps, t, K, new)
  /\ Covers(os, ps, t, act, k, ix, K, new)

(* What the statement finds: the objects are sound, no definition is being *)
(* changed by another, and its indexes are those that it sees.             *)
WriteFinds(os, t, act, ks, ix) ==
  /\ Good(os, act, ks)
  /\ ~ DefinitionContended(os, t, act)
  /\ ix = Definitions(os, t, act)

(* Definitions are left alone.                                             *)
LEMMA WriteKeepsDefinitions ==
  ASSUME NEW os \in SUBSET Object, NEW ps \in SUBSET Object, NEW act, NEW t \in act,
         NEW k \in Key, NEW ix \in SUBSET IndexId, NEW K, NEW new,
         RowWrite(os, ps, t, act, k, ix, K, new), NEW d, IsDefinition(d)
  PROVE  d \in os <=> d \in ps
<1>1. \A key \in K : key = RowKey(k) \/ \E i \in ix, v \in Value : key = EntryKey(i, v, k)
  BY DEF RowWrite, Covers
<1>2. d.key # RowKey(k) /\ \A i, v : d.key # EntryKey(i, v, k)
  BY Kinds
<1>3. d.key \notin K
  BY <1>1, <1>2
<1> QED BY <1>3 DEF RowWrite, Overwrites

(* The definitions are the writer's, if they aren't committed, and he sees *)
(* them unless he has dropped them.                                        *)
LEMMA DefinitionOurs ==
  ASSUME NEW os \in SUBSET Object, NEW act, 0 \notin act, NEW t \in act, NEW ks, NEW ix,
         WriteFinds(os, t, act, ks, ix), NEW d \in os, IsDefinition(d)
  PROVE  /\ Ours(d, t, act)
         /\ d.xid = 0 => d.key[2] \in ix
<1>1. ~ Concurrent(d, t, act)
  BY DEF WriteFinds, DefinitionContended
<1>2. Ours(d, t, act)
  BY <1>1 DEF Concurrent, Ours, WriteFinds, Good, Versioned, ExpiredByActive
<1>3. d.xid = 0 => Visible(d, t, act)
  BY <1>2 DEF Visible, Ours
<1> QED BY <1>2, <1>3 DEF WriteFinds, Definitions

LEMMA WriteVersioned ==
  ASSUME NEW os \in SUBSET Object, NEW ps \in SUBSET Object, NEW act, 0 \notin act,
         NEW t \in act, NEW ks, NEW k \in Key, NEW ix \in SUBSET IndexId, NEW K, NEW new,
         RowWrite(os, ps, t, act, k, ix, K, new), WriteFinds(os, t, act, ks, ix)
  PROVE  Versioned(ps, act) /\ OneOwn(ps)
<1>1. ASSUME NEW q \in ps, q.key \in K, q \notin new
      PROVE  q.xid = t /\ \E o \in os : Kept(o, q) /\ Ours(o, t, act)
  BY <1>1 DEF RowWrite, Overwrites
<1>2. \A q \in new : q \in ps /\ q.tid = t /\ q.xid = 0 /\ q.key \in K
  BY DEF RowWrite, Creates
<1>3. \A q \in ps : q.key \notin K => q \in os
  BY DEF RowWrite, Overwrites
<1>4. ExpiredByActive(ps, act)
  BY <1>1, <1>2, <1>3 DEF WriteFinds, Good, Versioned, ExpiredByActive
<1>5. ExpiredByOwner(ps, act)
  <2> SUFFICES ASSUME NEW q \in ps, q.xid # 0, q.tid \in act
               PROVE  q.xid = q.tid
    BY DEF ExpiredByOwner
  <2>1. CASE q.key \notin K
    BY <1>3, <2>1 DEF WriteFinds, Good, Versioned, ExpiredByOwner
  <2>2. CASE q.key \in K
    BY <1>1, <1>2, <2>2 DEF Kept, Ours
  <2> QED BY <2>1, <2>2
<1>6. ASSUME NEW p \in ps, NEW q \in ps, p # q, p.key = q.key, p.key \in K,
             p \notin new, q \notin new
      PROVE  \E a, b \in os : a # b /\ Kept(a, p) /\ Kept(b, q) /\ Ours(a, t, act)
                              /\ Ours(b, t, act) /\ p.xid = t /\ q.xid = t
  <2>1. PICK a \in os : Kept(a, p) /\ Ours(a, t, act) /\ p.xid = t
    BY <1>1, <1>6
  <2>2. PICK b \in os : Kept(b, q) /\ Ours(b, t, act) /\ q.xid = t
    BY <1>1, <1>6
  <2>3. a # b
    BY <1>6, <2>1, <2>2, SameObject DEF Kept
  <2> QED BY <2>1, <2>2, <2>3
<1>7. Replaces(ps, act)
  <2> SUFFICES ASSUME NEW p \in ps, NEW q \in ps, p # q, p.key = q.key
               PROVE  \E s \in act : (p.xid = s /\ q.tid = s) \/ (q.xid = s /\ p.tid = s)
    BY DEF Replaces
  <2>1. CASE p.key \notin K
    BY <1>3, <2>1 DEF WriteFinds, Good, Versioned, Replaces
  <2>2. CASE p \in new /\ q \in new
    <3>1. p.tid = t /\ q.tid = t
      BY <1>2, <2>2
    <3> QED BY <2>2, <3>1 DEF RowWrite, Creates
  <2>3. CASE p.key \in K /\ p \in new /\ q \notin new
    BY <1>1, <1>2, <2>3
  <2>4. CASE p.key \in K /\ p \notin new /\ q \in new
    BY <1>1, <1>2, <2>4
  <2>5. CASE p.key \in K /\ p \notin new /\ q \notin new
    <3>1. PICK a \in os, b \in os : a # b /\ Kept(a, p) /\ Kept(b, q) /\ Ours(a, t, act)
                                    /\ Ours(b, t, act) /\ p.xid = t /\ q.xid = t
      BY <1>6, <2>5
    <3>2. PICK s \in act : (a.xid = s /\ b.tid = s) \/ (b.xid = s /\ a.tid = s)
      BY <3>1 DEF WriteFinds, Good, Versioned, Replaces, Kept
    <3>3. s = t
      BY <3>1, <3>2 DEF Ours
    <3> QED BY <3>1, <3>2, <3>3 DEF Kept
  <2> QED BY <2>1, <2>2, <2>3, <2>4, <2>5
<1>8. OneOwn(ps)
  <2> SUFFICES ASSUME NEW p \in ps, NEW q \in ps, ~ IsRow(p), p.key = q.key, p.tid = q.tid, p # q
               PROVE  FALSE
    BY DEF OneOwn
  <2>1. CASE p.key \notin K
    BY <1>3, <2>1 DEF WriteFinds, Good, OneOwn
  <2>2. ~ IsRow(q)
    BY DEF IsRow
  <2>3. CASE p \in new \/ q \in new
    BY <1>2, <2>2, <2>3 DEF RowWrite, Creates
  <2>4. CASE p.key \in K /\ p \notin new /\ q \notin new
    <3>1. PICK a \in os, b \in os : a # b /\ Kept(a, p) /\ Kept(b, q)
      BY <1>6, <2>4
    <3> QED BY <3>1, KeptKind DEF WriteFinds, Good, OneOwn, Kept
  <2> QED BY <2>1, <2>3, <2>4
<1> QED BY <1>4, <1>5, <1>7, <1>8 DEF Versioned

(* The objects of other rows are left alone.                               *)
LEMMA WriteKeys ==
  ASSUME NEW os, NEW ps, NEW act, NEW t, NEW k, NEW ix, NEW K, NEW new,
         RowWrite(os, ps, t, act, k, ix, K, new)
  PROVE  /\ RowKey(k) \in K
         /\ \A j : j # k => RowKey(j) \notin K
         /\ \A i, v, j : j # k => EntryKey(i, v, j) \notin K
<1>1. /\ RowKey(k) \in K
      /\ \A key \in K : key = RowKey(k) \/ \E i \in ix, v \in Value : key = EntryKey(i, v, k)
  BY DEF RowWrite, Covers
<1>2. ASSUME NEW j, j # k, RowKey(j) \in K
      PROVE  FALSE
  <2>1. RowKey(j) # RowKey(k) /\ \A i, v : RowKey(j) # EntryKey(i, v, k)
    BY <1>2, KeysDiffer
  <2> QED BY <1>1, <1>2, <2>1
<1>3. ASSUME NEW i, NEW v, NEW j, j # k, EntryKey(i, v, j) \in K
      PROVE  FALSE
  <2>1. EntryKey(i, v, j) # RowKey(k) /\ \A h, w : EntryKey(i, v, j) # EntryKey(h, w, k)
    BY <1>3, KeysDiffer
  <2> QED BY <1>1, <1>3, <2>1
<1> QED BY <1>1, <1>2, <1>3

LEMMA WriteLocked ==
  ASSUME NEW os \in SUBSET Object, NEW ps \in SUBSET Object, NEW act, 0 \notin act,
         NEW t \in act, NEW ks, NEW k \in Key, NEW ix \in SUBSET IndexId, NEW K, NEW new,
         RowWrite(os, ps, t, act, k, ix, K, new), WriteFinds(os, t, act, ks, ix)
  PROVE  EntriesLocked(ps, act)
<1> SUFFICES ASSUME NEW e \in ps, NEW i \in IndexId, NEW v \in Value, NEW j \in Key,
                    e.key = EntryKey(i, v, j), e.tid \in act
             PROVE  \E q \in ps : Locks(q, e.tid, j)
  BY DEF EntriesLocked
<1>1. \E q \in ps : Locks(q, t, k)
  BY DEF RowWrite, Covers, Locks
<1>2. CASE e.key \in K
  <2>1. j = k
    BY <1>2, WriteKeys
  <2>2. e.tid = t
    BY <1>2 DEF RowWrite, Overwrites, Creates, Ours, Kept
  <2> QED BY <1>1, <2>1, <2>2
<1>3. CASE e.key \notin K
  <2>1. e \in os
    BY <1>3 DEF RowWrite, Overwrites
  <2>2. PICK o \in os : Locks(o, e.tid, j)
    BY <2>1 DEF WriteFinds, Good, EntriesLocked
  <2>3. CASE o.key \in K /\ o.key = RowKey(j)
    <3>1. j = k
      BY <2>3, WriteKeys
    <3>2. Ours(o, t, act)
      BY <2>3, <3>1 DEF RowWrite, Covers
    <3>3. o.tid = e.tid \/ o.xid = e.tid
      BY <2>2, <2>3, Kinds DEF Locks
    <3>4. e.tid = t
      BY <3>2, <3>3 DEF Ours
    <3> QED BY <1>1, <3>1, <3>4
  <2>4. CASE o.key \notin K
    BY <2>2, <2>4 DEF RowWrite, Overwrites
  <2>5. CASE IsDefinition(o)
    BY <2>2, <2>5, WriteKeepsDefinitions
  <2> QED BY <2>2, <2>3, <2>4, <2>5 DEF Locks
<1> QED BY <1>2, <1>3

LEMMA WriteDefinitions ==
  ASSUME NEW os \in SUBSET Object, NEW ps \in SUBSET Object, NEW act, 0 \notin act,
         NEW t \in act, NEW ks, NEW k \in Key, NEW ix \in SUBSET IndexId, NEW K, NEW new,
         RowWrite(os, ps, t, act, k, ix, K, new), WriteFinds(os, t, act, ks, ix)
  PROVE  DefsApart(ps) /\ NewDefsAlone(ps, act)
<1>1. \A d : IsDefinition(d) => (d \in os <=> d \in ps)
  BY WriteKeepsDefinitions
<1>2. DefsApart(ps)
  BY <1>1 DEF WriteFinds, Good, DefsApart
<1>3. ASSUME NEW d \in ps, NEW q \in ps, IsDefinition(d), d.tid \in act, ~ IsEntry(q)
      PROVE  Alone(q, act, d.tid)
  <2>1. d \in os /\ d.tid = t
    BY <1>1, <1>3, DefinitionOurs DEF Ours
  <2>2. CASE q.key \notin K
    <3>1. q \in os
      BY <2>2 DEF RowWrite, Overwrites
    <3> QED BY <1>3, <2>1, <3>1 DEF WriteFinds, Good, NewDefsAlone
  <2>3. CASE q.key \in K
    <3>1. q \in new \/ (q.xid = t /\ \E o \in os : Kept(o, q) /\ Ours(o, t, act))
      BY <2>3 DEF RowWrite, Overwrites
    <3>2. q \in new => q.tid = t /\ q.xid = 0
      BY DEF RowWrite, Creates
    <3> QED BY <2>1, <3>1, <3>2 DEF Alone, Kept, Ours
  <2> QED BY <2>2, <2>3
<1> QED BY <1>2, <1>3 DEF NewDefsAlone

(* An index matches a row if it did before and nothing of the row changed. *)
LEMMA MatchingSame ==
  ASSUME NEW os, NEW ps, NEW act, NEW i, NEW x, NEW t, NEW k,
         \A o : o.key = RowKey(k) => (o \in os <=> o \in ps),
         \A o, v : o.key = EntryKey(i, v, k) => (o \in os <=> o \in ps)
  PROVE  /\ OldIndex(os, act, i, x, k) => OldIndex(ps, act, i, x, k)
         /\ NewIndex(os, i, t, k) => NewIndex(ps, i, t, k)
<1>1. OldIndex(os, act, i, x, k) => RowsHaveEntries(ps, act, i, x, k)
  BY DEF OldIndex, RowsHaveEntries
<1>2. OldIndex(os, act, i, x, k) => EntriesHaveRows(ps, act, i, x, k)
  BY DEF OldIndex, EntriesHaveRows
<1>3. NewIndex(os, i, t, k) => NewIndex(ps, i, t, k)
  BY DEF NewIndex
<1> QED BY <1>1, <1>2, <1>3 DEF OldIndex

(* The row that is written has what it needs in an index that is committed *)
(* and that the writer may have dropped (x).                               *)
LEMMA WriteRowsHaveEntries ==
  ASSUME NEW os \in SUBSET Object, NEW ps \in SUBSET Object, NEW act, 0 \notin act,
         NEW t \in act, NEW ks, NEW k \in Key, NEW ix \in SUBSET IndexId, NEW K, NEW new,
         RowWrite(os, ps, t, act, k, ix, K, new),
         NEW i \in IndexId, NEW x \in {0, t}, x = 0 => i \in ix, OldIndex(os, act, i, x, k)
  PROVE  RowsHaveEntries(ps, act, i, x, k)
<1> SUFFICES ASSUME NEW r \in ps, r.key = RowKey(k), Lasts(r, act, x)
             PROVE  \E e \in ps : e.key = EntryKey(i, r.value, k) /\ Lasts(e, act, x)
                                   /\ Twins(r, e, act, x)
  BY DEF RowsHaveEntries
<1>1. r \in Object /\ r.value \in Value /\ t # 0
  BY ObjectFields, Kinds
<1>2. CASE r \in new
  <2>1. r.tid = t /\ r.xid = 0
    BY <1>2 DEF RowWrite, Creates
  <2>2. x = 0
    BY <2>1 DEF Lasts
  <2>3. PICK q \in new : q.key = EntryKey(i, r.value, k)
    BY <1>1, <1>2, <2>2 DEF RowWrite, Covers
  <2>4. q \in ps /\ q.tid = t /\ q.xid = 0
    BY DEF RowWrite, Creates
  <2> QED BY <1>1, <2>1, <2>2, <2>3, <2>4 DEF Lasts, Twins
<1>3. CASE r \notin new
  <2>1. PICK o \in os : Kept(o, r) /\ Ours(o, t, act) /\ r.xid = t
    BY <1>3, WriteKeys DEF RowWrite, Overwrites
  <2>2. o.key = RowKey(k) /\ o.value = r.value /\ o.tid = r.tid /\ o.xid \in {0, t}
        /\ r.tid \notin act /\ Lasts(o, act, x)
    BY <1>1, <2>1 DEF Kept, Ours, Lasts
  <2>3. PICK e \in os : e.key = EntryKey(i, r.value, k) /\ Lasts(e, act, x) /\ Twins(o, e, act, x)
    BY <2>2 DEF OldIndex, RowsHaveEntries
  <2>4. e.tid \notin act /\ e.xid \in {0, t}
    BY <2>2, <2>3 DEF Twins
  <2>5. CASE e.key \in K
    <3>1. PICK q \in ps : Kept(e, q) /\ q.xid = t
      BY <2>4, <2>5 DEF RowWrite, Overwrites
    <3> QED BY <2>1, <2>2, <2>3, <2>4, <3>1 DEF Kept, Lasts, Twins
  <2>6. CASE e.key \notin K
    <3>1. e \in ps
      BY <2>6 DEF RowWrite, Overwrites
    <3>2. x = 0 => o.xid # 0
      BY <2>2, <2>3, <2>6 DEF RowWrite, Covers
    <3>3. Twins(r, e, act, x)
      BY <2>1, <2>2, <2>3, <2>4, <3>2 DEF Twins
    <3> QED BY <2>3, <3>1, <3>3
  <2> QED BY <2>5, <2>6
<1> QED BY <1>2, <1>3

LEMMA WriteEntriesHaveRows ==
  ASSUME NEW os \in SUBSET Object, NEW ps \in SUBSET Object, NEW act, 0 \notin act,
         NEW t \in act, NEW ks, NEW k \in Key, NEW ix \in SUBSET IndexId, NEW K, NEW new,
         RowWrite(os, ps, t, act, k, ix, K, new),
         NEW i \in IndexId, NEW x \in {0, t}, x = 0 => i \in ix, OldIndex(os, act, i, x, k)
  PROVE  EntriesHaveRows(ps, act, i, x, k)
<1> SUFFICES ASSUME NEW e \in ps, NEW v \in Value, e.key = EntryKey(i, v, k), Lasts(e, act, x)
             PROVE  \E r \in ps : r.key = RowKey(k) /\ r.value = v /\ Lasts(r, act, x)
                                   /\ Twins(r, e, act, x)
  BY DEF EntriesHaveRows
<1>1. RowKey(k) \in K /\ t # 0
  BY WriteKeys
<1>2. CASE e \in new
  <2>1. e.tid = t /\ e.xid = 0
    BY <1>2 DEF RowWrite, Creates
  <2>2. x = 0
    BY <2>1 DEF Lasts
  <2>3. PICK r \in new : r.key = RowKey(k) /\ r.value = v
    BY <1>2, <2>2 DEF RowWrite, Covers
  <2>4. r \in ps /\ r.tid = t /\ r.xid = 0
    BY DEF RowWrite, Creates
  <2> QED BY <1>1, <2>1, <2>2, <2>3, <2>4 DEF Lasts, Twins
<1>3. CASE e \notin new /\ e.key \in K
  <2>1. PICK o \in os : Kept(o, e) /\ Ours(o, t, act) /\ e.xid = t
    BY <1>3 DEF RowWrite, Overwrites
  <2>2. o.key = EntryKey(i, v, k) /\ o.tid = e.tid /\ o.xid \in {0, t} /\ e.tid \notin act
        /\ Lasts(o, act, x)
    BY <1>1, <2>1 DEF Kept, Ours, Lasts
  <2>3. PICK r \in os : r.key = RowKey(k) /\ r.value = v /\ Lasts(r, act, x) /\ Twins(r, o, act, x)
    BY <2>2 DEF OldIndex, EntriesHaveRows
  <2>4. r.tid \notin act
    BY <2>2, <2>3 DEF Twins
  <2>5. PICK q \in ps : Kept(r, q) /\ q.xid = t
    BY <1>1, <2>3, <2>4 DEF RowWrite, Overwrites
  <2> QED BY <2>1, <2>2, <2>3, <2>4, <2>5 DEF Kept, Lasts, Twins
<1>4. CASE e.key \notin K
  <2>1. e \in os
    BY <1>4 DEF RowWrite, Overwrites
  <2>2. PICK r \in os : r.key = RowKey(k) /\ r.value = v /\ Lasts(r, act, x) /\ Twins(r, e, act, x)
    BY <2>1 DEF OldIndex, EntriesHaveRows
  <2>3. Ours(r, t, act) /\ (r.xid = 0 => \A h \in ix : EntryKey(h, r.value, k) \in K)
    BY <2>2 DEF RowWrite, Covers
  <2>4. r.xid \in {0, t} /\ (x = 0 => r.xid = t)
    BY <1>4, <2>2, <2>3 DEF Ours
  <2>5. r.tid \notin act
    BY <1>1, <2>2, <2>3, <2>4 DEF Ours, Lasts
  <2>6. PICK q \in ps : Kept(r, q) /\ q.xid = t
    BY <1>1, <2>2, <2>5 DEF RowWrite, Overwrites
  <2>7. Twins(q, e, act, x)
    BY <2>2, <2>4, <2>5, <2>6 DEF Kept, Twins
  <2> QED BY <2>2, <2>5, <2>6, <2>7 DEF Kept, Lasts
<1> QED BY <1>2, <1>3, <1>4

(* The row that is written, in an index that the writer has created.       *)
LEMMA WriteNewIndex ==
  ASSUME NEW os \in SUBSET Object, NEW ps \in SUBSET Object, NEW act, 0 \notin act,
         NEW t \in act, NEW ks, NEW k \in Key, NEW ix \in SUBSET IndexId, NEW K, NEW new,
         RowWrite(os, ps, t, act, k, ix, K, new), NEW i \in ix, NewIndex(os, i, t, k)
  PROVE  NewIndex(ps, i, t, k)
<1>1. RowKey(k) \in K /\ t # 0
  BY WriteKeys
<1>2. ASSUME NEW q \in new
      PROVE  q \in ps /\ q.tid = t /\ q.xid = 0
  BY DEF RowWrite, Creates
<1>3. ASSUME NEW r \in ps, r.key = RowKey(k), r.xid = 0
      PROVE  \E e \in ps : e.key = EntryKey(i, r.value, k) /\ e.xid = 0
  <2>1. r \in new
    BY <1>1, <1>3 DEF RowWrite, Overwrites
  <2>2. r.value \in Value
    BY <1>3, ObjectFields, Kinds
  <2>3. \E q \in new : q.key = EntryKey(i, r.value, k)
    BY <1>3, <2>1, <2>2 DEF RowWrite, Covers
  <2> QED BY <1>2, <2>3
<1>4. ASSUME NEW e \in ps, NEW v \in Value, e.key = EntryKey(i, v, k)
      PROVE  /\ e.tid = t
             /\ e.xid = 0 => \E r \in ps : r.key = RowKey(k) /\ r.value = v /\ r.xid = 0
  <2>1. CASE e \in new
    <3>1. PICK r \in new : r.key = RowKey(k) /\ r.value = v
      BY <1>4, <2>1 DEF RowWrite, Covers
    <3>2. r \in ps /\ r.xid = 0 /\ e.tid = t
      BY <1>2, <2>1
    <3> QED BY <3>1, <3>2
  <2>2. CASE e \notin new /\ e.key \in K
    <3>1. PICK o \in os : Kept(o, e) /\ e.xid = t
      BY <2>2 DEF RowWrite, Overwrites
    <3>2. o.key = EntryKey(i, v, k) /\ o.tid = e.tid
      BY <1>4, <3>1 DEF Kept
    <3>3. o.tid = t
      BY <3>2 DEF NewIndex
    <3> QED BY <1>1, <3>1, <3>2, <3>3
  <2>3. CASE e.key \notin K
    <3>1. e \in os
      BY <2>3 DEF RowWrite, Overwrites
    <3>2. ASSUME NEW r \in os, r.key = RowKey(k), r.value = v, r.xid = 0
          PROVE  FALSE
      BY <1>4, <2>3, <3>2 DEF RowWrite, Covers
    <3> QED BY <1>4, <3>1, <3>2 DEF NewIndex
  <2> QED BY <2>1, <2>2, <2>3
<1> QED BY <1>3, <1>4 DEF NewIndex

LEMMA WriteMatching ==
  ASSUME NEW os \in SUBSET Object, NEW ps \in SUBSET Object, NEW act, 0 \notin act,
         NEW t \in act, NEW ks \in SUBSET Key, NEW k \in Key, NEW ix \in SUBSET IndexId,
         NEW K, NEW new,
         RowWrite(os, ps, t, act, k, ix, K, new), WriteFinds(os, t, act, ks, ix)
  PROVE  Matching(ps, act, ks)
<1> SUFFICES ASSUME NEW d \in ps, NEW i \in IndexId, NEW j \in ks, d.key = DefinitionKey(i)
             PROVE  /\ d.tid \notin act => OldIndex(ps, act, i, d.xid, j)
                    /\ d.tid \in act /\ d.xid = 0 => NewIndex(ps, i, d.tid, j)
  BY DEF Matching
<1>1. d \in os /\ IsDefinition(d) /\ d.key[2] = i
  BY Kinds, WriteKeepsDefinitions
<1>2. /\ d.tid \notin act => OldIndex(os, act, i, d.xid, j)
      /\ d.tid \in act /\ d.xid = 0 => NewIndex(os, i, d.tid, j)
  BY <1>1 DEF WriteFinds, Good, Matching
<1>3. CASE j # k
  <2>1. /\ \A o : o.key = RowKey(j) => (o \in os <=> o \in ps)
        /\ \A o, v : o.key = EntryKey(i, v, j) => (o \in os <=> o \in ps)
    BY <1>3, WriteKeys DEF RowWrite, Overwrites
  <2> QED BY <1>2, <2>1, MatchingSame
<1>4. CASE j = k
  <2>1. Ours(d, t, act) /\ (d.xid = 0 => i \in ix)
    BY <1>1, DefinitionOurs
  <2>2. d.xid \in {0, t} /\ (d.tid \in act => d.tid = t)
    BY <2>1 DEF Ours
  <2>3. CASE d.tid \notin act
    <3> DEFINE x == d.xid
    <3>1. x \in {0, t} /\ (x = 0 => i \in ix) /\ OldIndex(os, act, i, x, k)
      BY <1>2, <1>4, <2>1, <2>2, <2>3
    <3> HIDE DEF x
    <3>2. RowsHaveEntries(ps, act, i, x, k) /\ EntriesHaveRows(ps, act, i, x, k)
      BY <3>1, WriteRowsHaveEntries, WriteEntriesHaveRows
    <3> QED BY <1>4, <2>3, <3>2 DEF OldIndex, x
  <2>4. CASE d.tid \in act
    BY <1>2, <1>4, <2>1, <2>2, <2>4, WriteNewIndex
  <2> QED BY <2>3, <2>4
<1> QED BY <1>3, <1>4

(* No entry of another row says that the value is taken, in an index that  *)
(* is UNIQUE: check_unique_indexes, of what the statement has written.     *)
NotTaken(ps, t, act, k, ix, new) ==
  \A r \in new, i \in ix \cap Unique :
    r.key = RowKey(k) => ~ Taken(ps, i, r.value, k, t, act)

(* Another row with the value that the row had, or gets, isn't seen.       *)
LEMMA WriteApart ==
  ASSUME NEW os \in SUBSET Object, NEW ps \in SUBSET Object, NEW act, 0 \notin act,
         NEW t \in act, NEW ks \in SUBSET Key, NEW k \in Key, NEW ix \in SUBSET IndexId,
         NEW K, NEW new, RowWrite(os, ps, t, act, k, ix, K, new),
         WriteFinds(os, t, act, ks, ix), Versioned(ps, act), NotTaken(ps, t, act, k, ix, new),
         NEW d \in ps, NEW o \in ps, NEW p \in ps, NEW j \in ks,
         IsDefinition(d), d.key[2] \in Unique,
         o.key = RowKey(k), p.key = RowKey(j), j # k, k \in ks, o.value = p.value
  PROVE  /\ d.tid \notin act /\ d.xid \notin {o.tid, p.tid} => Apart(o, p)
         /\ d.tid \in act /\ d.xid = 0 => o.xid # 0 \/ p.xid # 0
<1> DEFINE i == d.key[2]
<1>1. d \in os /\ d \in Object
  BY WriteKeepsDefinitions
<1>2. i \in IndexId /\ d.key = DefinitionKey(i)
  BY <1>1, KindOf, Kinds
<1>3. Ours(d, t, act) /\ (d.xid = 0 => i \in ix)
  BY <1>1, DefinitionOurs
<1>4. p \in os /\ p.value \in Value /\ RowKey(k) \in K
  BY WriteKeys, ObjectFields, Kinds DEF RowWrite, Overwrites
<1>5. \A e, v : e.key = EntryKey(i, v, j) => (e \in os <=> e \in ps)
  BY WriteKeys DEF RowWrite, Overwrites
<1>6. /\ d.tid \notin act => OldIndex(os, act, i, d.xid, j)
      /\ d.tid \in act /\ d.xid = 0 => NewIndex(os, i, d.tid, j)
  BY <1>1, <1>2 DEF WriteFinds, Good, Matching
<1> HIDE DEF i
<1>7. CASE o \in new
  <2>1. o.tid = t /\ o.xid = 0
    BY <1>7 DEF RowWrite, Creates
  <2>2. ASSUME i \in ix, NEW e \in ps, e.key = EntryKey(i, p.value, j)
        PROVE  e.xid = t
    <3>1. ~ Concurrent(e, t, act) /\ e.xid # 0
      BY <1>7, <2>2 DEF NotTaken, Taken, i
    <3>2. e.xid \in act
      BY <3>1 DEF Versioned, ExpiredByActive
    <3> QED BY <3>1, <3>2 DEF Concurrent
  <2>3. ASSUME d.tid \notin act, d.xid \notin {o.tid, p.tid}
        PROVE  Apart(o, p)
    <3>1. d.xid = 0 /\ i \in ix /\ OldIndex(os, act, i, 0, j)
      BY <1>3, <1>6, <2>1, <2>3 DEF Ours
    <3>2. CASE Lasts(p, act, 0)
      <4>1. PICK e \in os : e.key = EntryKey(i, p.value, j) /\ Twins(p, e, act, 0)
        BY <1>4, <3>1, <3>2 DEF OldIndex, RowsHaveEntries
      <4>2. e.xid = t /\ p.xid = t
        BY <1>5, <2>2, <3>1, <4>1 DEF Twins
      <4> QED BY <2>1, <4>2 DEF Apart
    <3>3. CASE ~ Lasts(p, act, 0)
      <4>1. p.tid \in act /\ p.xid # 0
        BY <3>3 DEF Lasts
      <4>2. p.xid = p.tid
        BY <4>1 DEF Versioned, ExpiredByOwner
      <4> QED BY <4>1, <4>2 DEF Apart
    <3> QED BY <3>2, <3>3
  <2>4. ASSUME d.tid \in act, d.xid = 0, p.xid = 0
        PROVE  FALSE
    <3>1. i \in ix /\ NewIndex(os, i, d.tid, j)
      BY <1>3, <1>6, <2>4
    <3>2. PICK e \in os : e.key = EntryKey(i, p.value, j) /\ e.xid = 0
      BY <1>4, <2>4, <3>1 DEF NewIndex
    <3>3. e.xid = t
      BY <1>5, <2>2, <3>1, <3>2
    <3> QED BY <3>2, <3>3
  <2> QED BY <2>3, <2>4
<1>8. CASE o \notin new
  <2>1. PICK a \in os : Kept(a, o) /\ Ours(a, t, act) /\ o.xid = t
    BY <1>4, <1>8 DEF RowWrite, Overwrites
  <2>2. SameValue(a, p, ks)
    BY <2>1 DEF SameValue, Kept
  <2>3. d.tid \notin act /\ d.xid \notin {a.tid, p.tid} => Apart(a, p)
    BY <1>1, <1>4, <2>2 DEF WriteFinds, Good, Distinct
  <2>4. Apart(a, p) => Apart(o, p)
    BY <2>1 DEF Apart, Kept, Ours
  <2> QED BY <2>1, <2>3, <2>4 DEF Kept
<1> QED BY <1>7, <1>8

LEMMA WriteDistinct ==
  ASSUME NEW os \in SUBSET Object, NEW ps \in SUBSET Object, NEW act, 0 \notin act,
         NEW t \in act, NEW ks \in SUBSET Key, NEW k \in Key, NEW ix \in SUBSET IndexId,
         NEW K, NEW new, RowWrite(os, ps, t, act, k, ix, K, new),
         WriteFinds(os, t, act, ks, ix), Versioned(ps, act), NotTaken(ps, t, act, k, ix, new)
  PROVE  Distinct(ps, act, ks)
<1> SUFFICES ASSUME NEW d \in ps, NEW o \in ps, NEW p \in ps,
                    IsDefinition(d), d.key[2] \in Unique, SameValue(o, p, ks)
             PROVE  /\ d.tid \notin act /\ d.xid \notin {o.tid, p.tid} => Apart(o, p)
                    /\ d.tid \in act /\ d.xid = 0 => o.xid # 0 \/ p.xid # 0
  BY DEF Distinct
<1>1. PICK j \in ks, l \in ks :
        j # l /\ o.key = RowKey(j) /\ p.key = RowKey(l) /\ o.value = p.value
  BY DEF SameValue
<1>2. CASE j # k /\ l # k
  <2>1. o \in os /\ p \in os /\ d \in os
    BY <1>1, <1>2, WriteKeys, WriteKeepsDefinitions DEF RowWrite, Overwrites
  <2> QED BY <2>1 DEF WriteFinds, Good, Distinct
<1>3. CASE j = k
  BY <1>1, <1>3, WriteApart
<1>4. CASE l = k
  <2>1. /\ d.tid \notin act /\ d.xid \notin {o.tid, p.tid} => Apart(p, o)
        /\ d.tid \in act /\ d.xid = 0 => o.xid # 0 \/ p.xid # 0
    BY <1>1, <1>4, WriteApart
  <2> QED BY <2>1 DEF Apart
<1> QED BY <1>2, <1>3, <1>4

(* INSERT, UPDATE and DELETE of a row, before the end of the statement.    *)
LEMMA RowWriteGood ==
  ASSUME NEW os \in SUBSET Object, NEW ps \in SUBSET Object, NEW act, 0 \notin act,
         NEW t \in act, NEW ks \in SUBSET Key, NEW k \in Key, NEW ix \in SUBSET IndexId,
         NEW K, NEW new, RowWrite(os, ps, t, act, k, ix, K, new),
         WriteFinds(os, t, act, ks, ix), NotTaken(ps, t, act, k, ix, new)
  PROVE  Good(ps, act, ks)
<1>1. Versioned(ps, act) /\ OneOwn(ps)
  BY WriteVersioned
<1>2. EntriesLocked(ps, act) /\ DefsApart(ps) /\ NewDefsAlone(ps, act)
  BY WriteLocked, WriteDefinitions
<1>3. Matching(ps, act, ks) /\ Distinct(ps, act, ks)
  BY <1>1, WriteMatching, WriteDistinct
<1> QED BY <1>1, <1>2, <1>3 DEF Good

-----------------------------------------------------------------------------
(* INSERT, UPDATE and DELETE write one row and its entries (RowWrite).     *)

(* Page.expire leaves other keys alone.                                    *)
LEMMA SetXidOutside ==
  ASSUME NEW os \in SUBSET Object, NEW S, NEW E, \A e \in S : e.key \in E, NEW x \in Nat
  PROVE  \A o : o.key \notin E => (o \in os <=> o \in SetXid(os, S, x))
<1>1. /\ \A q \in SetXid(os, S, x) : \E o \in os :
           Kept(o, q) /\ IF Named(o, S) THEN q.xid = x ELSE q = o
      /\ \A o \in os : \E q \in SetXid(os, S, x) :
           Kept(o, q) /\ IF Named(o, S) THEN q.xid = x ELSE q = o
  BY SetXidHas
<1>2. \A o : o.key \notin E => ~ Named(o, S)
  BY DEF Named
<1> QED BY <1>1, <1>2 DEF Kept

(* What Btree.update does at a key depends on the versions of the key.     *)
LEMMA UpdateExpiresSame ==
  ASSUME NEW os, NEW bs, NEW key, NEW t, \A o : o.key = key => (o \in os <=> o \in bs)
  PROVE  UpdateExpires(os, key, t) <=> UpdateExpires(bs, key, t)
<1>1. HasTwoVersions(os, key) <=> HasTwoVersions(bs, key)
  BY DEF HasTwoVersions
<1>2. Own(os, key, t) = Own(bs, key, t)
  BY DEF Own
<1> QED BY <1>1, <1>2 DEF UpdateExpires

(* If Page.update and Page.add succeed at a key, its only version is one   *)
(* that the transaction may expire, or the transaction has one.            *)
LEMMA NoConflict ==
  ASSUME NEW os \in SUBSET Object, NEW act, NEW key, NEW t, ~ UpdateConflict(os, key, t)
  PROVE  /\ UpdateExpires(os, key, t) =>
              \A o \in os : o.key = key => o.xid \in {0, t}
         /\ ~ UpdateExpires(os, key, t) => \E o \in os : o.key = key /\ o.tid = t
<1>1. ASSUME UpdateExpires(os, key, t), NEW o \in os, o.key = key
      PROVE  o.xid \in {0, t}
  BY <1>1 DEF UpdateConflict, ExpireConflict
<1>2. ASSUME ~ UpdateExpires(os, key, t), ~ \E o \in os : o.key = key /\ o.tid = t
      PROVE  FALSE
  <2>1. Own(os, key, t) = {}
    BY <1>2 DEF Own
  <2>2. HasTwoVersions(os, key)
    BY <1>2, <2>1 DEF UpdateExpires
  <2>3. PageUpdate(os, key, t) = os
    BY <1>2, <2>1 DEF PageUpdate, PageDelete
  <2> QED BY <2>2, <2>3 DEF UpdateConflict
<1> QED BY <1>1, <1>2

(* The entries of a row that the transaction may write are committed or    *)
(* its own.                                                                *)
LEMMA EntriesMine ==
  ASSUME NEW os \in SUBSET Object, NEW act, 0 \notin act, NEW t \in act, NEW ks, NEW ix,
         WriteFinds(os, t, act, ks, ix), NEW k \in Key,
         \A r \in os : r.key = RowKey(k) => Ours(r, t, act),
         NEW e \in os, NEW i \in IndexId, NEW v \in Value, e.key = EntryKey(i, v, k)
  PROVE  e.tid \in act => e.tid = t
<1> SUFFICES ASSUME e.tid \in act
             PROVE  e.tid = t
  OBVIOUS
<1>1. PICK o \in os : Locks(o, e.tid, k)
  BY DEF WriteFinds, Good, EntriesLocked
<1>2. Ours(o, t, act)
  BY <1>1, DefinitionOurs DEF Locks
<1>3. o.tid = e.tid \/ o.xid = e.tid
  BY <1>1 DEF Locks
<1> QED BY <1>2, <1>3 DEF Ours

(* The keys E, which the transaction may write and which nothing else of   *)
(* the statement has changed (bs).                                         *)
Untouched(os, bs, t, act, E) ==
  /\ \A o : o.key \in E => (o \in os <=> o \in bs)
  /\ \A o \in os : o.key \in E /\ o.tid \in act => o.tid = t

(* What becomes of them if entries are added.                              *)
EntriesAdded(os, bs, ps, t, act, E) ==
  /\ \A o : o.key \notin E => (o \in bs <=> o \in ps)
  /\ \A q \in ps : q.key \in E =>
       \/ q \in {NewObject(e, t, Nothing) : e \in E}
       \/ q.tid # t /\ q.xid = t /\ \E o \in os : Kept(o, q) /\ Ours(o, t, act)
  /\ \A o \in os : o.key \in E =>
       o.tid = t \/ (Ours(o, t, act) /\ \E q \in ps : Kept(o, q) /\ q.xid = t)
  /\ \A e \in E : NewObject(e, t, Nothing) \in ps

(* And if they are expired.                                                *)
AllExpired(os, bs, ps, t, act, E) ==
  /\ \A o : o.key \notin E => (o \in bs <=> o \in ps)
  /\ \A q \in ps : q.key \in E => q.xid = t /\ \E o \in os : Kept(o, q) /\ Ours(o, t, act)
  /\ \A o \in os : o.key \in E => Ours(o, t, act) /\ \E q \in ps : Kept(o, q) /\ q.xid = t

(* add_index_entries                                                       *)
LEMMA AddEntriesHas ==
  ASSUME NEW os \in SUBSET Object, NEW bs \in SUBSET Object, NEW act, 0 \notin act,
         NEW t \in act, t \in Nat, NEW E, Untouched(os, bs, t, act, E), Versioned(os, act),
         \A e \in E : e \in ObjectKey /\ ~ e[1] = "R",
         \A e \in E : ~ UpdateConflict(os, e, t)
  PROVE  /\ AddEntries(bs, E, t) \in SUBSET Object
         /\ EntriesAdded(os, bs, AddEntries(bs, E, t), t, act, E)
<1> DEFINE replaced == {o \in bs : o.key \in E /\ o.tid = t}
           kept == PageDelete(bs, replaced)
           expired == {o \in bs : o.key \in E /\ UpdateExpires(bs, o.key, t)}
           set == SetXid(kept, expired, t)
           new == {NewObject(e, t, Nothing) : e \in E}
           written == AddEntries(bs, E, t)
<1>1. written = set \cup new
  BY DEF AddEntries
<1>2. \A o : o \in kept <=> o \in bs /\ ~ (o.key \in E /\ o.tid = t)
  <2>1. \A o \in bs : Named(o, replaced) <=> o.key \in E /\ o.tid = t
    BY DEF Named
  <2> QED BY <2>1, PageDeleteHas
<1>3. kept \in SUBSET Object
  BY <1>2
<1>4. \A o \in kept : Named(o, expired) <=> o.key \in E /\ UpdateExpires(os, o.key, t)
  <2>1. \A o \in kept : Named(o, expired) <=> o.key \in E /\ UpdateExpires(bs, o.key, t)
    BY <1>2 DEF Named
  <2>2. \A o : o.key \in E => (UpdateExpires(os, o.key, t) <=> UpdateExpires(bs, o.key, t))
    BY UpdateExpiresSame DEF Untouched
  <2> QED BY <2>1, <2>2
<1>5. \A e \in expired : e.key \in E
  OBVIOUS
<1> HIDE DEF kept, expired
<1>6. /\ set \in SUBSET Object
      /\ \A q \in set : \E o \in kept :
           Kept(o, q) /\ IF Named(o, expired) THEN q.xid = t ELSE q = o
      /\ \A o \in kept : \E q \in set :
           Kept(o, q) /\ IF Named(o, expired) THEN q.xid = t ELSE q = o
  <2>1. t \in Nat
    OBVIOUS
  <2> QED BY ONLY <1>3, <2>1, SetXidHas
<1>7. \A o : o.key \notin E => (o \in kept <=> o \in set)
  BY <1>3, <1>5, SetXidOutside
<1> HIDE DEF set
<1>8. new \in SUBSET Object
  BY DEF NewObject, Object, IsRow, Nothing
<1>9. \A q \in new : q.key \in E
  BY DEF NewObject
<1> HIDE DEF new, written
<1>10. ASSUME NEW o \in os, o.key \in E, o.tid # t
       PROVE  /\ Ours(o, t, act) /\ o \in kept
              /\ ~ UpdateExpires(os, o.key, t) => o.xid = t
  <2>1. o.tid \notin act /\ o \in kept
    BY <1>2, <1>10 DEF Untouched
  <2>2. CASE UpdateExpires(os, o.key, t)
    BY <1>10, <2>1, <2>2, NoConflict DEF Ours
  <2>3. CASE ~ UpdateExpires(os, o.key, t)
    <3>1. PICK p \in os : p.key = o.key /\ p.tid = t
      BY <1>10, <2>3, NoConflict
    <3>2. o # p
      BY <1>10, <3>1
    <3>3. PICK s \in act : (o.xid = s /\ p.tid = s) \/ (p.xid = s /\ o.tid = s)
      BY <3>1, <3>2 DEF Versioned, Replaces
    <3>4. o.xid = t
      BY <2>1, <3>1, <3>3
    <3> QED BY <2>1, <3>4 DEF Ours
  <2> QED BY <2>2, <2>3
<1>11. ASSUME NEW q \in written, q.key \in E, q \notin new
       PROVE  q.tid # t /\ q.xid = t /\ \E o \in os : Kept(o, q) /\ Ours(o, t, act)
  <2>1. q \in set
    BY <1>1, <1>11
  <2>2. PICK o \in kept : Kept(o, q) /\ IF Named(o, expired) THEN q.xid = t ELSE q = o
    BY <1>6, <2>1
  <2>3. o \in os /\ o.key \in E /\ o.tid # t /\ q.tid # t
    <3>1. o.key = q.key /\ o.tid = q.tid
      BY <2>2 DEF Kept
    <3>2. o \in bs /\ o.key \in E /\ o.tid # t
      BY <1>2, <1>11, <3>1
    <3> QED BY <3>1, <3>2 DEF Untouched
  <2>4. q.xid = t
    BY <1>4, <1>10, <2>2, <2>3
  <2> QED BY <1>10, <2>2, <2>3, <2>4
<1>12. ASSUME NEW o \in os, o.key \in E, o.tid # t
       PROVE  \E q \in written : Kept(o, q) /\ q.xid = t
  <2>1. PICK q \in set : Kept(o, q) /\ IF Named(o, expired) THEN q.xid = t ELSE q = o
    BY <1>6, <1>10, <1>12
  <2>2. q.xid = t
    BY <1>4, <1>10, <1>12, <2>1
  <2> QED BY <1>1, <2>1, <2>2
<1>13. \A e \in E : NewObject(e, t, Nothing) \in written
  BY <1>1 DEF new
<1>14. \A o : o.key \notin E => (o \in bs <=> o \in written)
  BY <1>1, <1>2, <1>7, <1>9
<1> QED BY <1>1, <1>6, <1>8, <1>10, <1>11, <1>12, <1>13, <1>14 DEF EntriesAdded, new, written

(* delete_index_entries                                                    *)
LEMMA ExpireEntriesHas ==
  ASSUME NEW os \in SUBSET Object, NEW bs \in SUBSET Object, NEW act, 0 \notin act,
         NEW t \in act, t \in Nat, NEW E, Untouched(os, bs, t, act, E), Versioned(os, act),
         ~ ExpireConflict(os, Visibles(os, E, t, act), t)
  PROVE  /\ ExpireEntries(bs, E, t, act) \in SUBSET Object
         /\ AllExpired(os, bs, ExpireEntries(bs, E, t, act), t, act, E)
<1> DEFINE S == Visibles(bs, E, t, act)
           after == ExpireEntries(bs, E, t, act)
<1>1. after = SetXid(bs, S, t)
  BY DEF ExpireEntries
<1>2. \A e : e \in S <=> e \in os /\ e.key \in E /\ Visible(e, t, act)
  BY DEF Visibles, Untouched
<1>3. S = Visibles(os, E, t, act)
  BY DEF Visibles, Untouched
<1> HIDE DEF S, after
<1>4. /\ after \in SUBSET Object
      /\ \A q \in after : \E o \in bs : Kept(o, q) /\ IF Named(o, S) THEN q.xid = t ELSE q = o
      /\ \A o \in bs : \E q \in after : Kept(o, q) /\ IF Named(o, S) THEN q.xid = t ELSE q = o
  BY <1>1, SetXidHas
<1>5. \A o : o.key \notin E => (o \in bs <=> o \in after)
  BY <1>1, <1>2, SetXidOutside
<1>6. ASSUME NEW o \in os, o.key \in E
      PROVE  Ours(o, t, act) /\ (Named(o, S) \/ o.xid = t)
  <2>1. o.tid \notin act \/ o.tid = t
    BY <1>6 DEF Untouched
  <2>2. CASE Visible(o, t, act)
    <3>1. o \in S
      BY <1>2, <1>6, <2>2
    <3>2. o.xid \in {0, t}
      BY <1>3, <3>1 DEF ExpireConflict
    <3> QED BY <2>1, <3>1, <3>2 DEF Ours, Named
  <2>3. CASE ~ Visible(o, t, act)
    <3>1. o.xid # 0 /\ (o.xid \notin act \/ o.xid = t)
      BY <2>1, <2>3 DEF Visible
    <3>2. o.xid = t
      BY <3>1 DEF Versioned, ExpiredByActive
    <3> QED BY <2>1, <3>2 DEF Ours
  <2> QED BY <2>2, <2>3
<1>7. ASSUME NEW q \in after, q.key \in E
      PROVE  q.xid = t /\ \E o \in os : Kept(o, q) /\ Ours(o, t, act)
  <2>1. PICK o \in bs : Kept(o, q) /\ IF Named(o, S) THEN q.xid = t ELSE q = o
    BY <1>4
  <2>2. o \in os /\ o.key \in E
    BY <1>7, <2>1 DEF Kept, Untouched
  <2> QED BY <1>6, <2>1, <2>2
<1>8. ASSUME NEW o \in os, o.key \in E
      PROVE  \E q \in after : Kept(o, q) /\ q.xid = t
  <2>1. o \in bs
    BY <1>8 DEF Untouched
  <2> QED BY <1>4, <1>6, <1>8, <2>1
<1> QED BY <1>4, <1>5, <1>6, <1>7, <1>8 DEF AllExpired, after

EntriesOf(ix, v, k) == {EntryKey(i, v, k) : i \in ix}

LEMMA EntriesOfKeys ==
  ASSUME NEW ix \in SUBSET IndexId, NEW v \in Value, NEW k \in Key
  PROVE  \A e \in EntriesOf(ix, v, k) :
           /\ e \in ObjectKey /\ ~ e[1] = "R" /\ e # RowKey(k)
           /\ \E i \in ix : e = EntryKey(i, v, k)
<1> SUFFICES ASSUME NEW i \in ix
             PROVE  /\ EntryKey(i, v, k) \in ObjectKey /\ ~ EntryKey(i, v, k)[1] = "R"
                    /\ EntryKey(i, v, k) # RowKey(k)
  BY DEF EntriesOf
<1>1. EntryKey(i, v, k) \in ObjectKey
  BY DEF ObjectKey, IndexId
<1>2. EntryKey(i, v, k)[1] = "E"
  BY EntryKeys
<1> QED BY <1>1, <1>2, KeysDiffer

(* Entries of an index and values.                                         *)
LEMMA EntriesOfHas ==
  ASSUME NEW ix, NEW v, NEW k, NEW i \in ix, NEW w
  PROVE  EntryKey(i, w, k) \in EntriesOf(ix, v, k) <=> w = v
BY KeysDiffer DEF EntriesOf

(* The versions of a row that the transaction sees and may change.         *)
LEMMA RowOurs ==
  ASSUME NEW os \in SUBSET Object, NEW act, 0 \notin act, NEW t \in act, Versioned(os, act),
         NEW row, NEW old \in Rows(os, row, t, act), old.xid \in {0, t}
  PROVE  /\ old \in os /\ old.key = row /\ old.xid = 0
         /\ \A p \in os : p.key = row =>
              Ours(p, t, act) /\ (p # old => p.xid = t /\ old.tid = t)
<1>1. old \in os /\ old.key = row /\ Visible(old, t, act)
  BY DEF Rows
<1>2. old.xid = 0 /\ (old.tid \notin act \/ old.tid = t)
  BY <1>1 DEF Visible
<1>3. ASSUME NEW p \in os, p.key = row, p # old
      PROVE  Ours(p, t, act) /\ p.xid = t /\ old.tid = t
  <2>1. PICK s \in act : (old.xid = s /\ p.tid = s) \/ (p.xid = s /\ old.tid = s)
    BY <1>1, <1>3 DEF Versioned, Replaces
  <2>2. p.xid = t /\ old.tid = t
    BY <1>2, <2>1
  <2>3. p.tid \in act => p.tid = t
    BY <1>3, <2>2 DEF Versioned, ExpiredByOwner
  <2> QED BY <2>2, <2>3 DEF Ours
<1> QED BY <1>1, <1>2, <1>3 DEF Ours

(* The row of k is written, with the value v or with none.                 *)
WritesValue(os, ps, t, act, k, ix, v) ==
  \E K, new : /\ RowWrite(os, ps, t, act, k, ix, K, new)
              /\ \A q \in new : q.key = RowKey(k) => q.value = v

(* INSERT, when it isn't refused.                                          *)
Inserts(os, ps, t, act, ks, ix, k, v) ==
  /\ WriteFinds(os, t, act, ks, ix)
  /\ CanInsert(os, RowKey(k), t, act)
  /\ \A e \in EntriesOf(ix, v, k) : ~ UpdateConflict(os, e, t)
  /\ ps = AddEntries(os \cup {NewObject(RowKey(k), t, v)}, EntriesOf(ix, v, k), t)

(* check_primary_key finds only versions that the transaction has expired  *)
(* itself.                                                                 *)
LEMMA InsertWrites ==
  ASSUME NEW os \in SUBSET Object, NEW act, 0 \notin act, NEW t \in act, t \in Nat, NEW ks,
         NEW ix \in SUBSET IndexId, NEW k \in Key, NEW v \in Value, NEW ps,
         Inserts(os, ps, t, act, ks, ix, k, v)
  PROVE  /\ ps \in SUBSET Object
         /\ WritesValue(os, ps, t, act, k, ix, v)
<1> USE DEF Inserts
<1> DEFINE row == NewObject(RowKey(k), t, v)
           E == EntriesOf(ix, v, k)
           bs == os \cup {row}
           added == {NewObject(e, t, Nothing) : e \in E}
           K == {RowKey(k)} \cup E
           new == {row} \cup added
<1>1. /\ row.key = RowKey(k) /\ row.tid = t /\ row.xid = 0 /\ row.value = v
      /\ row \in Object
  <2>1. RowKey(k) \in ObjectKey
    BY DEF ObjectKey
  <2> QED BY <2>1 DEF NewObject, Object, IsRow
<1> HIDE DEF row
<1>2. Versioned(os, act)
  BY DEF WriteFinds, Good
<1>3. \A r \in os : r.key = RowKey(k) => Ours(r, t, act) /\ r.xid = t
  <2> SUFFICES ASSUME NEW r \in os, r.key = RowKey(k)
               PROVE  Ours(r, t, act) /\ r.xid = t
    OBVIOUS
  <2>1. ~ Concurrent(r, t, act) /\ r.xid # 0
    BY DEF CanInsert, Contended, Duplicate
  <2>2. r.xid \in act
    BY <1>2, <2>1 DEF Versioned, ExpiredByActive
  <2> QED BY <2>1, <2>2 DEF Concurrent, Ours
<1>4. \A e \in E : /\ e \in ObjectKey /\ ~ e[1] = "R" /\ e # RowKey(k)
                   /\ \E i \in ix : e = EntryKey(i, v, k)
  BY EntriesOfKeys
<1>5. \A o \in os : o.key \in E /\ o.tid \in act => o.tid = t
  BY <1>3, <1>4, EntriesMine
<1>6. bs \in SUBSET Object /\ \A o : o.key \in E => (o \in os <=> o \in bs)
  BY <1>1, <1>4
<1>7. \A i \in ix : \A w : EntryKey(i, w, k) \in E <=> w = v
  BY EntriesOfHas
<1>8. \A q \in added : q \in added /\ q.tid = t /\ q.xid = 0 /\ q.key \in E
                       /\ q = NewObject(q.key, t, Nothing)
  BY DEF NewObject
<1>9. \A e \in E : NewObject(e, t, Nothing) \in added /\ NewObject(e, t, Nothing).key = e
  BY DEF NewObject
<1>10. (\A e \in E : e \in ObjectKey /\ ~ e[1] = "R") /\ \A e \in E : ~ UpdateConflict(os, e, t)
  BY <1>4
<1>11. ps = AddEntries(bs, E, t) /\ Untouched(os, bs, t, act, E)
  BY <1>5, <1>6 DEF row, Untouched
<1> HIDE DEF E, bs
<1>12. ps \in SUBSET Object /\ EntriesAdded(os, bs, ps, t, act, E)
  BY <1>2, <1>6, <1>10, <1>11, AddEntriesHas
<1>13. \A q \in added : q \in ps
  BY <1>12 DEF EntriesAdded
<1> HIDE DEF added
<1>14. \A o : o.key \notin E => (o \in ps <=> o \in os \/ o = row)
  BY <1>12 DEF EntriesAdded, bs
<1>15. RowKey(k) \notin E
  BY <1>4
<1>16. Overwrites(os, ps, t, act, K, new)
  <2>1. ASSUME NEW q \in ps, q.key \in K, q \notin new
        PROVE  q.xid = t /\ \E o \in os : Kept(o, q) /\ Ours(o, t, act)
    <3>1. CASE q.key \in E
      BY <1>12, <2>1, <3>1 DEF EntriesAdded, added
    <3>2. CASE q.key = RowKey(k)
      <4>1. q \in os
        BY <1>14, <1>15, <2>1, <3>2
      <4> QED BY <1>3, <3>2, <4>1 DEF Kept
    <3> QED BY <2>1, <3>1, <3>2
  <2>2. ASSUME NEW o \in os, o.key \in K, o.tid # t
        PROVE  Ours(o, t, act) /\ \E q \in ps : Kept(o, q) /\ q.xid = t
    <3>1. CASE o.key \in E
      BY <1>12, <2>2, <3>1 DEF EntriesAdded
    <3>2. CASE o.key = RowKey(k)
      <4>1. o \in ps
        BY <1>14, <1>15, <3>2
      <4> QED BY <1>3, <3>2, <4>1 DEF Kept
    <3> QED BY <2>2, <3>1, <3>2
  <2>3. \A o : o.key \notin K => (o \in os <=> o \in ps)
    BY <1>1, <1>14
  <2> QED BY <2>1, <2>2, <2>3 DEF Overwrites
<1>17. Creates(ps, t, K, new)
  <2>1. ASSUME NEW q \in new
        PROVE  q \in ps /\ q.tid = t /\ q.xid = 0 /\ q.key \in K
    BY <1>1, <1>8, <1>13, <1>14, <1>15
  <2>2. ASSUME NEW q \in new, NEW p \in ps, p.key = q.key, p.tid = t, IsRow(p) => p \in new
        PROVE  p = q
    <3>1. CASE q = row
      <4>1. p \in new
        BY <1>1, <2>2, <3>1, Kinds
      <4>2. p \notin added
        BY <1>1, <1>8, <1>15, <2>2, <3>1
      <4> QED BY <3>1, <4>1, <4>2
    <3>2. CASE q \in added
      <4>1. p \in added
        BY <1>8, <1>12, <2>2, <3>2 DEF EntriesAdded, added
      <4> QED BY <1>8, <2>2, <3>2, <4>1
    <3> QED BY <3>1, <3>2
  <2> QED BY <2>1, <2>2 DEF Creates
<1>18. Covers(os, ps, t, act, k, ix, K, new)
  <2>1. \A key \in K : key = RowKey(k) \/ \E i \in ix, w \in Value : key = EntryKey(i, w, k)
    BY <1>4
  <2>2. row \in ps
    BY <1>1, <1>14, <1>15
  <2>3. \A r \in os : r.key = RowKey(k) => Ours(r, t, act) /\ r.xid # 0
    BY <1>3
  <2>4. ASSUME NEW i \in ix, NEW w \in Value
        PROVE  (\E q \in new : q.key = EntryKey(i, w, k)) <=>
                 (\E q \in new : q.key = RowKey(k) /\ q.value = w)
    <3>1. (\E q \in new : q.key = RowKey(k) /\ q.value = w) <=> w = v
      BY <1>1, <1>8, <1>15
    <3>2. (\E q \in new : q.key = EntryKey(i, w, k)) <=> EntryKey(i, w, k) \in E
      BY <1>1, <1>8, <1>9, KeysDiffer
    <3> QED BY <1>7, <3>1, <3>2
  <2> QED BY <1>1, <2>1, <2>2, <2>3, <2>4 DEF Covers
<1>19. \A q \in new : q.key = RowKey(k) => q.value = v
  BY <1>1, <1>8, <1>15
<1> QED BY <1>12, <1>16, <1>17, <1>18, <1>19 DEF RowWrite, WritesValue

(* Page.update, of a row that the transaction sees: it removes its own     *)
(* version, or expires the only one.                                       *)
LEMMA PageUpdateHas ==
  ASSUME NEW os \in SUBSET Object, NEW act, 0 \notin act, NEW t \in act, t \in Nat,
         Versioned(os, act), NEW row, NEW old \in Rows(os, row, t, act),
         ~ UpdateConflict(os, row, t)
  PROVE  /\ old.xid \in {0, t}
         /\ PageUpdate(os, row, t) \in SUBSET Object
         /\ \A o : o.key # row => (o \in os <=> o \in PageUpdate(os, row, t))
         /\ \A q \in PageUpdate(os, row, t) : q.key = row =>
              q.xid = t /\ \E o \in os : Kept(o, q) /\ Ours(o, t, act)
         /\ \A o \in os : o.key = row =>
              o.tid = t \/ \E q \in PageUpdate(os, row, t) : Kept(o, q) /\ q.xid = t
<1> DEFINE us == PageUpdate(os, row, t)
<1>1. old \in os /\ old.key = row /\ Visible(old, t, act)
  BY DEF Rows
<1>2. CASE UpdateExpires(os, row, t)
  <2> DEFINE S == {o \in os : o.key = row}
  <2>1. us = SetXid(os, S, t)
    BY <1>2 DEF PageUpdate
  <2>2. \A o \in os : o.key = row => o.xid \in {0, t}
    BY <1>2, NoConflict
  <2>3. \A o \in os : Named(o, S) <=> o.key = row
    BY DEF Named
  <2>4. \A e \in S : e.key \in {row}
    OBVIOUS
  <2> HIDE DEF S, us
  <2>5. t \in Nat
    OBVIOUS
  <2>6. /\ us \in SUBSET Object
        /\ \A q \in us : \E o \in os : Kept(o, q) /\ IF Named(o, S) THEN q.xid = t ELSE q = o
        /\ \A o \in os : \E q \in us : Kept(o, q) /\ IF Named(o, S) THEN q.xid = t ELSE q = o
    BY <2>1, <2>5, SetXidHas
  <2>7. \A o : o.key \notin {row} => (o \in os <=> o \in us)
    BY <2>1, <2>4, <2>5, SetXidOutside
  <2>8. old.xid \in {0, t}
    BY <1>1, <2>2
  <2>9. \A p \in os : p.key = row => Ours(p, t, act)
    BY <2>8, RowOurs
  <2>10. ASSUME NEW q \in us, q.key = row
         PROVE  q.xid = t /\ \E o \in os : Kept(o, q) /\ Ours(o, t, act)
    <3>1. PICK o \in os : Kept(o, q) /\ IF Named(o, S) THEN q.xid = t ELSE q = o
      BY <2>6
    <3>2. o.key = row
      BY <2>10, <3>1 DEF Kept
    <3> QED BY <2>3, <2>9, <3>1, <3>2
  <2>11. ASSUME NEW o \in os, o.key = row
         PROVE  \E q \in us : Kept(o, q) /\ q.xid = t
    BY <2>3, <2>6, <2>11
  <2> QED BY <2>6, <2>7, <2>8, <2>10, <2>11 DEF us
<1>3. CASE ~ UpdateExpires(os, row, t)
  <2>1. us = PageDelete(os, Own(os, row, t))
    BY <1>3 DEF PageUpdate
  <2>2. \A o : o \in us <=> o \in os /\ ~ (o.key = row /\ o.tid = t)
    <3>1. \A o \in os : Named(o, Own(os, row, t)) <=> o.key = row /\ o.tid = t
      BY DEF Named, Own
    <3> QED BY <2>1, <3>1, PageDeleteHas
  <2> HIDE DEF us
  <2>3. PICK p \in os : p.key = row /\ p.tid = t
    BY <1>3, NoConflict
  <2>4. old.tid = t
    <3> SUFFICES ASSUME old.tid # t
                 PROVE  FALSE
      OBVIOUS
    <3>1. PICK s \in act : (old.xid = s /\ p.tid = s) \/ (p.xid = s /\ old.tid = s)
      BY <1>1, <2>3 DEF Versioned, Replaces
    <3> QED BY <1>1, <2>3, <3>1 DEF Visible
  <2>5. old.xid \in {0, t}
    BY <1>1, <2>4 DEF Versioned, ExpiredByOwner
  <2>6. \A o \in os : o.key = row => Ours(o, t, act) /\ (o # old => o.xid = t)
    BY <2>5, RowOurs
  <2>7. \A o \in os : o.key = row /\ o.tid # t => Ours(o, t, act) /\ o.xid = t
    BY <2>4, <2>6
  <2> QED BY <2>2, <2>5, <2>7 DEF Kept, us
<1> QED BY <1>2, <1>3

(* UPDATE, when it isn't refused: of the row (us), of the entries of its    *)
(* old value (es) and of those of the new one.                             *)
Updates(os, us, es, ps, t, act, ks, ix, k, old, v) ==
  /\ WriteFinds(os, t, act, ks, ix)
  /\ ~ UpdateConflict(os, RowKey(k), t)
  /\ old \in Rows(os, RowKey(k), t, act) /\ old.value # v
  /\ ~ ExpireConflict(os, Visibles(os, EntriesOf(ix, old.value, k), t, act), t)
  /\ \A e \in EntriesOf(ix, v, k) : ~ UpdateConflict(os, e, t)
  /\ us = PageUpdate(os, RowKey(k), t) \cup {NewObject(RowKey(k), t, v)}
  /\ es = ExpireEntries(us, EntriesOf(ix, old.value, k), t, act)
  /\ ps = AddEntries(es, EntriesOf(ix, v, k), t)

(* The entries of the old value and of the new one are different keys.     *)
LEMMA UpdateWrites ==
  ASSUME NEW os \in SUBSET Object, NEW act, 0 \notin act, NEW t \in act, t \in Nat, NEW ks,
         NEW ix \in SUBSET IndexId, NEW k \in Key, NEW v \in Value, NEW old, NEW us, NEW es,
         NEW ps, Updates(os, us, es, ps, t, act, ks, ix, k, old, v)
  PROVE  /\ ps \in SUBSET Object
         /\ WritesValue(os, ps, t, act, k, ix, v)
<1> USE DEF Updates
<1> DEFINE row == NewObject(RowKey(k), t, v)
           page == PageUpdate(os, RowKey(k), t)
           B == EntriesOf(ix, old.value, k)
           E == EntriesOf(ix, v, k)
           added == {NewObject(e, t, Nothing) : e \in E}
           K == {RowKey(k)} \cup B \cup E
           new == {row} \cup added
<1>1. /\ row.key = RowKey(k) /\ row.tid = t /\ row.xid = 0 /\ row.value = v
      /\ row \in Object
  <2>1. RowKey(k) \in ObjectKey
    BY DEF ObjectKey
  <2> QED BY <2>1 DEF NewObject, Object, IsRow
<1>2. us = page \cup {row}
  OBVIOUS
<1> HIDE DEF row, page
<1>3. Versioned(os, act) /\ t \in Nat
  BY DEF WriteFinds, Good
<1>4. /\ old.xid \in {0, t}
      /\ page \in SUBSET Object
      /\ \A o : o.key # RowKey(k) => (o \in os <=> o \in page)
      /\ \A q \in page : q.key = RowKey(k) =>
           q.xid = t /\ \E o \in os : Kept(o, q) /\ Ours(o, t, act)
      /\ \A o \in os : o.key = RowKey(k) =>
           o.tid = t \/ \E q \in page : Kept(o, q) /\ q.xid = t
  BY <1>3, PageUpdateHas DEF page
<1>5. /\ old \in os /\ old.key = RowKey(k) /\ old.xid = 0
      /\ \A p \in os : p.key = RowKey(k) => Ours(p, t, act) /\ (p # old => p.xid = t)
  BY <1>3, <1>4, RowOurs
<1>6. old.value \in Value
  BY <1>5, ObjectFields, Kinds
<1>7. /\ \A e \in E : /\ e \in ObjectKey /\ ~ e[1] = "R" /\ e # RowKey(k)
                      /\ \E i \in ix : e = EntryKey(i, v, k)
      /\ \A e \in B : e # RowKey(k) /\ \E i \in ix : e = EntryKey(i, old.value, k)
  BY <1>6, EntriesOfKeys
<1>8. \A i \in ix : \A w : /\ EntryKey(i, w, k) \in E <=> w = v
                           /\ EntryKey(i, w, k) \in B <=> w = old.value
  BY EntriesOfHas
<1>9. \A e \in E : e \notin B
  BY <1>7, <1>8
<1>10. \A q \in added : q.tid = t /\ q.xid = 0 /\ q.key \in E
                        /\ q = NewObject(q.key, t, Nothing)
  BY DEF NewObject
<1>11. \A e \in E : NewObject(e, t, Nothing) \in added /\ NewObject(e, t, Nothing).key = e
  BY DEF NewObject
<1>12. /\ ~ ExpireConflict(os, Visibles(os, B, t, act), t)
       /\ es = ExpireEntries(us, B, t, act)
       /\ ps = AddEntries(es, E, t)
       /\ \A e \in E : ~ UpdateConflict(os, e, t)
  OBVIOUS
<1> HIDE DEF B, E
<1>13. \A o \in os : (o.key \in B \/ o.key \in E) /\ o.tid \in act => o.tid = t
  BY <1>5, <1>6, <1>7, EntriesMine
<1>14. us \in SUBSET Object /\ \A o : o.key # RowKey(k) => (o \in os <=> o \in us)
  BY <1>1, <1>2, <1>4
<1>15. Untouched(os, us, t, act, B)
  BY <1>7, <1>13, <1>14 DEF Untouched
<1>16. es \in SUBSET Object /\ AllExpired(os, us, es, t, act, B)
  BY <1>3, <1>12, <1>14, <1>15, ExpireEntriesHas
<1>17. \A o : o.key \notin B => (o \in us <=> o \in es)
  BY <1>16 DEF AllExpired
<1>18. Untouched(os, es, t, act, E)
  BY <1>7, <1>9, <1>13, <1>14, <1>17 DEF Untouched
<1>19. \A e \in E : e \in ObjectKey /\ ~ e[1] = "R"
  BY <1>7
<1>20. ps \in SUBSET Object /\ EntriesAdded(os, es, ps, t, act, E)
  BY <1>3, <1>12, <1>16, <1>18, <1>19, AddEntriesHas
<1>21. \A q \in added : q \in ps
  BY <1>20 DEF EntriesAdded
<1>22. \A o : o.key \notin E => (o \in es <=> o \in ps)
  BY <1>20 DEF EntriesAdded
<1>23. \A q \in ps : q.key \in E => \/ q \in added
                                    \/ q.tid # t /\ q.xid = t /\ \E o \in os : Kept(o, q) /\ Ours(o, t, act)
  BY <1>20 DEF EntriesAdded
<1>24. \A o \in os : o.key \in E =>
         o.tid = t \/ (Ours(o, t, act) /\ \E q \in ps : Kept(o, q) /\ q.xid = t)
  BY <1>20 DEF EntriesAdded
<1> HIDE DEF added
<1>25. RowKey(k) \notin E /\ RowKey(k) \notin B
  BY <1>7
<1>26. \A q : q.key = RowKey(k) => (q \in ps <=> q \in page \/ q = row)
  BY <1>2, <1>17, <1>22, <1>25
<1>27. Overwrites(os, ps, t, act, K, new)
  <2>1. ASSUME NEW q \in ps, q.key \in K, q \notin new
        PROVE  q.xid = t /\ \E o \in os : Kept(o, q) /\ Ours(o, t, act)
    <3>1. CASE q.key \in E
      BY <1>23, <2>1, <3>1
    <3>2. CASE q.key \in B
      <4>1. q \in es
        BY <1>9, <1>22, <3>2
      <4> QED BY <1>16, <3>2, <4>1 DEF AllExpired
    <3>3. CASE q.key = RowKey(k)
      <4>1. q \in page
        BY <1>26, <2>1, <3>3
      <4> QED BY <1>4, <3>3, <4>1
    <3> QED BY <2>1, <3>1, <3>2, <3>3
  <2>2. ASSUME NEW o \in os, o.key \in K, o.tid # t
        PROVE  Ours(o, t, act) /\ \E q \in ps : Kept(o, q) /\ q.xid = t
    <3>1. CASE o.key \in E
      BY <1>24, <2>2, <3>1
    <3>2. CASE o.key \in B
      <4>1. Ours(o, t, act)
        BY <1>16, <3>2 DEF AllExpired
      <4>2. PICK q \in es : Kept(o, q) /\ q.xid = t
        BY <1>16, <3>2 DEF AllExpired
      <4>3. q \in ps
        BY <1>9, <1>22, <3>2, <4>2 DEF Kept
      <4> QED BY <4>1, <4>2, <4>3
    <3>3. CASE o.key = RowKey(k)
      <4>1. PICK q \in page : Kept(o, q) /\ q.xid = t
        BY <1>4, <2>2, <3>3
      <4>2. q \in ps
        BY <1>26, <3>3, <4>1 DEF Kept
      <4> QED BY <1>5, <3>3, <4>1, <4>2
    <3> QED BY <2>2, <3>1, <3>2, <3>3
  <2>3. \A o : o.key \notin K => (o \in os <=> o \in ps)
    BY <1>14, <1>17, <1>22
  <2> QED BY <2>1, <2>2, <2>3 DEF Overwrites
<1>28. Creates(ps, t, K, new)
  <2>1. ASSUME NEW q \in new
        PROVE  q \in ps /\ q.tid = t /\ q.xid = 0 /\ q.key \in K
    BY <1>1, <1>10, <1>21, <1>26
  <2>2. ASSUME NEW q \in new, NEW p \in ps, p.key = q.key, p.tid = t, IsRow(p) => p \in new
        PROVE  p = q
    <3>1. CASE q = row
      <4>1. p \in new
        BY <1>1, <2>2, <3>1, Kinds
      <4>2. p \notin added
        BY <1>1, <1>10, <1>25, <2>2, <3>1
      <4> QED BY <3>1, <4>1, <4>2
    <3>2. CASE q \in added
      <4>1. p \in added
        BY <1>10, <1>23, <2>2, <3>2
      <4> QED BY <1>10, <2>2, <3>2, <4>1
    <3> QED BY <3>1, <3>2
  <2> QED BY <2>1, <2>2 DEF Creates
<1>29. Covers(os, ps, t, act, k, ix, K, new)
  <2>1. \A key \in K : key = RowKey(k) \/ \E i \in ix, w \in Value : key = EntryKey(i, w, k)
    BY <1>6, <1>7
  <2>2. row \in ps
    BY <1>1, <1>26
  <2>3. \A r \in os : r.key = RowKey(k) =>
          Ours(r, t, act) /\ (r.xid = 0 => \A i \in ix : EntryKey(i, r.value, k) \in K)
    <3>1. \A i \in ix : EntryKey(i, old.value, k) \in B
      BY <1>8
    <3>2. t # 0
      OBVIOUS
    <3> QED BY <1>5, <3>1, <3>2
  <2>4. ASSUME NEW i \in ix, NEW w \in Value
        PROVE  (\E q \in new : q.key = EntryKey(i, w, k)) <=>
                 (\E q \in new : q.key = RowKey(k) /\ q.value = w)
    <3>1. (\E q \in new : q.key = RowKey(k) /\ q.value = w) <=> w = v
      BY <1>1, <1>10, <1>25
    <3>2. (\E q \in new : q.key = EntryKey(i, w, k)) <=> EntryKey(i, w, k) \in E
      BY <1>1, <1>10, <1>11, KeysDiffer
    <3> QED BY <1>8, <3>1, <3>2
  <2> QED BY <1>1, <2>1, <2>2, <2>3, <2>4 DEF Covers
<1>30. \A q \in new : q.key = RowKey(k) => q.value = v
  BY <1>1, <1>10, <1>25
<1> QED BY <1>20, <1>27, <1>28, <1>29, <1>30 DEF RowWrite, WritesValue

(* DELETE: nothing is new. *)
LEMMA DeleteWrites ==
  ASSUME NEW os \in SUBSET Object, NEW act, 0 \notin act, NEW t \in act, t \in Nat, NEW ks,
         NEW ix \in SUBSET IndexId, WriteFinds(os, t, act, ks, ix),
         NEW k \in Key, ~ DeleteConflict(os, RowKey(k), t, act),
         NEW old \in Rows(os, RowKey(k), t, act),
         ~ ExpireConflict(os, Visibles(os, EntriesOf(ix, old.value, k), t, act), t),
         NEW us, us = SetXid(os, {old}, t),
         NEW ps, ps = ExpireEntries(us, EntriesOf(ix, old.value, k), t, act)
  PROVE  /\ ps \in SUBSET Object
         /\ \E K : RowWrite(os, ps, t, act, k, ix, K, {})
<1> DEFINE B == EntriesOf(ix, old.value, k)
           K == {RowKey(k)} \cup B
           S == {old}
<1>1. Versioned(os, act) /\ t \in Nat
  BY DEF WriteFinds, Good
<1>2. old \in os
  BY DEF Rows
<1>3. old.xid \in {0, t}
  BY <1>2 DEF DeleteConflict, ExpireConflict
<1>4. /\ old.key = RowKey(k) /\ old.xid = 0
      /\ \A p \in os : p.key = RowKey(k) => Ours(p, t, act) /\ (p # old => p.xid = t)
  <2>1. os \in SUBSET Object /\ 0 \notin act /\ t \in act /\ old \in Rows(os, RowKey(k), t, act)
    OBVIOUS
  <2> QED BY ONLY <1>1, <1>3, <2>1, RowOurs
<1>5. old.value \in Value
  BY <1>2, <1>4, ObjectFields, Kinds
<1>6. \A e \in B : e # RowKey(k) /\ \E i \in ix : e = EntryKey(i, old.value, k)
  BY <1>5, EntriesOfKeys
<1>7. \A i \in ix : EntryKey(i, old.value, k) \in B
  BY EntriesOfHas
<1>8. ~ ExpireConflict(os, Visibles(os, B, t, act), t) /\ ps = ExpireEntries(us, B, t, act)
        /\ us = SetXid(os, S, t)
  OBVIOUS
<1> HIDE DEF B
<1>9. /\ us \in SUBSET Object
      /\ \A q \in us : \E o \in os : Kept(o, q) /\ IF Named(o, S) THEN q.xid = t ELSE q = o
      /\ \A o \in os : \E q \in us : Kept(o, q) /\ IF Named(o, S) THEN q.xid = t ELSE q = o
  <2> DEFINE es == SetXid(os, S, t)
  <2> HIDE DEF S
  <2>1. /\ es \in SUBSET Object
        /\ \A q \in es : \E o \in os : Kept(o, q) /\ IF Named(o, S) THEN q.xid = t ELSE q = o
        /\ \A o \in os : \E q \in es : Kept(o, q) /\ IF Named(o, S) THEN q.xid = t ELSE q = o
    BY <1>1, SetXidHas
  <2>2. us = es
    BY <1>8
  <2> HIDE DEF es
  <2> QED BY ONLY <2>1, <2>2
<1>10. \A o : o.key \notin {RowKey(k)} => (o \in os <=> o \in us)
  <2>1. \A e \in S : e.key \in {RowKey(k)}
    BY <1>4
  <2> HIDE DEF S
  <2> QED BY <1>1, <1>8, <2>1, SetXidOutside
<1>11. \A o \in os : o.key = RowKey(k) => Ours(o, t, act) /\ (Named(o, S) \/ o.xid = t)
  BY <1>4 DEF Named
<1>12. \A o \in os : o.key \in B /\ o.tid \in act => o.tid = t
  BY <1>4, <1>5, <1>6, EntriesMine
<1>13. Untouched(os, us, t, act, B)
  BY <1>6, <1>10, <1>12 DEF Untouched
<1>14. ps \in SUBSET Object /\ AllExpired(os, us, ps, t, act, B)
  BY <1>1, <1>8, <1>9, <1>13, ExpireEntriesHas
<1>15. RowKey(k) \notin B
  BY <1>6
<1>16. \A o : o.key \notin B => (o \in us <=> o \in ps)
  BY <1>14 DEF AllExpired
<1>17. ASSUME NEW q \in ps, q.key \in K
       PROVE  q.xid = t /\ \E o \in os : Kept(o, q) /\ Ours(o, t, act)
  <2>1. CASE q.key \in B
    BY <1>14, <2>1 DEF AllExpired
  <2>2. CASE q.key = RowKey(k)
    <3>1. q \in us
      BY <1>15, <1>16, <2>2
    <3>2. PICK o \in os : Kept(o, q) /\ IF Named(o, S) THEN q.xid = t ELSE q = o
      BY <1>9, <3>1
    <3>3. o.key = RowKey(k)
      BY <2>2, <3>2 DEF Kept
    <3> QED BY <1>11, <3>2, <3>3
  <2> QED BY <1>17, <2>1, <2>2
<1>18. ASSUME NEW o \in os, o.key \in K
       PROVE  Ours(o, t, act) /\ \E q \in ps : Kept(o, q) /\ q.xid = t
  <2>1. CASE o.key \in B
    BY <1>14, <2>1 DEF AllExpired
  <2>2. CASE o.key = RowKey(k)
    <3>1. PICK q \in us : Kept(o, q) /\ IF Named(o, S) THEN q.xid = t ELSE q = o
      BY <1>9
    <3>2. q.xid = t
      BY <1>11, <2>2, <3>1
    <3>3. q \in ps
      BY <1>15, <1>16, <2>2, <3>1 DEF Kept
    <3> QED BY <1>11, <2>2, <3>1, <3>2, <3>3
  <2> QED BY <1>18, <2>1, <2>2
<1>19. \A o : o.key \notin K => (o \in os <=> o \in ps)
  BY <1>10, <1>16
<1>20. Overwrites(os, ps, t, act, K, {})
  BY <1>17, <1>18, <1>19 DEF Overwrites
<1>21. Creates(ps, t, K, {})
  BY DEF Creates
<1>22. Covers(os, ps, t, act, k, ix, K, {})
  <2>1. \A key \in K : key = RowKey(k) \/ \E i \in ix, w \in Value : key = EntryKey(i, w, k)
    BY <1>5, <1>6
  <2>2. \E q \in ps : q.key = RowKey(k) /\ q.xid = t
    BY <1>2, <1>4, <1>18 DEF Kept
  <2>3. t # 0
    OBVIOUS
  <2>4. \A r \in os : r.key = RowKey(k) =>
          Ours(r, t, act) /\ (r.xid = 0 => \A i \in ix : EntryKey(i, r.value, k) \in K)
    BY <1>4, <1>7, <2>3
  <2> QED BY <2>1, <2>2, <2>4 DEF Covers
<1> QED BY <1>14, <1>20, <1>21, <1>22 DEF RowWrite

-----------------------------------------------------------------------------
(* CREATE INDEX: its definition and an entry for each row, while nobody    *)
(* else has changes of rows or definitions (has_concurrent_changes).       *)

(* What create_index finds.                                                *)
BuildFinds(os, t, act, ks, i) ==
  /\ Good(os, act, ks)
  /\ ~ HasConcurrentChanges(os, t, act)
  /\ Definitions(os, t, act) = {}
  /\ \A o \in os : ~ IsRow(o) => o.key[2] # i
  /\ i \in Unique =>
       \A o, p \in VisibleRows(os, t, act) : o.value = p.value => o = p

(* What it leaves: the definition d, and an entry for each row.            *)
Built(os, ps, t, act, i, d) ==
  /\ d \in ps /\ d.key = DefinitionKey(i) /\ d.tid = t /\ d.xid = 0
  /\ \A o \in os : o \in ps
  /\ \A q \in ps : q \in os \/ q = d \/ IsEntry(q)
  /\ \A q \in ps : q \notin os /\ q # d =>
       /\ q.tid = t /\ q.xid = 0
       /\ \E r \in VisibleRows(os, t, act) : q.key = EntryKey(i, r.value, r.key[2])
  /\ \A p, q \in ps : p \notin os /\ q \notin os /\ p.key = q.key => p = q
  /\ \A r \in VisibleRows(os, t, act) :
       \E q \in ps : q.key = EntryKey(i, r.value, r.key[2]) /\ q.xid = 0

LEMMA BuildsIndex ==
  ASSUME NEW os \in SUBSET Object, NEW act, NEW t \in act, t \in Nat \ {0}, NEW i \in IndexId,
         NEW ps, ps = os \cup {NewObject(DefinitionKey(i), t, Nothing)}
                         \cup {NewObject(EntryKey(i, r.value, r.key[2]), t, Nothing) :
                                 r \in VisibleRows(os, t, act)}
  PROVE  /\ ps \in SUBSET Object
         /\ Built(os, ps, t, act, i, NewObject(DefinitionKey(i), t, Nothing))
<1> DEFINE d == NewObject(DefinitionKey(i), t, Nothing)
           rows == VisibleRows(os, t, act)
           E(r) == NewObject(EntryKey(i, r.value, r.key[2]), t, Nothing)
<1>1. d.key = DefinitionKey(i) /\ d.tid = t /\ d.xid = 0 /\ d \in Object
  <2>1. DefinitionKey(i) \in ObjectKey
    BY DEF ObjectKey, IndexId
  <2>2. ~ DefinitionKey(i)[1] = "R"
    BY DefinitionKeys
  <2> QED BY <2>1, <2>2 DEF NewObject, Object, IsRow, Nothing
<1>2. ASSUME NEW r \in rows
      PROVE  /\ E(r).key = EntryKey(i, r.value, r.key[2]) /\ E(r).tid = t /\ E(r).xid = 0
             /\ E(r) = NewObject(E(r).key, t, Nothing)
             /\ E(r) \in Object /\ IsEntry(E(r))
  <2>1. r \in os /\ IsRow(r)
    BY DEF VisibleRows
  <2>2. PICK k \in Key : r.key = RowKey(k)
    BY <2>1, KindOf
  <2>3. r.key[2] = k /\ r.value \in Value
    BY <2>1, <2>2, RowKeys, ObjectFields
  <2>4. EntryKey(i, r.value, r.key[2]) \in ObjectKey
    BY <2>3 DEF ObjectKey, IndexId
  <2>5. EntryKey(i, r.value, r.key[2])[1] = "E"
    BY EntryKeys
  <2> QED BY <2>4, <2>5 DEF NewObject, Object, IsRow, IsEntry, Nothing
<1>3. ps = os \cup {d} \cup {E(r) : r \in rows}
  OBVIOUS
<1> HIDE DEF d, E, rows
<1>4. ps \in SUBSET Object
  BY <1>1, <1>2, <1>3
<1>5. ASSUME NEW q \in ps, q \notin os, q # d
      PROVE  /\ q.tid = t /\ q.xid = 0 /\ IsEntry(q) /\ q = NewObject(q.key, t, Nothing)
             /\ \E r \in rows : q.key = EntryKey(i, r.value, r.key[2])
  <2>1. PICK r \in rows : q = E(r)
    BY <1>3, <1>5
  <2> QED BY <1>2, <2>1
<1>6. ASSUME NEW p \in ps, NEW q \in ps, p \notin os, q \notin os, p.key = q.key
      PROVE  p = q
  <2>1. IsDefinition(d) /\ ~ IsEntry(d)
    BY <1>1, Kinds
  <2>2. CASE p = d
    BY <1>5, <1>6, <2>1, <2>2 DEF IsEntry
  <2>3. CASE q = d
    BY <1>5, <1>6, <2>1, <2>3 DEF IsEntry
  <2>4. CASE p # d /\ q # d
    BY <1>5, <1>6, <2>4
  <2> QED BY <2>2, <2>3, <2>4
<1>7. ASSUME NEW r \in rows
      PROVE  \E q \in ps : q.key = EntryKey(i, r.value, r.key[2]) /\ q.xid = 0
  BY <1>2, <1>3, <1>7
<1>8. d \in ps /\ \A o \in os : o \in ps
  BY <1>3
<1>9. Built(os, ps, t, act, i, d)
  BY <1>1, <1>5, <1>6, <1>7, <1>8 DEF Built, rows
<1> QED BY <1>4, <1>9 DEF d

(* Rows and definitions are committed or the transaction's own; it sees    *)
(* the rows that it hasn't expired, and has dropped every definition.      *)
LEMMA BuildSees ==
  ASSUME NEW os \in SUBSET Object, NEW act, 0 \notin act, NEW t \in act, NEW ks, NEW i,
         BuildFinds(os, t, act, ks, i)
  PROVE  /\ \A o \in os : IsRow(o) \/ IsDefinition(o) => Ours(o, t, act)
         /\ \A o \in os : IsRow(o) /\ o.xid = 0 => o \in VisibleRows(os, t, act)
         /\ \A o \in VisibleRows(os, t, act) : o \in os /\ IsRow(o) /\ o.xid = 0
         /\ \A o \in os : IsDefinition(o) => o.xid = t
<1>1. ASSUME NEW o \in os, IsRow(o) \/ IsDefinition(o)
      PROVE  Ours(o, t, act) /\ (Visible(o, t, act) <=> o.xid = 0)
  <2>1. ~ Concurrent(o, t, act)
    BY <1>1 DEF BuildFinds, HasConcurrentChanges
  <2>2. Ours(o, t, act)
    BY <2>1 DEF Concurrent, Ours, BuildFinds, Good, Versioned, ExpiredByActive
  <2> QED BY <2>2 DEF Visible, Ours
<1>2. ASSUME NEW o \in os, IsDefinition(o)
      PROVE  o.xid = t
  <2>1. ~ Visible(o, t, act)
    BY <1>2 DEF BuildFinds, Definitions
  <2> QED BY <1>1, <1>2, <2>1 DEF Ours
<1> QED BY <1>1, <1>2 DEF VisibleRows

LEMMA BuildVersioned ==
  ASSUME NEW os \in SUBSET Object, NEW ps \in SUBSET Object, NEW act, 0 \notin act,
         NEW t \in act, NEW ks, NEW i \in IndexId, NEW d,
         BuildFinds(os, t, act, ks, i), Built(os, ps, t, act, i, d)
  PROVE  Versioned(ps, act) /\ OneOwn(ps)
<1>1. \A q \in ps : q \notin os => q.tid = t /\ q.xid = 0
  BY DEF Built
<1>2. ExpiredByActive(ps, act) /\ ExpiredByOwner(ps, act)
  BY <1>1 DEF BuildFinds, Good, Versioned, ExpiredByActive, ExpiredByOwner
<1>3. ASSUME NEW o \in os, NEW q \in ps, q \notin os
      PROVE  o.key # q.key
  <2> SUFFICES ASSUME o.key = q.key
               PROVE  FALSE
    OBVIOUS
  <2>1. q.key = DefinitionKey(i) \/ \E v, k : q.key = EntryKey(i, v, k)
    BY <1>3 DEF Built
  <2>2. ~ IsRow(o) /\ o.key[2] = i
    BY <2>1, Kinds
  <2> QED BY <2>2 DEF BuildFinds
<1>4. \A p, q \in ps : p # q /\ p.key = q.key => p \in os /\ q \in os
  BY <1>3 DEF Built
<1>5. Replaces(ps, act)
  BY <1>4 DEF BuildFinds, Good, Versioned, Replaces
<1>6. OneOwn(ps)
  BY <1>4 DEF BuildFinds, Good, OneOwn
<1> QED BY <1>2, <1>5, <1>6 DEF Versioned

LEMMA BuildDefinitions ==
  ASSUME NEW os \in SUBSET Object, NEW ps \in SUBSET Object, NEW act, 0 \notin act,
         NEW t \in act, NEW ks, NEW i \in IndexId, NEW d,
         BuildFinds(os, t, act, ks, i), Built(os, ps, t, act, i, d)
  PROVE  EntriesLocked(ps, act) /\ DefsApart(ps) /\ NewDefsAlone(ps, act)
<1>0. /\ \A o \in os : IsRow(o) \/ IsDefinition(o) => Ours(o, t, act)
      /\ \A o \in os : IsRow(o) /\ o.xid = 0 => o \in VisibleRows(os, t, act)
      /\ \A o \in VisibleRows(os, t, act) : o \in os /\ IsRow(o) /\ o.xid = 0
      /\ \A o \in os : IsDefinition(o) => o.xid = t
  BY BuildSees
<1>1. IsDefinition(d) /\ d \in ps /\ d.tid = t /\ d.xid = 0 /\ \A o \in os : o \in ps
  BY Kinds DEF Built
<1>2. EntriesLocked(ps, act)
  <2> SUFFICES ASSUME NEW e \in ps, NEW j \in IndexId, NEW v \in Value, NEW k \in Key,
                      e.key = EntryKey(j, v, k), e.tid \in act
               PROVE  \E o \in ps : Locks(o, e.tid, k)
    BY DEF EntriesLocked
  <2>1. CASE e \in os
    BY <1>1, <2>1 DEF BuildFinds, Good, EntriesLocked
  <2>2. CASE e \notin os
    <3>1. e.tid = t
      BY <1>1, <2>2 DEF Built
    <3> QED BY <1>1, <3>1 DEF Locks
  <2> QED BY <2>1, <2>2
<1>3. \A q \in ps : IsDefinition(q) => q = d \/ (q \in os /\ q.xid = t)
  BY <1>0 DEF Built, IsDefinition, IsEntry
<1>4. DefsApart(ps)
  <2> SUFFICES ASSUME NEW p \in ps, NEW q \in ps, IsDefinition(p), IsDefinition(q), p # q
               PROVE  (p.xid # 0 /\ p.xid = q.tid) \/ (q.xid # 0 /\ q.xid = p.tid)
    BY DEF DefsApart
  <2>1. CASE p \in os /\ q \in os
    BY <2>1 DEF BuildFinds, Good, DefsApart
  <2>2. CASE p = d \/ q = d
    BY <1>1, <1>3, <2>2
  <2> QED BY <1>3, <2>1, <2>2
<1>5. NewDefsAlone(ps, act)
  <2> SUFFICES ASSUME NEW p \in ps, NEW q \in ps, IsDefinition(p), p.tid \in act, ~ IsEntry(q)
               PROVE  Alone(q, act, p.tid)
    BY DEF NewDefsAlone
  <2>1. p.tid = t
    BY <1>1, <1>3, <1>0 DEF Ours
  <2>2. CASE q \in os
    <3>1. Ours(q, t, act)
      BY <2>2, <1>0, KindOf
    <3> QED BY <2>1, <3>1 DEF Alone, Ours
  <2>3. CASE q \notin os
    BY <1>1, <2>1, <2>3 DEF Built, Alone
  <2> QED BY <2>2, <2>3
<1> QED BY <1>2, <1>4, <1>5

LEMMA BuildMatching ==
  ASSUME NEW os \in SUBSET Object, NEW ps \in SUBSET Object, NEW act, 0 \notin act,
         NEW t \in act, NEW ks \in SUBSET Key, NEW i \in IndexId, NEW d,
         BuildFinds(os, t, act, ks, i), Built(os, ps, t, act, i, d)
  PROVE  Matching(ps, act, ks)
<1> SUFFICES ASSUME NEW p \in ps, NEW j \in IndexId, NEW k \in ks, p.key = DefinitionKey(j)
             PROVE  /\ p.tid \notin act => OldIndex(ps, act, j, p.xid, k)
                    /\ p.tid \in act /\ p.xid = 0 => NewIndex(ps, j, p.tid, k)
  BY DEF Matching
<1>0. /\ \A o \in os : IsRow(o) \/ IsDefinition(o) => Ours(o, t, act)
      /\ \A o \in os : IsRow(o) /\ o.xid = 0 => o \in VisibleRows(os, t, act)
      /\ \A o \in VisibleRows(os, t, act) : o \in os /\ IsRow(o) /\ o.xid = 0
      /\ \A o \in os : IsDefinition(o) => o.xid = t
  BY BuildSees
<1>1. IsDefinition(p) /\ p.key[2] = j
  BY Kinds
<1>2. \A o : o.key = RowKey(k) => (o \in os <=> o \in ps)
  BY Kinds DEF Built
<1>3. CASE p \in os
  <2>1. j # i
    BY <1>1, <1>3 DEF BuildFinds, IsRow, IsDefinition
  <2>2. ASSUME NEW o, NEW v, o.key = EntryKey(j, v, k)
        PROVE  o \in os <=> o \in ps
    <3>1. o.key # DefinitionKey(i) /\ \A w, l : o.key # EntryKey(i, w, l)
      BY <2>1, <2>2, KeysDiffer
    <3> QED BY <3>1 DEF Built
  <2>3. /\ p.tid \notin act => OldIndex(os, act, j, p.xid, k)
        /\ p.tid \in act /\ p.xid = 0 => NewIndex(os, j, p.tid, k)
    BY <1>3 DEF BuildFinds, Good, Matching
  <2> QED BY <1>2, <2>2, <2>3, MatchingSame
<1>4. CASE p \notin os
  <2>1. p = d /\ j = i /\ p.tid = t /\ p.xid = 0
    <3>1. p = d
      BY <1>1, <1>4 DEF Built, IsDefinition, IsEntry
    <3> QED BY <3>1, KeysDiffer DEF Built
  <2>2. ASSUME NEW r \in ps, r.key = RowKey(k), r.xid = 0
        PROVE  \E e \in ps : e.key = EntryKey(i, r.value, k) /\ e.xid = 0
    <3>1. r \in VisibleRows(os, t, act)
      BY <1>2, <2>2, <1>0, Kinds
    <3>2. r.key[2] = k
      BY <2>2, RowKeys
    <3> QED BY <3>1, <3>2 DEF Built
  <2>3. ASSUME NEW e \in ps, NEW v \in Value, e.key = EntryKey(i, v, k)
        PROVE  /\ e.tid = t
               /\ \E r \in ps : r.key = RowKey(k) /\ r.value = v /\ r.xid = 0
    <3>1. e \notin os
      BY <2>3, Kinds DEF BuildFinds
    <3>2. e # d
      BY <2>3, KeysDiffer DEF Built
    <3>3. PICK r \in VisibleRows(os, t, act) : e.key = EntryKey(i, r.value, r.key[2])
      BY <3>1, <3>2 DEF Built
    <3>4. r \in os /\ IsRow(r) /\ r.xid = 0 /\ r.value = v /\ r.key[2] = k
      <4>1. EntryKey(i, r.value, r.key[2]) = EntryKey(i, v, k)
        BY <2>3, <3>3
      <4>2. r.value = v /\ r.key[2] = k
        BY <4>1, KeysDiffer
      <4> QED BY <1>0, <4>2
    <3>5. r.key = RowKey(k)
      BY <3>4, KindOf, RowKeys
    <3> QED BY <3>1, <3>2, <3>4, <3>5 DEF Built
  <2> QED BY <2>1, <2>2, <2>3 DEF NewIndex
<1> QED BY <1>3, <1>4

LEMMA BuildDistinct ==
  ASSUME NEW os \in SUBSET Object, NEW ps \in SUBSET Object, NEW act, 0 \notin act,
         NEW t \in act, NEW ks \in SUBSET Key, NEW i \in IndexId, NEW d,
         BuildFinds(os, t, act, ks, i), Built(os, ps, t, act, i, d)
  PROVE  Distinct(ps, act, ks)
<1> SUFFICES ASSUME NEW p \in ps, NEW a \in ps, NEW b \in ps,
                    IsDefinition(p), p.key[2] \in Unique, SameValue(a, b, ks)
             PROVE  /\ p.tid \notin act /\ p.xid \notin {a.tid, b.tid} => Apart(a, b)
                    /\ p.tid \in act /\ p.xid = 0 => a.xid # 0 \/ b.xid # 0
  BY DEF Distinct
<1>0. /\ \A o \in os : IsRow(o) \/ IsDefinition(o) => Ours(o, t, act)
      /\ \A o \in os : IsRow(o) /\ o.xid = 0 => o \in VisibleRows(os, t, act)
      /\ \A o \in VisibleRows(os, t, act) : o \in os /\ IsRow(o) /\ o.xid = 0
      /\ \A o \in os : IsDefinition(o) => o.xid = t
  BY BuildSees
<1>1. a \in os /\ b \in os /\ IsRow(a) /\ IsRow(b) /\ a.value = b.value /\ a # b
  BY Kinds, KeysDiffer DEF Built, SameValue
<1>2. CASE p \in os
  BY <1>1, <1>2 DEF BuildFinds, Good, Distinct
<1>3. CASE p \notin os
  <2>1. p = d /\ p.tid = t
    BY <1>3 DEF Built, IsDefinition, IsEntry
  <2>2. i \in Unique
    BY <2>1, Kinds DEF Built
  <2>3. a.xid # 0 \/ b.xid # 0
    BY <1>1, <2>2, <1>0 DEF BuildFinds
  <2> QED BY <2>1, <2>3
<1> QED BY <1>2, <1>3

LEMMA BuildGood ==
  ASSUME NEW os \in SUBSET Object, NEW ps \in SUBSET Object, NEW act, 0 \notin act,
         NEW t \in act, NEW ks \in SUBSET Key, NEW i \in IndexId, NEW d,
         BuildFinds(os, t, act, ks, i), Built(os, ps, t, act, i, d)
  PROVE  Good(ps, act, ks)
<1>1. Versioned(ps, act) /\ OneOwn(ps)
  BY BuildVersioned
<1>2. EntriesLocked(ps, act) /\ DefsApart(ps) /\ NewDefsAlone(ps, act)
  BY BuildDefinitions
<1>3. Matching(ps, act, ks) /\ Distinct(ps, act, ks)
  BY BuildMatching, BuildDistinct
<1> QED BY <1>1, <1>2, <1>3 DEF Good

-----------------------------------------------------------------------------
(* DROP INDEX: the definition and the entries that the transaction sees    *)
(* are expired.                                                            *)

DropExpires(os, t, act, ix) ==
  {o \in os : IsDefinition(o) /\ o.key[2] \in ix /\ Visible(o, t, act)}
    \cup {o \in os : IsEntry(o) /\ o.key[2] \in ix /\ Visible(o, t, act)}

DropFinds(os, t, act, ks, ix) ==
  /\ Good(os, act, ks)
  /\ OneVersion(os)
  /\ ix = Definitions(os, t, act)
  /\ ~ ExpireConflict(os, DropExpires(os, t, act, ix), t)

(* An object and what becomes of it, S of which are expired by t.          *)
Dropped(o, q, S, t) == Kept(o, q) /\ q.xid = IF o \in S THEN t ELSE o.xid

LEMMA DropHas ==
  ASSUME NEW os \in SUBSET Object, NEW act, NEW t \in act, t \in Nat, NEW ks, NEW ix,
         DropFinds(os, t, act, ks, ix),
         NEW S, S = DropExpires(os, t, act, ix), NEW ps, ps = SetXid(os, S, t)
  PROVE  /\ ps \in SUBSET Object
         /\ \A q \in ps : \E o \in os : Dropped(o, q, S, t)
         /\ \A o \in os : \E q \in ps : Dropped(o, q, S, t)
<1>1. \A o \in S : o \in os /\ (IsDefinition(o) \/ IsEntry(o))
  BY DEF DropExpires
<1>2. \A o \in os : Named(o, S) <=> o \in S
  <2> SUFFICES ASSUME NEW o \in os, NEW e \in S, e.key = o.key, e.tid = o.tid
               PROVE  e = o
    BY <1>1 DEF Named
  <2>1. ~ IsRow(e)
    BY <1>1 DEF IsRow, IsDefinition, IsEntry
  <2> QED BY <1>1, <2>1 DEF DropFinds, Good, OneOwn
<1>3. ps = SetXid(os, S, t) /\ os \in SUBSET Object /\ t \in Nat
  OBVIOUS
<1>4. /\ ps \in SUBSET Object
      /\ \A q \in ps : \E o \in os : Kept(o, q) /\ IF Named(o, S) THEN q.xid = t ELSE q = o
      /\ \A o \in os : \E q \in ps : Kept(o, q) /\ IF Named(o, S) THEN q.xid = t ELSE q = o
  BY ONLY <1>3, SetXidHas
<1> QED BY <1>2, <1>4 DEF Dropped

(* What is expired was visible, and isn't a row.                           *)
LEMMA DropSees ==
  ASSUME NEW os \in SUBSET Object, NEW act, 0 \notin act, NEW t \in act, NEW ks, NEW ix,
         DropFinds(os, t, act, ks, ix), NEW S, S = DropExpires(os, t, act, ix)
  PROVE  /\ \A o \in S : o \in os /\ ~ IsRow(o) /\ Ours(o, t, act) /\ o.xid = 0 /\ o.key[2] \in ix
         /\ \A o \in os : IsDefinition(o) /\ Visible(o, t, act) => o \in S
<1>1. ASSUME NEW o \in S
      PROVE  o \in os /\ ~ IsRow(o) /\ Ours(o, t, act) /\ o.xid = 0 /\ o.key[2] \in ix
  <2>1. /\ o \in os /\ (IsDefinition(o) \/ IsEntry(o)) /\ o.key[2] \in ix /\ Visible(o, t, act)
    BY <1>1 DEF DropExpires
  <2>2. o.xid \in {0, t}
    BY <1>1, <2>1 DEF DropFinds, ExpireConflict
  <2> QED BY <2>1, <2>2 DEF Visible, Ours, IsRow, IsDefinition, IsEntry
<1>2. \A o \in os : IsDefinition(o) /\ Visible(o, t, act) => o \in S
  BY DEF DropFinds, DropExpires, Definitions
<1> QED BY <1>1, <1>2

LEMMA DropVersioned ==
  ASSUME NEW os \in SUBSET Object, NEW act, 0 \notin act, NEW t \in act, t \in Nat, NEW ks,
         NEW ix, DropFinds(os, t, act, ks, ix),
         NEW S, S = DropExpires(os, t, act, ix), NEW ps, ps = SetXid(os, S, t)
  PROVE  Versioned(ps, act) /\ OneOwn(ps) /\ DefsApart(ps)
<1>1. /\ ps \in SUBSET Object
      /\ \A q \in ps : \E o \in os : Dropped(o, q, S, t)
      /\ \A o \in os : \E q \in ps : Dropped(o, q, S, t)
  BY DropHas
<1>2. \A o \in S : Ours(o, t, act) /\ o.xid = 0
  BY DropSees
<1>3. Good(os, act, ks)
  BY DEF DropFinds
<1>4. t \in act /\ 0 \notin act
  OBVIOUS
<1>5. ASSUME NEW p \in ps, NEW q \in ps, NEW o \in os, Dropped(o, p, S, t), Dropped(o, q, S, t)
      PROVE  p = q
  <2>1. Kept(p, q) /\ p.xid = q.xid
    BY <1>5 DEF Dropped, Kept
  <2> QED BY <1>1, <2>1, SameObject
<1>6. ExpiredByActive(ps, act)
  BY ONLY <1>1, <1>3, <1>4 DEF Good, Versioned, ExpiredByActive, Dropped, Kept
<1>7. ExpiredByOwner(ps, act)
  BY ONLY <1>1, <1>2, <1>3, <1>4 DEF Good, Versioned, ExpiredByOwner, Dropped, Kept, Ours
<1>8. Replaces(ps, act)
  <2> SUFFICES ASSUME NEW p \in ps, NEW q \in ps, p # q, p.key = q.key
               PROVE  \E s \in act : (p.xid = s /\ q.tid = s) \/ (q.xid = s /\ p.tid = s)
    BY DEF Replaces
  <2>1. PICK a \in os, b \in os : Dropped(a, p, S, t) /\ Dropped(b, q, S, t)
    BY <1>1
  <2>2. a # b /\ a.key = b.key
    <3>1. a # b
      BY <1>5, <2>1
    <3>2. a.key = p.key /\ b.key = q.key
      BY <2>1 DEF Dropped, Kept
    <3> QED BY <3>1, <3>2
  <2>3. PICK s \in act : (a.xid = s /\ b.tid = s) \/ (b.xid = s /\ a.tid = s)
    BY <1>3, <2>2 DEF Good, Versioned, Replaces
  <2>4. s # 0 /\ a.tid = p.tid /\ b.tid = q.tid
    BY <2>1 DEF Dropped, Kept
  <2>5. (a.xid # 0 => p.xid = a.xid) /\ (b.xid # 0 => q.xid = b.xid)
    BY <1>2, <2>1 DEF Dropped
  <2> QED BY <2>3, <2>4, <2>5
<1>9. OneOwn(ps)
  <2> SUFFICES ASSUME NEW p \in ps, NEW q \in ps, ~ IsRow(p), p.key = q.key, p.tid = q.tid
               PROVE  p = q
    BY DEF OneOwn
  <2>1. PICK a \in os, b \in os : Dropped(a, p, S, t) /\ Dropped(b, q, S, t)
    BY <1>1
  <2>2. ~ IsRow(a) /\ a.key = b.key /\ a.tid = b.tid
    BY <2>1, KeptKind DEF Dropped, Kept
  <2>3. a = b
    BY <1>3, <2>2 DEF Good, OneOwn
  <2> QED BY <1>5, <2>1, <2>3
<1>10. DefsApart(ps)
  <2> SUFFICES ASSUME NEW p \in ps, NEW q \in ps, IsDefinition(p), IsDefinition(q), p # q
               PROVE  (p.xid # 0 /\ p.xid = q.tid) \/ (q.xid # 0 /\ q.xid = p.tid)
    BY DEF DefsApart
  <2>1. PICK a \in os, b \in os : Dropped(a, p, S, t) /\ Dropped(b, q, S, t)
    BY <1>1
  <2>2. a # b /\ IsDefinition(a) /\ IsDefinition(b)
    BY <1>5, <2>1, KeptKind DEF Dropped
  <2>3. (a.xid # 0 /\ a.xid = b.tid) \/ (b.xid # 0 /\ b.xid = a.tid)
    BY <1>3, <2>2 DEF Good, DefsApart
  <2>4. a.tid = p.tid /\ b.tid = q.tid
    BY <2>1 DEF Dropped, Kept
  <2>5. (a.xid # 0 => p.xid = a.xid) /\ (b.xid # 0 => q.xid = b.xid)
    BY <1>2, <2>1 DEF Dropped
  <2> QED BY <2>3, <2>4, <2>5
<1> QED BY <1>6, <1>7, <1>8, <1>9, <1>10 DEF Versioned

LEMMA DropLocked ==
  ASSUME NEW os \in SUBSET Object, NEW act, 0 \notin act, NEW t \in act, t \in Nat, NEW ks,
         NEW ix, DropFinds(os, t, act, ks, ix),
         NEW S, S = DropExpires(os, t, act, ix), NEW ps, ps = SetXid(os, S, t)
  PROVE  EntriesLocked(ps, act) /\ NewDefsAlone(ps, act)
<1>1. /\ ps \in SUBSET Object
      /\ \A q \in ps : \E o \in os : Dropped(o, q, S, t)
      /\ \A o \in os : \E q \in ps : Dropped(o, q, S, t)
  BY DropHas
<1>2. \A o \in S : ~ IsRow(o) /\ Ours(o, t, act) /\ o.xid = 0
  BY DropSees
<1>3. Good(os, act, ks)
  BY DEF DropFinds
<1>4. EntriesLocked(ps, act)
  <2> SUFFICES ASSUME NEW e \in ps, NEW i \in IndexId, NEW v \in Value, NEW k \in Key,
                      e.key = EntryKey(i, v, k), e.tid \in act
               PROVE  \E q \in ps : Locks(q, e.tid, k)
    BY DEF EntriesLocked
  <2>1. PICK a \in os : Dropped(a, e, S, t)
    BY <1>1
  <2>2. a.key = EntryKey(i, v, k) /\ a.tid = e.tid
    BY <2>1 DEF Dropped, Kept
  <2>3. PICK o \in os : Locks(o, e.tid, k)
    BY <1>3, <2>2 DEF Good, EntriesLocked
  <2>4. PICK q \in ps : Dropped(o, q, S, t)
    BY <1>1
  <2>5. q.tid = o.tid /\ q.key = o.key /\ (IsDefinition(q) <=> IsDefinition(o))
    BY <2>4, KeptKind DEF Dropped, Kept
  <2>6. o.key = RowKey(k) => q.xid = o.xid
    <3>1. o.key = RowKey(k) => o \notin S
      BY <1>2, Kinds
    <3> QED BY <2>4, <3>1 DEF Dropped
  <2> QED BY <2>3, <2>5, <2>6 DEF Locks
<1>5. NewDefsAlone(ps, act)
  <2> SUFFICES ASSUME NEW d \in ps, NEW q \in ps, IsDefinition(d), d.tid \in act, ~ IsEntry(q)
               PROVE  Alone(q, act, d.tid)
    BY DEF NewDefsAlone
  <2>1. PICK a \in os, b \in os : Dropped(a, d, S, t) /\ Dropped(b, q, S, t)
    BY <1>1
  <2>2. /\ IsDefinition(a) /\ ~ IsEntry(b) /\ a.tid = d.tid /\ b.tid = q.tid
        /\ (IsDefinition(q) <=> IsDefinition(b))
    BY <2>1, KeptKind DEF Dropped, Kept
  <2>3. Alone(b, act, d.tid)
    BY <1>3, <2>2 DEF Good, NewDefsAlone
  <2>4. CASE b \notin S
    BY <2>1, <2>2, <2>3, <2>4 DEF Dropped, Alone
  <2>5. CASE b \in S
    <3>1. Ours(b, t, act) /\ b.xid = 0 /\ IsDefinition(b) /\ q.xid = t
      BY <1>2, <2>1, <2>2, <2>5, KindOf DEF Dropped
    <3>2. d.tid = t
      <4> SUFFICES ASSUME d.tid # t
                   PROVE  FALSE
        OBVIOUS
      <4>1. a # b
        BY <2>2, <3>1 DEF Ours
      <4>2. a.xid # 0 /\ a.xid = b.tid
        BY <2>2, <3>1, <4>1, <1>3 DEF Good, DefsApart
      <4>3. a.xid = a.tid
        BY <1>3, <2>2, <4>2 DEF Good, Versioned, ExpiredByOwner
      <4> QED BY <2>2, <3>1, <4>2, <4>3 DEF Ours
    <3> QED BY <2>2, <2>3, <3>1, <3>2 DEF Alone
  <2> QED BY <2>4, <2>5
<1> QED BY <1>4, <1>5

(* The index that is dropped: from then on its creator doesn't count.      *)
LEMMA DropOldIndex ==
  ASSUME NEW os \in SUBSET Object, NEW act, 0 \notin act, NEW t \in act, t \in Nat, NEW ks,
         NEW ix, DropFinds(os, t, act, ks, ix),
         NEW S, S = DropExpires(os, t, act, ix), NEW ps, ps = SetXid(os, S, t),
         NEW i \in IndexId, NEW k \in Key, OldIndex(os, act, i, 0, k)
  PROVE  OldIndex(ps, act, i, t, k)
<1>1. /\ ps \in SUBSET Object
      /\ \A q \in ps : \E o \in os : Dropped(o, q, S, t)
      /\ \A o \in os : \E q \in ps : Dropped(o, q, S, t)
  BY DropHas
<1>2. \A o \in S : ~ IsRow(o) /\ Ours(o, t, act) /\ o.xid = 0
  BY DropSees
<1>3. t # 0 /\ \A o \in os : o.tid # 0
  BY ObjectFields
<1>4. ASSUME NEW a \in os, NEW r \in os, Twins(r, a, act, 0), NEW p, NEW q,
             Dropped(r, p, S, t), Dropped(a, q, S, t), IsRow(r)
      PROVE  /\ Twins(p, q, act, t)
             /\ Lasts(r, act, 0) /\ Lasts(p, act, t) => Lasts(q, act, t)
             /\ Lasts(a, act, 0) /\ Lasts(q, act, t) => Lasts(p, act, t)
  <2>1. p.tid = r.tid /\ q.tid = a.tid /\ p.xid = r.xid
    BY <1>2, <1>4 DEF Dropped, Kept
  <2>2. q.xid = a.xid \/ (a.xid = 0 /\ q.xid = t /\ (a.tid \notin act \/ a.tid = t))
    BY <1>2, <1>4 DEF Dropped, Ours
  <2>3. (r.tid = a.tid \/ (r.tid \notin act /\ a.tid \notin act)) /\ r.xid = a.xid
    BY <1>4 DEF Twins
  <2> QED BY <1>3, <2>1, <2>2, <2>3 DEF Twins, Lasts
<1>5. \A o \in os : \A q : Dropped(o, q, S, t) /\ Lasts(q, act, t) => Lasts(o, act, 0)
  <2> SUFFICES ASSUME NEW o \in os, NEW q, Dropped(o, q, S, t), Lasts(q, act, t)
               PROVE  Lasts(o, act, 0)
    OBVIOUS
  <2>1. q.tid = o.tid /\ (q.xid = o.xid \/ q.xid = t)
    BY DEF Dropped, Kept
  <2> QED BY <1>3, <2>1 DEF Lasts
<1>6. RowsHaveEntries(ps, act, i, t, k)
  <2> SUFFICES ASSUME NEW r \in ps, r.key = RowKey(k), Lasts(r, act, t)
               PROVE  \E e \in ps : e.key = EntryKey(i, r.value, k) /\ Lasts(e, act, t)
                                     /\ Twins(r, e, act, t)
    BY DEF RowsHaveEntries
  <2>1. PICK r0 \in os : Dropped(r0, r, S, t)
    BY <1>1
  <2>2. r0.key = RowKey(k) /\ r0.value = r.value /\ Lasts(r0, act, 0)
    BY <1>5, <2>1 DEF Dropped, Kept
  <2>3. PICK e0 \in os : e0.key = EntryKey(i, r.value, k) /\ Twins(r0, e0, act, 0)
    BY <2>2 DEF OldIndex, RowsHaveEntries
  <2>4. PICK e \in ps : Dropped(e0, e, S, t)
    BY <1>1
  <2>5. Twins(r, e, act, t) /\ Lasts(e, act, t)
    BY <1>4, <2>1, <2>2, <2>3, <2>4, Kinds
  <2> QED BY <2>3, <2>4, <2>5 DEF Dropped, Kept
<1>7. EntriesHaveRows(ps, act, i, t, k)
  <2> SUFFICES ASSUME NEW e \in ps, NEW v \in Value, e.key = EntryKey(i, v, k), Lasts(e, act, t)
               PROVE  \E r \in ps : r.key = RowKey(k) /\ r.value = v /\ Lasts(r, act, t)
                                     /\ Twins(r, e, act, t)
    BY DEF EntriesHaveRows
  <2>1. PICK e0 \in os : Dropped(e0, e, S, t)
    BY <1>1
  <2>2. e0.key = EntryKey(i, v, k) /\ Lasts(e0, act, 0)
    BY <1>5, <2>1 DEF Dropped, Kept
  <2>3. PICK r0 \in os : r0.key = RowKey(k) /\ r0.value = v /\ Twins(r0, e0, act, 0)
    BY <2>2 DEF OldIndex, EntriesHaveRows
  <2>4. PICK r \in ps : Dropped(r0, r, S, t)
    BY <1>1
  <2>5. Twins(r, e, act, t) /\ Lasts(r, act, t)
    BY <1>4, <2>1, <2>2, <2>3, <2>4, Kinds
  <2> QED BY <2>3, <2>4, <2>5 DEF Dropped, Kept
<1> QED BY <1>6, <1>7 DEF OldIndex

LEMMA DropMatching ==
  ASSUME NEW os \in SUBSET Object, NEW act, 0 \notin act, NEW t \in act, t \in Nat,
         NEW ks \in SUBSET Key, NEW ix, DropFinds(os, t, act, ks, ix),
         NEW S, S = DropExpires(os, t, act, ix), NEW ps, ps = SetXid(os, S, t)
  PROVE  Matching(ps, act, ks)
<1>1. /\ ps \in SUBSET Object
      /\ \A q \in ps : \E o \in os : Dropped(o, q, S, t)
      /\ \A o \in os : \E q \in ps : Dropped(o, q, S, t)
  BY DropHas
<1>2. /\ \A o \in S : o \in os /\ ~ IsRow(o) /\ Ours(o, t, act) /\ o.xid = 0 /\ o.key[2] \in ix
      /\ \A o \in os : IsDefinition(o) /\ Visible(o, t, act) => o \in S
  BY DropSees
<1>3. Good(os, act, ks) /\ OneVersion(os) /\ ix = Definitions(os, t, act)
  BY DEF DropFinds
<1>4. \A o \in os, q \in ps : Dropped(o, q, S, t) /\ o \notin S => q = o
  <2> SUFFICES ASSUME NEW o \in os, NEW q \in ps, Dropped(o, q, S, t), o \notin S
               PROVE  q = o
    OBVIOUS
  <2>1. Kept(o, q) /\ o.xid = q.xid
    BY DEF Dropped
  <2> QED BY <1>1, <2>1, SameObject
<1> SUFFICES ASSUME NEW d \in ps, NEW i \in IndexId, NEW k \in ks, d.key = DefinitionKey(i)
             PROVE  /\ d.tid \notin act => OldIndex(ps, act, i, d.xid, k)
                    /\ d.tid \in act /\ d.xid = 0 => NewIndex(ps, i, d.tid, k)
  BY DEF Matching
<1>5. PICK a \in os : Dropped(a, d, S, t)
  BY <1>1
<1>6. a.key = DefinitionKey(i) /\ a.tid = d.tid /\ IsDefinition(a) /\ a.key[2] = i
  <2>1. a.key = DefinitionKey(i) /\ a.tid = d.tid
    BY <1>5 DEF Dropped, Kept
  <2> QED BY <2>1, Kinds
<1>7. /\ a.tid \notin act => OldIndex(os, act, i, a.xid, k)
      /\ a.tid \in act /\ a.xid = 0 => NewIndex(os, i, a.tid, k)
  BY <1>3, <1>6 DEF Good, Matching
<1>8. CASE a \in S
  <2>1. d.xid = t /\ a.xid = 0 /\ t # 0
    BY <1>2, <1>5, <1>8 DEF Dropped
  <2>2. OldIndex(os, act, i, 0, k) => OldIndex(ps, act, i, t, k)
    BY DropOldIndex
  <2> QED BY <1>6, <1>7, <2>1, <2>2
<1>9. CASE a \notin S
  <2>1. d = a
    BY <1>4, <1>5, <1>9
  <2>2. i \notin ix
    <3> SUFFICES ASSUME i \in ix
                 PROVE  FALSE
      OBVIOUS
    <3>1. PICK b \in os : IsDefinition(b) /\ Visible(b, t, act) /\ b.key[2] = i
      BY <1>3 DEF Definitions
    <3>2. b.key = DefinitionKey(i)
      BY <3>1, KindOf, DefinitionKeys
    <3>3. b = a
      BY <1>3, <1>6, <3>1, <3>2 DEF OneVersion, Defs
    <3> QED BY <1>2, <1>9, <3>1, <3>3
  <2>3. ASSUME NEW o, o.key = RowKey(k) \/ \E v : o.key = EntryKey(i, v, k)
        PROVE  o \in os <=> o \in ps
    <3>1. IsRow(o) \/ (IsEntry(o) /\ o.key[2] = i)
      BY <2>3, Kinds
    <3>2. \A p \in os : p.key = o.key => p \notin S
      BY <1>2, <2>2, <3>1 DEF IsRow
    <3>3. ASSUME o \in os
          PROVE  o \in ps
      BY <1>1, <1>4, <3>2, <3>3
    <3>4. ASSUME o \in ps
          PROVE  o \in os
      <4>1. PICK p \in os : Dropped(p, o, S, t)
        BY <1>1, <3>4
      <4>2. p.key = o.key
        BY <4>1 DEF Dropped, Kept
      <4> QED BY <1>4, <3>2, <3>4, <4>1, <4>2
    <3> QED BY <3>3, <3>4
  <2>4. /\ \A o : o.key = RowKey(k) => (o \in os <=> o \in ps)
        /\ \A o, v : o.key = EntryKey(i, v, k) => (o \in os <=> o \in ps)
    BY <2>3
  <2>5. /\ \A x : OldIndex(os, act, i, x, k) => OldIndex(ps, act, i, x, k)
        /\ \A s : NewIndex(os, i, s, k) => NewIndex(ps, i, s, k)
    BY <2>4, MatchingSame
  <2> QED BY <1>7, <2>1, <2>5
<1> QED BY <1>8, <1>9

LEMMA DropDistinct ==
  ASSUME NEW os \in SUBSET Object, NEW act, 0 \notin act, NEW t \in act, t \in Nat,
         NEW ks \in SUBSET Key, NEW ix, DropFinds(os, t, act, ks, ix),
         NEW S, S = DropExpires(os, t, act, ix), NEW ps, ps = SetXid(os, S, t)
  PROVE  Distinct(ps, act, ks)
<1>1. /\ ps \in SUBSET Object
      /\ \A q \in ps : \E o \in os : Dropped(o, q, S, t)
      /\ \A o \in os : \E q \in ps : Dropped(o, q, S, t)
  BY DropHas
<1>2. \A o \in S : ~ IsRow(o) /\ o.xid = 0
  BY DropSees
<1>3. Good(os, act, ks)
  BY DEF DropFinds
<1> SUFFICES ASSUME NEW d \in ps, NEW o \in ps, NEW p \in ps,
                    IsDefinition(d), d.key[2] \in Unique, SameValue(o, p, ks)
             PROVE  /\ d.tid \notin act /\ d.xid \notin {o.tid, p.tid} => Apart(o, p)
                    /\ d.tid \in act /\ d.xid = 0 => o.xid # 0 \/ p.xid # 0
  BY DEF Distinct
<1>4. PICK a \in os, b \in os, e \in os :
        Dropped(a, o, S, t) /\ Dropped(b, p, S, t) /\ Dropped(e, d, S, t)
  BY <1>1
<1>5. SameValue(a, b, ks) /\ IsDefinition(e) /\ e.key[2] \in Unique /\ e.tid = d.tid
  BY <1>4, KeptKind DEF SameValue, Dropped, Kept
<1>6. a.tid = o.tid /\ b.tid = p.tid /\ a.xid = o.xid /\ b.xid = p.xid
  <2>1. IsRow(a) /\ IsRow(b)
    BY <1>5, Kinds DEF SameValue
  <2> QED BY <1>2, <1>4, <2>1 DEF Dropped, Kept
<1>7. /\ e.tid \notin act /\ e.xid \notin {a.tid, b.tid} => Apart(a, b)
      /\ e.tid \in act /\ e.xid = 0 => a.xid # 0 \/ b.xid # 0
  BY <1>3, <1>5 DEF Good, Distinct
<1>8. a.tid # 0 /\ b.tid # 0 /\ t # 0
  BY ObjectFields
<1>9. d.xid = e.xid \/ (e.xid = 0 /\ d.xid = t)
  BY <1>2, <1>4 DEF Dropped
<1> QED BY <1>5, <1>6, <1>7, <1>8, <1>9 DEF Apart

LEMMA DropGood ==
  ASSUME NEW os \in SUBSET Object, NEW act, 0 \notin act, NEW t \in act, t \in Nat,
         NEW ks \in SUBSET Key, NEW ix, DropFinds(os, t, act, ks, ix),
         NEW S, S = DropExpires(os, t, act, ix), NEW ps, ps = SetXid(os, S, t)
  PROVE  Good(ps, act, ks)
<1>1. Versioned(ps, act) /\ OneOwn(ps) /\ DefsApart(ps)
  BY DropVersioned
<1>2. EntriesLocked(ps, act) /\ NewDefsAlone(ps, act)
  BY DropLocked
<1>3. Matching(ps, act, ks) /\ Distinct(ps, act, ks)
  BY DropMatching, DropDistinct
<1> QED BY <1>1, <1>2, <1>3 DEF Good

-----------------------------------------------------------------------------
(* The steps of the system. *)

LEMMA IndexObjects ==
  ASSUME TypeOK, IndexAssumption, NEW c \in Conn
  PROVE  /\ objects \in SUBSET Object /\ Opened(c) \in SUBSET Object
         /\ 0 \notin active /\ active \in SUBSET Nat /\ 0 \notin Live(c)
         /\ TidOf(c) \in Nat \ {0} /\ 0 \notin ActiveIn(c)
         /\ txn[c] = 0 => TidOf(c) \notin Live(c)
                          /\ \A o \in Opened(c) : o.tid # TidOf(c) /\ o.xid # TidOf(c)
<1>1. transaction_id \in Nat /\ objects \in SUBSET ObjectUpTo(transaction_id, index_id)
  BY DEF TypeOK, ObjectUpTo
<1>2. /\ Opened(c) \in SUBSET ObjectUpTo(transaction_id, index_id)
      /\ Live(c) \subseteq FirstTid + 1 .. transaction_id
      /\ TidOf(c) \in FirstTid + 1 .. transaction_id + 1
  BY OpenedType
<1>3. /\ objects \in SUBSET Object /\ Opened(c) \in SUBSET Object
  BY <1>1, <1>2, ObjectsAreObjects
<1>4. 0 \notin active /\ active \in SUBSET Nat /\ 0 \notin Live(c) /\ TidOf(c) \in Nat \ {0}
  BY <1>1, <1>2 DEF TypeOK, FirstTid
<1>5. 0 \notin ActiveIn(c)
  BY <1>4 DEF ActiveIn
<1>6. ASSUME txn[c] = 0
      PROVE  TidOf(c) \notin Live(c)
             /\ \A o \in Opened(c) : o.tid # TidOf(c) /\ o.xid # TidOf(c)
  <2>1. TidOf(c) = transaction_id + 1
    BY <1>6 DEF TidOf
  <2>2. \A o \in Opened(c) : o.tid \in FirstTid .. transaction_id /\ o.xid \in 0 .. transaction_id
    BY <1>2 DEF ObjectUpTo
  <2> QED BY <1>1, <1>2, <2>1, <2>2 DEF FirstTid
<1> QED BY <1>3, <1>4, <1>5, <1>6

(* The recovery of a connection that is alone.                             *)
LEMMA OpenedGood ==
  ASSUME TypeOK, IndexAssumption, NEW c \in Conn, NEW ks \in SUBSET Key, Good(objects, active, ks)
  PROVE  Good(Opened(c), Live(c), ks)
<1>1. objects \in SUBSET Object /\ 0 \notin active
  BY IndexObjects
<1>2. Dead(c) \in SUBSET active
  BY DEF Dead
<1>3. CASE Dead(c) = {}
  <2>1. Opened(c) = objects /\ Live(c) = active
    BY <1>3 DEF Opened, Live
  <2> QED BY <2>1
<1>4. CASE Dead(c) # {}
  <2>1. Opened(c) = Undo(objects, Dead(c)) /\ Live(c) = active \ Dead(c)
    BY <1>4 DEF Opened, Live
  <2> QED BY <1>1, <1>2, <2>1, UndoGood
<1> QED BY <1>3, <1>4

(* What a statement that writes starts from.                               *)
LEMMA StartGood ==
  ASSUME FreshInv, Transactions, IndexAssumption, NEW c \in session, ~ ahead,
         NEW ks \in SUBSET Key, Good(objects, active, ks)
  PROVE  /\ Good(Opened(c), ActiveIn(c), ks) /\ TidOf(c) \in ActiveIn(c)
         /\ Indexes(c) = Definitions(Opened(c), TidOf(c), ActiveIn(c))
         /\ Indexes(c) \in SUBSET IndexId
<1>1. TypeOK /\ c \in Conn
  BY DEF FreshInv, TypeOK
<1>2. Good(Opened(c), Live(c), ks) /\ Opened(c) \in SUBSET Object
  BY <1>1, OpenedGood, IndexObjects
<1>3. Indexes(c) = Definitions(Opened(c), txn[c], Live(c))
  BY RememberedFresh DEF Indexes
<1>4. TidOf(c) \in ActiveIn(c)
  BY DEF ActiveIn
<1>5. CASE txn[c] # 0
  <2>1. TidOf(c) = txn[c] /\ ActiveIn(c) = Live(c)
    BY <1>1, <1>5 DEF TidOf, ActiveIn, Live, Dead, Transactions
  <2> QED BY <1>2, <1>3, <1>4, <2>1, <1>1, WriteStart DEF IndexId
<1>6. CASE txn[c] = 0
  <2>1. Good(Opened(c), ActiveIn(c), ks)
    BY <1>1, <1>2, <1>6, IndexObjects, FreshGood DEF ActiveIn
  <2>2. ASSUME NEW o \in Opened(c)
        PROVE  Visible(o, TidOf(c), ActiveIn(c)) <=> Visible(o, txn[c], Live(c))
    <3>1. o.tid # TidOf(c) /\ o.xid # TidOf(c) /\ o.tid # 0
      BY <1>1, <1>2, <1>6, IndexObjects, ObjectFields
    <3>2. (o.tid \in ActiveIn(c) <=> o.tid \in Live(c)) /\ (o.xid \in ActiveIn(c) <=> o.xid \in Live(c))
      BY <3>1 DEF ActiveIn
    <3> QED BY <1>6, <3>1, <3>2 DEF Visible
  <2>3. Indexes(c) = Definitions(Opened(c), TidOf(c), ActiveIn(c))
    BY <1>3, <2>2 DEF Definitions
  <2> QED BY <1>1, <1>4, <2>1, <2>3, WriteStart DEF IndexId
<1> QED BY <1>5, <1>6

(* No object that a statement has created is one that it has expired.      *)
NoneOwnExpired(ps, t) == \A q \in ps : q.tid = t => q.xid # t

LEMMA RowWriteOwn ==
  ASSUME NEW os, NEW ps, NEW act, NEW t, t # 0, NEW k, NEW ix, NEW K, NEW new,
         RowWrite(os, ps, t, act, k, ix, K, new), \A o \in os : o.tid # t
  PROVE  NoneOwnExpired(ps, t)
<1> SUFFICES ASSUME NEW q \in ps, q.tid = t
             PROVE  q.xid # t
  BY DEF NoneOwnExpired
<1>1. CASE q.key \notin K
  BY <1>1 DEF RowWrite, Overwrites
<1>2. CASE q.key \in K
  <2>1. q \in new
    BY <1>2 DEF RowWrite, Overwrites, Kept
  <2> QED BY <2>1 DEF RowWrite, Creates
<1> QED BY <1>1, <1>2

(* finish_write: it ends the ID of a statement outside of a transaction.   *)
LEMMA EndGood ==
  ASSUME FreshInv, Transactions, IndexAssumption, NEW c \in session,
         NEW ks \in SUBSET Key, NEW ps \in SUBSET Object, NEW remembered,
         EndStatement(c, ps, remembered), Good(ps, ActiveIn(c), ks),
         txn[c] = 0 => NoneOwnExpired(ps, TidOf(c))
  PROVE  Good(objects', active', ks)
<1> DEFINE t == TidOf(c)
           act == ActiveIn(c)
<1>1. TypeOK /\ c \in Conn
  BY DEF FreshInv, TypeOK
<1>2. active' = Live(c) /\ objects' = IF txn[c] # 0 THEN ps ELSE RemoveExpired(ps, t)
  BY DEF EndStatement
<1>3. CASE txn[c] # 0
  <2>1. act = Live(c)
    BY <1>1, <1>3 DEF TidOf, ActiveIn, Live, Dead, Transactions
  <2> QED BY <1>2, <1>3, <2>1
<1>4. CASE txn[c] = 0
  <2>1. act \ {t} = Live(c) /\ 0 \notin act /\ t \in act
    BY <1>1, <1>4, IndexObjects DEF ActiveIn
  <2>2. NotLost(ps, t, ks)
    BY <1>4 DEF NotLost, NoneOwnExpired
  <2>3. Good(RemoveExpired(ps, t), act \ {t}, ks)
    <3> HIDE DEF act, t
    <3>1. Good(ps, act, ks)
      BY DEF act
    <3> QED BY <2>1, <2>2, <3>1, CommitGood
  <2> QED BY <1>2, <1>4, <2>1, <2>3
<1> QED BY <1>3, <1>4

(* A statement that has written a row.                                     *)
LEMMA RowWritten ==
  ASSUME FreshInv, Transactions, IndexAssumption, NEW c \in session, ~ ahead,
         NEW ks \in SUBSET Key, Good(objects, active, ks), CanWrite(c),
         NEW k \in Key, NEW v \in Value, NEW ps \in SUBSET Object, NEW K, NEW new,
         RowWrite(Opened(c), ps, TidOf(c), ActiveIn(c), k, Indexes(c), K, new),
         \A q \in new : q.key = RowKey(k) => q.value = v /\ KeepsUnique(c, ps, v, k),
         NEW remembered, EndStatement(c, ps, remembered)
  PROVE  Good(objects', active', ks)
<1> DEFINE os == Opened(c)
           t == TidOf(c)
           act == ActiveIn(c)
           ix == Indexes(c)
<1>1. TypeOK /\ c \in Conn
  BY DEF FreshInv, TypeOK
<1>2. /\ os \in SUBSET Object /\ 0 \notin act /\ t \in act /\ t # 0 /\ ix \in SUBSET IndexId
      /\ Good(os, act, ks) /\ ix = Definitions(os, t, act)
      /\ txn[c] = 0 => \A o \in os : o.tid # t
  BY <1>1, StartGood, IndexObjects
<1>3. WriteFinds(os, t, act, ks, ix)
  BY <1>2 DEF WriteFinds, CanWrite
<1>4. NotTaken(ps, t, act, k, ix, new)
  BY DEF NotTaken, KeepsUnique
<1>5. RowWrite(os, ps, t, act, k, ix, K, new)
  OBVIOUS
<1> HIDE DEF os, t, act, ix
<1>6. Good(ps, act, ks)
  BY <1>2, <1>3, <1>4, <1>5, RowWriteGood
<1>7. txn[c] = 0 => NoneOwnExpired(ps, t)
  BY <1>2, <1>5, RowWriteOwn
<1> QED BY <1>6, <1>7, EndGood DEF t, act

(* What a statement that writes finds in Good objects.                     *)
LEMMA StatementStart ==
  ASSUME FreshInv, Transactions, IndexAssumption, NEW c \in session, ~ ahead,
         NEW ks \in SUBSET Key, Good(objects, active, ks)
  PROVE  /\ Opened(c) \in SUBSET Object /\ 0 \notin ActiveIn(c) /\ TidOf(c) \in ActiveIn(c)
         /\ TidOf(c) \in Nat \ {0} /\ Indexes(c) \in SUBSET IndexId
         /\ CanWrite(c) => WriteFinds(Opened(c), TidOf(c), ActiveIn(c), ks, Indexes(c))
         /\ \A v, k : Entries(c, v, k) = EntriesOf(Indexes(c), v, k)
<1>1. TypeOK /\ c \in Conn
  BY DEF FreshInv, TypeOK
<1> QED BY <1>1, StartGood, IndexObjects DEF WriteFinds, CanWrite, Entries, EntriesOf

LEMMA InsertGood ==
  ASSUME FreshInv, Transactions, IndexAssumption, NEW c \in session, ~ ahead,
         NEW ks \in SUBSET Key, Good(objects, active, ks),
         NEW k \in Key, NEW v \in Value, Insert(c, k, v)
  PROVE  Good(objects', active', ks)
<1> DEFINE os == Opened(c)
           t == TidOf(c)
           act == ActiveIn(c)
           ix == Indexes(c)
           ps == AddEntries(os \cup {NewObject(RowKey(k), t, v)}, EntriesOf(ix, v, k), t)
<1>1. /\ CanWrite(c) /\ CanInsert(os, RowKey(k), t, act)
      /\ \A e \in EntriesOf(ix, v, k) : ~ UpdateConflict(os, e, t)
      /\ KeepsUnique(c, ps, v, k) /\ EndStatement(c, ps, Remembered(c))
  BY StatementStart DEF Insert
<1>2. /\ os \in SUBSET Object /\ 0 \notin act /\ t \in act /\ t \in Nat
      /\ ix \in SUBSET IndexId /\ WriteFinds(os, t, act, ks, ix)
  BY <1>1, StatementStart
<1>3. /\ ps \in SUBSET Object
      /\ WritesValue(os, ps, t, act, k, ix, v)
  <2>1. Inserts(os, ps, t, act, ks, ix, k, v)
    BY <1>1, <1>2 DEF Inserts
  <2> HIDE DEF os, t, act, ix, ps
  <2> QED BY ONLY <1>2, <2>1, InsertWrites
<1> HIDE DEF ps
<1> QED BY <1>1, <1>3, RowWritten DEF WritesValue

LEMMA UpdateGood ==
  ASSUME FreshInv, Transactions, IndexAssumption, NEW c \in session, ~ ahead,
         NEW ks \in SUBSET Key, Good(objects, active, ks),
         NEW k \in Key, NEW v \in Value, Update(c, k, v)
  PROVE  Good(objects', active', ks)
<1> DEFINE os == Opened(c)
           t == TidOf(c)
           act == ActiveIn(c)
           ix == Indexes(c)
           us == PageUpdate(os, RowKey(k), t) \cup {NewObject(RowKey(k), t, v)}
           es(old) == ExpireEntries(us, EntriesOf(ix, old.value, k), t, act)
           written(old) == AddEntries(es(old), EntriesOf(ix, v, k), t)
<1>1. /\ CanWrite(c) /\ ~ UpdateConflict(os, RowKey(k), t)
      /\ \E old \in Rows(os, RowKey(k), t, act) :
           /\ old.value # v
           /\ ~ ExpireConflict(os, Visibles(os, EntriesOf(ix, old.value, k), t, act), t)
           /\ \A e \in EntriesOf(ix, v, k) : ~ UpdateConflict(os, e, t)
           /\ KeepsUnique(c, written(old), v, k)
           /\ EndStatement(c, written(old), Remembered(c))
  BY StatementStart DEF Update
<1>2. /\ os \in SUBSET Object /\ 0 \notin act /\ t \in act /\ t \in Nat
      /\ ix \in SUBSET IndexId /\ WriteFinds(os, t, act, ks, ix)
  BY <1>1, StatementStart
<1>3. PICK old \in Rows(os, RowKey(k), t, act) :
           /\ old.value # v
           /\ ~ ExpireConflict(os, Visibles(os, EntriesOf(ix, old.value, k), t, act), t)
           /\ \A e \in EntriesOf(ix, v, k) : ~ UpdateConflict(os, e, t)
           /\ KeepsUnique(c, written(old), v, k)
           /\ EndStatement(c, written(old), Remembered(c))
  BY <1>1
<1> DEFINE ps == written(old)
<1>4. /\ ps \in SUBSET Object
      /\ WritesValue(os, ps, t, act, k, ix, v)
  <2>1. Updates(os, us, es(old), ps, t, act, ks, ix, k, old, v)
    BY <1>1, <1>2, <1>3 DEF Updates
  <2> HIDE DEF os, t, act, ix, us, es, ps
  <2> QED BY ONLY <1>2, <2>1, UpdateWrites
<1>5. KeepsUnique(c, ps, v, k) /\ EndStatement(c, ps, Remembered(c))
  BY <1>3
<1> HIDE DEF ps
<1> QED BY <1>1, <1>4, <1>5, RowWritten DEF WritesValue

LEMMA DeleteGood ==
  ASSUME FreshInv, Transactions, IndexAssumption, NEW c \in session, ~ ahead,
         NEW ks \in SUBSET Key, Good(objects, active, ks), NEW k \in Key, Delete(c, k)
  PROVE  Good(objects', active', ks)
<1> DEFINE os == Opened(c)
           t == TidOf(c)
           act == ActiveIn(c)
           ix == Indexes(c)
           us(old) == SetXid(os, {old}, t)
           written(old) == ExpireEntries(us(old), EntriesOf(ix, old.value, k), t, act)
<1>1. /\ CanWrite(c) /\ ~ DeleteConflict(os, RowKey(k), t, act)
      /\ \E old \in Rows(os, RowKey(k), t, act) :
           /\ ~ ExpireConflict(os, Visibles(os, EntriesOf(ix, old.value, k), t, act), t)
           /\ EndStatement(c, written(old), Remembered(c))
  BY StatementStart DEF Delete
<1>2. /\ os \in SUBSET Object /\ 0 \notin act /\ t \in act /\ t \in Nat
      /\ ix \in SUBSET IndexId /\ WriteFinds(os, t, act, ks, ix)
  BY <1>1, StatementStart
<1>3. PICK old \in Rows(os, RowKey(k), t, act) :
           /\ ~ ExpireConflict(os, Visibles(os, EntriesOf(ix, old.value, k), t, act), t)
           /\ EndStatement(c, written(old), Remembered(c))
  BY <1>1
<1> DEFINE ps == written(old)
<1>4. /\ ps \in SUBSET Object
      /\ \E K : RowWrite(os, ps, t, act, k, ix, K, {})
  <2> DEFINE u == us(old)
  <2>1. u = SetXid(os, {old}, t) /\ ps = ExpireEntries(u, EntriesOf(ix, old.value, k), t, act)
    OBVIOUS
  <2>2. k \in Key /\ old \in Rows(os, RowKey(k), t, act)
    BY <1>3
  <2>3. /\ ~ ExpireConflict(os, Visibles(os, EntriesOf(ix, old.value, k), t, act), t)
        /\ ~ DeleteConflict(os, RowKey(k), t, act)
    BY <1>1, <1>3
  <2> HIDE DEF os, t, act, ix, u, ps
  <2> QED BY ONLY <1>2, <2>1, <2>2, <2>3, DeleteWrites
<1>5. EndStatement(c, ps, Remembered(c))
  BY <1>3
<1>6. \A o \in os : o.key = RowKey(k) => o.value \in Value
  BY <1>2, ObjectFields, Kinds
<1>7. \E v \in Value : TRUE
  BY <1>3, <1>6 DEF Rows
<1> HIDE DEF ps
<1> QED BY <1>1, <1>4, <1>5, <1>7, RowWritten

LEMMA BuildStepGood ==
  ASSUME FreshInv, Transactions, IndexAssumption, NEW c \in session, ~ ahead,
         NEW ks \in SUBSET Key, Good(objects, active, ks), Build(c)
  PROVE  Good(objects', active', ks)
<1> DEFINE os == Opened(c)
           t == TidOf(c)
           act == ActiveIn(c)
           i == index_id + 1
           rows == VisibleRows(os, t, act)
           d == NewObject(DefinitionKey(i), t, Nothing)
           ps == os \cup {d} \cup {NewObject(EntryKey(i, o.value, o.key[2]), t, Nothing) : o \in rows}
           remembered == [version |-> VersionIn(c) + 1, indexes |-> Indexes(c) \cup {i}]
<1>1. TypeOK /\ c \in Conn
  BY DEF FreshInv, TypeOK
<1>2. /\ i <= MaxIndex /\ Indexes(c) = {} /\ ~ HasConcurrentChanges(os, t, act)
      /\ ~ HasDuplicates(rows) /\ EndStatement(c, ps, remembered)
  BY DEF Build
<1>3. /\ os \in SUBSET Object /\ 0 \notin act /\ t \in act /\ t \in Nat \ {0}
      /\ Good(os, act, ks) /\ Indexes(c) = Definitions(os, t, act)
      /\ txn[c] = 0 => \A o \in os : o.tid # t
  BY <1>1, StartGood, IndexObjects
<1>4. i \in IndexId
  BY <1>1, <1>2 DEF IndexId, TypeOK, IndexAssumption
<1>5. BuildFinds(os, t, act, ks, i)
  <2>1. \A o \in os : ~ IsRow(o) => o.key[2] # i
    <3>1. os \in SUBSET ObjectUpTo(transaction_id, index_id) /\ index_id \in Nat
      BY <1>1, OpenedType DEF TypeOK
    <3> HIDE DEF os
    <3> QED BY <3>1 DEF ObjectUpTo
  <2>2. i \in Unique => \A o, p \in rows : o.value = p.value => o = p
    BY <1>2 DEF HasDuplicates
  <2> QED BY <1>2, <1>3, <2>1, <2>2 DEF BuildFinds
<1>6. ps \in SUBSET Object /\ Built(os, ps, t, act, i, d)
  <2> HIDE DEF os, t, act, i
  <2> QED BY <1>3, <1>4, BuildsIndex
<1>7. txn[c] = 0 => NoneOwnExpired(ps, t)
  <2>1. t # 0
    BY <1>3
  <2> HIDE DEF os, t, act, i, d, ps
  <2> QED BY <1>3, <1>6, <2>1 DEF Built, NoneOwnExpired
<1>8. Good(ps, act, ks)
  <2> HIDE DEF os, t, act, i, d, ps
  <2> QED BY <1>3, <1>4, <1>5, <1>6, BuildGood
<1> HIDE DEF ps, remembered
<1> QED BY <1>2, <1>6, <1>7, <1>8, EndGood

LEMMA DropIndexGood ==
  ASSUME FreshInv, Transactions, IndexAssumption, NEW c \in session, ~ ahead,
         NEW ks \in SUBSET Key, Good(objects, active, ks), DropIndex(c)
  PROVE  Good(objects', active', ks)
<1> DEFINE os == Opened(c)
           t == TidOf(c)
           act == ActiveIn(c)
           ix == Indexes(c)
           S == DropExpires(os, t, act, ix)
           ps == SetXid(os, S, t)
           remembered == [version |-> VersionIn(c) + 1, indexes |-> {}]
<1>1. TypeOK /\ c \in Conn
  BY DEF FreshInv, TypeOK
<1>2. ~ ExpireConflict(os, S, t) /\ EndStatement(c, ps, remembered)
  BY DEF DropIndex, DropExpires
<1>3. /\ os \in SUBSET Object /\ 0 \notin act /\ t \in act /\ t \in Nat /\ t # 0
      /\ Good(os, act, ks) /\ ix = Definitions(os, t, act)
      /\ txn[c] = 0 => \A o \in os : o.tid # t
  BY <1>1, StartGood, IndexObjects
<1>4. OneVersion(os)
  BY <1>1, OpenedOneVersion DEF FreshInv
<1> HIDE DEF os, t, act, ix
<1>5. DropFinds(os, t, act, ks, ix)
  BY <1>2, <1>3, <1>4 DEF DropFinds
<1>6. ps = SetXid(os, S, t) /\ S = DropExpires(os, t, act, ix)
  OBVIOUS
<1> HIDE DEF S, ps, remembered
<1>7. ps \in SUBSET Object /\ \A q \in ps : \E o \in os : Dropped(o, q, S, t)
  BY ONLY <1>3, <1>5, <1>6, DropHas
<1>8. txn[c] = 0 => NoneOwnExpired(ps, t)
  BY <1>3, <1>7 DEF NoneOwnExpired, Dropped, Kept
<1>9. Good(ps, act, ks)
  BY ONLY <1>3, <1>5, <1>6, ks \in SUBSET Key, DropGood
<1> QED BY <1>2, <1>7, <1>8, <1>9, EndGood DEF t, act

(* A statement that fails leaves the file as it is: what it has recovered  *)
(* is lost, and from then on the history variable says so.                 *)
LEMMA DiscardGood ==
  ASSUME NEW c, Discard(c), NEW ks, ~ ahead', ~ ahead => Good(objects, active, ks)
  PROVE  Good(objects', active', ks)
BY DEF Discard, header

LEMMA StartTransactionGood ==
  ASSUME FreshInv, Transactions, IndexAssumption, NEW c \in session, ~ ahead,
         NEW ks \in SUBSET Key, Good(objects, active, ks), StartTransaction(c)
  PROVE  Good(objects', active', ks)
BY StartGood DEF StartTransaction

(* Lost are the keys of which the transaction has two versions.            *)
LEMMA CommitStepGood ==
  ASSUME FreshInv, Transactions, IndexAssumption, NEW c \in session, ~ ahead,
         Good(objects, active, Key \ damaged), Commit(c)
  PROVE  Good(objects', active', Key \ damaged')
<1> DEFINE os == Opened(c)
           t == txn[c]
           act == Live(c)
           ks == Key \ damaged
           ls == Key \ damaged'
<1>1. TypeOK /\ c \in Conn
  BY DEF FreshInv, TypeOK
<1>2. /\ objects' = RemoveExpired(os, t) /\ active' = act \ {t} /\ damaged' = damaged \cup Lost(c)
      /\ t # 0
  BY DEF Commit, EndTransaction
<1>3. os \in SUBSET Object /\ 0 \notin act /\ Good(os, act, ks)
  BY <1>1, OpenedGood, IndexObjects
<1>4. t \in act
  BY <1>1, <1>2 DEF Live, Dead, Transactions
<1>5. NotLost(os, t, ls) /\ ls \in SUBSET ks /\ ks \in SUBSET Key
  BY <1>2 DEF NotLost, Lost
<1> HIDE DEF os, t, act, ks, ls
<1>6. Good(RemoveExpired(os, t), act \ {t}, ls)
  BY <1>3, <1>4, <1>5, CommitGood
<1> QED BY <1>2, <1>6 DEF ls

LEMMA RollbackGood ==
  ASSUME FreshInv, Transactions, IndexAssumption, NEW c \in session, ~ ahead,
         NEW ks \in SUBSET Key, Good(objects, active, ks), Rollback(c)
  PROVE  Good(objects', active', ks)
<1> DEFINE os == Opened(c)
           act == Live(c)
           tids == {txn[c]}
<1>1. TypeOK /\ c \in Conn
  BY DEF FreshInv, TypeOK
<1>2. objects' = Undo(os, tids) /\ active' = act \ tids /\ txn[c] # 0
  BY DEF Rollback, EndTransaction
<1>3. os \in SUBSET Object /\ 0 \notin act /\ Good(os, act, ks)
  BY <1>1, OpenedGood, IndexObjects
<1>4. tids \in SUBSET act
  BY <1>1, <1>2 DEF Live, Dead, Transactions
<1> HIDE DEF os, act, tids
<1>5. Good(Undo(os, tids), act \ tids, ks)
  BY <1>3, <1>4, UndoGood
<1> QED BY <1>2, <1>5

-----------------------------------------------------------------------------
(* Transactions: recovery leaves those of the open connections.            *)

LEMMA LiveTransactions ==
  ASSUME FreshInv, Transactions, NEW c \in session
  PROVE  \A d \in Conn : txn[d] # 0 => d \in session /\ txn[d] \in Live(c)
<1> SUFFICES ASSUME NEW d \in Conn, txn[d] # 0
             PROVE  d \in session /\ txn[d] \in Live(c)
  OBVIOUS
<1>1. d \in session /\ txn[d] \in active
  BY DEF Transactions
<1>2. CASE d = c
  BY <1>1, <1>2 DEF Live, Dead
<1>3. CASE d # c
  BY <1>1, <1>3, NotAlone
<1> QED BY <1>1, <1>2, <1>3

LEMMA SameTransactions ==
  ASSUME FreshInv, Transactions, NEW c \in session, UNCHANGED <<session, txn>>,
         active' \in {active, Live(c)}
  PROVE  Transactions'
BY LiveTransactions DEF Transactions

LEMMA StartTransactionTransactions ==
  ASSUME FreshInv, Transactions, NEW c \in session, StartTransaction(c)
  PROVE  Transactions'
<1>1. TypeOK /\ c \in Conn
  BY DEF FreshInv, TypeOK
<1>2. /\ session' = session /\ active' = Live(c) \cup {transaction_id + 1}
      /\ txn'[c] = transaction_id + 1 /\ \A d \in Conn \ {c} : txn'[d] = txn[d]
  BY <1>1 DEF StartTransaction, ActiveIn, TidOf, TypeOK
<1>3. \A d \in Conn : txn[d] # transaction_id + 1
  <2>1. transaction_id \in Nat /\ \A d \in Conn : txn[d] \in {0} \cup FirstTid + 1 .. transaction_id
    BY <1>1 DEF TypeOK
  <2> QED BY <2>1 DEF FirstTid
<1> QED BY <1>1, <1>2, <1>3, LiveTransactions DEF Transactions

LEMMA EndTransactionTransactions ==
  ASSUME FreshInv, Transactions, NEW c \in session, NEW os, NEW indexes, txn[c] # 0,
         EndTransaction(c, os, indexes)
  PROVE  Transactions'
<1>1. TypeOK /\ c \in Conn
  BY DEF FreshInv, TypeOK
<1>2. /\ session' = session /\ active' = Live(c) \ {txn[c]}
      /\ txn'[c] = 0 /\ \A d \in Conn \ {c} : txn'[d] = txn[d]
  BY <1>1 DEF EndTransaction, TypeOK
<1> QED BY <1>1, <1>2, LiveTransactions DEF Transactions

LEMMA OpenCloseTransactions ==
  ASSUME FreshInv, Transactions, NEW c \in Conn, Open(c) \/ Close(c)
  PROVE  Transactions'
<1>1. TypeOK
  BY DEF FreshInv
<1>2. CASE Open(c)
  BY <1>2 DEF Open, header, Transactions
<1>3. CASE Close(c)
  <2>1. /\ session' = session \ {c} /\ active' = active
        /\ txn'[c] = 0 /\ \A d \in Conn \ {c} : txn'[d] = txn[d]
    BY <1>1, <1>3 DEF Close, header, TypeOK
  <2> QED BY <2>1 DEF Transactions
<1> QED BY <1>2, <1>3

-----------------------------------------------------------------------------
(* The invariant of the system. *)

(* What a step shows of it, when the one of IndexProofs holds after it.    *)
StepExact == Transactions' /\ (~ ahead' => Good(objects', active', Key \ damaged'))

LEMMA StatementExact ==
  ASSUME ExactInv, IndexAssumption, NEW c \in session, NEW ps, NEW remembered,
         EndStatement(c, ps, remembered),
         ~ ahead => Good(objects', active', Key \ damaged)
  PROVE  StepExact
<1>1. Transactions'
  BY SameTransactions DEF ExactInv, EndStatement
<1>2. damaged' = damaged /\ (ahead' <=> ahead)
  BY DEF EndStatement
<1> QED BY <1>1, <1>2 DEF StepExact

LEMMA DiscardExact ==
  ASSUME ExactInv, IndexAssumption, NEW c \in session, Discard(c)
  PROVE  StepExact
<1>1. Transactions'
  BY SameTransactions DEF ExactInv, Discard, header
<1>2. damaged' = damaged /\ objects' = objects /\ active' = active /\ (~ ahead' => ~ ahead)
  BY DEF Discard, header
<1> QED BY <1>1, <1>2 DEF StepExact, ExactInv

(* INSERT, UPDATE and DELETE.                                              *)
LEMMA WriteExact ==
  ASSUME ExactInv, IndexAssumption, NEW c \in Conn, NEW k \in Key, NEW v \in Value,
         Insert(c, k, v) \/ Update(c, k, v) \/ Delete(c, k)
  PROVE  StepExact
<1> DEFINE ks == Key \ damaged
<1>1. ks \in SUBSET Key /\ FreshInv /\ Transactions /\ (~ ahead => Good(objects, active, ks))
  BY DEF ExactInv
<1>2. c \in session
  BY DEF Insert, Update, Delete, CanWrite, Ready
<1>3. \E ps, remembered : EndStatement(c, ps, remembered)
  BY DEF Insert, Update, Delete
<1>4. ~ ahead => Good(objects', active', ks)
  <2> HIDE DEF ks
  <2> QED BY <1>1, <1>2, InsertGood, UpdateGood, DeleteGood
<1> QED BY <1>2, <1>3, <1>4, StatementExact

(* CREATE INDEX, that waits or not, and DROP INDEX.                        *)
LEMMA DefinitionExact ==
  ASSUME ExactInv, IndexAssumption, NEW c \in session, Attempt(c) \/ DropIndex(c)
  PROVE  StepExact
<1> DEFINE ks == Key \ damaged
<1>1. ks \in SUBSET Key /\ FreshInv /\ Transactions /\ (~ ahead => Good(objects, active, ks))
  BY DEF ExactInv
<1>2. CASE Wait(c) \/ Refuse(c)
  BY <1>2, DiscardExact DEF Wait, Refuse
<1>3. CASE Build(c) \/ DropIndex(c)
  <2>1. ~ ahead => Good(objects', active', ks)
    <3> HIDE DEF ks
    <3> QED BY <1>1, <1>3, BuildStepGood, DropIndexGood
  <2>2. \E ps, remembered : EndStatement(c, ps, remembered)
    BY <1>3 DEF Build, DropIndex
  <2> QED BY <2>1, <2>2, StatementExact
<1> QED BY <1>2, <1>3 DEF Attempt

LEMMA TransactionExact ==
  ASSUME ExactInv, IndexAssumption, NEW c \in Conn,
         StartTransaction(c) \/ Commit(c) \/ Rollback(c)
  PROVE  StepExact
<1> DEFINE ks == Key \ damaged
<1>1. ks \in SUBSET Key /\ FreshInv /\ Transactions /\ (~ ahead => Good(objects, active, ks))
  BY DEF ExactInv
<1>2. c \in session
  BY DEF StartTransaction, Commit, Rollback, Ready
<1>3. Transactions'
  BY <1>1, <1>2, StartTransactionTransactions, EndTransactionTransactions DEF Commit, Rollback
<1>4. ahead' <=> ahead
  BY DEF StartTransaction, Commit, Rollback, EndTransaction
<1>5. CASE Commit(c)
  BY <1>1, <1>2, <1>3, <1>4, <1>5, CommitStepGood DEF StepExact
<1>6. CASE StartTransaction(c) \/ Rollback(c)
  <2>1. damaged' = damaged
    BY <1>6 DEF StartTransaction, Rollback
  <2> HIDE DEF ks
  <2>2. ~ ahead => Good(objects', active', ks)
    BY <1>1, <1>2, <1>6, StartTransactionGood, RollbackGood
  <2> QED BY <1>3, <1>4, <2>1, <2>2 DEF StepExact, ks
<1> QED BY <1>5, <1>6

LEMMA NextExact ==
  ASSUME ExactInv, IndexAssumption, [Next]_vars
  PROVE  ExactInv'
<1>1. FreshInv' /\ TypeOK
  BY NextFresh DEF ExactInv, FreshInv
<1>2. StepExact => ExactInv'
  BY <1>1 DEF StepExact, ExactInv
<1>3. ASSUME UNCHANGED <<objects, active, session, txn, damaged, ahead>>
      PROVE  StepExact
  BY <1>3 DEF ExactInv, StepExact, Transactions
<1>4. CASE UNCHANGED vars
  BY <1>2, <1>3, <1>4 DEF vars, header
<1>5. CASE Next
  <2> SUFFICES ASSUME NEW c \in Conn,
                      \/ \E k \in Key, v \in Value : Insert(c, k, v)
                      \/ \E k \in Key, v \in Value : Update(c, k, v)
                      \/ \E k \in Key : Delete(c, k)
                      \/ CreateIndex(c) \/ TryAgain(c) \/ DropIndex(c)
                      \/ StartTransaction(c) \/ Commit(c) \/ Rollback(c)
                      \/ Fail(c) \/ Read(c) \/ Open(c) \/ Close(c)
               PROVE  StepExact
    BY <1>2, <1>5 DEF Next
  <2>1. CASE Open(c) \/ Close(c)
    <3>1. /\ objects' = objects /\ active' = active /\ damaged' = damaged /\ (ahead' <=> ahead)
      BY <2>1 DEF Open, Close, header
    <3>2. Transactions'
      BY <2>1, OpenCloseTransactions DEF ExactInv
    <3> QED BY <3>1, <3>2 DEF StepExact, ExactInv
  <2>2. CASE \E k \in Key, v \in Value : Insert(c, k, v) \/ Update(c, k, v)
    BY <2>2, WriteExact
  <2>3. CASE \E k \in Key : Delete(c, k)
    <3>1. PICK k \in Key : Delete(c, k)
      BY <2>3
    <3>2. \E v \in Value : TRUE
      <4>1. PICK old \in Opened(c) : old.key = RowKey(k)
        BY <3>1 DEF Delete, Rows
      <4>2. old \in Object
        BY <1>1, <4>1, IndexObjects
      <4> QED BY <4>1, <4>2, ObjectFields, Kinds
    <3> QED BY <3>1, <3>2, WriteExact
  <2>4. CASE CreateIndex(c) \/ TryAgain(c)
    <3>1. c \in session /\ Attempt(c)
      BY <1>1, <2>4 DEF CreateIndex, TryAgain, Ready, ExactInv, FreshInv, NothingKept, TypeOK
    <3> QED BY <3>1, DefinitionExact
  <2>5. CASE DropIndex(c)
    BY <2>5, DefinitionExact DEF DropIndex, Ready
  <2>6. CASE StartTransaction(c) \/ Commit(c) \/ Rollback(c)
    BY <2>6, TransactionExact
  <2>7. CASE Fail(c)
    BY <2>7, DiscardExact DEF Fail, Ready
  <2>8. CASE Read(c)
    BY <1>3, <2>8 DEF Read, header
  <2> QED BY <2>1, <2>2, <2>3, <2>4, <2>5, <2>6, <2>7, <2>8
<1> QED BY <1>4, <1>5

(* What a table starts with: one version of everything, none expired.      *)
InitialObjects(f) ==
  /\ \A o \in objects : o.tid = FirstTid /\ o.xid = 0
  /\ \A o \in objects : \A k : o.key = RowKey(k) => k \in DOMAIN f /\ o.value = f[k]
  /\ \A o \in objects : \A i : o.key = DefinitionKey(i) => i \in 1 .. index_id
  /\ \A o \in objects : \A i, v, k : o.key = EntryKey(i, v, k) => k \in DOMAIN f /\ v = f[k]
  /\ \A k \in DOMAIN f : \E o \in objects : o.key = RowKey(k) /\ o.value = f[k]
  /\ \A i \in 1 .. index_id, k \in DOMAIN f : \E o \in objects : o.key = EntryKey(i, f[k], k)
  /\ \A o, p \in objects : o.key = p.key => o = p

LEMMA InitObjects ==
  ASSUME Init
  PROVE  \E f \in Initial :
           /\ InitialObjects(f)
           /\ \A i \in Unique \cap 1 .. index_id, j, k \in DOMAIN f : f[j] = f[k] => j = k
<1>1. PICK f \in Initial :
        /\ \A i \in Unique \cap 1 .. index_id, j, k \in DOMAIN f : f[j] = f[k] => j = k
        /\ objects =
             {NewObject(RowKey(k), FirstTid, f[k]) : k \in DOMAIN f}
               \cup {NewObject(DefinitionKey(i), FirstTid, Nothing) : i \in 1 .. index_id}
               \cup {NewObject(EntryKey(i, f[k], k), FirstTid, Nothing) :
                        i \in 1 .. index_id, k \in DOMAIN f}
  BY DEF Init
<1>2. ASSUME NEW o \in objects
      PROVE  \/ \E k \in DOMAIN f : o = NewObject(RowKey(k), FirstTid, f[k])
             \/ \E i \in 1 .. index_id : o = NewObject(DefinitionKey(i), FirstTid, Nothing)
             \/ \E i \in 1 .. index_id, k \in DOMAIN f :
                  o = NewObject(EntryKey(i, f[k], k), FirstTid, Nothing)
  BY <1>1
<1>3. \A key, v : /\ NewObject(key, FirstTid, v).key = key
                  /\ NewObject(key, FirstTid, v).tid = FirstTid
                  /\ NewObject(key, FirstTid, v).xid = 0
                  /\ NewObject(key, FirstTid, v).value = v
  BY DEF NewObject
<1>4. /\ \A o \in objects : o.tid = FirstTid /\ o.xid = 0
      /\ \A o \in objects : \A k : o.key = RowKey(k) => k \in DOMAIN f /\ o.value = f[k]
      /\ \A o \in objects : \A i : o.key = DefinitionKey(i) => i \in 1 .. index_id
      /\ \A o \in objects : \A i, v, k : o.key = EntryKey(i, v, k) => k \in DOMAIN f /\ v = f[k]
  BY <1>2, <1>3, KeysDiffer
<1>5. /\ \A k \in DOMAIN f : NewObject(RowKey(k), FirstTid, f[k]) \in objects
      /\ \A i \in 1 .. index_id, k \in DOMAIN f :
           NewObject(EntryKey(i, f[k], k), FirstTid, Nothing) \in objects
  BY <1>1
<1>6. ASSUME NEW o \in objects, NEW p \in objects, o.key = p.key
      PROVE  o = p
  BY <1>2, <1>3, <1>6, KeysDiffer
<1>7. InitialObjects(f)
  BY <1>3, <1>4, <1>5, <1>6 DEF InitialObjects
<1> QED BY <1>1, <1>7

LEMMA InitGood ==
  ASSUME IndexAssumption, Init
  PROVE  Good(objects, {}, Key)
<1>1. PICK f \in Initial :
        /\ InitialObjects(f)
        /\ \A i \in Unique \cap 1 .. index_id, j, k \in DOMAIN f : f[j] = f[k] => j = k
  BY InitObjects
<1>2. index_id \in {0, 1}
  BY DEF Init, IndexAssumption
<1>3. TypeOK
  BY InitType
<1>4. objects \in SUBSET ObjectUpTo(transaction_id, index_id) /\ transaction_id \in Nat
  BY <1>3 DEF TypeOK, ObjectUpTo
<1>5. objects \in SUBSET Object
  BY <1>4, ObjectsAreObjects
<1>6. Versioned(objects, {}) /\ OneOwn(objects)
  BY <1>1 DEF InitialObjects, Versioned, ExpiredByActive, ExpiredByOwner, Replaces, OneOwn
<1>7. EntriesLocked(objects, {}) /\ NewDefsAlone(objects, {})
  BY DEF EntriesLocked, NewDefsAlone
<1>8. \A o, p \in objects : IsDefinition(o) /\ IsDefinition(p) => o = p
  <2> SUFFICES ASSUME NEW o \in objects, NEW p \in objects, IsDefinition(o), IsDefinition(p)
               PROVE  o = p
    OBVIOUS
  <2>1. PICK i \in IndexId, j \in IndexId : o.key = DefinitionKey(i) /\ p.key = DefinitionKey(j)
    BY <1>5, KindOf
  <2>2. i \in 1 .. index_id /\ j \in 1 .. index_id
    BY <1>1, <2>1 DEF InitialObjects
  <2>3. CASE index_id = 0
    BY <2>2, <2>3
  <2>4. CASE index_id = 1
    <3>1. i = j
      BY <2>2, <2>4
    <3> QED BY <1>1, <2>1, <3>1 DEF InitialObjects
  <2> QED BY <1>2, <2>3, <2>4
<1>9. DefsApart(objects)
  BY <1>8 DEF DefsApart
<1>10. Matching(objects, {}, Key)
  <2> SUFFICES ASSUME NEW d \in objects, NEW i \in IndexId, NEW k \in Key, d.key = DefinitionKey(i)
               PROVE  OldIndex(objects, {}, i, d.xid, k)
    BY DEF Matching
  <2>1. i \in 1 .. index_id
    BY <1>1 DEF InitialObjects
  <2>2. \A r, e \in objects : Lasts(r, {}, d.xid) /\ Twins(r, e, {}, d.xid)
    BY <1>1 DEF InitialObjects, Lasts, Twins
  <2>3. RowsHaveEntries(objects, {}, i, d.xid, k)
    <3> SUFFICES ASSUME NEW r \in objects, r.key = RowKey(k)
                 PROVE  \E e \in objects : e.key = EntryKey(i, r.value, k)
      BY <2>2 DEF RowsHaveEntries
    <3> QED BY <1>1, <2>1 DEF InitialObjects
  <2>4. EntriesHaveRows(objects, {}, i, d.xid, k)
    <3> SUFFICES ASSUME NEW e \in objects, NEW v \in Value, e.key = EntryKey(i, v, k)
                 PROVE  \E r \in objects : r.key = RowKey(k) /\ r.value = v
      BY <2>2 DEF EntriesHaveRows
    <3> QED BY <1>1 DEF InitialObjects
  <2> QED BY <2>3, <2>4 DEF OldIndex
<1>11. Distinct(objects, {}, Key)
  <2> SUFFICES ASSUME NEW d \in objects, NEW o \in objects, NEW p \in objects,
                      IsDefinition(d), d.key[2] \in Unique, SameValue(o, p, Key)
               PROVE  FALSE
    BY DEF Distinct
  <2>1. PICK i \in IndexId : d.key = DefinitionKey(i)
    BY <1>5, KindOf
  <2>2. i \in Unique \cap 1 .. index_id
    <3>1. d.key[2] = i
      BY <2>1, Kinds
    <3>2. i \in 1 .. index_id
      BY <1>1, <2>1 DEF InitialObjects
    <3> QED BY <3>1, <3>2
  <2>3. PICK j \in Key, k \in Key : /\ j # k /\ o.key = RowKey(j) /\ p.key = RowKey(k)
                                    /\ o.value = p.value
    BY DEF SameValue
  <2> QED BY <1>1, <2>2, <2>3 DEF InitialObjects
<1> QED BY <1>6, <1>7, <1>9, <1>10, <1>11 DEF Good

LEMMA InitExact ==
  ASSUME IndexAssumption, Init
  PROVE  ExactInv
<1>1. active = {} /\ Key \ damaged = Key /\ Transactions
  BY DEF Init, Transactions
<1> QED BY <1>1, InitFresh, InitGood DEF ExactInv

(* The objects of the file are Good after every step (index.v), until a    *)
(* statement fails after its recovery.                                     *)
THEOREM ExactAlways == Spec => []ExactInv
<1>1. Init => ExactInv
  BY IndexAssumption, InitExact
<1>2. ExactInv /\ [Next]_vars => ExactInv'
  BY IndexAssumption, NextExact
<1> QED BY <1>1, <1>2, PTL DEF Spec

-----------------------------------------------------------------------------
(* What a transaction sees of objects that are Good.                       *)

(* It sees what is committed or its own; what another will expire is       *)
(* committed.                                                              *)
LEMMA Seen ==
  ASSUME NEW os \in SUBSET Object, NEW act, NEW ks, Good(os, act, ks), NEW cur, NEW o \in os
  PROVE  Visible(o, cur, act) <=>
           /\ o.tid \notin act \/ o.tid = cur
           /\ o.xid = 0 \/ (o.xid \in act /\ o.xid # cur /\ o.tid \notin act)
BY DEF Visible, Good, Versioned, ExpiredByOwner

(* A key has one version.                                                  *)
LEMMA SeesOne ==
  ASSUME NEW os \in SUBSET Object, NEW act, 0 \notin act, NEW ks, Good(os, act, ks), NEW cur,
         NEW o \in os, NEW p \in os, o.key = p.key, Visible(o, cur, act), Visible(p, cur, act)
  PROVE  o = p
BY DEF Visible, Good, Versioned, Replaces

LEMMA SeesOneDefinition ==
  ASSUME NEW os \in SUBSET Object, NEW act, 0 \notin act, NEW ks, Good(os, act, ks), NEW cur,
         NEW d \in os, NEW e \in os, IsDefinition(d), IsDefinition(e),
         Visible(d, cur, act), Visible(e, cur, act)
  PROVE  d = e
BY DEF Visible, Good, DefsApart

(* The creator of an index sees nothing of rows that isn't final.          *)
LEMMA CreatorSees ==
  ASSUME NEW os \in SUBSET Object, NEW act, 0 \notin act, NEW ks, Good(os, act, ks),
         NEW cur, NEW d \in os, IsDefinition(d), Visible(d, cur, act), d.tid \in act
  PROVE  /\ d.tid = cur /\ d.xid = 0
         /\ \A o \in os : ~ IsEntry(o) => (Visible(o, cur, act) <=> o.xid = 0)
<1>1. d.tid = cur /\ d.xid = 0
  BY Seen
<1>2. ASSUME NEW o \in os, ~ IsEntry(o)
      PROVE  Visible(o, cur, act) <=> o.xid = 0
  <2>1. (o.tid \in act => o.tid = cur) /\ (o.xid # 0 => o.xid = cur)
    BY <1>1, <1>2 DEF Good, NewDefsAlone, Alone
  <2> QED BY <2>1, Seen
<1> QED BY <1>1, <1>2

LEMMA SeesDistinct ==
  ASSUME NEW os \in SUBSET Object, NEW act, 0 \notin act, NEW ks, Good(os, act, ks), NEW cur,
         NEW d \in os, IsDefinition(d), d.key[2] \in Unique, Visible(d, cur, act),
         NEW o \in os, NEW p \in os, SameValue(o, p, ks),
         Visible(o, cur, act), Visible(p, cur, act)
  PROVE  FALSE
<1>1. o.tid # 0 /\ p.tid # 0 /\ ~ IsEntry(o) /\ ~ IsEntry(p)
  BY ObjectFields, Kinds DEF SameValue
<1>2. CASE d.tid \notin act
  <2>1. d.xid \notin {o.tid, p.tid}
    BY <1>1, Seen
  <2>2. Apart(o, p)
    BY <1>2, <2>1 DEF Good, Distinct
  <2> QED BY <2>2, Seen DEF Apart
<1>3. CASE d.tid \in act
  <2>1. d.xid = 0 /\ o.xid = 0 /\ p.xid = 0
    BY <1>1, <1>3, CreatorSees
  <2> QED BY <1>3, <2>1 DEF Good, Distinct
<1> QED BY <1>2, <1>3

(* An index that it sees has the entries of the rows that it sees.         *)
LEMMA SeesEntry ==
  ASSUME NEW os \in SUBSET Object, NEW act, 0 \notin act, NEW ks, Good(os, act, ks), NEW cur,
         NEW d \in os, NEW i \in IndexId, d.key = DefinitionKey(i), Visible(d, cur, act),
         NEW r \in os, NEW k \in ks, r.key = RowKey(k), Visible(r, cur, act)
  PROVE  \E e \in os : e.key = EntryKey(i, r.value, k) /\ Visible(e, cur, act)
<1>1. IsDefinition(d) /\ ~ IsEntry(r) /\ r.tid # 0 /\ r.value \in Value
  BY Kinds, ObjectFields
<1>2. CASE d.tid \notin act
  <2>1. Lasts(r, act, d.xid)
    BY <1>1, Seen DEF Lasts
  <2>2. OldIndex(os, act, i, d.xid, k)
    BY <1>2 DEF Good, Matching
  <2>3. PICK e \in os : e.key = EntryKey(i, r.value, k) /\ Twins(r, e, act, d.xid)
    BY <2>1, <2>2 DEF OldIndex, RowsHaveEntries
  <2>4. Visible(e, cur, act)
    BY <2>3, Seen DEF Twins, Visible
  <2> QED BY <2>3, <2>4
<1>3. CASE d.tid \in act
  <2>1. d.tid = cur /\ d.xid = 0 /\ r.xid = 0
    BY <1>1, <1>3, CreatorSees
  <2>2. NewIndex(os, i, cur, k)
    BY <1>3, <2>1 DEF Good, Matching
  <2>3. PICK e \in os : e.key = EntryKey(i, r.value, k) /\ e.xid = 0
    BY <2>1, <2>2 DEF NewIndex
  <2>4. e.tid = cur
    BY <1>1, <2>2, <2>3 DEF NewIndex
  <2> QED BY <2>3, <2>4 DEF Visible
<1> QED BY <1>2, <1>3

LEMMA SeesRow ==
  ASSUME NEW os \in SUBSET Object, NEW act, 0 \notin act, NEW ks, Good(os, act, ks), NEW cur,
         NEW d \in os, NEW i \in IndexId, d.key = DefinitionKey(i), Visible(d, cur, act),
         NEW e \in os, NEW v \in Value, NEW k \in ks, e.key = EntryKey(i, v, k),
         Visible(e, cur, act)
  PROVE  \E r \in os : r.key = RowKey(k) /\ r.value = v /\ Visible(r, cur, act)
<1>1. IsDefinition(d) /\ e.tid # 0
  BY Kinds, ObjectFields
<1>2. CASE d.tid \notin act
  <2>1. Lasts(e, act, d.xid)
    BY <1>1, Seen DEF Lasts
  <2>2. OldIndex(os, act, i, d.xid, k)
    BY <1>2 DEF Good, Matching
  <2>3. PICK r \in os : r.key = RowKey(k) /\ r.value = v /\ Twins(r, e, act, d.xid)
    BY <2>1, <2>2 DEF OldIndex, EntriesHaveRows
  <2>4. Visible(r, cur, act)
    BY <2>3, Seen DEF Twins, Visible
  <2> QED BY <2>3, <2>4
<1>3. CASE d.tid \in act
  <2>1. d.tid = cur /\ d.xid = 0
    BY <1>1, <1>3, CreatorSees
  <2>2. NewIndex(os, i, cur, k)
    BY <1>3, <2>1 DEF Good, Matching
  <2>3. e.tid = cur
    BY <2>2 DEF NewIndex
  <2>4. e.xid = 0
    BY <1>3, <2>1, <2>3, Seen
  <2>5. PICK r \in os : r.key = RowKey(k) /\ r.value = v /\ r.xid = 0
    BY <2>2, <2>4 DEF NewIndex
  <2>6. ~ IsEntry(r)
    BY <2>5, Kinds
  <2> QED BY <1>1, <1>3, <2>5, <2>6, CreatorSees
<1> QED BY <1>2, <1>3

-----------------------------------------------------------------------------
(* The properties. *)

LEMMA ViewsGood ==
  ASSUME ExactInv, IndexAssumption, ~ ahead
  PROVE  /\ objects \in SUBSET Object /\ 0 \notin active
         /\ Good(objects, active, Key \ damaged)
         /\ \A d \in objects : IsDefinition(d) => \E i \in IndexId : d.key = DefinitionKey(i)
<1>1. transaction_id \in Nat /\ objects \in SUBSET ObjectUpTo(transaction_id, index_id)
      /\ 0 \notin active
  BY DEF ExactInv, FreshInv, TypeOK, ObjectUpTo, FirstTid
<1>2. objects \in SUBSET Object
  BY <1>1, ObjectsAreObjects
<1> QED BY <1>1, <1>2, KindOf DEF ExactInv

LEMMA ExactOneIndex ==
  ASSUME ExactInv, IndexAssumption
  PROVE  OneIndex
<1> SUFFICES ASSUME ~ ahead, NEW cur \in Views
             PROVE  Cardinality(Definitions(objects, cur, active)) <= 1
  BY DEF OneIndex
<1> DEFINE S == Definitions(objects, cur, active)
<1>1. \A i, j \in S : i = j
  <2> SUFFICES ASSUME NEW d \in objects, NEW e \in objects, IsDefinition(d), IsDefinition(e),
                      Visible(d, cur, active), Visible(e, cur, active)
               PROVE  d = e
    BY DEF Definitions
  <2> QED BY ViewsGood, SeesOneDefinition
<1>2. CASE S = {}
  BY <1>2, FS_EmptySet
<1>3. CASE S # {}
  <2>1. PICK i : i \in S
    BY <1>3
  <2> HIDE DEF S
  <2>2. S = {i}
    BY <1>1, <2>1
  <2>3. Cardinality({i}) = 1
    BY FS_Singleton
  <2>4. Cardinality(S) <= 1
    BY <2>2, <2>3
  <2> QED BY <2>4 DEF S
<1> QED BY <1>2, <1>3

LEMMA ExactUnique ==
  ASSUME ExactInv, IndexAssumption
  PROVE  UniqueHolds
<1> SUFFICES ASSUME ~ ahead, NEW cur \in Views,
                    NEW i \in Definitions(objects, cur, active) \cap Unique,
                    NEW o \in VisibleRows(objects, cur, active),
                    NEW p \in VisibleRows(objects, cur, active),
                    o.value = p.value, {o.key[2], p.key[2]} \cap damaged = {}, o.key # p.key
             PROVE  FALSE
  BY DEF UniqueHolds
<1>1. PICK d \in objects : IsDefinition(d) /\ d.key[2] = i /\ Visible(d, cur, active)
  BY DEF Definitions
<1>2. /\ o \in objects /\ IsRow(o) /\ Visible(o, cur, active)
      /\ p \in objects /\ IsRow(p) /\ Visible(p, cur, active)
  BY DEF VisibleRows
<1>3. objects \in SUBSET Object
  BY ViewsGood
<1>4. PICK j \in Key, k \in Key : o.key = RowKey(j) /\ p.key = RowKey(k)
  BY <1>2, <1>3, KindOf
<1>5. j \in Key \ damaged /\ k \in Key \ damaged /\ j # k
  BY <1>4, RowKeys
<1>6. SameValue(o, p, Key \ damaged)
  BY <1>4, <1>5 DEF SameValue
<1> QED BY <1>1, <1>2, <1>6, ViewsGood, SeesDistinct

LEMMA ExactMatches ==
  ASSUME ExactInv, IndexAssumption, ~ ahead, NEW cur \in Views,
         NEW i \in Definitions(objects, cur, active)
  PROVE  IndexMatches(cur, i)
<1> DEFINE entries == {o \in objects : IsEntry(o) /\ o.key[2] = i /\ Visible(o, cur, active)}
           rows == VisibleRows(objects, cur, active)
           sound == Key \ damaged
<1>1. PICK d \in objects : IsDefinition(d) /\ d.key[2] = i /\ Visible(d, cur, active)
  BY DEF Definitions
<1>2. /\ objects \in SUBSET Object /\ 0 \notin active /\ Good(objects, active, sound)
      /\ i \in IndexId /\ d.key = DefinitionKey(i)
  <2>1. /\ objects \in SUBSET Object /\ 0 \notin active /\ Good(objects, active, sound)
        /\ \E j \in IndexId : d.key = DefinitionKey(j)
    BY <1>1, ViewsGood
  <2> QED BY <1>1, <2>1, DefinitionKeys
<1>3. \A v, k : EntryKey(i, v, k)[3] = v /\ EntryKey(i, v, k)[4] = k
  BY DEF EntryKey
<1>4. ASSUME NEW e \in entries
      PROVE  \E v \in Value, k \in Key : e.key = EntryKey(i, v, k)
  <2>1. PICK j \in IndexId, v \in Value, k \in Key : e.key = EntryKey(j, v, k)
    BY <1>2, KindOf
  <2> QED BY <2>1, EntryKeys
<1>5. ASSUME NEW r \in rows
      PROVE  \E k \in Key : r.key = RowKey(k) /\ r.key[2] = k
  BY <1>2, KindOf, RowKeys DEF VisibleRows
<1>6. ASSUME NEW e \in entries, e.key[4] \in sound
      PROVE  \E r \in rows : r.key[2] \in sound /\ r.value = e.key[3] /\ r.key[2] = e.key[4]
  <2>1. PICK v \in Value, k \in Key : e.key = EntryKey(i, v, k)
    BY <1>4
  <2>2. k \in sound /\ e.key[3] = v /\ e.key[4] = k
    BY <1>3, <1>6, <2>1
  <2>3. PICK r \in objects : r.key = RowKey(k) /\ r.value = v /\ Visible(r, cur, active)
    <3> HIDE DEF sound
    <3> QED BY <1>1, <1>2, <2>1, <2>2, SeesRow
  <2>4. r \in rows /\ r.key[2] = k
    BY <2>3, Kinds, RowKeys DEF VisibleRows
  <2> QED BY <2>2, <2>3, <2>4
<1>7. ASSUME NEW r \in rows, r.key[2] \in sound
      PROVE  \E e \in entries : e.key[4] \in sound /\ r.value = e.key[3] /\ r.key[2] = e.key[4]
  <2>1. PICK k \in Key : r.key = RowKey(k) /\ r.key[2] = k
    BY <1>5
  <2>2. r \in objects /\ Visible(r, cur, active) /\ k \in sound
    BY <1>7, <2>1 DEF VisibleRows
  <2>3. PICK e \in objects : e.key = EntryKey(i, r.value, k) /\ Visible(e, cur, active)
    <3> HIDE DEF sound
    <3> QED BY <1>1, <1>2, <2>1, <2>2, SeesEntry
  <2>4. e \in entries
    BY <2>3, Kinds
  <2> QED BY <1>3, <2>1, <2>2, <2>3, <2>4
<1>8. \A o, p \in entries : o.key = p.key /\ o.key[4] \in sound => o = p
  <2> HIDE DEF sound
  <2> QED BY <1>2, SeesOne
<1>9. {<<o.key[3], o.key[4]>> : o \in {e \in entries : e.key[4] \in sound}}
        = {<<o.value, o.key[2]>> : o \in {r \in rows : r.key[2] \in sound}}
  <2> HIDE DEF entries, rows, sound
  <2> QED BY <1>6, <1>7
<1> QED BY <1>8, <1>9 DEF IndexMatches

(* A table has one index of a name, in every view, whatever CREATE INDEX   *)
(* and DROP INDEX are not committed (create_index: 42P07, and the wait for *)
(* has_concurrent_changes).                                                *)
THEOREM IndexIsOne == Spec => []OneIndex
<1>1. ExactInv => OneIndex
  BY IndexAssumption, ExactOneIndex
<1> QED BY <1>1, ExactAlways, PTL

(* No transaction sees two rows with the values of a UNIQUE index          *)
(* (has_duplicate_entry, which also finds what others haven't committed).  *)
THEOREM UniqueAlways == Spec => []UniqueHolds
<1>1. ExactInv => UniqueHolds
  BY IndexAssumption, ExactUnique
<1> QED BY <1>1, ExactAlways, PTL

(* Every transaction finds exactly one entry for each row that it sees in  *)
(* every index that it sees (check_indexes, index.v:608), except for rows  *)
(* that a COMMIT lost, and until a statement fails after its recovery.     *)
THEOREM IndexExactAlways == Spec => []IndexIsExact
<1>1. ExactInv => IndexIsExact
  BY IndexAssumption, ExactMatches DEF IndexIsExact, EveryIndexMatches
<1> QED BY <1>1, ExactAlways, PTL

=============================================================================
