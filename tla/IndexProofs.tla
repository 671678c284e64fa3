----------------------------- MODULE IndexProofs ----------------------------
(***************************************************************************)
(* The types of Index, and that no connection works with definitions that  *)
(* aren't those of its view, for every set of connections, keys and values *)
(* and every bound. The argument: whoever changes the definitions that     *)
(* somebody may see also raises schema_version, and an ID that becomes     *)
(* active, or ends, without a change of the definitions is in none of      *)
(* them.                                                                   *)
(***************************************************************************)
EXTENDS Index, TLAPS

(* Objects whose transaction IDs are at most n, and index IDs at most i. *)
ObjectUpTo(n, i) ==
  {o \in [key : ObjectKey, tid : FirstTid .. n, xid : 0 .. n,
          value : Value \cup {Nothing}] :
     IF IsRow(o) THEN o.value \in Value ELSE o.key[2] <= i}

(* The definitions among some objects. *)
Defs(os) == {o \in os : IsDefinition(o)}

(* A definition has one version. *)
OneVersion(os) == \A o, p \in Defs(os) : o.key = p.key => o = p

-----------------------------------------------------------------------------
(* Keys. *)

LEMMA RowKeys == \A k : RowKey(k)[1] = "R" /\ RowKey(k)[2] = k
BY DEF RowKey

LEMMA DefinitionKeys == \A i : DefinitionKey(i)[1] = "N" /\ DefinitionKey(i)[2] = i
BY DEF DefinitionKey

LEMMA EntryKeys == \A i, v, k : EntryKey(i, v, k)[1] = "E" /\ EntryKey(i, v, k)[2] = i
BY DEF EntryKey

(* What kind of object a key makes, and where an object's key is from. *)
LEMMA KeyKinds ==
  ASSUME NEW key \in ObjectKey
  PROVE  /\ key[1] = "R" => \E k \in Key : key = RowKey(k)
         /\ key[1] = "N" => \E i \in 1 .. MaxIndex : key = DefinitionKey(i)
         /\ key[1] = "E" => \E i \in 1 .. MaxIndex, v \in Value, k \in Key : key = EntryKey(i, v, k)
         /\ key[1] # "R" => key[2] \in 1 .. MaxIndex
BY RowKeys, DefinitionKeys, EntryKeys DEF ObjectKey

-----------------------------------------------------------------------------
(* Types. *)

LEMMA PageDeleteSubset ==
  ASSUME NEW os, NEW S
  PROVE  PageDelete(os, S) \subseteq os
BY DEF PageDelete

LEMMA SetXidType ==
  ASSUME NEW n \in Nat, NEW i, NEW os \in SUBSET ObjectUpTo(n, i), NEW S, NEW x \in 0 .. n
  PROVE  SetXid(os, S, x) \in SUBSET ObjectUpTo(n, i)
BY DEF SetXid, ObjectUpTo, IsRow

LEMMA UndoType ==
  ASSUME NEW n \in Nat, NEW i, NEW os \in SUBSET ObjectUpTo(n, i), NEW tids
  PROVE  Undo(os, tids) \in SUBSET ObjectUpTo(n, i)
<1> DEFINE kept == PageDelete(os, {o \in os : o.tid \in tids})
<1>1. kept \in SUBSET ObjectUpTo(n, i)
  BY PageDeleteSubset
<1>2. SetXid(kept, {o \in kept : o.xid \in tids}, 0) \in SUBSET ObjectUpTo(n, i)
  <2> HIDE DEF kept
  <2> QED BY <1>1, SetXidType
<1> QED BY <1>2 DEF Undo

LEMMA PageUpdateType ==
  ASSUME NEW n \in Nat, NEW i, NEW os \in SUBSET ObjectUpTo(n, i), NEW k, NEW t \in 0 .. n
  PROVE  PageUpdate(os, k, t) \in SUBSET ObjectUpTo(n, i)
<1>1. SetXid(os, {o \in os : o.key = k}, t) \in SUBSET ObjectUpTo(n, i)
  BY SetXidType
<1>2. PageDelete(os, Own(os, k, t)) \in SUBSET ObjectUpTo(n, i)
  BY PageDeleteSubset
<1> QED BY <1>1, <1>2 DEF PageUpdate

LEMMA ObjectUpToMono ==
  ASSUME NEW n \in Nat, NEW m \in Nat, n <= m, NEW i \in Int, NEW j \in Int, i <= j,
         IndexAssumption
  PROVE  ObjectUpTo(n, i) \subseteq ObjectUpTo(m, j)
<1> SUFFICES ASSUME NEW o \in ObjectUpTo(n, i)
             PROVE  o \in ObjectUpTo(m, j)
  OBVIOUS
<1>1. o.key \in ObjectKey
  BY DEF ObjectUpTo
<1>2. ~ IsRow(o) => o.key[2] \in 1 .. MaxIndex
  BY <1>1, KeyKinds DEF IsRow
<1> QED BY <1>2 DEF ObjectUpTo, IndexAssumption

(* New rows and entries. *)
LEMMA NewRowType ==
  ASSUME NEW n \in Nat, NEW i, NEW k \in Key, NEW v \in Value, NEW t \in FirstTid .. n
  PROVE  /\ NewObject(RowKey(k), t, v) \in ObjectUpTo(n, i)
         /\ ~ IsDefinition(NewObject(RowKey(k), t, v))
<1>1. RowKey(k) \in ObjectKey
  BY DEF ObjectKey
<1> QED BY <1>1, RowKeys DEF ObjectUpTo, NewObject, IsRow, IsDefinition

LEMMA NewEntryType ==
  ASSUME NEW n \in Nat, NEW i \in 0 .. MaxIndex, NEW j \in 1 .. i, NEW k \in Key,
         NEW v \in Value, NEW t \in FirstTid .. n, IndexAssumption
  PROVE  /\ NewObject(EntryKey(j, v, k), t, Nothing) \in ObjectUpTo(n, i)
         /\ ~ IsDefinition(NewObject(EntryKey(j, v, k), t, Nothing))
<1>1. j \in 1 .. MaxIndex
  BY DEF IndexAssumption
<1>2. EntryKey(j, v, k) \in ObjectKey
  BY <1>1 DEF ObjectKey
<1> QED BY <1>2, EntryKeys DEF ObjectUpTo, NewObject, IsRow, IsDefinition, Nothing

-----------------------------------------------------------------------------
(* What the operations on rows and entries do to the definitions: nothing. *)

LEMMA DefsAdd ==
  ASSUME NEW os, NEW new, \A o \in new : ~ IsDefinition(o)
  PROVE  Defs(os \cup new) = Defs(os)
BY DEF Defs

LEMMA DefsPageDelete ==
  ASSUME NEW os, NEW S, \A e \in S : ~ IsDefinition(e)
  PROVE  Defs(PageDelete(os, S)) = Defs(os)
BY DEF Defs, PageDelete, IsDefinition

LEMMA DefsSetXid ==
  ASSUME NEW n, NEW i, NEW os \in SUBSET ObjectUpTo(n, i),
         NEW S, \A e \in S : ~ IsDefinition(e), NEW x
  PROVE  Defs(SetXid(os, S, x)) = Defs(os)
<1> DEFINE Changed(o) == \E e \in S : e.key = o.key /\ e.tid = o.tid
           After(o) == IF Changed(o) THEN [o EXCEPT !.xid = x] ELSE o
<1>1. SetXid(os, S, x) = {After(o) : o \in os}
  BY DEF SetXid
<1>2. \A o \in os : After(o).key = o.key
  BY DEF ObjectUpTo
<1>3. \A o \in os : IsDefinition(o) => After(o) = o
  BY DEF IsDefinition
<1> HIDE DEF After
<1> QED BY <1>1, <1>2, <1>3 DEF Defs, IsDefinition

LEMMA DefsPageUpdate ==
  ASSUME NEW n, NEW i, NEW os \in SUBSET ObjectUpTo(n, i), NEW k, NEW t
  PROVE  Defs(PageUpdate(os, RowKey(k), t)) = Defs(os)
<1>1. \A o \in os : o.key = RowKey(k) => ~ IsDefinition(o)
  BY RowKeys DEF IsDefinition
<1>2. Defs(SetXid(os, {o \in os : o.key = RowKey(k)}, t)) = Defs(os)
  BY <1>1, DefsSetXid
<1>3. Defs(PageDelete(os, Own(os, RowKey(k), t))) = Defs(os)
  BY <1>1, DefsPageDelete DEF Own
<1> QED BY <1>2, <1>3 DEF PageUpdate

(* Entries, as the statements of a connection make them. *)
LEMMA EntriesType ==
  ASSUME NEW c, NEW v, NEW k, NEW e \in Entries(c, v, k)
  PROVE  e[1] = "E"
BY EntryKeys DEF Entries

LEMMA AddEntriesKeeps ==
  ASSUME NEW n \in Nat, NEW i \in 0 .. MaxIndex, NEW os \in SUBSET ObjectUpTo(n, i),
         NEW c, Indexes(c) \subseteq 1 .. i, NEW v \in Value, NEW k \in Key,
         NEW t \in FirstTid .. n, IndexAssumption
  PROVE  /\ AddEntries(os, Entries(c, v, k), t) \in SUBSET ObjectUpTo(n, i)
         /\ Defs(AddEntries(os, Entries(c, v, k), t)) = Defs(os)
<1> DEFINE ks == Entries(c, v, k)
           replaced == {o \in os : o.key \in ks /\ o.tid = t}
           expired == {o \in os : o.key \in ks /\ UpdateExpires(os, o.key, t)}
           kept == PageDelete(os, replaced)
           new == {NewObject(e, t, Nothing) : e \in ks}
<1>1. \A o \in replaced \cup expired : ~ IsDefinition(o)
  BY EntriesType DEF IsDefinition
<1>2. kept \in SUBSET ObjectUpTo(n, i) /\ Defs(kept) = Defs(os)
  BY <1>1, PageDeleteSubset, DefsPageDelete
<1>3. t \in 0 .. n
  BY DEF FirstTid
<1>4. SetXid(kept, expired, t) \in SUBSET ObjectUpTo(n, i)
  <2> HIDE DEF kept, expired
  <2> QED BY <1>2, <1>3, SetXidType
<1>5. Defs(SetXid(kept, expired, t)) = Defs(os)
  <2> HIDE DEF kept, expired
  <2> QED BY <1>1, <1>2, DefsSetXid
<1>6. \A o \in new : o \in ObjectUpTo(n, i) /\ ~ IsDefinition(o)
  BY NewEntryType DEF Entries
<1>7. AddEntries(os, ks, t) = SetXid(kept, expired, t) \cup new
  BY DEF AddEntries
<1> HIDE DEF kept, expired, new, ks
<1>8. AddEntries(os, ks, t) \in SUBSET ObjectUpTo(n, i)
  BY <1>4, <1>6, <1>7
<1>9. Defs(AddEntries(os, ks, t)) = Defs(os)
  BY <1>5, <1>6, <1>7, DefsAdd
<1> QED BY <1>8, <1>9 DEF ks

LEMMA ExpireEntriesKeeps ==
  ASSUME NEW n \in Nat, NEW i, NEW os \in SUBSET ObjectUpTo(n, i),
         NEW c, NEW v, NEW k, NEW t \in 0 .. n, NEW act
  PROVE  /\ ExpireEntries(os, Entries(c, v, k), t, act) \in SUBSET ObjectUpTo(n, i)
         /\ Defs(ExpireEntries(os, Entries(c, v, k), t, act)) = Defs(os)
<1> DEFINE S == Visibles(os, Entries(c, v, k), t, act)
<1>1. \A o \in S : ~ IsDefinition(o)
  BY EntriesType DEF IsDefinition, Visibles
<1> HIDE DEF S
<1>2. SetXid(os, S, t) \in SUBSET ObjectUpTo(n, i) /\ Defs(SetXid(os, S, t)) = Defs(os)
  BY <1>1, SetXidType, DefsSetXid
<1> QED BY <1>2 DEF ExpireEntries, S

-----------------------------------------------------------------------------
(* Definitions and who sees them. *)

(* Only the definitions matter, and only the IDs that are in one.          *)
LEMMA DefinitionsSame ==
  ASSUME NEW os, NEW ps, NEW cur, NEW now, NEW act, NEW after,
         Defs(os) = Defs(ps),
         \A o \in Defs(os) : Visible(o, cur, act) <=> Visible(o, now, after)
  PROVE  Definitions(os, cur, act) = Definitions(ps, now, after)
<1>1. Definitions(os, cur, act) = {o.key[2] : o \in {p \in Defs(os) : Visible(p, cur, act)}}
  BY DEF Definitions, Defs
<1>2. Definitions(ps, now, after) = {o.key[2] : o \in {p \in Defs(ps) : Visible(p, now, after)}}
  BY DEF Definitions, Defs
<1>3. {p \in Defs(os) : Visible(p, cur, act)} = {p \in Defs(ps) : Visible(p, now, after)}
  OBVIOUS
<1> QED BY <1>1, <1>2, <1>3

LEMMA DefinitionsType ==
  ASSUME IndexAssumption, NEW n, NEW i \in 0 .. MaxIndex, NEW os \in SUBSET ObjectUpTo(n, i),
         NEW cur, NEW act
  PROVE  Definitions(os, cur, act) \subseteq 1 .. i
<1> SUFFICES ASSUME NEW o \in os, IsDefinition(o)
             PROVE  o.key[2] \in 1 .. i
  BY DEF Definitions
<1>1. o.key \in ObjectKey /\ ~ IsRow(o) /\ o.key[2] <= i
  BY DEF ObjectUpTo, IsRow, IsDefinition
<1>2. o.key[2] \in 1 .. MaxIndex
  BY <1>1, KeyKinds DEF IsRow
<1> QED BY <1>1, <1>2 DEF IndexAssumption

(* Recovery and load_schema: what a statement that writes starts from. *)
LEMMA OpenedType ==
  ASSUME TypeOK, IndexAssumption, NEW c \in Conn
  PROVE  /\ Opened(c) \in SUBSET ObjectUpTo(transaction_id, index_id)
         /\ Live(c) \subseteq FirstTid + 1 .. transaction_id
         /\ VersionIn(c) \in Nat \ {0}
         /\ Remembered(c) \in [version : Nat, indexes : SUBSET (1 .. index_id)]
         /\ Remembered(c).version = VersionIn(c)
         /\ TidOf(c) \in FirstTid + 1 .. transaction_id + 1
<1>1. objects \in SUBSET ObjectUpTo(transaction_id, index_id)
  BY DEF TypeOK, ObjectUpTo
<1>2. Opened(c) \in SUBSET ObjectUpTo(transaction_id, index_id)
  BY <1>1, UndoType DEF Opened, TypeOK
<1>3. VersionIn(c) \in Nat \ {0}
  BY DEF VersionIn, TypeOK
<1>4. Definitions(Opened(c), txn[c], Live(c)) \subseteq 1 .. index_id
  BY <1>2, DefinitionsType DEF TypeOK
<1>5. /\ Remembered(c) \in [version : Nat, indexes : SUBSET (1 .. index_id)]
      /\ Remembered(c).version = VersionIn(c)
  BY <1>3, <1>4 DEF Remembered, Loaded, TypeOK
<1>6. TidOf(c) \in FirstTid + 1 .. transaction_id + 1
  BY DEF TidOf, TypeOK, FirstTid
<1>7. Live(c) \subseteq FirstTid + 1 .. transaction_id
  BY DEF Live, TypeOK
<1> QED BY <1>2, <1>3, <1>5, <1>6, <1>7

(* The last ID once a statement has taken its own. *)
LastTid(c) == IF txn[c] # 0 THEN transaction_id ELSE transaction_id + 1

LEMMA EndStatementType ==
  ASSUME TypeOK, IndexAssumption, NEW c \in Conn, NEW i \in index_id .. MaxIndex,
         NEW os \in SUBSET ObjectUpTo(LastTid(c), i),
         NEW new \in [version : Nat \ {0}, indexes : SUBSET (1 .. i)],
         EndStatement(c, os, new), index_id' = i, waiting' \in [Conn -> 0 .. Timeout]
  PROVE  TypeOK'
<1>1. transaction_id' = LastTid(c) /\ transaction_id' \in Nat /\ transaction_id <= transaction_id'
  BY DEF EndStatement, LastTid, TidOf, TypeOK
<1>2. objects' \in SUBSET ObjectUpTo(transaction_id', index_id')
  BY <1>1, PageDeleteSubset DEF EndStatement, RemoveExpired
<1>3. active' \subseteq FirstTid + 1 .. transaction_id'
  BY <1>1, OpenedType DEF EndStatement, FirstTid, TypeOK
<1>4. cache' \in [Conn -> [version : Nat, indexes : SUBSET (1 .. index_id')]]
  BY DEF EndStatement, TypeOK
<1>5. txn' \in [Conn -> {0} \cup FirstTid + 1 .. transaction_id']
  BY <1>1 DEF EndStatement, TypeOK, FirstTid
<1>6. /\ schema_version' \in Nat \ {0}
      /\ index_id' \in 0 .. MaxIndex
      /\ session' \subseteq Conn /\ damaged' \subseteq Key /\ ahead' \in BOOLEAN
  BY DEF EndStatement, TypeOK, IndexAssumption
<1>7. FirstTid <= transaction_id'
  BY <1>1 DEF TypeOK, FirstTid
<1> QED BY <1>1, <1>2, <1>3, <1>4, <1>5, <1>6, <1>7 DEF TypeOK, ObjectUpTo

(* A statement that ends and has changed no definition: the same as above, *)
(* from what load_schema gave.                                             *)
LEMMA WriteType ==
  ASSUME TypeOK, IndexAssumption, NEW c \in Conn,
         NEW os \in SUBSET ObjectUpTo(LastTid(c), index_id),
         EndStatement(c, os, Remembered(c)), UNCHANGED <<index_id, waiting>>
  PROVE  TypeOK'
<1>1. Remembered(c) \in [version : Nat \ {0}, indexes : SUBSET (1 .. index_id)]
  BY OpenedType
<1>2. index_id \in index_id .. MaxIndex /\ waiting' \in [Conn -> 0 .. Timeout]
  BY DEF TypeOK, IndexAssumption
<1> QED BY <1>1, <1>2, EndStatementType

LEMMA DiscardType ==
  ASSUME TypeOK, IndexAssumption, NEW c \in Conn, Discard(c), waiting' \in [Conn -> 0 .. Timeout]
  PROVE  TypeOK'
<1>1. Remembered(c) \in [version : Nat, indexes : SUBSET (1 .. index_id)]
  BY OpenedType
<1> QED BY <1>1 DEF Discard, header, TypeOK

-----------------------------------------------------------------------------
(* INSERT, UPDATE and DELETE write rows and entries, never a definition. *)
WritesRows(c) ==
  /\ \E os \in SUBSET ObjectUpTo(LastTid(c), index_id) :
       Defs(os) = Defs(Opened(c)) /\ EndStatement(c, os, Remembered(c))
  /\ UNCHANGED <<index_id, waiting>>

(* What they start from. *)
LEMMA WriteStart ==
  ASSUME TypeOK, IndexAssumption, NEW c \in Conn
  PROVE  /\ LastTid(c) \in Nat /\ transaction_id <= LastTid(c)
         /\ index_id \in 0 .. MaxIndex
         /\ Opened(c) \in SUBSET ObjectUpTo(LastTid(c), index_id)
         /\ TidOf(c) \in FirstTid .. LastTid(c) /\ TidOf(c) \in 0 .. LastTid(c)
         /\ Indexes(c) \subseteq 1 .. index_id
<1>1. LastTid(c) \in Nat /\ transaction_id <= LastTid(c) /\ index_id \in 0 .. MaxIndex
  BY DEF LastTid, TypeOK
<1>2. ObjectUpTo(transaction_id, index_id) \subseteq ObjectUpTo(LastTid(c), index_id)
  BY <1>1, ObjectUpToMono DEF TypeOK
<1>3. Opened(c) \in SUBSET ObjectUpTo(LastTid(c), index_id)
  BY <1>2, OpenedType
<1>4. TidOf(c) \in FirstTid .. LastTid(c) /\ TidOf(c) \in 0 .. LastTid(c)
  BY DEF TidOf, LastTid, TypeOK, FirstTid
<1>5. Indexes(c) \subseteq 1 .. index_id
  BY OpenedType DEF Indexes
<1> QED BY <1>1, <1>3, <1>4, <1>5

LEMMA InsertWritesRows ==
  ASSUME TypeOK, IndexAssumption, NEW c \in Conn, NEW k \in Key, NEW v \in Value,
         Insert(c, k, v)
  PROVE  WritesRows(c)
<1> DEFINE n == LastTid(c)
           t == TidOf(c)
           new == {NewObject(RowKey(k), t, v)}
           added == Opened(c) \cup new
           written == AddEntries(added, Entries(c, v, k), t)
<1>1. EndStatement(c, written, Remembered(c)) /\ UNCHANGED <<index_id, waiting>>
  BY DEF Insert
<1>2. new \in SUBSET ObjectUpTo(n, index_id) /\ \A o \in new : ~ IsDefinition(o)
  BY WriteStart, NewRowType
<1>3. added \in SUBSET ObjectUpTo(n, index_id) /\ Defs(added) = Defs(Opened(c))
  <2> HIDE DEF new, n
  <2> QED BY <1>2, WriteStart, DefsAdd DEF n
<1>4. written \in SUBSET ObjectUpTo(n, index_id) /\ Defs(written) = Defs(Opened(c))
  <2> HIDE DEF added
  <2> QED BY <1>3, WriteStart, AddEntriesKeeps
<1> QED BY <1>1, <1>4 DEF WritesRows

LEMMA UpdateWritesRows ==
  ASSUME TypeOK, IndexAssumption, NEW c \in Conn, NEW k \in Key, NEW v \in Value,
         Update(c, k, v)
  PROVE  WritesRows(c)
<1> DEFINE n == LastTid(c)
           t == TidOf(c)
           act == ActiveIn(c)
           row == RowKey(k)
           new == {NewObject(row, t, v)}
           page == PageUpdate(Opened(c), row, t)
           updated == page \cup new
           Removed(old) == ExpireEntries(updated, Entries(c, old.value, k), t, act)
           Written(old) == AddEntries(Removed(old), Entries(c, v, k), t)
<1>1. UNCHANGED <<index_id, waiting>>
  BY DEF Update
<1>2. PICK old \in Rows(Opened(c), row, t, act) : EndStatement(c, Written(old), Remembered(c))
  BY DEF Update
<1>3. page \in SUBSET ObjectUpTo(n, index_id) /\ Defs(page) = Defs(Opened(c))
  BY WriteStart, PageUpdateType, DefsPageUpdate
<1>4. new \in SUBSET ObjectUpTo(n, index_id) /\ \A o \in new : ~ IsDefinition(o)
  BY WriteStart, NewRowType
<1>5. updated \in SUBSET ObjectUpTo(n, index_id) /\ Defs(updated) = Defs(Opened(c))
  <2> HIDE DEF page, new
  <2> QED BY <1>3, <1>4, DefsAdd
<1>6. Removed(old) \in SUBSET ObjectUpTo(n, index_id) /\ Defs(Removed(old)) = Defs(Opened(c))
  <2> HIDE DEF updated
  <2> QED BY <1>5, WriteStart, ExpireEntriesKeeps
<1>7. Written(old) \in SUBSET ObjectUpTo(n, index_id) /\ Defs(Written(old)) = Defs(Opened(c))
  <2> HIDE DEF Removed
  <2> QED BY <1>6, WriteStart, AddEntriesKeeps
<1> QED BY <1>1, <1>2, <1>7 DEF WritesRows

LEMMA DeleteWritesRows ==
  ASSUME TypeOK, IndexAssumption, NEW c \in Conn, NEW k \in Key, Delete(c, k)
  PROVE  WritesRows(c)
<1> DEFINE n == LastTid(c)
           t == TidOf(c)
           act == ActiveIn(c)
           Expired(old) == SetXid(Opened(c), {old}, t)
           Written(old) == ExpireEntries(Expired(old), Entries(c, old.value, k), t, act)
<1>1. UNCHANGED <<index_id, waiting>>
  BY DEF Delete
<1>2. PICK old \in Rows(Opened(c), RowKey(k), t, act) :
        EndStatement(c, Written(old), Remembered(c))
  BY DEF Delete
<1>3. ~ IsDefinition(old)
  BY RowKeys DEF Rows, IsDefinition
<1>4. Expired(old) \in SUBSET ObjectUpTo(n, index_id) /\ Defs(Expired(old)) = Defs(Opened(c))
  BY <1>3, WriteStart, SetXidType, DefsSetXid
<1>5. Written(old) \in SUBSET ObjectUpTo(n, index_id) /\ Defs(Written(old)) = Defs(Opened(c))
  <2> HIDE DEF Expired
  <2> QED BY <1>4, WriteStart, ExpireEntriesKeeps
<1> QED BY <1>1, <1>2, <1>5 DEF WritesRows

-----------------------------------------------------------------------------
(* CREATE INDEX and DROP INDEX. *)

LEMMA BuildType ==
  ASSUME TypeOK, IndexAssumption, NEW c \in Conn, Build(c)
  PROVE  TypeOK'
<1> DEFINE n == LastTid(c)
           t == TidOf(c)
           i == index_id + 1
           rows == VisibleRows(Opened(c), t, ActiveIn(c))
           definition == {NewObject(DefinitionKey(i), t, Nothing)}
           entries == {NewObject(EntryKey(i, o.value, o.key[2]), t, Nothing) : o \in rows}
           built == Opened(c) \cup definition \cup entries
           new == [version |-> VersionIn(c) + 1, indexes |-> Indexes(c) \cup {i}]
<1>1. EndStatement(c, built, new) /\ index_id' = i /\ i <= MaxIndex
      /\ waiting' = [waiting EXCEPT ![c] = 0]
  BY DEF Build
<1>2. i \in 1 .. MaxIndex /\ i \in index_id .. MaxIndex /\ index_id <= i
      /\ index_id \in Int /\ i \in Int
  BY <1>1 DEF TypeOK, IndexAssumption
<1>3. Opened(c) \in SUBSET ObjectUpTo(n, i)
  BY <1>2, WriteStart, ObjectUpToMono
<1>4. definition \in SUBSET ObjectUpTo(n, i)
  <2>1. DefinitionKey(i) \in ObjectKey
    BY <1>2 DEF ObjectKey
  <2>2. t \in FirstTid .. n
    BY WriteStart
  <2> QED BY <1>2, <2>1, <2>2, WriteStart, DefinitionKeys DEF ObjectUpTo, NewObject, IsRow, Nothing
<1>5. entries \in SUBSET ObjectUpTo(n, i)
  <2>1. SUFFICES ASSUME NEW o \in rows
                 PROVE  NewObject(EntryKey(i, o.value, o.key[2]), t, Nothing) \in ObjectUpTo(n, i)
    OBVIOUS
  <2>2. o \in Opened(c) /\ IsRow(o)
    BY DEF VisibleRows
  <2>3. o.key \in ObjectKey /\ o.value \in Value
    BY <1>3, <2>2 DEF ObjectUpTo
  <2>4. o.key[2] \in Key
    BY <2>2, <2>3, KeyKinds, RowKeys DEF IsRow
  <2>5. i \in 1 .. i /\ i \in 0 .. MaxIndex
    BY <1>2
  <2> QED BY <2>3, <2>4, <2>5, WriteStart, NewEntryType
<1>6. new \in [version : Nat \ {0}, indexes : SUBSET (1 .. i)]
  BY <1>2, OpenedType, WriteStart
<1>7. waiting' \in [Conn -> 0 .. Timeout]
  BY <1>1 DEF TypeOK, IndexAssumption
<1>8. built \in SUBSET ObjectUpTo(n, i)
  BY <1>3, <1>4, <1>5
<1> QED
  <2> HIDE DEF built, new
  <2> QED BY <1>1, <1>2, <1>6, <1>7, <1>8, EndStatementType

LEMMA DropIndexType ==
  ASSUME TypeOK, IndexAssumption, NEW c \in Conn, DropIndex(c)
  PROVE  TypeOK'
<1>1. PICK S : EndStatement(c, SetXid(Opened(c), S, TidOf(c)),
                            [version |-> VersionIn(c) + 1, indexes |-> {}])
               /\ UNCHANGED <<index_id, waiting>>
  BY DEF DropIndex
<1>2. SetXid(Opened(c), S, TidOf(c)) \in SUBSET ObjectUpTo(LastTid(c), index_id)
  BY WriteStart, SetXidType
<1>3. [version |-> VersionIn(c) + 1, indexes |-> {}]
        \in [version : Nat \ {0}, indexes : SUBSET (1 .. index_id)]
  BY OpenedType
<1>4. index_id \in index_id .. MaxIndex /\ waiting' \in [Conn -> 0 .. Timeout]
  BY <1>1 DEF TypeOK, IndexAssumption
<1> QED BY <1>1, <1>2, <1>3, <1>4, EndStatementType

(* Each time that CREATE INDEX has the lock. *)
LEMMA AttemptType ==
  ASSUME TypeOK, IndexAssumption, NEW c \in Conn, Attempt(c)
  PROVE  TypeOK'
<1>1. CASE Build(c)
  BY <1>1, BuildType
<1>2. CASE Wait(c)
  <2>1. waiting' \in [Conn -> 0 .. Timeout]
    BY <1>2 DEF Wait, NextAttempt, TypeOK, IndexAssumption
  <2> QED BY <1>2, <2>1, DiscardType DEF Wait
<1>3. CASE Refuse(c)
  <2>1. waiting' \in [Conn -> 0 .. Timeout]
    BY <1>3 DEF Refuse, TypeOK, IndexAssumption
  <2> QED BY <1>3, <2>1, DiscardType DEF Refuse
<1> QED BY <1>1, <1>2, <1>3 DEF Attempt

-----------------------------------------------------------------------------
(* Transactions. *)

LEMMA StartTransactionType ==
  ASSUME TypeOK, IndexAssumption, NEW c \in Conn, StartTransaction(c)
  PROVE  TypeOK'
<1>1. TidOf(c) = transaction_id + 1 /\ transaction_id' = transaction_id + 1
  BY DEF StartTransaction, TidOf
<1>2. objects' \in SUBSET ObjectUpTo(transaction_id', index_id')
  <2>1. transaction_id \in Nat /\ index_id \in Int /\ index_id <= index_id
    BY DEF TypeOK
  <2>2. transaction_id + 1 \in Nat /\ transaction_id <= transaction_id + 1
    BY <2>1
  <2>3. ObjectUpTo(transaction_id, index_id) \subseteq ObjectUpTo(transaction_id + 1, index_id)
    BY <2>1, <2>2, ObjectUpToMono
  <2>4. Opened(c) \in SUBSET ObjectUpTo(transaction_id + 1, index_id)
    BY <2>3, OpenedType
  <2>5. objects' = Opened(c) /\ index_id' = index_id
    BY DEF StartTransaction
  <2> QED BY <1>1, <2>4, <2>5
<1>3. active' \subseteq FirstTid + 1 .. transaction_id'
  <2>1. Live(c) \subseteq FirstTid + 1 .. transaction_id /\ TidOf(c) \in FirstTid + 1 .. transaction_id + 1
    BY OpenedType
  <2>2. active' = Live(c) \cup {TidOf(c)}
    BY DEF StartTransaction, ActiveIn
  <2> QED BY <1>1, <2>1, <2>2 DEF TypeOK, FirstTid
<1>4. cache' \in [Conn -> [version : Nat, indexes : SUBSET (1 .. index_id')]]
  <2>1. Remembered(c) \in [version : Nat, indexes : SUBSET (1 .. index_id)]
    BY OpenedType
  <2> QED BY <2>1 DEF StartTransaction, TypeOK
<1>5. txn' \in [Conn -> {0} \cup FirstTid + 1 .. transaction_id']
  BY <1>1 DEF StartTransaction, TypeOK, FirstTid
<1>6. schema_version' \in Nat \ {0}
  BY OpenedType DEF StartTransaction
<1> QED BY <1>1, <1>2, <1>3, <1>4, <1>5, <1>6 DEF StartTransaction, TypeOK, ObjectUpTo, FirstTid

LEMMA EndTransactionType ==
  ASSUME TypeOK, IndexAssumption, NEW c \in Conn,
         NEW os \in SUBSET ObjectUpTo(transaction_id, index_id),
         NEW indexes \in SUBSET (1 .. index_id),
         EndTransaction(c, os, indexes), damaged' \subseteq Key
  PROVE  TypeOK'
<1>1. VersionAfter(c) \in Nat \ {0}
  BY OpenedType DEF VersionAfter
<1>2. cache' \in [Conn -> [version : Nat, indexes : SUBSET (1 .. index_id')]]
  BY <1>1 DEF EndTransaction, TypeOK
<1>3. active' \subseteq FirstTid + 1 .. transaction_id'
  BY OpenedType DEF EndTransaction
<1>4. txn' \in [Conn -> {0} \cup FirstTid + 1 .. transaction_id']
  BY DEF EndTransaction, TypeOK
<1> QED BY <1>1, <1>2, <1>3, <1>4 DEF EndTransaction, TypeOK, ObjectUpTo

LEMMA CommitType ==
  ASSUME TypeOK, IndexAssumption, NEW c \in Conn, Commit(c)
  PROVE  TypeOK'
<1> DEFINE os == RemoveExpired(Opened(c), txn[c])
<1>1. os \in SUBSET ObjectUpTo(transaction_id, index_id)
  BY OpenedType, PageDeleteSubset DEF RemoveExpired
<1>2. Indexes(c) \in SUBSET (1 .. index_id)
  BY WriteStart
<1>3. EndTransaction(c, os, Indexes(c)) /\ damaged' \subseteq Key
  BY DEF Commit, Lost, TypeOK
<1> HIDE DEF os
<1> QED BY <1>1, <1>2, <1>3, EndTransactionType

LEMMA RollbackType ==
  ASSUME TypeOK, IndexAssumption, NEW c \in Conn, Rollback(c)
  PROVE  TypeOK'
<1> DEFINE os == Undo(Opened(c), {txn[c]})
           ix == IF ChangedSchema(c) THEN Definitions(os, 0, Live(c) \ {txn[c]}) ELSE Indexes(c)
<1>1. os \in SUBSET ObjectUpTo(transaction_id, index_id)
  <2>1. transaction_id \in Nat
    BY DEF TypeOK
  <2> QED BY <2>1, OpenedType, UndoType
<1>2. Definitions(os, 0, Live(c) \ {txn[c]}) \subseteq 1 .. index_id
  <2> HIDE DEF os
  <2>1. index_id \in 0 .. MaxIndex
    BY DEF TypeOK
  <2> QED BY <1>1, <2>1, DefinitionsType
<1>3. ix \in SUBSET (1 .. index_id)
  BY <1>2, WriteStart
<1>4. EndTransaction(c, os, ix) /\ damaged' \subseteq Key
  BY DEF Rollback, TypeOK
<1> HIDE DEF os, ix
<1> QED BY <1>1, <1>3, <1>4, EndTransactionType

LEMMA ReadType ==
  ASSUME TypeOK, IndexAssumption, NEW c \in Conn, Read(c)
  PROVE  TypeOK'
<1>1. objects \in SUBSET ObjectUpTo(transaction_id, index_id)
  BY DEF TypeOK, ObjectUpTo
<1>2. Definitions(objects, txn[c], active) \subseteq 1 .. index_id
  BY <1>1, DefinitionsType DEF TypeOK
<1>3. Loaded(c, objects, active, schema_version)
        \in [version : Nat, indexes : SUBSET (1 .. index_id)]
  BY <1>2 DEF Loaded, TypeOK
<1> QED BY <1>3 DEF Read, header, TypeOK

LEMMA InitType ==
  ASSUME IndexAssumption, Init
  PROVE  TypeOK
<1>1. PICK f \in Initial :
        objects =
          {NewObject(RowKey(k), FirstTid, f[k]) : k \in DOMAIN f}
            \cup {NewObject(DefinitionKey(i), FirstTid, Nothing) : i \in 1 .. index_id}
            \cup {NewObject(EntryKey(i, f[k], k), FirstTid, Nothing) :
                     i \in 1 .. index_id, k \in DOMAIN f}
  BY DEF Init
<1>2. index_id \in 0 .. MaxIndex
  BY DEF Init, IndexAssumption
<1>3. DOMAIN f \subseteq Key /\ f \in [DOMAIN f -> Value]
  BY DEF IndexAssumption
<1>4. FirstTid \in Nat /\ FirstTid \in FirstTid .. FirstTid
  BY DEF FirstTid
<1>5. objects \in SUBSET ObjectUpTo(FirstTid, index_id)
  <2>1. \A k \in DOMAIN f : NewObject(RowKey(k), FirstTid, f[k]) \in ObjectUpTo(FirstTid, index_id)
    BY <1>3, <1>4, NewRowType
  <2>2. \A i \in 1 .. index_id :
          NewObject(DefinitionKey(i), FirstTid, Nothing) \in ObjectUpTo(FirstTid, index_id)
    <3> TAKE i \in 1 .. index_id
    <3>1. i \in 1 .. MaxIndex /\ i <= index_id
      BY <1>2 DEF IndexAssumption
    <3>2. DefinitionKey(i) \in ObjectKey
      BY <3>1 DEF ObjectKey
    <3> QED BY <1>4, <3>1, <3>2, DefinitionKeys DEF ObjectUpTo, NewObject, IsRow, Nothing
  <2>3. \A i \in 1 .. index_id, k \in DOMAIN f :
          NewObject(EntryKey(i, f[k], k), FirstTid, Nothing) \in ObjectUpTo(FirstTid, index_id)
    BY <1>2, <1>3, <1>4, NewEntryType
  <2> QED BY <1>1, <2>1, <2>2, <2>3
<1>6. /\ transaction_id = FirstTid /\ active = {} /\ schema_version = 1
      /\ session = {} /\ damaged = {} /\ ahead = FALSE
  BY DEF Init
<1>7. waiting \in [Conn -> 0 .. Timeout] /\ txn \in [Conn -> {0}]
  BY DEF Init, IndexAssumption
<1>8. cache \in [Conn -> [version : Nat, indexes : SUBSET (1 .. index_id)]]
  BY DEF Init, NoSchema
<1>9. txn \in [Conn -> {0} \cup FirstTid + 1 .. transaction_id]
  BY <1>7
<1>10. objects \in SUBSET ObjectUpTo(transaction_id, index_id)
  BY <1>5, <1>6
<1>11. transaction_id \in Nat /\ FirstTid <= transaction_id
  BY <1>4, <1>6
<1>12. /\ objects \subseteq [key : ObjectKey, tid : FirstTid .. transaction_id,
                              xid : 0 .. transaction_id, value : Value \cup {Nothing}]
       /\ \A o \in objects : IF IsRow(o) THEN o.value \in Value ELSE o.key[2] <= index_id
  BY <1>10 DEF ObjectUpTo
<1>13. /\ active \subseteq FirstTid + 1 .. transaction_id /\ schema_version \in Nat \ {0}
       /\ session \subseteq Conn /\ damaged \subseteq Key
  <2>1. active \subseteq FirstTid + 1 .. transaction_id /\ schema_version \in Nat \ {0}
    BY <1>6
  <2>2. session \subseteq Conn /\ damaged \subseteq Key
    BY <1>6
  <2> QED BY <2>1, <2>2
<1>14. ahead \in BOOLEAN
  BY <1>6, Zenon
<1> QED BY <1>2, <1>7, <1>8, <1>9, <1>11, <1>12, <1>13, <1>14 DEF TypeOK

LEMMA NextType ==
  ASSUME TypeOK, IndexAssumption, [Next]_vars
  PROVE  TypeOK'
<1>1. CASE UNCHANGED vars
  BY <1>1 DEF vars, header, TypeOK
<1>2. CASE Next
  <2> SUFFICES ASSUME NEW c \in Conn,
                      \/ \E k \in Key, v \in Value : Insert(c, k, v)
                      \/ \E k \in Key, v \in Value : Update(c, k, v)
                      \/ \E k \in Key : Delete(c, k)
                      \/ CreateIndex(c) \/ TryAgain(c) \/ DropIndex(c)
                      \/ StartTransaction(c) \/ Commit(c) \/ Rollback(c)
                      \/ Fail(c) \/ Read(c) \/ Open(c) \/ Close(c)
               PROVE  TypeOK'
    BY <1>2 DEF Next
  <2>1. CASE WritesRows(c)
    BY <2>1, WriteType DEF WritesRows
  <2>2. CASE \E k \in Key, v \in Value : Insert(c, k, v)
    BY <2>1, <2>2, InsertWritesRows
  <2>3. CASE \E k \in Key, v \in Value : Update(c, k, v)
    BY <2>1, <2>3, UpdateWritesRows
  <2>4. CASE \E k \in Key : Delete(c, k)
    BY <2>1, <2>4, DeleteWritesRows
  <2>5. CASE CreateIndex(c) \/ TryAgain(c)
    BY <2>5, AttemptType DEF CreateIndex, TryAgain
  <2>6. CASE DropIndex(c)
    BY <2>6, DropIndexType
  <2>7. CASE StartTransaction(c)
    BY <2>7, StartTransactionType
  <2>8. CASE Commit(c)
    BY <2>8, CommitType
  <2>9. CASE Rollback(c)
    BY <2>9, RollbackType
  <2>10. CASE Fail(c)
    <3>1. Discard(c) /\ waiting' \in [Conn -> 0 .. Timeout]
      BY <2>10 DEF Fail, TypeOK
    <3> QED BY <3>1, DiscardType
  <2>11. CASE Read(c)
    BY <2>11, ReadType
  <2>12. CASE Open(c)
    BY <2>12 DEF Open, header, TypeOK
  <2>13. CASE Close(c)
    <3>1. txn' \in [Conn -> {0} \cup FirstTid + 1 .. transaction_id']
      BY <2>13 DEF Close, header, TypeOK
    <3>2. cache' \in [Conn -> [version : Nat, indexes : SUBSET (1 .. index_id')]]
      BY <2>13 DEF Close, header, NoSchema, TypeOK
    <3>3. waiting' \in [Conn -> 0 .. Timeout]
      BY <2>13 DEF Close, TypeOK, IndexAssumption
    <3> QED BY <2>13, <3>1, <3>2, <3>3 DEF Close, header, TypeOK
  <2> QED BY <2>2, <2>3, <2>4, <2>5, <2>6, <2>7, <2>8, <2>9, <2>10, <2>11, <2>12, <2>13
<1> QED BY <1>1, <1>2

(* Every variable keeps its type, and no object or definition that a       *)
(* connection remembers has an ID that the header hasn't issued (header.v, *)
(* index.v).                                                               *)
THEOREM TypeCorrect == Spec => []TypeOK
<1>1. Init => TypeOK
  BY IndexAssumption, InitType
<1>2. TypeOK /\ [Next]_vars => TypeOK'
  BY IndexAssumption, NextType
<1> QED BY <1>1, <1>2, PTL DEF Spec

-----------------------------------------------------------------------------
(* What connections remember. *)

(* The inductive invariant: a definition has one version, a connection     *)
(* that isn't open remembers nothing and waits for nothing, and nobody     *)
(* remembers a version that the header doesn't have yet.                   *)
NothingKept == \A c \in Conn \ session : cache[c] = NoSchema /\ waiting[c] = 0

NotAhead == ~ ahead => \A c \in Conn : cache[c].version <= schema_version

FreshInv == TypeOK /\ OneVersion(objects) /\ NothingKept /\ NotAhead /\ CacheIsFresh

(* One version of each definition remains one. *)
LEMMA OneVersionSubset ==
  ASSUME NEW os, OneVersion(os), NEW ps \in SUBSET os
  PROVE  OneVersion(ps)
BY DEF OneVersion, Defs

LEMMA OneVersionSame ==
  ASSUME NEW os, OneVersion(os), NEW ps, Defs(ps) = Defs(os)
  PROVE  OneVersion(ps)
BY DEF OneVersion

LEMMA OneVersionSetXid ==
  ASSUME NEW n, NEW i, NEW os \in SUBSET ObjectUpTo(n, i), OneVersion(os), NEW S, NEW x
  PROVE  OneVersion(SetXid(os, S, x))
<1> DEFINE Changed(o) == \E e \in S : e.key = o.key /\ e.tid = o.tid
           After(o) == IF Changed(o) THEN [o EXCEPT !.xid = x] ELSE o
<1>1. SetXid(os, S, x) = {After(o) : o \in os}
  BY DEF SetXid
<1>2. \A o \in os : After(o).key = o.key
  BY DEF ObjectUpTo
<1> HIDE DEF After
<1> QED BY <1>1, <1>2 DEF OneVersion, Defs, IsDefinition

LEMMA OpenedOneVersion ==
  ASSUME TypeOK, IndexAssumption, OneVersion(objects), NEW c
  PROVE  OneVersion(Opened(c))
<1> DEFINE tids == Dead(c)
           kept == PageDelete(objects, {o \in objects : o.tid \in tids})
<1>1. objects \in SUBSET ObjectUpTo(transaction_id, index_id)
  BY DEF TypeOK, ObjectUpTo
<1>2. kept \in SUBSET ObjectUpTo(transaction_id, index_id) /\ OneVersion(kept)
  BY <1>1, PageDeleteSubset, OneVersionSubset
<1>3. OneVersion(SetXid(kept, {o \in kept : o.xid \in tids}, 0))
  <2> HIDE DEF kept
  <2> QED BY <1>2, OneVersionSetXid
<1>4. OneVersion(Undo(objects, Dead(c)))
  BY <1>3 DEF Undo
<1> QED BY <1>4 DEF Opened

(* What load_schema gives is what the connection sees. *)
LEMMA LoadedFresh ==
  ASSUME FreshInv, ~ ahead, NEW c \in session
  PROVE  Loaded(c, objects, active, schema_version)
           = [version |-> schema_version, indexes |-> Definitions(objects, txn[c], active)]
<1>1. c \in Conn /\ cache[c] \in [version : Nat, indexes : SUBSET (1 .. index_id)]
  BY DEF FreshInv, TypeOK
<1>2. CASE cache[c].version = schema_version
  BY <1>1, <1>2 DEF Loaded, FreshInv, CacheIsFresh
<1>3. CASE cache[c].version # schema_version
  BY <1>3 DEF Loaded
<1> QED BY <1>2, <1>3

LEMMA RememberedFresh ==
  ASSUME FreshInv, ~ ahead, NEW c \in session
  PROVE  Remembered(c) = [version |-> VersionIn(c),
                          indexes |-> Definitions(Opened(c), txn[c], Live(c))]
<1>1. CASE Dead(c) = {}
  <2>1. Opened(c) = objects /\ VersionIn(c) = schema_version /\ Live(c) = active
    BY <1>1 DEF Opened, VersionIn, Live
  <2> QED BY <2>1, LoadedFresh DEF Remembered
<1>2. CASE Dead(c) # {}
  <2>1. VersionIn(c) = schema_version + 1
    BY <1>2 DEF VersionIn
  <2>2. c \in Conn /\ cache[c].version \in Nat /\ schema_version \in Nat
        /\ cache[c].version <= schema_version
    BY DEF FreshInv, TypeOK, NotAhead
  <2>3. cache[c].version # VersionIn(c)
    BY <2>1, <2>2
  <2> QED BY <2>3 DEF Remembered, Loaded
<1> QED BY <1>1, <1>2

(* With another open connection, none is alone and nothing is recovered. *)
LEMMA NotAlone ==
  ASSUME NEW c, NEW d \in session, d # c
  PROVE  Dead(c) = {} /\ Opened(c) = objects /\ VersionIn(c) = schema_version /\ Live(c) = active
<1>1. Dead(c) = {}
  BY DEF Dead
<1> QED BY <1>1 DEF Opened, VersionIn, Live

-----------------------------------------------------------------------------
(* Who sees an object when an ID begins and when it ends. *)

LEMMA SeenAtStart ==
  ASSUME NEW n \in Nat, NEW i, NEW o \in ObjectUpTo(n, i), NEW act \in SUBSET (0 .. n)
  PROVE  /\ Visible(o, n + 1, act \cup {n + 1}) <=> Visible(o, 0, act)
         /\ Visible(o, n + 1, act) <=> Visible(o, 0, act)
         /\ \A cur \in 0 .. n : Visible(o, cur, act \cup {n + 1}) <=> Visible(o, cur, act)
BY DEF Visible, ObjectUpTo, FirstTid

LEMMA SeenAtEnd ==
  ASSUME NEW n, NEW i, NEW o \in ObjectUpTo(n, i), NEW act, NEW t, o.xid # t, 0 \notin act
  PROVE  /\ Visible(o, t, act) <=> Visible(o, 0, act \ {t})
         /\ o.tid # t => \A cur : Visible(o, cur, act \ {t}) <=> Visible(o, cur, act)
BY DEF Visible, ObjectUpTo, FirstTid

-----------------------------------------------------------------------------
(* What a step of a connection has to establish. *)

OnlyFor(c) ==
  /\ session' = session /\ (ahead => ahead')
  /\ cache' = [cache EXCEPT ![c] = cache'[c]]
  /\ \A d \in Conn \ {c} : txn'[d] = txn[d] /\ waiting'[d] = waiting[d]

OwnFresh(c) ==
  cache'[c] = [version |-> schema_version',
               indexes |-> Definitions(objects', txn'[c], active')]

OthersFresh(c) ==
  \/ schema_version < schema_version'
  \/ /\ schema_version' = schema_version
     /\ \A d \in session \ {c} :
          Definitions(objects', txn[d], active') = Definitions(objects, txn[d], active)

LEMMA FreshStep ==
  ASSUME FreshInv, TypeOK', NEW c \in session, OnlyFor(c), OneVersion(objects'),
         ~ ahead' => OwnFresh(c) /\ OthersFresh(c)
  PROVE  FreshInv'
<1>1. c \in Conn /\ session' \subseteq Conn
  BY DEF FreshInv, TypeOK, OnlyFor
<1>2. \A d \in Conn \ {c} : cache'[d] = cache[d]
  BY DEF OnlyFor, FreshInv, TypeOK
<1>3. NothingKept'
  BY <1>2 DEF NothingKept, FreshInv, OnlyFor
<1>4. NotAhead'
  <2> SUFFICES ASSUME ~ ahead', NEW d \in Conn
               PROVE  cache'[d].version <= schema_version'
    BY DEF NotAhead
  <2>1. CASE d = c
    BY <2>1 DEF OwnFresh, TypeOK
  <2>2. CASE d # c
    <3>1. cache[d].version <= schema_version /\ cache[d].version \in Nat
      BY DEF FreshInv, NotAhead, OnlyFor, TypeOK
    <3>2. schema_version <= schema_version' /\ schema_version \in Nat /\ schema_version' \in Nat
      BY DEF OthersFresh, FreshInv, TypeOK
    <3> QED BY <1>2, <2>2, <3>1, <3>2
  <2> QED BY <2>1, <2>2
<1>5. CacheIsFresh'
  <2> SUFFICES ASSUME ~ ahead', NEW d \in session, cache'[d].version = schema_version'
               PROVE  cache'[d].indexes = Definitions(objects', txn'[d], active')
    BY DEF CacheIsFresh, OnlyFor
  <2>1. CASE d = c
    BY <2>1 DEF OwnFresh
  <2>2. CASE d # c
    <3>1. d \in Conn /\ cache'[d] = cache[d] /\ txn'[d] = txn[d] /\ ~ ahead
      BY <1>2, <2>2 DEF OnlyFor, FreshInv, TypeOK
    <3>2. cache[d].version <= schema_version /\ cache[d].version \in Nat
          /\ schema_version \in Nat /\ schema_version' \in Nat
      BY <3>1 DEF FreshInv, NotAhead, TypeOK
    <3>3. schema_version' = schema_version
          /\ Definitions(objects', txn[d], active') = Definitions(objects, txn[d], active)
      BY <2>2, <3>1, <3>2 DEF OthersFresh
    <3> QED BY <3>1, <3>3 DEF FreshInv, CacheIsFresh
  <2> QED BY <2>1, <2>2
<1> QED BY <1>3, <1>4, <1>5 DEF FreshInv

(* A statement that has no transaction to end in leaves no object with its *)
(* ID expired: those that COMMIT would remove are removed.                 *)
LEMMA StatementDefs ==
  ASSUME TypeOK, NEW c \in Conn, NEW os, NEW new, EndStatement(c, os, new),
         \A o \in Defs(os) : txn[c] = 0 => o.xid # TidOf(c)
  PROVE  Defs(objects') = Defs(os)
<1>1. CASE txn[c] # 0
  BY <1>1 DEF EndStatement
<1>2. CASE txn[c] = 0
  <2> DEFINE S == {o \in os : o.xid = TidOf(c)}
  <2>1. \A o \in S : ~ IsDefinition(o)
    BY <1>2 DEF Defs
  <2>2. objects' = PageDelete(os, S)
    BY <1>2 DEF EndStatement, RemoveExpired
  <2> HIDE DEF S
  <2> QED BY <2>1, <2>2, DefsPageDelete
<1> QED BY <1>1, <1>2

LEMMA WritesRowsFresh ==
  ASSUME FreshInv, IndexAssumption, TypeOK', NEW c \in session, WritesRows(c)
  PROVE  FreshInv'
<1>1. TypeOK /\ c \in Conn
  BY DEF FreshInv, TypeOK
<1>2. PICK os \in SUBSET ObjectUpTo(LastTid(c), index_id) :
        Defs(os) = Defs(Opened(c)) /\ EndStatement(c, os, Remembered(c))
  BY DEF WritesRows
<1>3. \A o \in Defs(os) : txn[c] = 0 => o.xid # TidOf(c)
  <2>1. \A o \in Opened(c) : o.xid \in 0 .. transaction_id
    BY <1>1, OpenedType DEF ObjectUpTo
  <2> QED BY <1>1, <1>2, <2>1 DEF Defs, TidOf, TypeOK
<1>4. Defs(objects') = Defs(Opened(c))
  BY <1>1, <1>2, <1>3, StatementDefs
<1>5. OneVersion(objects')
  BY <1>1, <1>4, OpenedOneVersion, OneVersionSame DEF FreshInv
<1>6. OnlyFor(c)
  BY <1>2 DEF WritesRows, EndStatement, OnlyFor, FreshInv, TypeOK
<1>7. ASSUME ~ ahead'
      PROVE  OwnFresh(c) /\ OthersFresh(c)
  <2>1. ~ ahead /\ txn' = txn /\ active' = Live(c) /\ cache'[c] = Remembered(c)
        /\ schema_version' = Remembered(c).version
    BY <1>1, <1>2, <1>7 DEF EndStatement, TypeOK
  <2>2. \A cur : Definitions(objects', cur, Live(c)) = Definitions(Opened(c), cur, Live(c))
    BY <1>4, DefinitionsSame
  <2>3. OwnFresh(c)
    BY <2>1, <2>2, RememberedFresh DEF OwnFresh
  <2>4. schema_version' = VersionIn(c)
    BY <2>1, RememberedFresh
  <2>5. OthersFresh(c)
    <3>1. CASE session \ {c} = {}
      BY <1>1, <2>4, <3>1 DEF OthersFresh, VersionIn, TypeOK
    <3>2. CASE session \ {c} # {}
      BY <2>1, <2>2, <2>4, <3>2, NotAlone DEF OthersFresh
    <3> QED BY <3>1, <3>2
  <2> QED BY <2>3, <2>5
<1> QED BY <1>5, <1>6, <1>7, FreshStep

LEMMA DiscardFresh ==
  ASSUME FreshInv, TypeOK', NEW c \in session, Discard(c),
         \A d \in Conn \ {c} : waiting'[d] = waiting[d]
  PROVE  FreshInv'
<1>1. c \in Conn /\ TypeOK
  BY DEF FreshInv, TypeOK
<1>2. ahead => ahead'
  BY DEF Discard
<1>3. OnlyFor(c)
  BY <1>1, <1>2 DEF Discard, header, OnlyFor, TypeOK
<1>4. OneVersion(objects')
  BY DEF Discard, FreshInv
<1>5. ASSUME ~ ahead'
      PROVE  OwnFresh(c) /\ OthersFresh(c)
  <2>1. ~ ahead /\ Dead(c) = {}
    BY <1>5 DEF Discard
  <2>2. Opened(c) = objects /\ VersionIn(c) = schema_version /\ Live(c) = active
    BY <2>1 DEF Opened, VersionIn, Live
  <2>3. cache'[c] = Remembered(c)
    BY <1>1 DEF Discard, TypeOK
  <2>4. OwnFresh(c)
    BY <2>1, <2>2, <2>3, RememberedFresh DEF Discard, header, OwnFresh
  <2> QED BY <2>4 DEF Discard, header, OthersFresh
<1> QED BY <1>3, <1>4, <1>5, FreshStep

LEMMA ReadFresh ==
  ASSUME FreshInv, TypeOK', NEW c \in session, Read(c)
  PROVE  FreshInv'
<1>1. c \in Conn /\ TypeOK
  BY DEF FreshInv, TypeOK
<1>2. OnlyFor(c) /\ OneVersion(objects')
  BY <1>1 DEF Read, header, OnlyFor, TypeOK, FreshInv
<1>3. cache'[c] = Loaded(c, objects, active, schema_version)
  BY <1>1 DEF Read, TypeOK
<1>4. ASSUME ~ ahead'
      PROVE  OwnFresh(c) /\ OthersFresh(c)
  BY <1>3, <1>4, LoadedFresh DEF Read, header, OwnFresh, OthersFresh
<1> QED BY <1>2, <1>4, FreshStep

LEMMA BuildFresh ==
  ASSUME FreshInv, IndexAssumption, TypeOK', NEW c \in session, Build(c)
  PROVE  FreshInv'
<1> DEFINE t == TidOf(c)
           i == index_id + 1
           rows == VisibleRows(Opened(c), t, ActiveIn(c))
           definition == NewObject(DefinitionKey(i), t, Nothing)
           entries == {NewObject(EntryKey(i, o.value, o.key[2]), t, Nothing) : o \in rows}
           built == Opened(c) \cup {definition} \cup entries
           new == [version |-> VersionIn(c) + 1, indexes |-> Indexes(c) \cup {i}]
<1>1. TypeOK /\ c \in Conn
  BY DEF FreshInv, TypeOK
<1>2. EndStatement(c, built, new) /\ waiting' = [waiting EXCEPT ![c] = 0]
  BY DEF Build
<1>3. IsDefinition(definition) /\ definition.key[2] = i /\ definition.tid = t /\ definition.xid = 0
  BY DefinitionKeys DEF NewObject, IsDefinition
<1>4. Defs(built) = Defs(Opened(c)) \cup {definition}
  <2>1. \A o \in entries : ~ IsDefinition(o)
    BY EntryKeys DEF NewObject, IsDefinition
  <2> HIDE DEF entries, definition
  <2> QED BY <1>3, <2>1 DEF Defs
<1>5. /\ \A o \in Defs(Opened(c)) : o.xid \in 0 .. transaction_id /\ o.key[2] <= index_id
      /\ t \in FirstTid + 1 .. transaction_id + 1
      /\ txn[c] = 0 => t = transaction_id + 1
      /\ txn[c] # 0 => t = txn[c]
      /\ Live(c) \subseteq FirstTid + 1 .. transaction_id
      /\ transaction_id \in Nat
  BY <1>1, OpenedType DEF Defs, ObjectUpTo, IsDefinition, IsRow, TidOf, TypeOK
<1> HIDE DEF definition, entries
<1>6. Defs(objects') = Defs(Opened(c)) \cup {definition}
  <2>1. \A o \in Defs(built) : txn[c] = 0 => o.xid # t
    BY <1>3, <1>4, <1>5 DEF FirstTid
  <2> HIDE DEF built, new
  <2> QED BY <1>1, <1>2, <1>4, <2>1, StatementDefs
<1>7. OneVersion(objects')
  <2>1. OneVersion(Opened(c))
    BY <1>1, OpenedOneVersion DEF FreshInv
  <2>2. \A o \in Defs(Opened(c)) : o.key # definition.key
    BY <1>1, <1>3, <1>5 DEF TypeOK
  <2> QED BY <1>6, <2>1, <2>2 DEF OneVersion
<1>8. OnlyFor(c)
  BY <1>1, <1>2 DEF EndStatement, OnlyFor, TypeOK
<1>9. ASSUME ~ ahead'
      PROVE  OwnFresh(c) /\ OthersFresh(c)
  <2>1. ~ ahead /\ txn' = txn /\ active' = Live(c) /\ cache'[c] = new
        /\ schema_version' = VersionIn(c) + 1
    BY <1>1, <1>2, <1>9 DEF EndStatement, TypeOK
  <2>2. Visible(definition, txn[c], Live(c))
    BY <1>3, <1>5 DEF Visible, FirstTid
  <2>3. Definitions(objects', txn[c], Live(c))
          = Definitions(Opened(c), txn[c], Live(c)) \cup {i}
    <3>1. \A os, cur, act : Definitions(os, cur, act)
                              = {o.key[2] : o \in {p \in Defs(os) : Visible(p, cur, act)}}
      BY DEF Definitions, Defs
    <3>2. {p \in Defs(objects') : Visible(p, txn[c], Live(c))}
            = {p \in Defs(Opened(c)) : Visible(p, txn[c], Live(c))} \cup {definition}
      BY <1>6, <2>2
    <3> QED BY <1>3, <3>1, <3>2
  <2>4. new.indexes = Definitions(Opened(c), txn[c], Live(c)) \cup {i}
    BY <2>1, RememberedFresh DEF Indexes
  <2>5. OwnFresh(c)
    BY <2>1, <2>3, <2>4 DEF OwnFresh
  <2>6. OthersFresh(c)
    BY <1>1, <2>1 DEF OthersFresh, VersionIn, TypeOK
  <2> QED BY <2>5, <2>6
<1> QED BY <1>7, <1>8, <1>9, FreshStep

LEMMA DropIndexFresh ==
  ASSUME FreshInv, IndexAssumption, TypeOK', NEW c \in session, DropIndex(c)
  PROVE  FreshInv'
<1> DEFINE os == Opened(c)
           t == TidOf(c)
           act == ActiveIn(c)
           S == {o \in os : IsDefinition(o) /\ o.key[2] \in Indexes(c) /\ Visible(o, t, act)}
                \cup {o \in os : IsEntry(o) /\ o.key[2] \in Indexes(c) /\ Visible(o, t, act)}
           after == SetXid(os, S, t)
           new == [version |-> VersionIn(c) + 1, indexes |-> {}]
           Changed(o) == \E e \in S : e.key = o.key /\ e.tid = o.tid
<1>1. TypeOK /\ c \in Conn
  BY DEF FreshInv, TypeOK
<1>2. EndStatement(c, after, new) /\ waiting' = waiting
  BY DEF DropIndex
<1>3. /\ os \in SUBSET ObjectUpTo(transaction_id, index_id)
      /\ t \in FirstTid + 1 .. transaction_id + 1
      /\ txn[c] = 0 => t = transaction_id + 1
      /\ txn[c] # 0 => t = txn[c]
      /\ Live(c) \subseteq 0 .. transaction_id /\ act = Live(c) \cup {t}
      /\ transaction_id \in Nat
  BY <1>1, OpenedType DEF TidOf, ActiveIn, TypeOK, FirstTid
<1> HIDE DEF os, t, act
<1>4. OneVersion(objects')
  <2>1. OneVersion(after)
    BY <1>1, <1>3, OpenedOneVersion, OneVersionSetXid DEF FreshInv, os
  <2>2. objects' \in SUBSET after
    BY <1>2, PageDeleteSubset DEF EndStatement, RemoveExpired
  <2> QED BY <2>1, <2>2, OneVersionSubset
<1>5. OnlyFor(c)
  BY <1>1, <1>2 DEF EndStatement, OnlyFor, TypeOK
<1>6. ASSUME ~ ahead'
      PROVE  OwnFresh(c) /\ OthersFresh(c)
  <2>1. ~ ahead /\ txn' = txn /\ active' = Live(c) /\ cache'[c] = new
        /\ schema_version' = VersionIn(c) + 1
    BY <1>1, <1>2, <1>6 DEF EndStatement, TypeOK
  <2>2. ASSUME NEW o \in os, IsDefinition(o), Visible(o, txn[c], Live(c))
        PROVE  o \in S
    <3>1. o.key[2] \in Indexes(c)
      BY <2>1, <2>2, RememberedFresh DEF Indexes, Definitions, os
    <3>2. Visible(o, t, act)
      <4>1. CASE txn[c] = 0
        BY <1>3, <2>2, <4>1, SeenAtStart
      <4>2. CASE txn[c] # 0
        BY <1>3, <2>2, <4>2 DEF Visible
      <4> QED BY <4>1, <4>2
    <3> QED BY <2>2, <3>1, <3>2
  <2>3. ASSUME NEW p \in objects', IsDefinition(p), Visible(p, txn[c], Live(c))
        PROVE  FALSE
    <3>1. PICK o \in os : p = IF Changed(o) THEN [o EXCEPT !.xid = t] ELSE o
      <4>1. p \in after
        BY <1>2, PageDeleteSubset DEF EndStatement, RemoveExpired
      <4> QED BY <4>1 DEF SetXid
    <3>2. CASE Changed(o)
      <4>1. p.xid = t
        BY <1>3, <3>1, <3>2 DEF ObjectUpTo
      <4>2. CASE txn[c] # 0
        BY <1>3, <2>3, <4>1, <4>2 DEF Visible
      <4>3. CASE txn[c] = 0
        <5>1. p \in RemoveExpired(after, t)
          BY <1>2, <4>3 DEF EndStatement, t
        <5> HIDE DEF after
        <5> QED BY <4>1, <5>1 DEF RemoveExpired, PageDelete
      <4> QED BY <4>2, <4>3
    <3>3. CASE ~ Changed(o)
      <4>1. o \in S
        BY <2>2, <2>3, <3>1, <3>3
      <4> HIDE DEF S
      <4> QED BY <3>3, <4>1
    <3> QED BY <3>2, <3>3
  <2>4. Definitions(objects', txn[c], Live(c)) = {}
    BY <2>3 DEF Definitions
  <2>5. OwnFresh(c)
    BY <2>1, <2>4 DEF OwnFresh
  <2>6. OthersFresh(c)
    BY <1>1, <2>1 DEF OthersFresh, VersionIn, TypeOK
  <2> QED BY <2>5, <2>6
<1> QED BY <1>4, <1>5, <1>6, FreshStep

LEMMA StartTransactionFresh ==
  ASSUME FreshInv, IndexAssumption, TypeOK', NEW c \in session, StartTransaction(c)
  PROVE  FreshInv'
<1> DEFINE n == transaction_id
<1>1. TypeOK /\ c \in Conn
  BY DEF FreshInv, TypeOK
<1>2. /\ txn[c] = 0 /\ objects' = Opened(c) /\ active' = Live(c) \cup {n + 1}
      /\ txn'[c] = n + 1 /\ schema_version' = VersionIn(c) /\ cache'[c] = Remembered(c)
      /\ (ahead' <=> ahead)
  BY <1>1 DEF StartTransaction, ActiveIn, TidOf, TypeOK
<1>3. Opened(c) \in SUBSET ObjectUpTo(n, index_id) /\ Live(c) \in SUBSET (0 .. n) /\ n \in Nat
  BY <1>1, OpenedType DEF TypeOK, FirstTid
<1>4. OnlyFor(c)
  BY <1>1 DEF StartTransaction, OnlyFor, TypeOK
<1>5. OneVersion(objects')
  BY <1>1, <1>2, OpenedOneVersion DEF FreshInv
<1>6. ASSUME ~ ahead'
      PROVE  OwnFresh(c) /\ OthersFresh(c)
  <2> DEFINE act == Live(c) \cup {n + 1}
  <2>1. \A o \in Defs(Opened(c)) : Visible(o, 0, Live(c)) <=> Visible(o, n + 1, act)
    BY <1>3, SeenAtStart DEF Defs
  <2>2. Definitions(Opened(c), 0, Live(c)) = Definitions(Opened(c), n + 1, act)
    <3> HIDE DEF act, n
    <3> QED BY <2>1, DefinitionsSame
  <2>3. OwnFresh(c)
    BY <1>2, <1>6, <2>2, RememberedFresh DEF OwnFresh
  <2>4. CASE session \ {c} = {}
    <3>1. OthersFresh(c)
      BY <1>1, <1>2, <2>4 DEF OthersFresh, VersionIn, TypeOK
    <3> QED BY <2>3, <3>1
  <2>5. CASE session \ {c} # {}
    <3>1. Opened(c) = objects /\ VersionIn(c) = schema_version /\ Live(c) = active
      BY <2>5, NotAlone
    <3>2. ASSUME NEW d \in session \ {c}
          PROVE  Definitions(objects', txn[d], active') = Definitions(objects, txn[d], active)
      <4>1. txn[d] \in 0 .. n
        BY <1>1 DEF TypeOK, FirstTid
      <4>2. \A o \in Defs(Opened(c)) : Visible(o, txn[d], Live(c)) <=> Visible(o, txn[d], act)
        BY <1>3, <4>1, SeenAtStart DEF Defs
      <4>3. Definitions(Opened(c), txn[d], Live(c)) = Definitions(Opened(c), txn[d], act)
        <5> HIDE DEF act, n
        <5> QED BY <4>2, DefinitionsSame
      <4> QED BY <1>2, <3>1, <4>3
    <3> QED BY <1>2, <2>3, <3>1, <3>2 DEF OthersFresh
  <2> QED BY <2>4, <2>5
<1> QED BY <1>4, <1>5, <1>6, FreshStep

(* COMMIT and ROLLBACK: if they change the definitions, nobody remembers   *)
(* the new version, and if they don't, the ID is in none of them.          *)
LEMMA EndTransactionFresh ==
  ASSUME FreshInv, IndexAssumption, TypeOK', NEW c \in session, NEW os, NEW indexes,
         EndTransaction(c, os, indexes), waiting' = waiting, OneVersion(os),
         ~ ahead => indexes = Definitions(os, 0, Live(c) \ {txn[c]}),
         ~ ChangedSchema(c) => Defs(os) = Defs(Opened(c))
  PROVE  FreshInv'
<1> DEFINE t == txn[c]
<1>1. TypeOK /\ c \in Conn
  BY DEF FreshInv, TypeOK
<1>2. /\ objects' = os /\ active' = Live(c) \ {t} /\ txn'[c] = 0 /\ schema_version' = VersionAfter(c)
      /\ cache'[c] = [version |-> VersionAfter(c), indexes |-> indexes] /\ (ahead' <=> ahead)
  BY <1>1 DEF EndTransaction, TypeOK
<1>3. OnlyFor(c) /\ OneVersion(objects')
  BY <1>1, <1>2 DEF EndTransaction, OnlyFor, TypeOK
<1>4. ASSUME ~ ahead'
      PROVE  OwnFresh(c) /\ OthersFresh(c)
  <2>1. OwnFresh(c)
    BY <1>2, <1>4 DEF OwnFresh
  <2>2. CASE ChangedSchema(c) \/ session \ {c} = {}
    BY <1>1, <1>2, <2>1, <2>2 DEF OthersFresh, VersionAfter, VersionIn, TypeOK
  <2>3. CASE ~ ChangedSchema(c) /\ session \ {c} # {}
    <3>1. Opened(c) = objects /\ VersionIn(c) = schema_version /\ Live(c) = active
      BY <2>3, NotAlone
    <3>2. Opened(c) \in SUBSET ObjectUpTo(transaction_id, index_id) /\ 0 \notin Live(c)
      BY <1>1, OpenedType DEF FirstTid
    <3>3. \A o \in Defs(objects) : o.tid # t /\ o.xid # t
      BY <2>3, <3>1 DEF ChangedSchema, Defs
    <3>4. \A o \in Defs(objects) : \A cur : Visible(o, cur, active \ {t}) <=> Visible(o, cur, active)
      BY <3>1, <3>2, <3>3, SeenAtEnd DEF Defs
    <3>5. Defs(os) = Defs(objects)
      BY <2>3, <3>1
    <3>6. ASSUME NEW d \in session \ {c}
          PROVE  Definitions(os, txn[d], active \ {t}) = Definitions(objects, txn[d], active)
      <4> DEFINE after == active \ {t}
      <4>1. \A o \in Defs(os) : Visible(o, txn[d], after) <=> Visible(o, txn[d], active)
        BY <3>4, <3>5
      <4> HIDE DEF after
      <4>2. Definitions(os, txn[d], after) = Definitions(objects, txn[d], active)
        BY <3>5, <4>1, DefinitionsSame
      <4> QED BY <4>2 DEF after
    <3>7. schema_version' = schema_version
      BY <1>2, <2>3, <3>1 DEF VersionAfter
    <3> QED BY <1>2, <2>1, <3>1, <3>6, <3>7 DEF OthersFresh
  <2> QED BY <2>2, <2>3
<1> QED BY <1>3, <1>4, FreshStep DEF OnlyFor

LEMMA CommitFresh ==
  ASSUME FreshInv, IndexAssumption, TypeOK', NEW c \in session, Commit(c)
  PROVE  FreshInv'
<1> DEFINE before == Opened(c)
           t == txn[c]
           os == RemoveExpired(before, t)
           after == Live(c) \ {t}
<1>1. TypeOK /\ c \in Conn
  BY DEF FreshInv, TypeOK
<1>2. before \in SUBSET ObjectUpTo(transaction_id, index_id) /\ OneVersion(before)
      /\ 0 \notin Live(c) /\ t # 0
  BY <1>1, OpenedType, OpenedOneVersion DEF FreshInv, Commit, FirstTid
<1> HIDE DEF before, t
<1>3. os \in SUBSET before /\ OneVersion(os)
  BY <1>2, PageDeleteSubset, OneVersionSubset DEF RemoveExpired
<1>4. \A o \in Defs(before) : o \in os <=> o.xid # t
  BY <1>2 DEF RemoveExpired, PageDelete, Defs, OneVersion, IsDefinition
<1>5. ASSUME ~ ahead
      PROVE  Indexes(c) = Definitions(os, 0, after)
  <2>1. Indexes(c) = Definitions(before, t, Live(c))
    BY <1>5, RememberedFresh DEF Indexes, before, t
  <2>2. \A o \in Defs(before) : Visible(o, t, Live(c)) => o.xid # t
    BY <1>2 DEF Visible
  <2>3. \A o \in Defs(before) : o.xid # t => (Visible(o, t, Live(c)) <=> Visible(o, 0, after))
    BY <1>2, SeenAtEnd DEF Defs
  <2> HIDE DEF os, after
  <2>4. {p \in Defs(before) : Visible(p, t, Live(c))} = {p \in Defs(os) : Visible(p, 0, after)}
    BY <1>3, <1>4, <2>2, <2>3 DEF Defs
  <2>5. \A ps, cur, act : Definitions(ps, cur, act)
                            = {o.key[2] : o \in {p \in Defs(ps) : Visible(p, cur, act)}}
    BY DEF Definitions, Defs
  <2> QED BY <2>1, <2>4, <2>5
<1>6. ~ ChangedSchema(c) => Defs(os) = Defs(before)
  BY <1>3, <1>4 DEF ChangedSchema, Defs, before, t
<1>7. EndTransaction(c, os, Indexes(c)) /\ waiting' = waiting
  BY DEF Commit, EndTransaction, before, t
<1> HIDE DEF os
<1> QED BY <1>3, <1>5, <1>6, <1>7, EndTransactionFresh DEF before, t

LEMMA RollbackFresh ==
  ASSUME FreshInv, IndexAssumption, TypeOK', NEW c \in session, Rollback(c)
  PROVE  FreshInv'
<1> DEFINE before == Opened(c)
           t == txn[c]
           kept == PageDelete(before, {o \in before : o.tid \in {t}})
           expired == {o \in kept : o.xid \in {t}}
           os == Undo(before, {t})
           after == Live(c) \ {t}
           ix == IF ChangedSchema(c) THEN Definitions(os, 0, after) ELSE Indexes(c)
<1>1. TypeOK /\ c \in Conn
  BY DEF FreshInv, TypeOK
<1>2. before \in SUBSET ObjectUpTo(transaction_id, index_id) /\ OneVersion(before)
      /\ 0 \notin Live(c)
  BY <1>1, OpenedType, OpenedOneVersion DEF FreshInv, FirstTid
<1> HIDE DEF before, t
<1>3. os = SetXid(kept, expired, 0)
  BY DEF Undo
<1>4. kept \in SUBSET ObjectUpTo(transaction_id, index_id) /\ OneVersion(kept)
  BY <1>2, PageDeleteSubset, OneVersionSubset
<1>5. OneVersion(os)
  <2> HIDE DEF kept, expired, os
  <2> QED BY <1>3, <1>4, OneVersionSetXid
<1>6. ASSUME ~ ChangedSchema(c)
      PROVE  /\ Defs(os) = Defs(before)
             /\ \A o \in Defs(before) : o.tid # t /\ o.xid # t
  <2>1. \A o \in before : IsDefinition(o) => o.tid # t /\ o.xid # t
    BY <1>6 DEF ChangedSchema, before, t
  <2>2. Defs(kept) = Defs(before)
    BY <2>1, DefsPageDelete
  <2>3. \A o \in expired : ~ IsDefinition(o)
    BY <2>1, PageDeleteSubset
  <2>4. Defs(SetXid(kept, expired, 0)) = Defs(kept)
    <3> HIDE DEF kept, expired
    <3> QED BY <1>4, <2>3, DefsSetXid
  <2> QED BY <1>3, <2>1, <2>2, <2>4 DEF Defs
<1>7. ASSUME ~ ahead
      PROVE  ix = Definitions(os, 0, after)
  <2>1. CASE ChangedSchema(c)
    BY <2>1
  <2>2. CASE ~ ChangedSchema(c)
    <3>1. Indexes(c) = Definitions(before, t, Live(c))
      BY <1>7, RememberedFresh DEF Indexes, before, t
    <3>2. \A o \in Defs(before) : Visible(o, t, Live(c)) <=> Visible(o, 0, after)
      BY <1>2, <1>6, <2>2, SeenAtEnd DEF Defs
    <3> HIDE DEF os, after
    <3>3. Definitions(before, t, Live(c)) = Definitions(os, 0, after)
      BY <1>6, <2>2, <3>2, DefinitionsSame
    <3> QED BY <2>2, <3>1, <3>3
  <2> QED BY <2>1, <2>2
<1>8. EndTransaction(c, os, ix) /\ waiting' = waiting
  BY DEF Rollback, EndTransaction, before, t
<1> HIDE DEF os, ix
<1> QED BY <1>5, <1>6, <1>7, <1>8, EndTransactionFresh DEF before, t

LEMMA OpenCloseFresh ==
  ASSUME FreshInv, TypeOK', NEW c \in Conn, Open(c) \/ Close(c)
  PROVE  FreshInv'
<1>1. TypeOK
  BY DEF FreshInv
<1>2. CASE Open(c)
  <2>1. /\ objects' = objects /\ active' = active /\ schema_version' = schema_version
        /\ txn' = txn /\ cache' = cache /\ waiting' = waiting /\ session' = session \cup {c}
        /\ c \notin session /\ (ahead' <=> ahead)
    BY <1>2 DEF Open, header
  <2>2. cache[c].version # schema_version
    BY <2>1 DEF FreshInv, NothingKept, NoSchema, TypeOK
  <2>3. NothingKept' /\ NotAhead' /\ OneVersion(objects')
    BY <2>1 DEF FreshInv, NothingKept, NotAhead
  <2>4. CacheIsFresh'
    BY <2>1, <2>2 DEF FreshInv, CacheIsFresh
  <2> QED BY <2>3, <2>4 DEF FreshInv
<1>3. CASE Close(c)
  <2>1. /\ objects' = objects /\ active' = active /\ schema_version' = schema_version
        /\ session' = session \ {c} /\ (ahead' <=> ahead)
        /\ cache'[c] = NoSchema /\ waiting'[c] = 0
        /\ \A d \in Conn \ {c} : txn'[d] = txn[d] /\ cache'[d] = cache[d] /\ waiting'[d] = waiting[d]
    BY <1>1, <1>3 DEF Close, header, TypeOK
  <2>2. NothingKept' /\ OneVersion(objects')
    BY <2>1 DEF FreshInv, NothingKept
  <2>3. NotAhead'
    BY <1>1, <2>1 DEF FreshInv, NotAhead, NoSchema, TypeOK
  <2>4. CacheIsFresh'
    BY <1>1, <2>1 DEF FreshInv, CacheIsFresh, TypeOK
  <2> QED BY <2>2, <2>3, <2>4 DEF FreshInv
<1> QED BY <1>2, <1>3

LEMMA InitFresh ==
  ASSUME IndexAssumption, Init
  PROVE  FreshInv
<1>1. TypeOK
  BY InitType
<1>2. OneVersion(objects)
  <2> SUFFICES ASSUME NEW o \in objects, NEW p \in objects, IsDefinition(o), o.key = p.key
               PROVE  o = p
    BY DEF OneVersion, Defs, IsDefinition
  <2>1. \A q \in objects : IsDefinition(q) => q = NewObject(q.key, FirstTid, Nothing)
    <3>1. PICK f \in Initial :
            objects =
              {NewObject(RowKey(k), FirstTid, f[k]) : k \in DOMAIN f}
                \cup {NewObject(DefinitionKey(i), FirstTid, Nothing) : i \in 1 .. index_id}
                \cup {NewObject(EntryKey(i, f[k], k), FirstTid, Nothing) :
                         i \in 1 .. index_id, k \in DOMAIN f}
      BY DEF Init
    <3>2. \A k, x : NewObject(k, FirstTid, x).key = k
      BY DEF NewObject
    <3> QED BY <3>1, <3>2, RowKeys DEF IsDefinition
  <2> QED BY <2>1 DEF IsDefinition
<1>3. session = {} /\ (\A c \in Conn : cache[c] = NoSchema /\ waiting[c] = 0)
  BY DEF Init
<1>4. NothingKept /\ NotAhead /\ CacheIsFresh
  BY <1>1, <1>3 DEF NothingKept, NotAhead, CacheIsFresh, NoSchema, TypeOK
<1> QED BY <1>1, <1>2, <1>4 DEF FreshInv

LEMMA NextFresh ==
  ASSUME FreshInv, IndexAssumption, [Next]_vars
  PROVE  FreshInv'
<1>1. TypeOK /\ TypeOK'
  BY NextType DEF FreshInv
<1>2. CASE UNCHANGED vars
  <2>1. /\ objects' = objects /\ active' = active /\ schema_version' = schema_version
        /\ txn' = txn /\ cache' = cache /\ waiting' = waiting /\ session' = session
        /\ (ahead' <=> ahead)
    BY <1>2 DEF vars, header
  <2> QED BY <1>1, <2>1 DEF FreshInv, NothingKept, NotAhead, CacheIsFresh
<1>3. CASE Next
  <2> SUFFICES ASSUME NEW c \in Conn,
                      \/ \E k \in Key, v \in Value : Insert(c, k, v)
                      \/ \E k \in Key, v \in Value : Update(c, k, v)
                      \/ \E k \in Key : Delete(c, k)
                      \/ CreateIndex(c) \/ TryAgain(c) \/ DropIndex(c)
                      \/ StartTransaction(c) \/ Commit(c) \/ Rollback(c)
                      \/ Fail(c) \/ Read(c) \/ Open(c) \/ Close(c)
               PROVE  FreshInv'
    BY <1>3 DEF Next
  <2>1. CASE Open(c) \/ Close(c)
    BY <1>1, <2>1, OpenCloseFresh
  <2>2. ASSUME c \in session, WritesRows(c)
        PROVE  FreshInv'
    BY <1>1, <2>2, WritesRowsFresh
  <2>3. CASE \E k \in Key, v \in Value : Insert(c, k, v)
    <3>1. c \in session
      BY <2>3 DEF Insert, CanWrite, Ready
    <3> QED BY <1>1, <2>2, <2>3, <3>1, InsertWritesRows
  <2>4. CASE \E k \in Key, v \in Value : Update(c, k, v)
    <3>1. c \in session
      BY <2>4 DEF Update, CanWrite, Ready
    <3> QED BY <1>1, <2>2, <2>4, <3>1, UpdateWritesRows
  <2>5. CASE \E k \in Key : Delete(c, k)
    <3>1. c \in session
      BY <2>5 DEF Delete, CanWrite, Ready
    <3> QED BY <1>1, <2>2, <2>5, <3>1, DeleteWritesRows
  <2>6. ASSUME c \in session, Discard(c), \E n : waiting' = [waiting EXCEPT ![c] = n]
        PROVE  FreshInv'
    <3>1. \A d \in Conn \ {c} : waiting'[d] = waiting[d]
      BY <1>1, <2>6 DEF TypeOK
    <3> QED BY <1>1, <2>6, <3>1, DiscardFresh
  <2>7. CASE CreateIndex(c) \/ TryAgain(c)
    <3>1. c \in session /\ Attempt(c)
      BY <1>1, <2>7 DEF CreateIndex, TryAgain, Ready, FreshInv, NothingKept, TypeOK
    <3>2. CASE Build(c)
      BY <1>1, <3>1, <3>2, BuildFresh
    <3>3. CASE Wait(c)
      BY <2>6, <3>1, <3>3 DEF Wait
    <3>4. CASE Refuse(c)
      BY <2>6, <3>1, <3>4 DEF Refuse
    <3> QED BY <3>1, <3>2, <3>3, <3>4 DEF Attempt
  <2>8. CASE DropIndex(c)
    BY <1>1, <2>8, DropIndexFresh DEF DropIndex, Ready
  <2>9. CASE StartTransaction(c)
    BY <1>1, <2>9, StartTransactionFresh DEF StartTransaction, Ready
  <2>10. CASE Commit(c)
    BY <1>1, <2>10, CommitFresh DEF Commit, Ready
  <2>11. CASE Rollback(c)
    BY <1>1, <2>11, RollbackFresh DEF Rollback, Ready
  <2>12. CASE Fail(c)
    <3>1. waiting' = [waiting EXCEPT ![c] = waiting[c]]
      BY <1>1, <2>12 DEF Fail, TypeOK
    <3> QED BY <2>6, <2>12, <3>1 DEF Fail, Ready
  <2>13. CASE Read(c)
    BY <1>1, <2>13, ReadFresh DEF Read, Ready
  <2> QED BY <2>1, <2>3, <2>4, <2>5, <2>7, <2>8, <2>9, <2>10, <2>11, <2>12, <2>13
<1> QED BY <1>2, <1>3

(* The inductive invariant holds always: until a failed statement leaves   *)
(* memory ahead of the file, what a connection remembers at the file's     *)
(* version is what load_schema finds there.                                *)
THEOREM FreshAlways == Spec => []FreshInv
<1>1. Init => FreshInv
  BY IndexAssumption, InitFresh
<1>2. FreshInv /\ [Next]_vars => FreshInv'
  BY IndexAssumption, NextFresh
<1> QED BY <1>1, <1>2, PTL DEF Spec

(* A connection that finds the schema_version it remembers in the header   *)
(* skips load_schema (storage.v:206): until a statement fails after its    *)
(* recovery, it never works with other definitions than its transaction    *)
(* sees.                                                                   *)
THEOREM DefinitionsFresh == Spec => []CacheIsFresh
<1>1. FreshInv => CacheIsFresh
  BY DEF FreshInv
<1> QED BY <1>1, FreshAlways, PTL
=============================================================================
