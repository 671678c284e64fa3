------------------------------- MODULE Index --------------------------------
(***************************************************************************)
(* A table and its index (src/vsql/index.v): the entries that the writes   *)
(* of the table keep up to date, the index definitions that transactions   *)
(* create and drop, CREATE INDEX that waits for the transactions that have *)
(* changed the table, and the definitions that each connection remembers   *)
(* for a schema_version of the header (storage.v).                         *)
(*                                                                         *)
(* Rows, entries and definitions are objects of one B-tree with the        *)
(* versions of module Versions. As in Mvcc, a statement that writes holds  *)
(* the exclusive file lock from open_write_connection to finish_write, so  *)
(* it is one action; CREATE INDEX that waits is one action for each time   *)
(* it has the lock. COMMIT, ROLLBACK and recovery find every object of the *)
(* transaction: the pages on which they look are in Mvcc. The index is on  *)
(* the one column that isn't the PRIMARY KEY.                              *)
(***************************************************************************)
EXTENDS Integers, FiniteSets, Versions

CONSTANTS
  Conn,           \* connections
  Key,            \* values of the PRIMARY KEY
  Value,          \* values of the indexed column
  Slots,          \* slots of TransactionIDs.tids (256 in the code)
  Unique,         \* the index IDs whose CREATE INDEX says UNIQUE
  Timeout,        \* create_index_timeout, in attempts of CREATE INDEX
  Initial,        \* the rows a table may start with, as functions of their keys
  Indexed,        \* the number of indexes it may start with: some of 0 and 1
  MaxTid,         \* bound: the last transaction ID that is issued
  MaxIndex        \* bound: the last index ID that is issued

ASSUME IndexAssumption ==
  /\ Slots \in Nat /\ Timeout \in Nat /\ MaxTid \in Nat /\ MaxIndex \in Nat
  /\ Unique \subseteq Nat
  /\ \A f \in Initial : DOMAIN f \subseteq Key /\ f \in [DOMAIN f -> Value]
  /\ Indexed \subseteq {0, 1} \cap 0 .. MaxIndex

VARIABLES
  transaction_id,   \* header.transaction_id, the last ID issued
  active,           \* header.active_transaction_ids
  schema_version,   \* header.schema_version
  index_id,         \* header.index_id
  objects,          \* the objects of the B-tree
  session,          \* connections that hold the session lock
  txn,              \* storage.transaction_id of an explicit transaction, or 0
  cache,            \* the schema_version and indexes a connection remembers
  waiting,          \* attempts a connection's CREATE INDEX has made, 0 for none
  damaged,          \* history: keys whose row a COMMIT lost (see Mvcc)
  ahead             \* history: whether a statement has failed after its recovery

header == <<transaction_id, active, schema_version, index_id>>
vars == <<header, objects, session, txn, cache, waiting, damaged, ahead>>

(* row_key_prefix, index_object_key and Index.entry_key: an entry has the  *)
(* index, the values of its columns and the ID of the row.                 *)
RowKey(k) == <<"R", k>>
DefinitionKey(i) == <<"N", i>>
EntryKey(i, v, k) == <<"E", i, v, k>>

ObjectKey ==
  {RowKey(k) : k \in Key} \cup {DefinitionKey(i) : i \in 1 .. MaxIndex}
    \cup {EntryKey(i, v, k) : i \in 1 .. MaxIndex, v \in Value, k \in Key}

(* The table was created, and given its first rows, by an ID that ended.   *)
FirstTid == 3

(* The value of an entry and of a definition: nothing depends on it.       *)
Nothing == 0

NewObject(key, t, v) == [key |-> key, tid |-> t, xid |-> 0, value |-> v]

IsRow(o) == o.key[1] = "R"
IsDefinition(o) == o.key[1] = "N"
IsEntry(o) == o.key[1] = "E"

-----------------------------------------------------------------------------
(* The end of a transaction. *)

(* ROLLBACK and recover. *)
Undo(os, tids) ==
  LET kept == PageDelete(os, {o \in os : o.tid \in tids})
  IN  SetXid(kept, {o \in kept : o.xid \in tids}, 0)

(* isolation_end and COMMIT. *)
RemoveExpired(os, t) == PageDelete(os, {o \in os : o.xid = t})

-----------------------------------------------------------------------------
(* Opening the file for writing: the recovery of a connection that is      *)
(* alone, and load_schema unless the schema_version is the one that the    *)
(* connection remembers.                                                   *)

Dead(c) == IF session = {c} THEN active \ {txn[c]} ELSE {}

Live(c) == active \ Dead(c)

Opened(c) == IF Dead(c) = {} THEN objects ELSE Undo(objects, Dead(c))

VersionIn(c) == IF Dead(c) = {} THEN schema_version ELSE schema_version + 1

(* load_indexes: the definitions that are visible to the transaction.      *)
Definitions(os, current, act) ==
  {o.key[2] : o \in {p \in os : IsDefinition(p) /\ Visible(p, current, act)}}

Loaded(c, os, act, version) ==
  IF cache[c].version = version
  THEN cache[c]
  ELSE [version |-> version, indexes |-> Definitions(os, txn[c], act)]

Remembered(c) == Loaded(c, Opened(c), Live(c), VersionIn(c))

(* Storage.indexes of the table during a statement that writes. *)
Indexes(c) == Remembered(c).indexes

(* isolation_start: the explicit transaction, or a new implicit one. *)
HasTid(c) ==
  \/ txn[c] # 0
  \/ txn[c] = 0 /\ transaction_id < MaxTid /\ Cardinality(Live(c)) < Slots

TidOf(c) == IF txn[c] # 0 THEN txn[c] ELSE transaction_id + 1

ActiveIn(c) == Live(c) \cup {TidOf(c)}

(* A connection that can start a statement. *)
Ready(c) == c \in session /\ waiting[c] = 0

-----------------------------------------------------------------------------
(* The end of a statement that writes: finish_write. *)

(* It succeeds, with these objects and definitions. *)
EndStatement(c, os, remembered) ==
  /\ objects' = IF txn[c] # 0 THEN os ELSE RemoveExpired(os, TidOf(c))
  /\ transaction_id' = IF txn[c] # 0 THEN transaction_id ELSE TidOf(c)
  /\ active' = Live(c)
  /\ schema_version' = remembered.version
  /\ cache' = [cache EXCEPT ![c] = remembered]
  /\ UNCHANGED <<session, txn, damaged, ahead>>

(* It fails: the pages are never written, but begin_statement's snapshot   *)
(* is from after the recovery and load_schema, and so is what the          *)
(* connection remembers.                                                   *)
Discard(c) ==
  /\ cache' = [cache EXCEPT ![c] = Remembered(c)]
  /\ ahead' = (ahead \/ Dead(c) # {})
  /\ UNCHANGED <<header, objects, session, txn, damaged>>

-----------------------------------------------------------------------------
(* Writes of the table. *)

(* check_concurrent_definition *)
DefinitionContended(os, current, act) ==
  \E o \in os : IsDefinition(o) /\ Concurrent(o, current, act)

CanWrite(c) ==
  /\ Ready(c) /\ HasTid(c)
  /\ ~ DefinitionContended(Opened(c), TidOf(c), ActiveIn(c))

(* The entries of a row in each index that the connection knows of. *)
Entries(c, v, k) == {EntryKey(i, v, k) : i \in Indexes(c)}

(* Btree.update of each entry: those of which a version can be expired,    *)
(* and those of which the transaction has a version, which is replaced.    *)
AddEntries(os, ks, t) ==
  LET replaced == {o \in os : o.key \in ks /\ o.tid = t}
      expired  == {o \in os : o.key \in ks /\ UpdateExpires(os, o.key, t)}
  IN  SetXid(PageDelete(os, replaced), expired, t)
        \cup {NewObject(e, t, Nothing) : e \in ks}

Visibles(os, ks, current, act) == {o \in os : o.key \in ks /\ Visible(o, current, act)}

(* expire_objects, of the entries of one row *)
ExpireEntries(os, ks, t, act) == SetXid(os, Visibles(os, ks, t, act), t)

BugIgnoresUncommitted(os, i, v, k, current, act) ==
  \E o \in os, j \in Key \ {k} :
    /\ o.key = EntryKey(i, v, j)
    /\ ~ Concurrent(o, current, act) /\ o.xid = 0

(* has_duplicate_entry: 40001 for an entry that another transaction        *)
(* creates or deletes, 23505 for one that isn't expired.                   *)
Taken(os, i, v, k, current, act) ==
  \E o \in os, j \in Key \ {k} :
    /\ o.key = EntryKey(i, v, j)
    /\ Concurrent(o, current, act) \/ o.xid = 0

(* check_unique_indexes, once the row has been written *)
KeepsUnique(c, os, v, k) ==
  \A i \in Indexes(c) \cap Unique : ~ Taken(os, i, v, k, TidOf(c), ActiveIn(c))

(* INSERT: write_row, add_index_entries. *)
Insert(c, k, v) ==
  LET os      == Opened(c)
      t       == TidOf(c)
      entries == Entries(c, v, k)
      written == AddEntries(os \cup {NewObject(RowKey(k), t, v)}, entries, t)
  IN  /\ CanWrite(c)
      /\ CanInsert(os, RowKey(k), t, ActiveIn(c))
      /\ \A e \in entries : ~ UpdateConflict(os, e, t)
      /\ KeepsUnique(c, written, v, k)
      /\ EndStatement(c, written, Remembered(c))
      /\ UNCHANGED <<index_id, waiting>>

(* UPDATE of the indexed column: update_row, update_index_entries. (A row  *)
(* that doesn't change isn't written.)                                     *)
Update(c, k, v) ==
  LET os  == Opened(c)
      t   == TidOf(c)
      act == ActiveIn(c)
      row == RowKey(k)
  IN  /\ CanWrite(c)
      /\ ~ UpdateConflict(os, row, t)
      /\ \E old \in Rows(os, row, t, act) :
           LET before  == Entries(c, old.value, k)
               after   == Entries(c, v, k)
               updated == PageUpdate(os, row, t) \cup {NewObject(row, t, v)}
               written == AddEntries(ExpireEntries(updated, before, t, act), after, t)
           IN  /\ old.value # v
               /\ ~ ExpireConflict(os, Visibles(os, before, t, act), t)
               /\ \A e \in after : ~ UpdateConflict(os, e, t)
               /\ KeepsUnique(c, written, v, k)
               /\ EndStatement(c, written, Remembered(c))
      /\ UNCHANGED <<index_id, waiting>>

(* DELETE: delete_row, delete_index_entries. *)
Delete(c, k) ==
  LET os  == Opened(c)
      t   == TidOf(c)
      act == ActiveIn(c)
      row == RowKey(k)
  IN  /\ CanWrite(c)
      /\ ~ DeleteConflict(os, row, t, act)
      /\ \E old \in Rows(os, row, t, act) :
           LET before == Entries(c, old.value, k)
           IN  /\ ~ ExpireConflict(os, Visibles(os, before, t, act), t)
               /\ EndStatement(c, ExpireEntries(SetXid(os, {old}, t), before, t, act),
                               Remembered(c))
      /\ UNCHANGED <<index_id, waiting>>

-----------------------------------------------------------------------------
(* CREATE INDEX and DROP INDEX. *)

BugIgnoresRows(os, current, act) ==
  \E o \in os : IsDefinition(o) /\ Concurrent(o, current, act)

BugIgnoresDefinitions(os, current, act) ==
  \E o \in os : IsRow(o) /\ Concurrent(o, current, act)

(* has_concurrent_changes *)
HasConcurrentChanges(os, current, act) ==
  \E o \in os : (IsRow(o) \/ IsDefinition(o)) /\ Concurrent(o, current, act)

VisibleRows(os, current, act) == {o \in os : IsRow(o) /\ Visible(o, current, act)}

(* The 23505 of create_index. *)
HasDuplicates(rows) ==
  index_id + 1 \in Unique /\ \E o, p \in rows : o # p /\ o.value = p.value

(* create_index: the definition, and an entry for each row. *)
Build(c) ==
  LET os   == Opened(c)
      t    == TidOf(c)
      act  == ActiveIn(c)
      i    == index_id + 1
      rows == VisibleRows(os, t, act)
  IN  /\ HasTid(c) /\ i <= MaxIndex /\ Indexes(c) = {}
      /\ ~ HasConcurrentChanges(os, t, act)
      /\ ~ HasDuplicates(rows)
      /\ EndStatement(c, os \cup {NewObject(DefinitionKey(i), t, Nothing)}
                          \cup {NewObject(EntryKey(i, o.value, o.key[2]), t, Nothing) :
                                  o \in rows},
                      [version |-> VersionIn(c) + 1, indexes |-> Indexes(c) \cup {i}])
      /\ index_id' = i
      /\ waiting' = [waiting EXCEPT ![c] = 0]

BugWaitsForever(n) == n + 1

BugNeverGivesUp(n) == IF n < Timeout THEN n + 1 ELSE n

(* 55P03 after create_index_timeout, else sleep and try again. *)
NextAttempt(n) == IF n >= Timeout THEN 0 ELSE n + 1

Wait(c) ==
  /\ HasTid(c) /\ index_id < MaxIndex /\ Indexes(c) = {}
  /\ HasConcurrentChanges(Opened(c), TidOf(c), ActiveIn(c))
  /\ Discard(c)
  /\ waiting' = [waiting EXCEPT ![c] = NextAttempt(@)]

(* 42P07, 23505, or no transaction ID (as at the bounds of the model). *)
Refuse(c) ==
  /\ \/ ~ HasTid(c) \/ index_id = MaxIndex \/ Indexes(c) # {}
     \/ /\ ~ HasConcurrentChanges(Opened(c), TidOf(c), ActiveIn(c))
        /\ HasDuplicates(VisibleRows(Opened(c), TidOf(c), ActiveIn(c)))
  /\ Discard(c)
  /\ waiting' = [waiting EXCEPT ![c] = 0]

Attempt(c) == Build(c) \/ Wait(c) \/ Refuse(c)

CreateIndex(c) == Ready(c) /\ Attempt(c)

(* The loop of CREATE INDEX, after its sleep. *)
TryAgain(c) == waiting[c] > 0 /\ Attempt(c)

(* DROP INDEX: delete_index. *)
DropIndex(c) ==
  LET os  == Opened(c)
      t   == TidOf(c)
      act == ActiveIn(c)
      ix  == Indexes(c)
      expired == {o \in os : IsDefinition(o) /\ o.key[2] \in ix /\ Visible(o, t, act)}
                 \cup {o \in os : IsEntry(o) /\ o.key[2] \in ix /\ Visible(o, t, act)}
  IN  /\ Ready(c) /\ HasTid(c) /\ ix # {}
      /\ ~ ExpireConflict(os, expired, t)
      /\ EndStatement(c, SetXid(os, expired, t),
                      [version |-> VersionIn(c) + 1, indexes |-> {}])
      /\ UNCHANGED <<index_id, waiting>>

-----------------------------------------------------------------------------
(* Transactions and connections. *)

(* START TRANSACTION *)
StartTransaction(c) ==
  /\ Ready(c) /\ txn[c] = 0 /\ HasTid(c)
  /\ objects' = Opened(c)
  /\ active' = ActiveIn(c)
  /\ transaction_id' = TidOf(c)
  /\ schema_version' = VersionIn(c)
  /\ cache' = [cache EXCEPT ![c] = Remembered(c)]
  /\ txn' = [txn EXCEPT ![c] = TidOf(c)]
  /\ UNCHANGED <<index_id, session, waiting, damaged, ahead>>

(* A definition that the transaction created or expired is on its pages.   *)
ChangedSchema(c) ==
  \E o \in Opened(c) : IsDefinition(o) /\ txn[c] \in {o.tid, o.xid}

BugKeepsVersion(c) == VersionIn(c)

(* "They must reload it now that the changes are committed"                *)
VersionAfter(c) == IF ChangedSchema(c) THEN VersionIn(c) + 1 ELSE VersionIn(c)

EndTransaction(c, os, indexes) ==
  /\ objects' = os
  /\ active' = Live(c) \ {txn[c]}
  /\ schema_version' = VersionAfter(c)
  /\ cache' = [cache EXCEPT ![c] = [version |-> VersionAfter(c), indexes |-> indexes]]
  /\ txn' = [txn EXCEPT ![c] = 0]
  /\ UNCHANGED <<transaction_id, index_id, session, waiting, ahead>>

(* Page.delete of an expired row removes each version with its tid, so the *)
(* row is lost if the transaction inserted it again (see Mvcc).            *)
Lost(c) ==
  {k \in Key : \E o, p \in Opened(c) :
     /\ o.key = RowKey(k) /\ p.key = RowKey(k)
     /\ o.tid = txn[c] /\ p.tid = txn[c] /\ o.xid = txn[c] /\ p.xid = 0}

(* COMMIT: commit_transaction. *)
Commit(c) ==
  /\ Ready(c) /\ txn[c] # 0
  /\ EndTransaction(c, RemoveExpired(Opened(c), txn[c]), Indexes(c))
  /\ damaged' = damaged \cup Lost(c)

(* ROLLBACK: rollback_transaction, by the client or after a class 40 error *)
(* (of a statement that did Fail). It reloads the definitions.             *)
Rollback(c) ==
  LET os == Undo(Opened(c), {txn[c]})
  IN  /\ Ready(c) /\ txn[c] # 0
      /\ EndTransaction(c, os,
           IF ChangedSchema(c) THEN Definitions(os, 0, Live(c) \ {txn[c]}) ELSE Indexes(c))
      /\ UNCHANGED damaged

(* Any statement that writes fails, for any reason. *)
Fail(c) ==
  /\ Ready(c)
  /\ Discard(c)
  /\ UNCHANGED waiting

(* A statement that only reads opens the file without recovering it. *)
Read(c) ==
  /\ Ready(c)
  /\ cache' = [cache EXCEPT ![c] = Loaded(c, objects, active, schema_version)]
  /\ UNCHANGED <<header, objects, session, txn, waiting, damaged, ahead>>

(* What a new connection remembers: nothing, as of a file without tables. *)
NoSchema == [version |-> 0, indexes |-> {}]

(* open_connection *)
Open(c) ==
  /\ c \notin session
  /\ session' = session \cup {c}
  /\ UNCHANGED <<header, objects, txn, cache, waiting, damaged, ahead>>

(* close, or the process dies, also in the middle of CREATE INDEX. *)
Close(c) ==
  /\ c \in session
  /\ session' = session \ {c}
  /\ txn' = [txn EXCEPT ![c] = 0]
  /\ cache' = [cache EXCEPT ![c] = NoSchema]
  /\ waiting' = [waiting EXCEPT ![c] = 0]
  /\ UNCHANGED <<header, objects, damaged, ahead>>

-----------------------------------------------------------------------------
(* A table with some rows, and perhaps an index. *)
Init ==
  /\ transaction_id = FirstTid
  /\ active = {}
  /\ schema_version = 1
  /\ index_id \in Indexed
  /\ \E f \in Initial :
       /\ \A i \in Unique \cap 1 .. index_id, j, k \in DOMAIN f : f[j] = f[k] => j = k
       /\ objects =
            {NewObject(RowKey(k), FirstTid, f[k]) : k \in DOMAIN f}
              \cup {NewObject(DefinitionKey(i), FirstTid, Nothing) : i \in 1 .. index_id}
              \cup {NewObject(EntryKey(i, f[k], k), FirstTid, Nothing) :
                       i \in 1 .. index_id, k \in DOMAIN f}
  /\ session = {}
  /\ txn = [c \in Conn |-> 0]
  /\ cache = [c \in Conn |-> NoSchema]
  /\ waiting = [c \in Conn |-> 0]
  /\ damaged = {}
  /\ ahead = FALSE

Next ==
  \E c \in Conn :
    \/ \E k \in Key, v \in Value : Insert(c, k, v)
    \/ \E k \in Key, v \in Value : Update(c, k, v)
    \/ \E k \in Key : Delete(c, k)
    \/ CreateIndex(c)
    \/ TryAgain(c)
    \/ DropIndex(c)
    \/ StartTransaction(c)
    \/ Commit(c)
    \/ Rollback(c)
    \/ Fail(c)
    \/ Read(c)
    \/ Open(c)
    \/ Close(c)

Spec == Init /\ [][Next]_vars

(* CREATE INDEX that waits sleeps for 10 ms at a time, and the file is     *)
(* never locked for longer than a statement takes: it does try again.      *)
FairSpec == Spec /\ \A c \in Conn : WF_vars(TryAgain(c))

-----------------------------------------------------------------------------
(* Properties. *)

(* The type of every variable; IDs are never ahead of the header.          *)
TypeOK ==
  /\ transaction_id \in Nat /\ FirstTid <= transaction_id
  /\ active \subseteq FirstTid + 1 .. transaction_id
  /\ schema_version \in Nat \ {0}
  /\ index_id \in 0 .. MaxIndex
  /\ objects \subseteq [key : ObjectKey, tid : FirstTid .. transaction_id,
                        xid : 0 .. transaction_id, value : Value \cup {Nothing}]
  /\ \A o \in objects : IF IsRow(o) THEN o.value \in Value ELSE o.key[2] <= index_id
  /\ session \subseteq Conn
  /\ txn \in [Conn -> {0} \cup FirstTid + 1 .. transaction_id]
  /\ cache \in [Conn -> [version : Nat, indexes : SUBSET (1 .. index_id)]]
  /\ waiting \in [Conn -> 0 .. Timeout]
  /\ damaged \subseteq Key
  /\ ahead \in BOOLEAN

(* The views of the file: that of each open transaction and that of a      *)
(* statement outside of one.                                               *)
Views == {txn[c] : c \in session} \cup {0}

(* check_indexes: "an index ... doesn't have exactly one entry for each    *)
(* row that's visible, with the values of the row" (index.v:608), in the   *)
(* view of each transaction, whatever others have created, dropped or      *)
(* written in between.                                                     *)
IndexMatches(current, i) ==
  LET entries == {o \in objects : IsEntry(o) /\ o.key[2] = i /\ Visible(o, current, active)}
      rows    == VisibleRows(objects, current, active)
      sound   == Key \ damaged
  IN  /\ {<<o.key[3], o.key[4]>> : o \in {e \in entries : e.key[4] \in sound}}
           = {<<o.value, o.key[2]>> : o \in {r \in rows : r.key[2] \in sound}}
      /\ \A o, p \in entries : o.key = p.key /\ o.key[4] \in sound => o = p

EveryIndexMatches ==
  \A current \in Views : \A i \in Definitions(objects, current, active) :
    IndexMatches(current, i)

IndexIsExact == ~ ahead => EveryIndexMatches

(* A connection that finds the schema_version it remembers works with the  *)
(* definitions of its own view (storage.v:206), after every COMMIT,        *)
(* ROLLBACK, crash and recovery of another one.                            *)
CacheIsFresh ==
  ~ ahead =>
    \A c \in session :
      cache[c].version = schema_version =>
        cache[c].indexes = Definitions(objects, txn[c], active)

(* The name of an index is unique in every view (42P07, and the wait for   *)
(* definitions that aren't visible yet): table_indexes has one for it.     *)
OneIndex ==
  ~ ahead => \A current \in Views : Cardinality(Definitions(objects, current, active)) <= 1

(* No two rows that a transaction sees have the same values in a UNIQUE    *)
(* index that it sees (has_duplicate_entry, create_index).                 *)
UniqueHolds ==
  ~ ahead =>
    \A current \in Views : \A i \in Definitions(objects, current, active) \cap Unique :
      \A o, p \in VisibleRows(objects, current, active) :
        o.value = p.value /\ {o.key[2], p.key[2]} \cap damaged = {} => o.key = p.key

(* CREATE INDEX ends, whatever the transactions that it waits for do, also *)
(* if they wait for it (the 55P03 of CreateIndexStatement.execute).        *)
CreateIndexEnds == \A c \in Conn : waiting[c] > 0 ~> waiting[c] = 0
=============================================================================
