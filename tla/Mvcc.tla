-------------------------------- MODULE Mvcc --------------------------------
(***************************************************************************)
(* Transactions on one database file: the objects of the B-tree with their *)
(* tid and xid, the active transaction IDs of the header, the session      *)
(* locks, and what each connection remembers of its transaction            *)
(* (src/vsql/mvcc.v, storage.v, page.v, btree.v and the transaction and    *)
(* data change statements).                                                *)
(*                                                                         *)
(* A statement that writes holds the exclusive file lock from              *)
(* open_write_connection to finish_write, and its pages reach the file     *)
(* together, so it is one action. A statement that fails without a class   *)
(* 40 error is discarded whole: it is a stuttering step. A statement on    *)
(* several rows does the same to each. Outside of a transaction, the code  *)
(* gives each operation of a statement an ID of its own, which is removed  *)
(* from the header again before the file is unlocked: the model uses one.  *)
(* A key stands for any object key (a row, an index entry, a definition);  *)
(* `leaf' is the leaf page that search_page returns for it. Three objects  *)
(* fit on a page, so that a full page is divided into two, never three.    *)
(***************************************************************************)
EXTENDS Integers, FiniteSets, Versions

CONSTANTS
  Conn,         \* connections
  Key,          \* object keys, in the order of compare_bytes
  Value,        \* values of a row
  Slots,        \* slots of TransactionIDs.tids (256 in the code)
  MaxTid,       \* bound: the last transaction ID that is issued
  MaxPage       \* bound: the leaf pages the B-tree may grow to

ASSUME MvccAssumption ==
  /\ Key \subseteq Int
  /\ Slots \in Nat /\ MaxTid \in Nat /\ MaxPage \in Nat

VARIABLES
  transaction_id,     \* header.transaction_id, the last ID issued
  active,             \* header.active_transaction_ids
  objects,            \* the objects of the B-tree, all their versions
  leaf,               \* leaf[k]: the leaf page where search_page(k) ends
  total_pages,        \* leaf pages appended so far
  session,            \* connections that hold the session lock
  txn,                \* storage.transaction_id of an explicit transaction, or 0
  transaction_pages,  \* storage.transaction_pages of each connection
  doomed,             \* connections between a class 40 error and its ROLLBACK
  damaged             \* history: keys whose versions went wrong

file == <<transaction_id, active, objects, leaf, total_pages>>
vars == <<file, session, txn, transaction_pages, doomed, damaged>>

(* Statements leave damaged keys alone from then on: what the code does    *)
(* with such a key depends on which page each version is.                  *)
Sound == Key \ damaged

(* new_header starts at 2: 0 is "not set" and 1 is reserved. *)
FirstTid == 2

(* The IDs that transactions get. *)
Tid == FirstTid + 1 .. MaxTid

(* The definitions named Bug... are mutations of the one that follows; no  *)
(* action uses them. They show that the properties can be violated.        *)

-----------------------------------------------------------------------------
(* The end of a transaction, on the pages it remembers. *)

(* isolation_end and COMMIT: remove what the transaction expired, on the   *)
(* pages it remembers.                                                     *)
RemoveExpired(os, lf, t, pages) ==
  PageDelete(os, {o \in os : o.xid = t /\ lf[o.key] \in pages})

BugKeepsExpiry(os, lf, tids, pages) ==
  PageDelete(os, {o \in os : lf[o.key] \in pages /\ o.tid \in tids})

(* ROLLBACK and recover: remove what the transactions created and make     *)
(* what they expired visible again.                                        *)
Undo(os, lf, tids, pages) ==
  LET here == {o \in os : lf[o.key] \in pages}
      kept == PageDelete(os, {o \in here : o.tid \in tids})
  IN  SetXid(kept, {o \in here \cap kept : o.xid \in tids}, 0)

-----------------------------------------------------------------------------
(* The leaf page of a key, and the split of a full page by Btree.add. The  *)
(* sizes of the objects are abstracted: a page may or may not have room.   *)

(* A page is divided before a key h at or after the new key (the objects   *)
(* before it fitted), and there must be an object on the left.             *)
SplitKeys(os, k) ==
  LET there == {o.key : o \in {p \in os : leaf[p.key] = leaf[k]}} \cup {k}
  IN  {h \in there : h >= k /\ \E j \in there : j < h}

SplitAt(k, h) ==
  [j \in Key |-> IF leaf[j] = leaf[k] /\ j >= h THEN total_pages + 1 ELSE leaf[j]]

(* The page of each key after adding an object with key k to os. *)
Layouts(os, k) ==
  {leaf} \cup IF total_pages < MaxPage
              THEN {SplitAt(k, h) : h \in SplitKeys(os, k)}
              ELSE {}

(* The pages an operation on the keys ks stored or appended. *)
Written(lf, ks) ==
  {leaf[k] : k \in ks} \cup ({lf[k] : k \in Key} \ 1 .. total_pages)

SetLeaf(lf) ==
  /\ leaf' = lf
  /\ total_pages' = IF lf = leaf THEN total_pages ELSE total_pages + 1

-----------------------------------------------------------------------------
(* Opening the file for writing. A connection that is the only one with    *)
(* the session lock rolls back the transactions that are not its own.      *)

BugRecoversAlways(c) == active \ {txn[c]}

Dead(c) == IF session = {c} THEN active \ {txn[c]} ELSE {}

Live(c) == active \ Dead(c)

Opened(c) == Undo(objects, leaf, Dead(c), 1 .. total_pages)

(* isolation_start: the explicit transaction, or a new implicit one. *)
HasTid(c) ==
  \/ txn[c] # 0
  \/ txn[c] = 0 /\ transaction_id < MaxTid /\ Cardinality(Live(c)) < Slots

TidOf(c) == IF txn[c] # 0 THEN txn[c] ELSE transaction_id + 1

ActiveIn(c) == Live(c) \cup {TidOf(c)}

(* A connection that can start a statement. *)
Ready(c) == c \in session /\ c \notin doomed

(* isolation_end: an explicit transaction keeps its pages for COMMIT or    *)
(* ROLLBACK, an implicit one ends.                                         *)
IsolationEnd(c, os, lf, written) ==
  /\ SetLeaf(lf)
  /\ IF txn[c] # 0
     THEN /\ objects' = os
          /\ transaction_pages' = [transaction_pages EXCEPT ![c] = @ \cup written]
          /\ UNCHANGED transaction_id
     ELSE /\ objects' = RemoveExpired(os, lf, TidOf(c), written)
          /\ transaction_id' = TidOf(c)
          /\ UNCHANGED transaction_pages
  /\ active' = Live(c)
  /\ UNCHANGED <<session, txn, doomed>>

EndStatement(c, os, lf, written) ==
  /\ IsolationEnd(c, os, lf, written)
  /\ UNCHANGED damaged

-----------------------------------------------------------------------------
(* The statements. *)

(* INSERT of one row: write_row. *)
Insert(c, k, v) ==
  LET os == Opened(c)
  IN  /\ Ready(c) /\ HasTid(c) /\ k \in Sound
      /\ CanInsert(os, k, TidOf(c), ActiveIn(c))
      /\ \E lf \in Layouts(os, k) :
           EndStatement(c, os \cup {[key |-> k, tid |-> TidOf(c), xid |-> 0, value |-> v]},
                        lf, Written(lf, {k}))

(* UPDATE of a row that keeps its key: update_row. A row that doesn't      *)
(* change isn't written.                                                   *)
Update(c, k, v) ==
  LET os == Opened(c)
  IN  /\ Ready(c) /\ HasTid(c) /\ k \in Sound
      /\ \E o \in Rows(os, k, TidOf(c), ActiveIn(c)) : o.value # v
      /\ ~ UpdateConflict(os, k, TidOf(c))
      /\ \E lf \in Layouts(PageUpdate(os, k, TidOf(c)), k) :
           EndStatement(c, PageUpdate(os, k, TidOf(c)) \cup
                             {[key |-> k, tid |-> TidOf(c), xid |-> 0, value |-> v]},
                        lf, Written(lf, {k}))

(* DELETE of the row of a key: delete_row. *)
Delete(c, k) ==
  LET os   == Opened(c)
      rows == Rows(os, k, TidOf(c), ActiveIn(c))
  IN  /\ Ready(c) /\ HasTid(c) /\ k \in Sound
      /\ rows # {}
      /\ ~ DeleteConflict(os, k, TidOf(c), ActiveIn(c))
      /\ EndStatement(c, SetXid(os, rows, TidOf(c)), leaf, {leaf[k]})

(* UPDATE that gives a row another PRIMARY KEY: it's deleted, then written *)
(* again. Either failing discards both.                                    *)
Move(c, k, j, v) ==
  LET os   == Opened(c)
      rows == Rows(os, k, TidOf(c), ActiveIn(c))
      kept == SetXid(os, rows, TidOf(c))
  IN  /\ Ready(c) /\ HasTid(c) /\ {k, j} \subseteq Sound
      /\ k # j /\ \E o \in rows : rows = {o}
      /\ ~ DeleteConflict(os, k, TidOf(c), ActiveIn(c))
      /\ CanInsert(kept, j, TidOf(c), ActiveIn(c))
      /\ \E lf \in Layouts(kept, j) :
           EndStatement(c, kept \cup {[key |-> j, tid |-> TidOf(c), xid |-> 0, value |-> v]},
                        lf, Written(lf, {k, j}))

(* Page.add counts the versions of its page only. When the page is full,   *)
(* split_page adds the objects to two pages; divided between the two other *)
(* versions, each page gets less than three and nothing is refused. (The   *)
(* new version stays on the left page. The model keeps it with its key:    *)
(* nothing looks for it before its transaction ends, which has both pages.)*)
AddThird(c, kept, written, k, v) ==
  LET lf == SplitAt(k, k)
  IN  /\ HasTwoVersions(kept, k)
      /\ total_pages < MaxPage /\ k \in SplitKeys(kept, k)
      /\ IsolationEnd(c, kept \cup {[key |-> k, tid |-> TidOf(c), xid |-> 0, value |-> v]},
                      lf, Written(lf, written))
      /\ damaged' = damaged \cup {k}

(* The INSERT, the UPDATE and the UPDATE of the PRIMARY KEY j that do so.  *)
ThirdVersion(c, k, v) ==
  LET os      == Opened(c)
      t       == TidOf(c)
      act     == ActiveIn(c)
      New(on) == ~ Contended(on, k, t, act) /\ ~ Duplicate(on, k, t, act)
  IN  /\ Ready(c) /\ HasTid(c) /\ k \in Sound
      /\ \/ New(os) /\ AddThird(c, os, {k}, k, v)
         \/ /\ \E o \in Rows(os, k, t, act) : o.value # v
            /\ AddThird(c, PageUpdate(os, k, t), {k}, k, v)
         \/ \E j \in Sound \ {k} :
              LET kept == SetXid(os, Rows(os, j, t, act), t)
              IN  /\ \E o \in os : Rows(os, j, t, act) = {o}
                  /\ ~ DeleteConflict(os, j, t, act)
                  /\ New(kept) /\ AddThird(c, kept, {k, j}, k, v)

(* A statement of an explicit transaction fails with 40001: it's discarded *)
(* and PreparedStmt.fail goes on to roll the transaction back. (Outside of *)
(* a transaction there is nothing to roll back.)                           *)
Conflict(c) ==
  /\ Ready(c) /\ txn[c] # 0
  /\ \E k \in Sound :
       \/ InsertConflict(Opened(c), k, TidOf(c), ActiveIn(c))
       \/ /\ Rows(Opened(c), k, TidOf(c), ActiveIn(c)) # {}
          /\ \/ UpdateConflict(Opened(c), k, TidOf(c))
             \/ DeleteConflict(Opened(c), k, TidOf(c), ActiveIn(c))
  /\ doomed' = doomed \cup {c}
  /\ UNCHANGED <<file, session, txn, transaction_pages, damaged>>

BugHeaderNotSaved(c) ==
  /\ Ready(c) /\ txn[c] = 0 /\ HasTid(c)
  /\ objects' = Opened(c)
  /\ active' = ActiveIn(c)
  /\ txn' = [txn EXCEPT ![c] = TidOf(c)]
  /\ transaction_pages' = [transaction_pages EXCEPT ![c] = {}]
  /\ UNCHANGED <<transaction_id, leaf, total_pages, session, doomed, damaged>>

(* START TRANSACTION, or 0B000 (a stuttering step) when no slot is free. *)
StartTransaction(c) ==
  /\ Ready(c) /\ txn[c] = 0 /\ HasTid(c)
  /\ objects' = Opened(c)
  /\ active' = ActiveIn(c)
  /\ transaction_id' = TidOf(c)
  /\ txn' = [txn EXCEPT ![c] = TidOf(c)]
  /\ transaction_pages' = [transaction_pages EXCEPT ![c] = {}]
  /\ UNCHANGED <<leaf, total_pages, session, doomed, damaged>>

(* The keys whose objects differ from what the end of a transaction should *)
(* have left.                                                              *)
Differ(os, intended) ==
  {k \in Key : {o \in os : o.key = k} # {o \in intended : o.key = k}}

EndTransaction(c, os, intended) ==
  /\ objects' = os
  /\ active' = Live(c) \ {txn[c]}
  /\ txn' = [txn EXCEPT ![c] = 0]
  /\ transaction_pages' = [transaction_pages EXCEPT ![c] = {}]
  /\ damaged' = damaged \cup Differ(os, intended)
  /\ UNCHANGED <<transaction_id, leaf, total_pages, session>>

(* COMMIT: commit_transaction. *)
Commit(c) ==
  /\ Ready(c) /\ txn[c] # 0
  /\ EndTransaction(c, RemoveExpired(Opened(c), leaf, txn[c], transaction_pages[c]),
                    {o \in Opened(c) : o.xid # txn[c]})
  /\ UNCHANGED doomed

(* ROLLBACK: rollback_transaction, by the client or after a 40001. *)
Rollback(c) ==
  /\ c \in session /\ txn[c] # 0
  /\ EndTransaction(c, Undo(Opened(c), leaf, {txn[c]}, transaction_pages[c]),
                    Undo(Opened(c), leaf, {txn[c]}, 1 .. total_pages))
  /\ doomed' = doomed \ {c}

(* The ROLLBACK after a 40001 fails (such as with an I/O error): the       *)
(* client is told that the transaction is still active.                    *)
RollbackFails(c) ==
  /\ c \in doomed
  /\ doomed' = doomed \ {c}
  /\ UNCHANGED <<file, session, txn, transaction_pages, damaged>>

(* open_connection: add_catalog takes the session lock. *)
Open(c) ==
  /\ c \notin session
  /\ session' = session \cup {c}
  /\ UNCHANGED <<file, txn, transaction_pages, doomed, damaged>>

(* close, or the process dies: the lock is released and a transaction is   *)
(* left in the header.                                                     *)
Close(c) ==
  /\ c \in session
  /\ session' = session \ {c}
  /\ txn' = [txn EXCEPT ![c] = 0]
  /\ transaction_pages' = [transaction_pages EXCEPT ![c] = {}]
  /\ doomed' = doomed \ {c}
  /\ UNCHANGED <<file, damaged>>

-----------------------------------------------------------------------------
Init ==
  /\ transaction_id = FirstTid
  /\ active = {}
  /\ objects = {}
  /\ leaf = [k \in Key |-> 1]
  /\ total_pages = 1
  /\ session = {}
  /\ txn = [c \in Conn |-> 0]
  /\ transaction_pages = [c \in Conn |-> {}]
  /\ doomed = {}
  /\ damaged = {}

Next ==
  \E c \in Conn :
    \/ \E k \in Key, v \in Value : Insert(c, k, v)
    \/ \E k \in Key, v \in Value : Update(c, k, v)
    \/ \E k \in Key : Delete(c, k)
    \/ \E k, j \in Key, v \in Value : Move(c, k, j, v)
    \/ \E k \in Key, v \in Value : ThirdVersion(c, k, v)
    \/ Conflict(c)
    \/ StartTransaction(c)
    \/ Commit(c)
    \/ Rollback(c)
    \/ RollbackFails(c)
    \/ Open(c)
    \/ Close(c)

Spec == Init /\ [][Next]_vars

-----------------------------------------------------------------------------
(* Properties. *)

(* The type of every variable; IDs are never ahead of the header.          *)
TypeOK ==
  /\ transaction_id \in Nat
  /\ active \subseteq 1 .. transaction_id
  /\ objects \subseteq [key : Key, tid : 1 .. transaction_id,
                        xid : 0 .. transaction_id, value : Value]
  /\ leaf \in [Key -> 1 .. total_pages]
  /\ total_pages \in Nat
  /\ session \subseteq Conn
  /\ txn \in [Conn -> 0 .. transaction_id]
  /\ transaction_pages \in [Conn -> SUBSET (1 .. total_pages)]
  /\ doomed \subseteq Conn
  /\ damaged \subseteq Key

(* No connection's transaction is rolled back by the recovery of another   *)
(* one (storage.v open, recover): while it holds the session lock its ID   *)
(* stays in the header, and no other connection has the same ID.           *)
LiveTransactions ==
  \A c \in Conn :
    txn[c] # 0 => /\ c \in session
                  /\ txn[c] \in active
                  /\ \A d \in Conn : txn[d] = txn[c] => d = c

(* An object is expired by a transaction that is still active: COMMIT,     *)
(* ROLLBACK, isolation_end and recover leave no xid behind.                *)
ExpiryHeld ==
  \A o \in objects : o.key \in Sound /\ o.xid # 0 => o.xid \in active

(* What a transaction created can only be expired by the same transaction  *)
(* until it ends (Page.expire's reason for its 40001).                     *)
OwnExpiry ==
  \A o \in objects :
    o.key \in Sound /\ o.xid # 0 /\ o.tid \in active => o.xid = o.tid

(* The comment of Page.add: of two versions of a key, one is in flight for *)
(* a transaction, which expired the other one.                             *)
TwoVersions ==
  \A o, p \in objects :
    o # p /\ o.key = p.key /\ o.key \in Sound =>
      \E t \in active : (o.xid = t /\ p.tid = t) \/ (p.xid = t /\ o.tid = t)

(* The versions a page keeps of a key have the structure that Page.add,    *)
(* Page.update and Page.expire rely on, through every end of a transaction *)
(* and every recovery.                                                     *)
VersionStructure == ExpiryHeld /\ OwnExpiry /\ TwoVersions

(* No reader ever finds two rows with one key, whether it's a transaction  *)
(* that is active or a reader outside of one, whose ID is 0                *)
(* (check_primary_key, Page.update, object_is_visible).                    *)
UniqueRows ==
  \A current \in active \cup {0}, o, p \in objects :
    o.key = p.key /\ o.key \in Sound
      /\ Visible(o, current, active) /\ Visible(p, current, active) => o = p

(* "Two transactions can't change the same row at the same time"           *)
(* (docs/transactions.rst:17-18).                                          *)
Holders(k) ==
  {t \in active : \E o \in objects : o.key = k /\ (o.tid = t \/ o.xid = t)}

OneHolder ==
  \A k \in Sound : \A t, u \in Holders(k) : t = u

(* The same of every row: "We should not let any other transactions create *)
(* a new version" (page.v:214, Page.add). See ThirdVersion.                *)
OneHolderAlways ==
  \A k \in Key : \A t, u \in Holders(k) : t = u

(* A transaction has expired a version of a key that it created itself.    *)
Replaced(os, k, current) == \E o \in os : o.key = k /\ o.tid = current /\ o.xid = current

(* A write is refused exactly when it should be. With a row to change,     *)
(* UPDATE and DELETE get a 40001 if another active transaction has written *)
(* the key, and only then (Page.expire and Page.add find out from the      *)
(* versions alone); so does INSERT, unless the transaction has expired a   *)
(* version of its own. Without contention, 23505 means that the            *)
(* transaction can see a row with the key. (Where a split keeps Page.add   *)
(* from seeing all of the versions, see ThirdVersion.)                     *)
ConflictAt(os, k, current, act) ==
  LET contended == Contended(os, k, current, act)
      found     == Rows(os, k, current, act) # {}
  IN  /\ found => (UpdateConflict(os, k, current) <=> contended)
      /\ found => (DeleteConflict(os, k, current, act) <=> contended)
      /\ ~ Replaced(os, k, current) => (InsertConflict(os, k, current, act) <=> contended)
      /\ ~ contended => (Duplicate(os, k, current, act) <=> found)

ConflictExact ==
  \A c \in Conn, k \in Sound : ConflictAt(Opened(c), k, TidOf(c), ActiveIn(c))

(* Committed rows change only when a transaction that held the key commits *)
(* or an implicit transaction writes it: what readers outside of           *)
(* transactions find survives every ROLLBACK, conflict, crash, recovery    *)
(* and statement of a transaction that is still active.                    *)
Committed(k) == {o.value : o \in Rows(objects, k, 0, active)}

CommittedChange ==
  \A k \in Sound' :
    Committed(k)' # Committed(k) =>
      \/ \E c \in Conn : Commit(c) /\ txn[c] \in Holders(k)
      \/ /\ transaction_id' # transaction_id
         /\ transaction_id' \notin active'

CommittedStable == [][CommittedChange]_vars

(* What the transaction of a connection wrote at a key is on the pages     *)
(* that COMMIT and ROLLBACK visit again (storage.v:48-50).                 *)
Remembered(c, k) ==
  \A o \in objects :
    o.key = k /\ txn[c] \in {o.tid, o.xid} => leaf[k] \in transaction_pages[c]

(* The transaction of a connection has one version of its own of a key, as *)
(* Page.update ensures ("Otherwise, there would be two versions with the   *)
(* same tid, and removing the expired one would remove both").             *)
OneVersion(c, k) == \A o, p \in Own(objects, k, txn[c]) : o = p

View(k, current) == {o.value : o \in Rows(objects, k, current, active)}

Publishes(c, k) == Committed(k)' = View(k, txn[c])

Undoes(c, k) ==
  /\ Committed(k)' = Committed(k)
  /\ \A o \in objects' : o.key = k => txn[c] \notin {o.tid, o.xid}

(* COMMIT publishes exactly what the transaction saw, no more and no less, *)
(* whatever happened to the file since its statements: other connections'  *)
(* splits, commits, conflicts and recoveries.                              *)
CommitExact ==
  [][\A c \in Conn, k \in Sound :
       Commit(c) /\ Remembered(c, k) /\ OneVersion(c, k) => Publishes(c, k)]_vars

(* ROLLBACK leaves nothing of the transaction, and the committed rows as   *)
(* they were (rollback_transaction).                                       *)
RollbackExact ==
  [][\A c \in Conn, k \in Sound :
       Rollback(c) /\ Remembered(c, k) => Undoes(c, k)]_vars

(* "40001 occurs if concurrent transactions attempt to change (or delete)  *)
(* the same row" (docs/sqlstate.rst:604): a transaction that is rolled     *)
(* back for it was in the way of another one.                              *)
ConflictMeansContention ==
  [][\A c \in Conn :
       Conflict(c) => \E k \in Key : Contended(Opened(c), k, txn[c], ActiveIn(c))]_vars

(* What the code says of COMMIT and ROLLBACK without those conditions:     *)
(* "Only remove the now expired records"                                   *)
(* (std_2_17_7_commit_statement.v:75); "discard all transaction changes"   *)
(* (docs/rollback.rst:4).                                                  *)
CommitPublishes ==
  [][\A c \in Conn, k \in Sound : Commit(c) => Publishes(c, k)]_vars

RollbackUndoes ==
  [][\A c \in Conn, k \in Sound : Rollback(c) => Undoes(c, k)]_vars
=============================================================================
