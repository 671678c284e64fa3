------------------------------ MODULE Versions ------------------------------
(***************************************************************************)
(* The versions of an object: who sees one (src/vsql/mvcc.v), what a page  *)
(* does with the versions of a key (page.v), and what decides whether a    *)
(* write of a key is refused (storage.v, btree.v, check_primary_key).      *)
(*                                                                         *)
(* An object is a record with a key, the tid that created it, the xid that *)
(* expired it (0 for none) and a value. A key stands for any object key: a *)
(* row, an index entry or a definition. `os' is the objects of the file,   *)
(* `current' the transaction ID of the reader (0 for none) and `act' the   *)
(* active transaction IDs of the header.                                   *)
(*                                                                         *)
(* The definitions named Bug... are mutations of the one that follows; no  *)
(* action uses them. They show that the properties can be violated.        *)
(***************************************************************************)
EXTENDS Integers, FiniteSets

-----------------------------------------------------------------------------
(* Visibility and conflicts. *)

BugReadsOwnExpired(o, current, act) ==
  /\ ~ (o.tid \in act /\ o.tid # current)
  /\ ~ (o.xid # 0 /\ o.xid \notin act)

BugReadsUncommitted(o, current, act) ==
  ~ (o.xid # 0 /\ (o.xid \notin act \/ o.xid = current))

(* object_is_visible *)
Visible(o, current, act) ==
  /\ ~ (o.tid \in act /\ o.tid # current)
  /\ ~ (o.xid # 0 /\ (o.xid \notin act \/ o.xid = current))

(* The rows that a reader with this transaction ID finds at a key. *)
Rows(os, k, current, act) == {o \in os : o.key = k /\ Visible(o, current, act)}

BugIgnoresExpiry(o, current, act) == o.tid # current /\ o.tid \in act

(* is_concurrent_write *)
Concurrent(o, current, act) ==
  \/ o.tid # current /\ o.tid \in act
  \/ o.xid # 0 /\ o.xid # current /\ o.xid \in act

(* Page.add refuses a third version of a key. *)
HasTwoVersions(os, k) ==
  \E o, p \in os : o # p /\ o.key = k /\ p.key = k

BugDeletesAllVersions(os, S) == {o \in os : ~ \E e \in S : e.key = o.key}

(* Page.delete removes every object of the page with the key and tid. *)
PageDelete(os, S) == {o \in os : ~ \E e \in S : e.key = o.key /\ e.tid = o.tid}

(* Page.expire sets the xid of every object with the key and tid. *)
SetXid(os, S, x) ==
  {IF \E e \in S : e.key = o.key /\ e.tid = o.tid THEN [o EXCEPT !.xid = x] ELSE o :
     o \in os}

BugExpiresTwice(os, S, current) == FALSE

(* The 40001 of Page.expire, for the objects with the key and tid of S. *)
ExpireConflict(os, S, current) ==
  \E o \in os, e \in S : /\ e.key = o.key /\ e.tid = o.tid
                         /\ o.xid # 0 /\ o.xid # current

BugKeepsOwnVersion(os, k, current) == {}

(* Page.update: a version of the transaction is removed, else the only one *)
(* is expired; the new version is added by Btree.update.                   *)
Own(os, k, current) == {o \in os : o.key = k /\ o.tid = current}

UpdateExpires(os, k, current) ==
  ~ HasTwoVersions(os, k) /\ Own(os, k, current) = {}

PageUpdate(os, k, current) ==
  IF UpdateExpires(os, k, current)
  THEN SetXid(os, {o \in os : o.key = k}, current)
  ELSE PageDelete(os, Own(os, k, current))

-----------------------------------------------------------------------------
(* What decides each write. *)

(* check_primary_key: 40001 while another transaction writes the key, else *)
(* 23505 when a version isn't expired.                                     *)
Contended(os, k, current, act) ==
  \E o \in os : o.key = k /\ Concurrent(o, current, act)

Duplicate(os, k, current, act) ==
  \E o \in os : o.key = k /\ ~ Concurrent(o, current, act) /\ o.xid = 0

CanInsert(os, k, current, act) ==
  /\ ~ Contended(os, k, current, act)
  /\ ~ Duplicate(os, k, current, act)
  /\ ~ HasTwoVersions(os, k)

InsertConflict(os, k, current, act) ==
  \/ Contended(os, k, current, act)
  \/ ~ Duplicate(os, k, current, act) /\ HasTwoVersions(os, k)

(* Page.update and the Page.add that follows it. *)
UpdateConflict(os, k, current) ==
  \/ UpdateExpires(os, k, current)
     /\ ExpireConflict(os, {o \in os : o.key = k}, current)
  \/ HasTwoVersions(PageUpdate(os, k, current), k)

DeleteConflict(os, k, current, act) ==
  ExpireConflict(os, Rows(os, k, current, act), current)
=============================================================================
