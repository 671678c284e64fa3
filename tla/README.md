# A formal model of vsql

TLA+ modules, TLC configurations and TLAPS proofs about vsql, a SQL database in
a single file (`src/vsql`). They are about what is hard to test in it:
connections that interleave, processes that stop, power that fails, and calls
that return an error half way.

## The system

A process opens a database file with one or more connections (`connection.v`).
Each statement opens the file, locks it (shared to read, exclusive to write),
reads the header, works on a B-tree of pages in memory, and at its end writes
the pages that it changed through a write-ahead log, unlocks and closes the
file. Transactions span statements, with two versions of a row at most.

A C program uses vsql through the CLI (`src/libvsql`), or through SQL-client
modules and embedded SQL: vsql compiles those to C, with a run-time system of
its own (the `.c` files of `src/vsql`) that calls the CLI. All modules of a
program share its SQL-connections.

| Component | State it keeps | Operations | Interacts with | Hard to get right | What makes it correct |
|---|---|---|---|---|---|
| Visibility and transaction IDs (`mvcc.v`, `header.v`) | last ID, 256 slots of active IDs (in the file) | add, remove, exists, `object_is_visible` | storage, every reader | order of begin, write, end | one row for each key for every reader; committed rows change at commits only |
| Pages and B-tree (`page.v`, `btree.v`) | objects with key, tid, xid; page pointers | add, update, expire, delete, split, iterate | storage, pager | splits move the objects of others | two versions at most, keys in order, nothing lost |
| Storage (`storage.v`) | header copy, transaction and its pages, statement snapshot, loaded definitions, sequence values | open, recover, isolation blocks, row operations, commit/discard of a statement | B-tree, log, session lock | crash in a transaction, statement failing after a partial change | recovery undoes dead transactions only |
| Transaction statements (`std_2_17_*`) | `transaction_state` | START TRANSACTION, COMMIT, ROLLBACK, SET CONSTRAINTS | storage, all catalogs | other connections change the file in between | COMMIT publishes what the transaction saw, ROLLBACK nothing |
| Data changes (`std_2_14_*`, `std_2_11_7`) | - | INSERT, UPDATE, DELETE, unique checks | storage, indexes | conflicts with versions in flight | no duplicate, no false duplicate, 40001 on contention |
| Write-ahead log (`wal.v`) | log file, state byte | commit, checkpoint, recover, read | storage, file locks | stop, power failure, I/O error between any two calls | acknowledged statements are kept, each whole or not at all |
| Locks (`flock_nix.c.v`, the mutex of `ConnectionOptions`) | lock of the file, session lock | lock, unlock, try alone | connections, the operating system | releasing and taking again | one writer or many readers; "alone" really is alone |
| Connections and statements (`connection.v`, `prepare.v`) | pending write, prepared statement | open, query, fail, finish, close | all of the above | errors in the handling of errors | every path unlocks; a failed statement changes nothing |
| Pager (`pager.v`) | dirty pages, cache ring, root page | fetch, store, append, discard | B-tree, log | state left by a discard | reads see the last write |
| Indexes (`index.v`) | entries as objects, definitions in memory | maintain, create with waiting | storage | rows that are not visible yet | same rows as the table |
| Sequences (`std_2_4_27`) | current value | next, alter | storage | outside of transactions; 64-bit ends | no value twice, none out of range |
| Definitions (`table.v`, `std_2_11_*`) | cached by `schema_version` | create, alter, drop | storage | cache that is stale | a statement uses the definitions it would load |
| Constraints (`std_2_11_8`, `std_2_10_8`) | deferred checks | check, defer, actions | storage, indexes | checked at COMMIT | no violation is committed |
| Cursors (`std_2_14_1`, `_4`, `_5`, `_6`) | position, rows | open, fetch, close, positioned changes | transactions | holdable across COMMIT | a legal state for each operation |

| SQL-client modules (`std_2_13_1`, `std_2_14_1`, `std_2_14_7`, `std_2_20_7`, all `.c`) | list of connections and the current one; for each the module that used it last, `active`, its cursors and prepared statements | connect, set, disconnect; execute, select, start, commit, rollback; open, fetch, close; prepare, deallocate, execute, open dynamic | the CLI, which keeps the same things in its own way | any call may fail half way; modules that don't know of each other; what the agent believes and the CLI knows | no call ends what another module has open; nothing is published but by a COMMIT; what failed leaves nothing behind |
| SQL descriptor areas (`std_2_20_1`, `std_2_20_7`, `.c`) | list of areas, items with untyped DATA; parameters bound to it | allocate, deallocate, get, set, describe, execute/open using, fetch into | prepared statements, the CLI | memory written as one type and read as another, or bound and then freed | what is read is a value of the type it's read as |

The parser, the planner, expressions, values and the other clients (server, command
line, web app, vorm) are sequential or pure. `PROJECT.json` lists all
of the components with what is modelled of each, and the hazards, each at its
line of the source.

## The modules

- `Versions` - the versions of an object: who sees them, what the pages add,
  expire and delete, and the conflicts (operators only).
- `Mvcc` - transactions on one database file.
- `ReadCommitted` - what a client may rely on: a table, and private changes for
  each open transaction. `MvccImplements` maps `Mvcc` to it.
- `MvccProofs` - the invariants of `Mvcc` proved for all values of the constants;
  `MvccViewProofs` - what a step may change of the rows that somebody finds;
  `MvccRefinesProofs` - that `Mvcc` implements `ReadCommitted`.
- `Wal` - the write-ahead log with the locks and the recovery around it.
- `DurableStore` - what the log promises; `Wal` maps to it (`DS`).
- `WalProofs` - that `Wal` keeps that promise, for every value of its constants.
- `Index` - a table with its index: entries, UNIQUE, CREATE INDEX that waits,
  DROP INDEX, and the definitions that connections remember.
- `IndexProofs` - the types of `Index`, and that remembered definitions are fresh;
  `IndexExactProofs` - that entries match rows, UNIQUE holds and a table has one index.
- `SqlAgent` - the run-time system of SQL-client modules over the CLI.
- `SqlAgentProofs` - how far what the agent remembers agrees with the CLI, and that
  modules leave each other's connections, cursors and statements alone.
- `DescriptorArea` - descriptor areas and dynamic parameters of such a module.
- `DescriptorAreaProofs` - that their memory is read as what was written to it, but by
  a target of GET DESCRIPTOR that isn't compared with the item, and that a call changes only the area that it names.
- `MCMvcc`, `MCMvccImplements`, `MCWal`, `MCIndex`, `MCSqlAgent`,
  `MCDescriptorArea` - instances for TLC.

`Mvcc` and `Index` both extend `Versions`; `MvccImplements` composes `Mvcc` with
`ReadCommitted`, and `Wal` instantiates `DurableStore`. `SqlAgent` has the part
of the CLI that it relies on in itself, since the CLI has no other client here.

### Mvcc

| Variable | In the code |
|---|---|
| `transaction_id`, `active` | `header.transaction_id`, `header.active_transaction_ids` |
| `objects` | the objects of all leaf pages: key, tid, xid, value |
| `leaf`, `total_pages` | the page where `search_page` ends for a key, the pages of the file |
| `session` | the connections that hold the session lock |
| `txn`, `transaction_pages` | `storage.transaction_id` (0 if not `.active`), `storage.transaction_pages` |
| `doomed` | connections in `PreparedStmt.fail`, between the 40001 and its ROLLBACK |
| `damaged` | history, see below |

One action is one statement: a writer holds the file lock from
`open_write_connection` to `finish_write`, and its pages become visible to
others together (what happens inside is the subject of `Wal`). Each action
starts with `Opened(c)`, the recovery of `Storage.open` when the connection is
alone, and ends with `EndStatement`, which is `isolation_end`. The ROLLBACK that
follows a 40001 takes the lock a second time, so it is a step of its own and
other connections may come in between. A statement that fails with anything else is
discarded whole, and a reader changes nothing, so both are stuttering steps.
Pages have no size: an add may or may not split its page, and the key where it
splits is any that `split_objects` may choose. Three objects are taken to fit on
a page, so that two versions of a key stay together and a page is divided into
two (the code allows objects of half a page, and three parts).

Three flaws of the code (see Findings) leave a key with the wrong versions: one
at a COMMIT, one at a ROLLBACK, and one (`ThirdVersion`) at a write that splits
a page between the versions of the key, which `Page.add` can then not count. A
key where that has happened joins `damaged`, statements leave it alone from then
on (what they do depends on where each version is, which the model doesn't
follow), and the invariants are about the other keys (`Sound`), so that they say
what holds in spite of the flaws; the flaws have runs of their own. `CommitExact` and
`RollbackExact` name the exact conditions under which the ends of a transaction
do what they should: `Remembered` (its objects are still on pages that it
remembers) and `OneVersion` (it has one version of its own).

Left out: large objects (parts with keys of their own, removed with their
row), several catalogs, and what `fault.v` can inject inside a statement.

### Wal

`data` and `log` are the files as processes read them, `disk_data` and `disk_log`
what the last `fsync` put on the disk, `entry` whether the directory entry of
the log is there. A page's content is the number of the statement that wrote
it; the header's is the set of statements it comes after, so a file that mixes
two statements is seen as such (`Whole`). `pc` is the place of each process in
`open_read_connection`, `open_write_connection`, `wal_recover`, `wal_commit`
and `wal_checkpoint`, with a step between any two calls where another process,
a stop or a failure can come in. After a power failure each block of the
database file is what was synced or what was written since; the log is what was
synced, what was written since, or a beginning of it; and without its directory
entry it may be gone. `Environments` says which failures a behaviour has.

### Index

One B-tree holds rows (`RowKey`), index definitions (`DefinitionKey`) and index
entries (`EntryKey`), all with the versions of `Versions`. A statement is one
action as in `Mvcc`; CREATE INDEX is one for each time that it has the file
lock: `Attempt` builds the index (`Build`), gives the lock back and will try
again (`Wait`, `TryAgain`), or fails (`Refuse`: 42P07, 23505, 55P03). `waiting`
counts the attempts, `Timeout` is `create_index_timeout` in attempts.
`cache` is what a connection's storage has in memory, `schema_version` and
indexes; `Remembered` is what `Storage.open` makes of it: the same if the
file's version is the same, else what `load_schema` reads (`Definitions`).
`Fail` is a statement that fails after `open`: its pages are dropped, but what
`open` put into memory stays.

`ahead` is history: such a failure left a connection with a version that the
file doesn't have (finding 4). Properties are about behaviours where it hasn't
happened, and a run of its own shows what happens then. `damaged` is the keys
whose row a COMMIT lost (finding 1), as in `Mvcc`.

Left out: more than one table, index name or indexed column; statements that
write more than one row; UPDATE of the PRIMARY KEY; which pages COMMIT and
ROLLBACK visit (that is `Mvcc`); NULLs in the index; indexes of constraints.

### SqlAgent

| Variable | In the code |
|---|---|
| `agent` | `struct vsql_m_agent`: the connections, the current one, `connected` (whether a CONNECT, SET or DISCONNECT was executed), and `active` and `module` of each connection |
| `cli` | `libvsql`: its current connection, which connections are in a transaction and whether that has changes, and the CLI statements of cursors and prepared statements |
| `da` | the transaction information of the first diagnostics area |
| `published` | whether the last call made changes permanent (for the properties) |

A procedure of a module makes several calls of the CLI, and nobody else runs in
between: the calls are operators from a state to the set of states they may
end in, with their `sqlstate`, and `Then` goes on with those that succeeded, as
the code does with `vsql_m_failed`. So each action is one call of a module, in
which each CLI call may fail: not found, a constraint (the transaction goes on),
class 40 (it's over), an I/O error at the start or at the end of a transaction.
`Connection` is the prologue of every statement: the current connection or the
implicit default one, and `Schema`, the SET SCHEMA that is needed when another
module used the connection last, with a COMMIT after it if there's no
transaction. `Refused` is the rule of the CLI that only its current connection
may have a transaction. `cli.current` is `Orphan` when that is a connection
that the agent doesn't have any more. `CloseAll`, the end of a program and
DISCONNECT ALL, says at once what closing the connections of the list one by
one leads to; `ClosedInTurn` is that it's the same as the loop of the code
(`InTurn`) over every order of the list.

Left out: positioned UPDATE and DELETE, failures of `malloc` (HY001), the
texts of diagnostics, and the values of parameters and rows.

### DescriptorArea

`areas` is the list of descriptor areas with their items, DATA modelled by what
the memory holds: nothing, memory that was never written, or a value of a C type.
`bound` is what each dynamic parameter of a cursor's CLI statement points to: an
item's DATA, the memory of a host parameter, or memory that was freed
(`Dangling`). `last` records what the last call read and assigned. One prepared
statement and one cursor; LENGTH, PRECISION and values are abstracted. EXECUTE's
CLI statement is bound again by each EXECUTE, with the same number of
parameters, so its bindings aren't kept. A clause that `vsql_m_bind` stops at an item of is
not accepted at all (`Accepts`): what it has bound by then is freed with the CLI
statement, or bound again. `GetData` is a GET DESCRIPTOR with a sequence of targets for
DATA: the compiler takes any number of them, the item is compared with the last one
(`vsql_m_get_item`), and each reads DATA as its own type (`vsql_m_get_data`).

## What the runs check

| Run | Constants | Shows |
|---|---|---|
| `mvcc` | 2 connections, 2 keys, 2 values, IDs to 5, 2 slots, 2 pages; 157,381 states | the invariants and action properties of `Mvcc` |
| `mvcc_read_committed` | the same; `CleanSpec`; 106,494 states | `Mvcc` implements `ReadCommitted` |
| `wal` | 2 processes, 2 pages, 3 statements; stops with I/O and fsync errors, or power failures with I/O errors; 1.5 million states | the log is whole when it is read, recoverable at any time, a statement sees one state of the file, and `Wal` implements `DurableStore` |
| `index` | 2 connections, 2 keys, 2 values, IDs to 5, one index ID, no or one UNIQUE index to start with; no waiting; 403,676 states | entries are those of the rows, UNIQUE holds, remembered definitions are fresh, in every view |
| `index_wait` | 2 connections, 1 key, 2 index IDs, a timeout of 2 attempts; 82,156 states | no two indexes of a name; CREATE INDEX ends |
| `client` | 2 modules, 2 connections, 2 cursors with the same name (one WITH HOLD, for a prepared statement), 1 statement; 51,883 states | what the agent believes and reports agrees with the CLI, except where a property says so (below): above all after a transaction was lost to an error of class 40; modules don't disturb each other, closing all connections doesn't depend on their order |
| `descriptor` | 2 areas with the same name (LOCAL and GLOBAL), 2 items in all, 5 SETs, GETs with one and two targets, 2 statements; 75,571 states | untyped memory is read as what was written, except by a target of a GET that isn't compared with the item |
| `mvcc_lost_row`, `mvcc_stray_row`, `mvcc_third_version`, `wal_gap`, `index_stale` | as above, with fewer pages or one kind of failure | the findings |

The bounds of `Mvcc` and `Wal`. Two connections are enough for every conflict in the code, which
compares a writer with one other transaction; a crash turns one of the two into
a third party, a dead transaction that is still in the header. Two keys and two
pages let one connection's split move another's key, and an UPDATE move a row
onto a key in flight. IDs from 3 to 5 allow three transactions, implicit or
explicit, one after another or at the same time, on top of the rows of an
earlier one. Two slots fill up. In `Wal` three statements allow one that is
acknowledged, one that is interrupted and one that recovers it, by either
process; two pages let the checkpoint stop between them. Symmetry is used for
connections, values, processes and pages, never for keys, which are ordered.

The bounds of `Index`. Two rows can have the same value, a row can be written by
one transaction while the other creates or drops the index, and a third
transaction comes after both. The keys aren't ordered there (no pages), so they
are symmetric too. `View` takes `cache` relative to the file's
`schema_version`: what a connection remembers of an older version is never
used again, and only the difference matters, so the state graph is finite
without a bound on the version. It also takes all states with `ahead` for
one, in which the properties hold of themselves (`TypeOK` of those states is
proved). `index_wait` uses neither symmetry nor the view, since it checks
liveness; in it both connections can wait for each other.

The bounds of `SqlAgent`. Two modules are the one that is called and the one
that used the connection before; with a named connection and the default one,
one can be current while the other has, or had, a transaction. The static
cursor of one module and the dynamic cursor of the other have the same name,
which only clashes while both have a CLI statement. One `q` and one `insert`
stand for all texts, which are distinguished by whether they have a cursor and
whether they change anything. In `DescriptorArea` a LOCAL and a GLOBAL area
with one name are what `vsql_m_find_descriptor` could confuse, and nothing else
treats them differently, so they are symmetric. Two items allow a statement
with more parameters or columns than another, COUNT beyond the items of a small
area, and a row that fails at its second column. Two targets of a GET are enough, as
all of them but the last are treated alike.

`ImplementsReadCommitted` is checked of `CleanSpec`, the behaviours in which no
step damages a key; nothing else is ruled out. In `ReadCommitted` only transactions whose client went away
may be discarded by another step.

The `wal` run has stops and fsync errors without power failures, and power
failures without stops, because the combination breaks `AllOrNone` (see below).
A power failure stops every process by itself.
`EntrySynced` is TRUE: `fsync` of a new file keeps its directory entry, as on
the common file systems. Where it does not, `Recoverable` is violated: a first
`wal_commit` that fails after `os.create` leaves a log, so the next one has
`is_new` FALSE and never calls `fsync_dir`.

Fairness. `CreateIndexEnds` is checked of `FairSpec`: weak fairness of
`TryAgain` for each connection. A CREATE INDEX that waits sleeps for 10 ms at a
time (`index.v:673`) and has given the file back before (`finish_write`), and a
statement holds the lock of the file no longer than it takes, so the next
attempt does come; a process that is killed while it waits has `waiting` reset
by its `Close`. Nothing is assumed of the transactions that it waits for: they
may stay open for ever, or be waiting in the same way. All other
specifications have no fairness. Nothing in the code bounds how long a
process waits for a lock (`flock` promises no order) or keeps a transaction
open.

Exceptions in properties, each because the code does otherwise:
`PublishedOnRequest` excepts a transaction whose COMMIT or ROLLBACK failed
before (`stuck`), `NoOrphan` a connection of the CLI whose ROLLBACK failed,
`CursorsStayOpen` and `OpenCursorsKeepTheirStatement` a connection that the CLI
refuses (`Blocked`). The last is reached by a SET SCHEMA that fails: the CLI is
then in a transaction that the agent knows nothing of, refuses other
connections (0A001), and `vsql_m_deallocate` takes an open cursor for a closed
one, until a COMMIT or ROLLBACK. `ReportedEnds` has two exceptions, and is silent
about a third case. A transaction that the CLI doesn't have is reported
as committed if the agent takes it for active (`Unfounded`):
`active` stays TRUE after an error of class 40 has ended the transaction
(`vsql_m_end`, `std_2_13_1_sql_client_module_definition.c:784`), so that a COMMIT
after it has TRANSACTIONS_COMMITTED = 1 and commits nothing, where
`src/docs/language-c.rst:363` has "1 if a transaction was committed". What a
COMMIT or ROLLBACK that failed left over (`stuck`) is published or ended without
a report. And it says of COMMIT and ROLLBACK only that they report what they end:
the statement that fails with class 40 ends a transaction and reports nothing
(`LossIsReported`, below). `ReadsAreSound` excepts a GET DESCRIPTOR with a target
for DATA that wasn't compared with the item and doesn't match it
(`last.unchecked`; `TargetsMatch`, below).

Six more configurations show what other properties of the modules exclude;
each ends with a counterexample that TLC finds:

- `MCMvccFalseConflict.cfg` (`ConflictMeansContention`): UPDATE, DELETE and
  INSERT of one PRIMARY KEY in a transaction fail with a 40001 although nobody
  else is connected, and do so again when they are retried.
- `MCWalTorn.cfg` (`AllOrNone`): `wal_recover` copies a log that was never
  synced; after a power failure the file may have a part of it with no log.
- `MCWalFailed.cfg` (`FailureChangesNothing`): an fsync error after the commit
  frame was flushed fails the statement, and the next recovery applies it.
- `MCDescriptorReopen.cfg` (`MatchingValuesOpen`): a dynamic cursor that is closed,
  prepared again with fewer parameters and opened is refused, because the extra ones
  are still bound (`src/docs/language-c.rst:538` has 07001 for a number of values
  other than that of the "?").
- `MCDescriptorTargets.cfg` (`TargetsMatch`): an item that is an INTEGER is read by a
  GET DESCRIPTOR with two targets for DATA, a string and then an int. The second one
  matches, so there's no 22005 (`src/docs/language-c.rst:523`), and the first reads
  the int as a string (`std_2_20_1_description_of_sql_descriptor_areas.v:170`).
- `MCSqlAgentLoss.cfg` (`LossIsReported`): a statement fails with class 40, its changes
  are rolled back, and TRANSACTIONS_ROLLED_BACK is 0 (`src/docs/language-c.rst:365`).

## What is proved

`MvccProofs` proves, for every set of connections and values, every set of
integer keys, and every number of slots, IDs and pages (`MvccAssumption`):

- `TypeCorrect` - `Spec => []TypeOK`.
- `Invariance` - `Spec => []IInv` with
  `IInv == TypeOK /\ LiveTransactions /\ VersionStructure`.
- `TransactionsLive`, `VersionsStructured` - its parts.
- `RowsUnique` (`UniqueRows`), `HolderUnique` (`OneHolder`) and `ConflictsExact`
  (`ConflictExact`), which follow from `IInv`.

`UniqueRows` and `OneHolder` are not inductive: that an update leaves one row
depends on which transaction expired the other version, and that recovery may
drop a version depends on its transaction being dead. `VersionStructure` says
the first - an expired object is expired by an active transaction, one that is
in flight only by its own, and of two versions one is in flight for the
transaction that expired the other - and `LiveTransactions` the second. The
proof that a step keeps `VersionStructure` goes key by key (`StructureAt`): the
operators of the pages (`StructureUndone`, `StructureInserted`,
`StructureExpired`, `StructureUpdated`, `StructureCommitted`) each have a lemma
about one key, each statement cites the one for its change, and the end of a
statement or transaction (`EndStatementStructure`, `EndTransactionStructure`)
puts them together. A COMMIT or ROLLBACK compares with what it should have left;
the keys where that differs leave `Sound`, which is why the result holds with
the flaws in the code.

`ConflictExact` says that `Page.expire` and `Page.add`, which look at the
versions of one key only, find out exactly whether another active transaction
has written it. It needs the same structure (`ConflictOfStructure`): a version
in flight is the only one, or the other one was expired by its transaction.
`ThirdVersion` damages its own key only (`AddThirdStructure`).

`MvccViewProofs` proves, with the same `IInv`, the action properties

- `CommittedStays` (`CommittedStable`), `CommitIsExact` (`CommitExact`) and
  `RollbackIsExact` (`RollbackExact`).

All of them come from lemmas about one key of any objects and active IDs with the
structure, which make no use of the state: undoing dead or rolled back IDs
(`UndoneView`, `UndoneOthers`, `UndoneHolders`), a new ID (`FreshView`), a change of
versions by one ID that nobody contends with (`WriteView`), and the end of an ID
(`EndedView`, `EndedOthers`). A step of `Mvcc` is those put one after the other: each
statement is `Wrote` (recovery, then versions of its own ID at some keys) and then
`Ended` (`InsertIs`, `UpdateIs`, `DeleteIs`, `MoveIs`, `ThirdVersionIs`). A holder of a
key is alone (`HolderAlone`), so that recovery of others leaves its versions as they
are (`UndoneApart`); everyone else finds the committed row (`OthersFindCommitted`).
`CommitExact` needs its two conditions exactly where `PageDelete` looks for an object
by key and tid: with `OneVersion` no other version of the key is removed, and with
`Remembered` none is missed.

`MvccRefinesProofs` proves the refinement

- `CleanImplements` - `CleanSpec => ImplementsReadCommitted`.

Its invariant `CInv` adds to `IInv` that no key is damaged and that the IDs in the
header are some that a transaction got. The change of a transaction to a key is what
it finds there once it holds the key, so each step is shown to do to the changes
(`OpenedChange`, `WroteChange`, `EndedChange`, `UndoneChange`) and to the committed rows
(`OpenedFound`, ...) what the step of `ReadCommitted` does: a statement is
`Write` (`StatementWrites`) or, outside of a transaction, `WriteThrough`; a recovery on
the way discards IDs that no connection owns (`DeadAbandoned`); closing a connection
is `Abandon`, and the 40001 of a statement is a stuttering step. `CleanSpec` excludes the
steps that damage a key: those are what the findings show.

`IndexProofs` proves of `Index`, for every set of connections, keys and values
and every number of slots, IDs, indexes and attempts (`IndexAssumption`):

- `TypeCorrect` - `Spec => []TypeOK`.
- `FreshAlways` - `Spec => []FreshInv`, with `FreshInv == TypeOK /\
  OneVersion(objects) /\ NothingKept /\ NotAhead /\ CacheIsFresh`.
- `DefinitionsFresh` - `Spec => []CacheIsFresh`.

`CacheIsFresh` alone is not inductive. That a definition is written once and
expired at most once (`OneVersion`) is what makes an expired definition
disappear when its transaction ends. That nobody remembers a version beyond the
file's (`NotAhead`) is needed where the version is raised: what others remember
is older then. And a connection that opens starts with nothing (`NothingKept`). A step either raises
`schema_version`, so that only its own connection's memory counts
(`OnlyFor`), or it doesn't: then the IDs that it makes active or removes are
of no definition, and each of the others sees the same definitions as before
(`OwnFresh`, `OthersFresh`; `SeenAtEnd` and its siblings about one object).

`IndexExactProofs` proves, from the same assumption:

- `ExactAlways` - `Spec => []ExactInv`.
- `IndexExactAlways` (`IndexIsExact`), `UniqueAlways` (`UniqueHolds`), `IndexIsOne`
  (`OneIndex`).

What somebody sees isn't inductive: a COMMIT, a ROLLBACK or a recovery changes the
view of everybody at once, and what they see then depends on who created and
expired the versions they don't see yet. `ExactInv` therefore adds to `FreshInv` what
`Good` says of the objects alone. Versions have the structure of `Mvcc` (`Versioned`,
`OneOwn`). In an index whose definition is committed, each version of a row that
somebody may still find (`Lasts`) has a twin among the entries, created and expired by
the same transactions (`Twins`, `OldIndex`); a transaction that has dropped the index
stops keeping entries, and is excepted. The creator of an index that isn't committed
is the only one with changes that aren't committed (`NewDefsAlone`, since CREATE INDEX waits
for the others), so that its entries match the rows there are (`NewIndex`). Two
definitions are one replaced by the other (`DefsApart`); who has written an entry holds
its row or created the index (`EntriesLocked`), which is why a statement that may write
the row finds nobody else's entries; and two rows of one value under UNIQUE exclude each
other (`Distinct`, `Apart`).
Each statement is again a recovery (`UndoGood`), a new ID (`FreshGood`), a change by that
ID (`RowWriteGood`, `BuildGood`, `DropGood`) and the end of it (`CommitGood`), and
each of those keeps `Good`. Keys that `Index` counts as `damaged`
are left out of it, and all of it if a connection is `ahead` of the file, which is finding 4.

`WalProofs` proves of `Wal`, for every set of processes and pages and any
number of statements (`WalAssumption`):

- `TypeCorrect` - `Spec => []TypeOK`, with any failures.
- `ReadsWhole` - `Spec => []ReadsAreWhole`.
- `AlwaysRecoverable` - `Spec => []Recoverable`.
- `LogImplementsStore` - `Spec => ImplementsDurableStore`.
- `OneFileAlways` - `Spec => StatementsSeeOneFile`, with any failures.

`ReadsWhole`, `AlwaysRecoverable` and `LogImplementsStore` assume `Survivable`, of the constants: `fsync` of a new log keeps
its directory entry, and an environment whose power fails has neither processes
that stop nor `fsync` calls that fail, which is what the `wal` run checks.
`MCWalTorn.cfg` shows what is lost when the power fails after a process stopped.

The invariant (`IInv`) has four parts. `Base` is the types, that nothing is
ahead of the last statement (`Known`), and that the statement which a process
commits is the last one and nowhere before its commit frame (`Owner`): since
whoever changes a file is alone (`OnlyAlone`, `OthersWait`), the others can only
stop meanwhile (`OthersStop`). `AtStep` is what a process may take for granted at
each step of `wal_commit`, `wal_checkpoint` and `wal_recover`. `Stored` says that
what recovery would find now is whole and has everything that was acknowledged;
only a commit frame changes it (`KeptFrames`), since copying a block that is in
the log doesn't (`KeptCopy`), nor does the mark when all are in the file
(`KeptMark`). `Durable` says the same of the disk: either the file on it needs no log
(`Unneeded`) or the log on it is the one it needs (`Needed`); `SyncLog` is the
step from the first to the second, so any mixture of blocks that a power
failure leaves is completed by the log (`PowerOutcomes`). `Recoverable` alone says
nothing of a checkpoint that is half done, and neither of the log that is
written next. For the refinement the log is never behind the file that it's copied
into (`Ahead`), so a power failure takes statements back and never adds any.
`OneFileAlways` needs none of this but the locks of `TypeOK`: a step that changes the
file is one that copies a block (`OnlyCopies`), done by a process that is alone (`NobodyUses`).

`SqlAgentProofs` proves of `SqlAgent`, for every set of modules, SQL-connections,
cursors, statements and texts (`SqlAgentAssumption`: values that stand for nothing
are no names, a cursor and its statement belong to one module, and a module has
no two cursors of a name):

- `BetweenAlways` - `Spec => []Between`, the inductive invariant.
- `TypeAlways` (`TypeOK`), `CurrentAlways` (`ActiveIsCurrent`), `RestAlways`
  (`AtRest`) and `NoOrphanAlways` (`NoOrphan`), which follow from it.
- `ListIsFinite` - `Spec => []IsFiniteSet(agent.conns)`, although the names of
  SQL-connections may be infinite, and `ClosedInTurnAlways` (`ClosedInTurn`).
- the action properties `PublishedOnRequestAlways` (`PublishedOnRequest`),
  `ReportedEndsAlways` (`ReportedEnds`), `CursorsStayOpenAlways` (`CursorsStayOpen`),
  `StatementsKeptAlways` (`OpenCursorsKeepTheirStatement`) and `SeparateAlways`
  (`ConnectionsAreSeparate`).

`Between` says what holds between two calls: every connection of the list is
`Fine`, and nothing is left of any other (`Empty`) in the agent or the CLI. `Fine`
has two parts that no property of the runs says, and that make the properties inductive. Changes
of a transaction that the agent doesn't know of are left from a COMMIT or ROLLBACK
that failed (`Noticed`): with it, the COMMIT of `vsql_m_schema`, which is done when the
agent knows of no transaction, publishes nothing. A cursor that isn't WITH HOLD is only
open while the agent knows of a transaction (`CursorsHeld`): with it, that
COMMIT closes none. `Alone` is that the implicit connection is the only one, so
that a procedure that makes it disturbs none.

A call goes through many states that aren't those of the system, so the proof is
about pairs of a state and one that a handler makes of it. Each routine of the CLI has a
lemma of what it does to one connection (`InvokeIs`, `PrepareIs`, `RunIs`,
`EndTranIs`), and leaves the others as they are (`Works`, `Same`); `ConnectionIs` is the prologue
of every procedure; `Does` is what a procedure does after it, and can be put together of parts
(`DoesOn`). `ThenCalls` makes of both the effects of a whole call: the state
is `Good` again, nothing was published that the agent knew of (`Quiet`), one
connection was changed (`Apart`), and open cursors and their statements are kept
(`Keeps`). There is one lemma for each action (`ExecuteStep`, ..., `ExitStep`), and
`NextIs` has what the properties need of all of them: only CLOSE closes a cursor,
and only COMMIT and ROLLBACK (`EndStep`) end a transaction on request. What these
two report (`Reported`) follows from what the prologue leaves of the transaction: it
doesn't lose changes that the agent knows of, even if it fails (`StillChanged`), and makes none
(`Schemas`, `Opens`). `Noticed` then gives that a transaction with changes is active,
unless it's stuck, and so it's reported. `ReportedEnds` has the same exceptions in the proof
as in the runs.

`ClosedInTurn` compares a loop with a definition that has none, for a list of any
length. `CloseFirst` is one turn of the loop: closing one connection, and then all others at
once, ends in the states that closing all at once ends in. It needs that closing a connection
ends in one state, or two if its ROLLBACK may fail, that a connection which the CLI
keeps (`Orphan`) refuses the ROLLBACK of each one after it, but is left as it is by them, and
`NoOrphan`: the current connection of the CLI is in the list, or is stuck. So
closing the rest at once ends the same after each turn (`TurnKeeps`), and in the end
there is no rest (`CloseNone`). The induction over the turns (`AllNumbers`) is by the
least number that a set of numbers doesn't have, since the theorem of the library about it
has only constants as parameters. For the number of turns to be that of the list,
the list has to be finite (`ListIsFinite`).

`DescriptorAreaProofs` proves of `DescriptorArea`, for every set of descriptor names,
SETs, COUNTs and statements, and any number of items (`DescriptorAssumption`: the
components have values of their kinds, some statement has the most parameters, and the
values that stand for nothing are no names):

- `WellAlways` - `Spec => []IInv`, the inductive invariant.
- `TypeAlways` (`TypeOK`), `DataAlways` (`DataIsOfItsType`), `ReadsAlways`
  (`ReadsAreSound`), `RowAlways` (`RowIsAssigned`) and `SetAlways` (`SetTakesEffect`).
- the action properties `OnlyNamedAlways` (`OnlyNamedAreasChange`) and
  `OnlyCountAlways` (`OnlyCountIsSet`).

An item is `Well` if its DATA is undefined, of the C type that the item has now, or
never written because it's null. One lemma for each routine of an item (`SetNumberIs`,
`SetDataIs`, `DescribeColumnIs`, `GetColumnIs`) says that it leaves it so, and `SetItemIs` puts
the four components of a SET together in their order. The list of areas is
`WellList`: all items of all areas are `Well`, and names are unique, so the area that
`vsql_m_find_descriptor` finds is the only one (`FindInIs`) and the calls that allocate,
change or deallocate it leave the others as they are (`OnlyAt`). What is read
is sound without any invariant of `bound` but its type: `vsql_m_bind` binds every
parameter of the statement again before it's executed (`BindIs`), to an item that is `Well` and
has a value or is null, so that an old pointer is never followed. Of the targets of a
GET DESCRIPTOR, any number of them, one that matches reads what is `Well` as its own type
(`TargetIsSound`); `ReadsAreSound` says nothing of a GET with one that doesn't.

Only model-checked: liveness under fairness (`CreateIndexEnds`). Out of reach of the
proof system are also ENABLED, RECURSIVE operators, and the theorems of induction that
have an operator as a parameter.

## Findings

1. `mvcc_lost_row`: INSERT, DELETE and INSERT of one PRIMARY KEY in a transaction, then
   COMMIT, loses the row: `page.delete` removes both versions, which have the same tid.
2. `mvcc_stray_row`: another connection's page split moves a transaction's
   object to a page that its ROLLBACK doesn't visit; the object stays.
3. `mvcc_third_version`: an UPDATE of a row that another transaction has updated
   is accepted when its page is full and split between the versions; `Page.add` only
   counts the versions of one page. After both COMMITs there are two rows.
4. `index_stale`: a statement fails after the recovery that `open` did for it, which
   has raised `schema_version` in memory only. Another connection's CREATE INDEX
   gives the file that version, the first connection finds what it remembers, and
   writes a row without an entry in the new index.
5. `wal_gap`: a reader that has recovered the log unlocks and locks again without
   another look; a writer that stops in between leaves it a file that isn't recovered.

## The plan

1. Done: `Mvcc`, `ReadCommitted`, `MvccImplements`, `Wal`, `DurableStore`, `Index` (with
   the definitions in memory), `SqlAgent`, `DescriptorArea`, and the proofs above.
2. `Statement`: `Mvcc` over a log that fails (`connection.v:565-572`), and the sequence
   values that a failed statement commits (`storage.v:145-167`). Abstract
   specification: a failed statement is a stuttering step, except for sequences.
3. `Session`: the session lock with its conversion that isn't atomic and may
   fail, and the lock order of file, session and mutex; who is alone when
   `recover` runs.
4. `BTree` and `Pager`: add, expire, update, split and iterate with pointers and
   sizes (objects up to half a page, splits into three, the versions of a key on
   two pages), as an implementation of a sorted set; the cache ring as a function of the file.
5. `Sequence`, deferred constraints, LIKE and three-valued logic; positioned
   statements in `SqlAgent`.

Theorems to come: for each new module its type invariant and main safety property.

## Running

    tlc -config MCMvcc.cfg MCMvcc
    tlc -config MCIndexWait.cfg MCIndex
    tlapm MvccProofs.tla
    tlapm MvccViewProofs.tla
    tlapm MvccRefinesProofs.tla
    tlapm IndexProofs.tla
    tlapm IndexExactProofs.tla
    tlapm WalProofs.tla
    tlapm SqlAgentProofs.tla
    tlapm DescriptorAreaProofs.tla
