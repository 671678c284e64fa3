--------------------------------- MODULE Wal ---------------------------------
(***************************************************************************)
(* The write-ahead log (src/vsql/wal.v), the locks of the database file    *)
(* that protect it (flock_nix.c.v) and the opening and finishing of        *)
(* statements that use it (connection.v): what is on the disk and what is  *)
(* only in the operating system's cache, step by step, with processes that *)
(* stop, power that fails and calls that return an error.                  *)
(*                                                                         *)
(* The database file is a set of blocks: the pages, and the header with    *)
(* the length of the file. The content of a page is the statement that     *)
(* wrote it, that of the header is the set of statements it comes after.   *)
(* Writes are buffered until the next seek, flush or close, so they reach  *)
(* the operating system in order; they reach the disk in any order until   *)
(* fsync.                                                                  *)
(***************************************************************************)
EXTENDS Integers, FiniteSets

CONSTANTS
  Proc,          \* processes, with one connection each
  Page,          \* pages of the database file
  MaxStatement,  \* bound: statements that change the database
  Environments,  \* the sets of failures to consider
  EntrySynced    \* whether fsync of a new file also keeps its directory entry

ASSUME WalAssumption ==
  /\ MaxStatement \in Nat
  /\ EntrySynced \in BOOLEAN
  /\ "header" \notin Page
  /\ Environments \subseteq SUBSET {"stop", "power", "fsync", "io"}

VARIABLES
  failures,    \* the failures of this behaviour, an element of Environments
  data,        \* the database file, as processes read it
  disk_data,   \* the blocks of the last fsync of it
  log,         \* the log, as processes read it
  disk_log,    \* the log of the last fsync of it
  entry,       \* the log's directory entry is on the disk
  lock,        \* the flock of each process on the database file
  pc,          \* what each process does next
  own,         \* the statement that each process is committing, or 0
  is_new,      \* wal_commit's is_new
  todo,        \* the blocks that wal_checkpoint hasn't written yet
  unchecked,   \* readers that released their lock to recover the log
  last,        \* history: the last statement that was started
  writes,      \* history: the pages that each statement changes
  acked,       \* history: the statements that succeeded
  discarded,   \* history: the statements that failed before the commit frame
  failed       \* history: the statements that failed after it

disk    == <<data, disk_data, log, disk_log, entry>>
clients == <<lock, pc, own, is_new, todo, unchecked>>
history == <<last, writes, acked, discarded, failed>>
vars    == <<failures, disk, clients, history>>

Statement == 1 .. MaxStatement
Header    == "header"
Block     == Page \cup {Header}

(* No log, an empty log, and one that is shorter than its header.          *)
Blank(kind, checkpointed) ==
  [kind |-> kind, id |-> 0, header |-> {}, commit |-> FALSE, checkpointed |-> checkpointed]

NoLog    == Blank("none", FALSE)
EmptyLog == Blank("short", FALSE)
ShortLog == Blank("short", TRUE)

(* The log of a statement up to its commit frame. *)
CommittedLog(n) ==
  [kind |-> "log", id |-> n, header |-> data[Header] \cup {n}, commit |-> TRUE,
   checkpointed |-> FALSE]

(* wal_needs_recovery: reading an empty log is an error, so it's looked at *)
(* (and marked, which leaves it too short to be looked at again).          *)
NeedsRecovery(l) == l.kind # "none" /\ ~ l.checkpointed

(* wal_read finds a commit frame: the checksums start from the salt of the *)
(* header, so frames of another log never complete this one.               *)
Committed(l) == l.kind = "log" /\ l.commit

Copied(l) == writes[l.id] \cup {Header}

BlockOf(l, b) == IF b = Header THEN l.header ELSE l.id

(* The database file once wal_recover is done. *)
Recovered(l, d) ==
  IF NeedsRecovery(l) /\ Committed(l)
  THEN [b \in Block |-> IF b \in Copied(l) THEN BlockOf(l, b) ELSE d[b]]
  ELSE d

-----------------------------------------------------------------------------
(* Locks. *)

CanShare(p)  == \A q \in Proc \ {p} : lock[q] # "exclusive"

(* The definitions named Bug... are mutations of the one that follows; no  *)
(* action uses them. They show that the properties can be violated.        *)
BugIgnoresReaders(p) == \A q \in Proc \ {p} : lock[q] # "exclusive"

CanHoldAlone(p) == \A q \in Proc \ {p} : lock[q] = "none"

At(p, step) == pc' = [pc EXCEPT ![p] = step]
Hold(p, l)  == lock' = [lock EXCEPT ![p] = l]

(* finish_write, release_read_connection, or an error in opening the       *)
(* connection: the file is unlocked and closed.                            *)
Finish(p) ==
  /\ At(p, "idle") /\ Hold(p, "none")
  /\ own' = [own EXCEPT ![p] = 0]
  /\ todo' = [todo EXCEPT ![p] = {}]
  /\ is_new' = [is_new EXCEPT ![p] = FALSE]
  /\ unchecked' = unchecked \ {p}

BugReadsUnchecked(p) ==
  /\ pc[p] = "idle" /\ CanShare(p)
  /\ At(p, "reading") /\ Hold(p, "shared")
  /\ UNCHANGED <<failures, disk, own, is_new, todo, unchecked, history>>

(* open_read_connection *)
LockShared(p) ==
  /\ pc[p] = "idle" /\ CanShare(p)
  /\ IF NeedsRecovery(log)
     THEN At(p, "upgrade") /\ UNCHANGED lock
     ELSE At(p, "reading") /\ Hold(p, "shared")
  /\ UNCHANGED <<failures, disk, own, is_new, todo, unchecked, history>>

LockToRecover(p) ==
  /\ pc[p] = "upgrade" /\ CanHoldAlone(p)
  /\ At(p, "recover") /\ Hold(p, "exclusive")
  /\ UNCHANGED <<failures, disk, own, is_new, todo, unchecked, history>>

(* The lock is taken again after the recovery, without another look at the *)
(* log.                                                                    *)
LockAgain(p) ==
  /\ pc[p] = "relock" /\ CanShare(p)
  /\ At(p, "reading") /\ Hold(p, "shared")
  /\ unchecked' = unchecked \cup {p}
  /\ UNCHANGED <<failures, disk, own, is_new, todo, history>>

FinishRead(p) ==
  /\ pc[p] = "reading"
  /\ Finish(p)
  /\ UNCHANGED <<failures, disk, history>>

(* open_write_connection *)
LockExclusive(p) ==
  /\ pc[p] = "idle" /\ CanHoldAlone(p) /\ last < MaxStatement
  /\ last' = last + 1
  /\ own' = [own EXCEPT ![p] = last + 1]
  /\ At(p, "recover") /\ Hold(p, "exclusive")
  /\ UNCHANGED <<failures, disk, is_new, todo, unchecked, writes, acked, discarded, failed>>

-----------------------------------------------------------------------------
(* Recovery and checkpoint. *)

BugKeepsLock(p) ==
  IF own[p] = 0 THEN At(p, "relock") /\ UNCHANGED lock
  ELSE At(p, "writing") /\ UNCHANGED lock

(* A connection goes on when the log needs no recovery (any more). *)
Opened(p) ==
  IF own[p] = 0
  THEN At(p, "relock") /\ Hold(p, "none")
  ELSE At(p, "writing") /\ UNCHANGED lock

BugWritesUnrecovered(p) ==
  /\ pc[p] = "recover"
  /\ Opened(p)
  /\ UNCHANGED <<failures, disk, own, is_new, todo, unchecked, history>>

Recover(p) ==
  /\ pc[p] = "recover"
  /\ IF ~ NeedsRecovery(log) THEN Opened(p) /\ UNCHANGED todo
     ELSE /\ UNCHANGED lock
          /\ IF Committed(log)
             THEN At(p, "checkpoint") /\ todo' = [todo EXCEPT ![p] = Copied(log)]
             ELSE At(p, "mark") /\ UNCHANGED todo
  /\ UNCHANGED <<failures, disk, own, is_new, unchecked, history>>

(* wal_checkpoint writes the pages, then the header. *)
CopyBlock(p, b) ==
  /\ pc[p] = "checkpoint" /\ b \in todo[p]
  /\ b = Header => todo[p] = {Header}
  /\ data' = [data EXCEPT ![b] = BlockOf(log, b)]
  /\ todo' = [todo EXCEPT ![p] = @ \ {b}]
  /\ UNCHANGED <<failures, disk_data, log, disk_log, entry, lock, pc, own, is_new, unchecked,
                 history>>

SyncData(p) ==
  /\ pc[p] = "checkpoint" /\ todo[p] = {}
  /\ disk_data' = data
  /\ At(p, "mark")
  /\ UNCHANGED <<failures, data, log, disk_log, entry, lock, own, is_new, todo, unchecked,
                 history>>

(* The log that is marked is that of the statement itself, or an older one *)
(* that it has to recover before it starts.                                *)
Committing(p) == own[p] # 0 /\ log.id = own[p]

(* The state in the log header becomes "checkpointed", which isn't synced. *)
Mark(p) ==
  /\ pc[p] = "mark"
  /\ log' = [log EXCEPT !.checkpointed = TRUE]
  /\ IF Committing(p)
     THEN Finish(p) /\ acked' = acked \cup {own[p]}
     ELSE Opened(p) /\ UNCHANGED <<own, is_new, todo, unchecked, acked>>
  /\ UNCHANGED <<failures, data, disk_data, disk_log, entry, last, writes, discarded, failed>>

-----------------------------------------------------------------------------
(* wal_commit. *)

(* os.create truncates a log that exists. *)
CreateLog(p) ==
  /\ pc[p] = "writing"
  /\ \E W \in SUBSET Page : writes' = [writes EXCEPT ![own[p]] = W]
  /\ is_new' = [is_new EXCEPT ![p] = log.kind = "none"]
  /\ log' = EmptyLog
  /\ At(p, "frames")
  /\ UNCHANGED <<failures, data, disk_data, disk_log, entry, lock, own, todo, unchecked, last,
                 acked, discarded, failed>>

WriteFrames(p) ==
  /\ pc[p] = "frames"
  /\ log' = CommittedLog(own[p])
  /\ At(p, "fsync")
  /\ UNCHANGED <<failures, data, disk_data, disk_log, entry, lock, own, is_new, todo, unchecked,
                 history>>

StartCheckpoint(p) ==
  At(p, "checkpoint") /\ todo' = [todo EXCEPT ![p] = Copied(log)]

BugLogNotSynced(p) ==
  /\ pc[p] = "fsync"
  /\ IF is_new[p] THEN At(p, "fsync_dir") /\ UNCHANGED todo ELSE StartCheckpoint(p)
  /\ UNCHANGED <<failures, disk, lock, own, is_new, unchecked, history>>

SyncLog(p) ==
  /\ pc[p] = "fsync"
  /\ disk_log' = log
  /\ entry' = (entry \/ EntrySynced)
  /\ IF is_new[p] THEN At(p, "fsync_dir") /\ UNCHANGED todo ELSE StartCheckpoint(p)
  /\ UNCHANGED <<failures, data, disk_data, log, lock, own, is_new, unchecked, history>>

SyncDirectory(p) ==
  /\ pc[p] = "fsync_dir"
  /\ entry' = TRUE
  /\ StartCheckpoint(p)
  /\ UNCHANGED <<failures, data, disk_data, log, disk_log, lock, own, is_new, unchecked, history>>

-----------------------------------------------------------------------------
(* Errors. *)

(* The log after some of the frames of a statement have been written.      *)
Partial(n) == {EmptyLog, ShortLog, [CommittedLog(n) EXCEPT !.commit = FALSE]}

(* The statement fails, or the log can't be written: it's discarded.       *)
FailStatement(p) ==
  /\ "io" \in failures
  /\ \/ pc[p] = "writing" /\ UNCHANGED log
     \/ pc[p] = "frames" /\ log' \in Partial(own[p])
  /\ discarded' = discarded \cup {own[p]}
  /\ Finish(p)
  /\ UNCHANGED <<failures, data, disk_data, disk_log, entry, last, writes, acked, failed>>

(* fsync of the log or of its directory fails, and so does the statement.  *)
FailSync(p) ==
  /\ "fsync" \in failures
  /\ pc[p] \in {"fsync", "fsync_dir"}
  /\ failed' = failed \cup {own[p]}
  /\ Finish(p)
  /\ UNCHANGED <<failures, disk, last, writes, acked, discarded>>

(* wal_checkpoint fails: a statement that committed succeeds anyway, while *)
(* the recovery of another one fails.                                      *)
FailCheckpoint(p) ==
  /\ "io" \in failures
  /\ pc[p] = "checkpoint"
  /\ acked' = IF Committing(p) THEN acked \cup {own[p]} ELSE acked
  /\ Finish(p)
  /\ UNCHANGED <<failures, disk, last, writes, discarded, failed>>

(* The log can't be read, or its state can't be written.                   *)
FailMark(p) ==
  /\ "io" \in failures
  /\ pc[p] = "mark" \/ (pc[p] = "recover" /\ NeedsRecovery(log))
  /\ failed' = IF Committing(p) THEN failed \cup {own[p]} ELSE failed
  /\ Finish(p)
  /\ UNCHANGED <<failures, disk, last, writes, acked, discarded>>

(* A process stops: the operating system unlocks its files, and what it    *)
(* had not flushed is lost.                                                *)
Stop(p) ==
  /\ "stop" \in failures
  /\ pc[p] # "idle"
  /\ log' \in IF pc[p] = "frames" THEN Partial(own[p]) ELSE {log}
  /\ Finish(p)
  /\ UNCHANGED <<failures, data, disk_data, disk_log, entry, history>>

(* The logs that may be found after the power fails: what was synced, what *)
(* was written since, or a part of it.                                     *)
LogsOnDisk ==
  {disk_log, log}
    \cup (IF log.id = disk_log.id THEN {}
          ELSE {EmptyLog, ShortLog, [log EXCEPT !.commit = FALSE]})
    \cup (IF entry THEN {} ELSE {NoLog})

DataOnDisk ==
  {[b \in Block |-> IF b \in S THEN data[b] ELSE disk_data[b]] : S \in SUBSET Block}

PowerFails ==
  /\ "power" \in failures
  /\ \E l \in LogsOnDisk, d \in DataOnDisk :
       /\ log' = l /\ disk_log' = l
       /\ entry' = (l.kind # "none")
       /\ data' = d /\ disk_data' = d
  /\ lock' = [p \in Proc |-> "none"]
  /\ pc' = [p \in Proc |-> "idle"]
  /\ own' = [p \in Proc |-> 0]
  /\ is_new' = [p \in Proc |-> FALSE]
  /\ todo' = [p \in Proc |-> {}]
  /\ unchecked' = {}
  /\ UNCHANGED <<failures, history>>

-----------------------------------------------------------------------------
Empty == [b \in Block |-> IF b = Header THEN {} ELSE 0]

Init ==
  /\ failures \in Environments
  /\ data = Empty /\ disk_data = Empty
  /\ log = NoLog /\ disk_log = NoLog /\ entry = FALSE
  /\ lock = [p \in Proc |-> "none"]
  /\ pc = [p \in Proc |-> "idle"]
  /\ own = [p \in Proc |-> 0]
  /\ is_new = [p \in Proc |-> FALSE]
  /\ todo = [p \in Proc |-> {}]
  /\ unchecked = {}
  /\ last = 0
  /\ writes = [n \in Statement |-> {}]
  /\ acked = {} /\ discarded = {} /\ failed = {}

Next ==
  \/ \E p \in Proc :
       \/ LockShared(p) \/ LockToRecover(p) \/ LockAgain(p) \/ FinishRead(p)
       \/ LockExclusive(p)
       \/ Recover(p) \/ SyncData(p) \/ Mark(p)
       \/ \E b \in Block : CopyBlock(p, b)
       \/ CreateLog(p) \/ WriteFrames(p) \/ SyncLog(p) \/ SyncDirectory(p)
       \/ FailStatement(p) \/ FailSync(p) \/ FailCheckpoint(p) \/ FailMark(p)
       \/ Stop(p)
  \/ PowerFails

Spec == Init /\ [][Next]_vars

-----------------------------------------------------------------------------
(* Properties. *)

LogType ==
  [kind : {"none", "short", "log"}, id : 0 .. MaxStatement, header : SUBSET Statement,
   commit : BOOLEAN, checkpointed : BOOLEAN]

Steps ==
  {"idle", "upgrade", "relock", "reading", "recover", "checkpoint", "mark", "writing", "frames",
   "fsync", "fsync_dir"}

Locked(p) ==
  CASE pc[p] \in {"idle", "upgrade", "relock"} -> lock[p] = "none"
    [] pc[p] = "reading" -> lock[p] = "shared"
    [] OTHER -> lock[p] = "exclusive" /\ CanHoldAlone(p)

(* The type of every variable. Each process has the lock that its step     *)
(* needs, alone if it may write.                                           *)
TypeOK ==
  /\ failures \in Environments
  /\ \A d \in {data, disk_data} : /\ \A b \in Page : d[b] \in 0 .. MaxStatement
                                  /\ d[Header] \subseteq Statement
                                  /\ d = [b \in Block |-> d[b]]
  /\ log \in LogType /\ disk_log \in LogType /\ entry \in BOOLEAN
  /\ lock \in [Proc -> {"none", "shared", "exclusive"}]
  /\ pc \in [Proc -> Steps]
  /\ \A p \in Proc : Locked(p)
  /\ own \in [Proc -> 0 .. MaxStatement]
  /\ is_new \in [Proc -> BOOLEAN]
  /\ todo \in [Proc -> SUBSET Block]
  /\ unchecked \subseteq Proc
  /\ last \in 0 .. MaxStatement
  /\ writes \in [Statement -> SUBSET Page]
  /\ acked \subseteq Statement /\ discarded \subseteq Statement /\ failed \subseteq Statement

(* A file holds all of the changes of the statements of its header, and    *)
(* none of any other.                                                      *)
Whole(d) ==
  \A b \in Page :
    LET writers == {n \in d[Header] : b \in writes[n]}
    IN  /\ d[b] = 0 => writers = {}
        /\ d[b] # 0 => d[b] \in writers /\ \A n \in writers : n <= d[b]

(* The statements that are using the database file. *)
Using(p) == pc[p] \in {"reading", "writing", "frames", "fsync", "fsync_dir"}

(* What the statements that checked the log find is whole, and has every   *)
(* statement that was reported to have succeeded ("it's copied by          *)
(* wal_recover before the file is read again", wal.v).                     *)
ReadsAreWhole ==
  \A p \in Proc :
    Using(p) /\ p \notin unchecked => Whole(data) /\ acked \subseteq data[Header]

(* Whenever all processes stop, and whatever the power leaves if it fails, *)
(* recovery finds every statement that was reported to have succeeded, and *)
(* each statement whole or not at all.                                     *)
Outcomes ==
  IF "power" \in failures THEN LogsOnDisk \X DataOnDisk ELSE {<<log, data>>}

Recoverable ==
  \A outcome \in Outcomes :
    LET d == Recovered(outcome[1], outcome[2])
    IN  Whole(d) /\ acked \subseteq d[Header]

(* A statement sees one state of the database file from its start to its   *)
(* end: no other statement, recovery or checkpoint writes to it meanwhile  *)
(* (flock).                                                                *)
StatementsSeeOneFile ==
  [][\A p \in Proc : Using(p) /\ Using(p)' => data' = data]_vars

DS == INSTANCE DurableStore WITH
        power <- "power" \in failures,
        store <- Recovered(log, data)[Header]

(* The log, with every failure of the environment, keeps the promise of    *)
(* DurableStore: a statement is kept from its commit frame on, and never   *)
(* before.                                                                 *)
ImplementsDurableStore == DS!Spec

(* "Before a connection reads or changes the database file, it checks the  *)
(* State. If the log hasn't been checkpointed [...] the pages and header   *)
(* in it are copied into the database file first" (docs/file-format.rst).  *)
CheckedBeforeReading ==
  \A p \in Proc : pc[p] = "reading" => ~ (NeedsRecovery(log) /\ Committed(log))

(* "Even if the process stops (or the power fails) part way through, the   *)
(* database contains either all or none of the changes made by the         *)
(* statement" (docs/file-format.rst).                                      *)
AllOrNone ==
  \A p \in Proc : Using(p) /\ p \notin unchecked => Whole(data)

(* A statement that failed hasn't changed the database: "A statement that  *)
(* fails must not change anything" (storage.v).                            *)
FailureChangesNothing ==
  \A p \in Proc : Using(p) => failed \cap data[Header] = {}
=============================================================================
