------------------------------ MODULE WalProofs ------------------------------
(***************************************************************************)
(* The promise of the write-ahead log, for every set of processes and      *)
(* pages and any number of statements: what is read is whole, what was     *)
(* acknowledged can be recovered, and Wal implements DurableStore, when    *)
(* processes stop and calls fail, or when the power fails and calls fail   *)
(* (Survivable). The argument: whoever changes the log or the file is      *)
(* alone, and there is one database that recovery finds at any time        *)
(* (Stored), which only the commit frame of a statement changes. The file  *)
(* on the disk is either that database, or the log is on the disk that     *)
(* makes it so (Durable).                                                  *)
(***************************************************************************)
EXTENDS Wal, TLAPS

(* The failures for which the promise is kept: no statement that is        *)
(* interrupted before fsync is followed by a failure of the power, and     *)
(* fsync of a new log keeps its directory entry.                           *)
Survivable ==
  /\ EntrySynced
  /\ \A e \in Environments : "power" \in e => "stop" \notin e /\ "fsync" \notin e

(* The steps of a process that has the exclusive lock. *)
Alone == {"recover", "checkpoint", "mark", "writing", "frames", "fsync", "fsync_dir"}

(* Statements are numbered by LockExclusive, and nothing is ahead of that. *)
LogKnown(l) ==
  /\ l.id <= last /\ l.header \subseteq 1 .. last
  /\ l.kind = "log" => l.id \in l.header

Known ==
  /\ LogKnown(log) /\ LogKnown(disk_log)
  /\ data[Header] \subseteq 1 .. last /\ disk_data[Header] \subseteq 1 .. last
  /\ discarded \subseteq 1 .. last

(* A statement is the last one, and nowhere before its commit frame.       *)
Owner(p) ==
  /\ pc[p] \in {"writing", "frames", "fsync", "fsync_dir"} => own[p] # 0
  /\ own[p] # 0 =>
       /\ own[p] = last /\ pc[p] \in Alone /\ own[p] \notin discarded
       /\ log.id = own[p] => /\ Committed(log) /\ NeedsRecovery(log)
                             /\ pc[p] \in {"fsync", "fsync_dir", "checkpoint", "mark"}
       /\ log.id # own[p] => /\ own[p] \notin log.header \cup data[Header]
                             /\ disk_log.id # own[p]
                             /\ pc[p] \notin {"fsync", "fsync_dir"}

(* The blocks of the log that are in the file. *)
InFile(l, B) == \A b \in B : data[b] = BlockOf(l, b)

Pending == NeedsRecovery(log) /\ Committed(log)

(* What the process that is at a step may take for granted. *)
AtStep(p) ==
  /\ pc[p] = "reading" /\ p \notin unchecked => ~ NeedsRecovery(log)
  /\ pc[p] = "writing" => ~ NeedsRecovery(log)
  /\ pc[p] = "frames" => ~ Committed(log)
  /\ pc[p] \in {"fsync", "fsync_dir"} => Whole(data) /\ acked \subseteq data[Header]
  /\ pc[p] = "checkpoint" =>
       Pending /\ todo[p] \subseteq Copied(log) /\ InFile(log, Copied(log) \ todo[p])
  /\ pc[p] = "mark" =>
       NeedsRecovery(log) /\ (Committed(log) => data = disk_data /\ InFile(log, Copied(log)))

(* The database that recovery finds. *)
Good(d) == Whole(d) /\ acked \subseteq d[Header]
Stored  == Good(Recovered(log, data))

(* A log on the disk that the file doesn't need, and one that it needs.    *)
Unneeded ==
  /\ data = disk_data /\ Good(data)
  /\ NeedsRecovery(disk_log) /\ Committed(disk_log) => InFile(disk_log, Copied(disk_log))

Needed ==
  /\ disk_log = log /\ entry
  /\ \A b \in Block \ Copied(log) : data[b] = disk_data[b]

Unsynced == \E p \in Proc : pc[p] = "fsync"

Durable ==
  "power" \in failures => IF Pending /\ ~ Unsynced THEN Needed ELSE Unneeded

Base == TypeOK /\ Known /\ \A p \in Proc : Owner(p)

IInv == Base /\ (\A p \in Proc : AtStep(p)) /\ Stored /\ Durable

-----------------------------------------------------------------------------
(* Logs. *)

LEMMA EmptyLogs ==
  \A l \in {NoLog, EmptyLog, ShortLog} :
    l \in LogType /\ l.kind # "log" /\ l.id = 0 /\ l.header = {} /\ ~ Committed(l)
<1>1. 0 \in 0 .. MaxStatement /\ {} \in SUBSET Statement
  BY WalAssumption
<1>2. ASSUME NEW kind \in {"none", "short"}, NEW checkpointed \in BOOLEAN
      PROVE  LET l == Blank(kind, checkpointed)
             IN  l \in LogType /\ l.kind # "log" /\ l.id = 0 /\ l.header = {}
  BY <1>1 DEF Blank, LogType
<1> QED
  BY <1>2 DEF NoLog, EmptyLog, ShortLog, Committed

LEMMA PartLogs ==
  ASSUME TypeOK, NEW n \in Statement, n <= last, LogKnown(log), data[Header] \subseteq 1 .. last,
         NEW l \in Partial(n) \cup {[log EXCEPT !.commit = FALSE]}
  PROVE  l \in LogType /\ LogKnown(l) /\ ~ Committed(l)
<1>1. last \in 0 .. MaxStatement /\ MaxStatement \in Nat
  BY WalAssumption DEF TypeOK
<1>2. CASE l \in {EmptyLog, ShortLog}
  BY <1>1, <1>2, EmptyLogs DEF LogKnown
<1>3. CASE l = [CommittedLog(n) EXCEPT !.commit = FALSE]
  <2>1. l = [kind |-> "log", id |-> n, header |-> data[Header] \cup {n}, commit |-> FALSE,
             checkpointed |-> FALSE]
    BY <1>3 DEF CommittedLog
  <2>2. n \in 1 .. last /\ data[Header] \cup {n} \subseteq 1 .. last /\ 1 .. last \subseteq Statement
    BY <1>1 DEF Statement
  <2>3. n \in 0 .. MaxStatement /\ data[Header] \cup {n} \in SUBSET Statement
    BY <1>1, <2>2 DEF Statement
  <2> QED
    BY <2>1, <2>2, <2>3 DEF LogType, LogKnown, Committed
<1>4. CASE l = [log EXCEPT !.commit = FALSE]
  BY <1>4 DEF TypeOK, LogType, LogKnown, Committed
<1> QED
  BY <1>2, <1>3, <1>4 DEF Partial

-----------------------------------------------------------------------------
(* Locks. *)

Locks ==
  /\ lock \in [Proc -> {"none", "shared", "exclusive"}]
  /\ pc \in [Proc -> Steps]
  /\ \A p \in Proc : Locked(p)

(* A process goes on to a step with the lock that the step needs.          *)
Moves(p, step, l) ==
  /\ At(p, step) /\ Hold(p, l)
  /\ \/ l = "none" /\ step \in {"idle", "upgrade", "relock"}
     \/ l = "shared" /\ step = "reading" /\ CanShare(p)
     \/ l = "exclusive" /\ step \in Alone /\ CanHoldAlone(p)

LEMMA LocksKept ==
  ASSUME Locks, NEW p \in Proc, NEW step, NEW l, Moves(p, step, l)
  PROVE  Locks'
<1>1. /\ pc' = [pc EXCEPT ![p] = step] /\ lock' = [lock EXCEPT ![p] = l]
      /\ step \in Steps /\ l \in {"none", "shared", "exclusive"}
  BY DEF Moves, At, Hold, Steps, Alone
<1>2. pc' \in [Proc -> Steps] /\ lock' \in [Proc -> {"none", "shared", "exclusive"}]
  BY <1>1 DEF Locks
<1>3. ASSUME NEW q \in Proc PROVE Locked(q)'
  <2>1. CASE q = p
    BY <1>1, <2>1 DEF Moves, Locks, Locked, CanShare, CanHoldAlone, Alone, Steps
  <2>2. CASE q # p
    <3>1. pc'[q] = pc[q] /\ lock'[q] = lock[q] /\ lock'[p] = l
      BY <1>1, <2>2 DEF Locks
    <3>2. Locked(q)
      BY DEF Locks
    <3>3. lock[q] = "exclusive" => l = "none"
      BY <2>2, <3>2 DEF Locked, CanHoldAlone, Moves, CanShare
    <3>4. \A r \in Proc : lock'[r] = IF r = p THEN l ELSE lock[r]
      BY <1>1 DEF Locks
    <3> QED
      BY <2>2, <3>1, <3>2, <3>3, <3>4 DEF Locked, CanHoldAlone
  <2> QED
    BY <2>1, <2>2
<1> QED
  BY <1>2, <1>3 DEF Locks

(* Nobody else does anything while a process has the exclusive lock.       *)
LEMMA OthersWait ==
  ASSUME Locks, NEW p \in Proc, pc[p] \in Alone
  PROVE  /\ lock[p] = "exclusive" /\ CanHoldAlone(p)
         /\ \A q \in Proc \ {p} : pc[q] \in {"idle", "upgrade", "relock"}
<1>1. lock[p] = "exclusive" /\ CanHoldAlone(p)
  BY DEF Locks, Locked, Alone
<1>2. ASSUME NEW q \in Proc \ {p} PROVE pc[q] \in {"idle", "upgrade", "relock"}
  <2>1. lock[q] = "none" /\ Locked(q) /\ pc[q] \in Steps
    BY <1>1 DEF CanHoldAlone, Locks
  <2> QED
    BY <2>1 DEF Locked, Steps
<1> QED
  BY <1>1, <1>2

(* What a process does, other than losing the power. *)
Acts(p) ==
  \/ LockShared(p) \/ LockToRecover(p) \/ LockAgain(p) \/ FinishRead(p)
  \/ LockExclusive(p)
  \/ Recover(p) \/ SyncData(p) \/ Mark(p)
  \/ \E b \in Block : CopyBlock(p, b)
  \/ CreateLog(p) \/ WriteFrames(p) \/ SyncLog(p) \/ SyncDirectory(p)
  \/ FailStatement(p) \/ FailSync(p) \/ FailCheckpoint(p) \/ FailMark(p)
  \/ Stop(p)

LEMMA NextActs == Next <=> (\E p \in Proc : Acts(p)) \/ PowerFails
BY DEF Next, Acts

LEMMA FinishMoves ==
  ASSUME NEW p \in Proc, Finish(p)
  PROVE  Moves(p, "idle", "none")
BY DEF Finish, Moves

LEMMA StayMoves ==
  ASSUME Locks, NEW p \in Proc, pc[p] \in Alone, NEW step \in Alone, At(p, step), UNCHANGED lock
  PROVE  Moves(p, step, "exclusive")
<1>1. lock[p] = "exclusive" /\ CanHoldAlone(p)
  BY OthersWait
<1>2. lock' = [lock EXCEPT ![p] = "exclusive"]
  BY <1>1 DEF Locks
<1> QED
  BY <1>1, <1>2 DEF Moves, Hold

LEMMA OpenedMoves ==
  ASSUME Locks, NEW p \in Proc, pc[p] \in Alone, Opened(p)
  PROVE  \/ own[p] = 0 /\ Moves(p, "relock", "none")
         \/ own[p] # 0 /\ Moves(p, "writing", "exclusive")
<1>1. CASE own[p] = 0
  BY <1>1 DEF Opened, Moves
<1>2. CASE own[p] # 0
  BY <1>2, StayMoves DEF Opened, Alone
<1> QED
  BY <1>1, <1>2

LEMMA LocksNext ==
  ASSUME Locks, NEW p \in Proc, Acts(p)
  PROVE  Locks'
<1>1. CASE LockShared(p)
  <2>1. lock[p] = "none"
    BY <1>1 DEF LockShared, Locks, Locked
  <2>2. lock = [lock EXCEPT ![p] = "none"]
    BY <2>1 DEF Locks
  <2>3. Moves(p, "upgrade", "none") \/ Moves(p, "reading", "shared")
    BY <1>1, <2>2 DEF LockShared, Moves, Hold
  <2> QED
    BY <2>3, LocksKept
<1>2. CASE LockToRecover(p)
  BY <1>2, LocksKept DEF LockToRecover, Moves, Alone
<1>3. CASE LockAgain(p)
  BY <1>3, LocksKept DEF LockAgain, Moves
<1>4. CASE LockExclusive(p)
  BY <1>4, LocksKept DEF LockExclusive, Moves, Alone
<1>5. CASE Recover(p)
  <2>1. pc[p] \in Alone
    BY <1>5 DEF Recover, Alone
  <2>2. \/ Opened(p)
        \/ UNCHANGED lock /\ \E step \in Alone : At(p, step)
    BY <1>5 DEF Recover, Alone
  <2> QED
    BY <2>1, <2>2, OpenedMoves, StayMoves, LocksKept
<1>6. CASE Mark(p)
  <2>1. pc[p] \in Alone
    BY <1>6 DEF Mark, Alone
  <2> QED
    BY <1>6, <2>1, OpenedMoves, FinishMoves, LocksKept DEF Mark
<1>7. CASE \E b \in Block : CopyBlock(p, b)
  BY <1>7 DEF CopyBlock, Locks, Locked, CanHoldAlone
<1>8. CASE SyncData(p) \/ CreateLog(p) \/ WriteFrames(p) \/ SyncLog(p) \/ SyncDirectory(p)
  <2>1. pc[p] \in Alone /\ UNCHANGED lock /\ \E step \in Alone : At(p, step)
    BY <1>8 DEF SyncData, CreateLog, WriteFrames, SyncLog, SyncDirectory, StartCheckpoint, Alone
  <2> QED
    BY <2>1, StayMoves, LocksKept
<1>9. CASE FinishRead(p) \/ FailStatement(p) \/ FailSync(p) \/ FailCheckpoint(p) \/ FailMark(p) \/ Stop(p)
  <2>1. Finish(p)
    BY <1>9 DEF FinishRead, FailStatement, FailSync, FailCheckpoint, FailMark, Stop
  <2> QED
    BY <2>1, FinishMoves, LocksKept
<1> QED
  BY <1>1, <1>2, <1>3, <1>4, <1>5, <1>6, <1>7, <1>8, <1>9 DEF Acts

-----------------------------------------------------------------------------
(* What a step leaves alone. *)

LEMMA TypeLocks == TypeOK => Locks
BY DEF TypeOK, Locks

(* Only a process that is alone changes the files. *)
LEMMA OnlyAlone ==
  ASSUME NEW p \in Proc, Acts(p), pc[p] \notin Alone
  PROVE  UNCHANGED <<failures, disk, writes, acked, discarded>>
<1>1. CASE LockShared(p) \/ LockToRecover(p) \/ LockAgain(p) \/ LockExclusive(p)
  BY <1>1 DEF LockShared, LockToRecover, LockAgain, LockExclusive, disk, history
<1>2. CASE FinishRead(p)
  BY <1>2 DEF FinishRead, history
<1>3. CASE Stop(p)
  BY <1>3 DEF Stop, Alone, disk, history
<1> QED
  BY <1>1, <1>2, <1>3 DEF Acts, Alone, Recover, SyncData, Mark, CopyBlock, CreateLog, WriteFrames,
    SyncLog, SyncDirectory, FailStatement, FailSync, FailCheckpoint, FailMark

LEMMA OthersSame ==
  ASSUME TypeOK, NEW p \in Proc, Acts(p), NEW q \in Proc \ {p}
  PROVE  /\ pc'[q] = pc[q] /\ own'[q] = own[q] /\ todo'[q] = todo[q]
         /\ q \in unchecked' <=> q \in unchecked
<1>1. ASSUME Finish(p)
      PROVE  /\ pc'[q] = pc[q] /\ own'[q] = own[q] /\ todo'[q] = todo[q]
             /\ q \in unchecked' <=> q \in unchecked
  BY <1>1 DEF Finish, At, TypeOK
<1>2. Opened(p) => pc'[q] = pc[q]
  BY DEF Opened, At, TypeOK
<1>3. ASSUME NEW step, At(p, step) PROVE pc'[q] = pc[q]
  BY <1>3 DEF At, TypeOK
<1>4. CASE LockShared(p) \/ LockToRecover(p) \/ LockAgain(p) \/ LockExclusive(p)
  BY <1>3, <1>4 DEF LockShared, LockToRecover, LockAgain, LockExclusive, TypeOK
<1>5. CASE Recover(p)
  BY <1>2, <1>3, <1>5 DEF Recover, TypeOK
<1>6. CASE Mark(p)
  BY <1>1, <1>2, <1>6 DEF Mark
<1>7. CASE \E b \in Block : CopyBlock(p, b)
  BY <1>7 DEF CopyBlock, TypeOK
<1>8. CASE SyncData(p) \/ CreateLog(p) \/ WriteFrames(p) \/ SyncLog(p) \/ SyncDirectory(p)
  BY <1>3, <1>8 DEF SyncData, CreateLog, WriteFrames, SyncLog, SyncDirectory, StartCheckpoint, TypeOK
<1>9. CASE FinishRead(p) \/ FailStatement(p) \/ FailSync(p) \/ FailCheckpoint(p) \/ FailMark(p) \/ Stop(p)
  BY <1>1, <1>9 DEF FinishRead, FailStatement, FailSync, FailCheckpoint, FailMark, Stop
<1> QED
  BY <1>4, <1>5, <1>6, <1>7, <1>8, <1>9 DEF Acts

(* While a process is alone, others can only stop. *)
LEMMA OthersStop ==
  ASSUME TypeOK, NEW p \in Proc, Acts(p), NEW q \in Proc \ {p}, pc[q] \in Alone
  PROVE  Stop(p) /\ UNCHANGED <<disk, last, writes, acked, discarded>>
<1>1. lock[q] = "exclusive" /\ pc[p] \in {"idle", "upgrade", "relock"}
  BY TypeLocks, OthersWait
<1>2. ~ CanShare(p) /\ ~ CanHoldAlone(p)
  BY <1>1 DEF CanShare, CanHoldAlone
<1> QED
  BY <1>1, <1>2 DEF Acts, LockShared, LockToRecover, LockAgain, FinishRead, LockExclusive, Recover,
    SyncData, Mark, CopyBlock, CreateLog, WriteFrames, SyncLog, SyncDirectory, FailStatement,
    FailSync, FailCheckpoint, FailMark, Stop, disk, history

LEMMA OthersOwn ==
  ASSUME Base, NEW p \in Proc, Acts(p), NEW q \in Proc \ {p}
  PROVE  Owner(q)'
<1>1. pc'[q] = pc[q] /\ own'[q] = own[q] /\ Owner(q)
  BY OthersSame DEF Base
<1>2. CASE own[q] = 0
  BY <1>1, <1>2 DEF Owner
<1>3. CASE own[q] # 0
  <2>1. UNCHANGED <<disk, last, writes, acked, discarded>>
    BY <1>1, <1>3, OthersStop DEF Base, Owner
  <2> QED
    BY <1>1, <2>1 DEF Owner, disk, Committed, NeedsRecovery
<1> QED
  BY <1>2, <1>3

-----------------------------------------------------------------------------
(* Types, and who commits what. *)

FileType(d) ==
  /\ \A b \in Page : d[b] \in 0 .. MaxStatement
  /\ d[Header] \subseteq Statement
  /\ d = [b \in Block |-> d[b]]

Files ==
  /\ failures \in Environments
  /\ FileType(data) /\ FileType(disk_data)
  /\ log \in LogType /\ disk_log \in LogType /\ entry \in BOOLEAN

Clients ==
  /\ own \in [Proc -> 0 .. MaxStatement]
  /\ is_new \in [Proc -> BOOLEAN]
  /\ todo \in [Proc -> SUBSET Block]
  /\ unchecked \subseteq Proc

History ==
  /\ last \in 0 .. MaxStatement
  /\ writes \in [Statement -> SUBSET Page]
  /\ acked \subseteq Statement /\ discarded \subseteq Statement /\ failed \subseteq Statement

LEMMA TypeParts == TypeOK <=> Files /\ Locks /\ Clients /\ History
BY DEF TypeOK, Files, FileType, Locks, Clients, History

LEMMA TypePartsNext == Files' /\ Locks' /\ Clients' /\ History' => TypeOK'
BY DEF TypeOK, Files, FileType, Locks, Clients, History

(* A process that commits a statement commits the last one. *)
LEMMA OwnsLast ==
  ASSUME Base, NEW p \in Proc, own[p] # 0
  PROVE  /\ own[p] = last /\ own[p] \in Statement /\ own[p] \in 1 .. last
         /\ pc[p] \in Alone /\ own[p] \notin discarded
<1>1. own[p] = last /\ last \in 0 .. MaxStatement /\ MaxStatement \in Nat
  BY WalAssumption DEF Base, Owner, TypeOK
<1> QED
  BY <1>1 DEF Base, Owner, Statement

LEMMA BaseFinish ==
  ASSUME Base, NEW p \in Proc, Finish(p)
  PROVE  Clients' /\ Owner(p)'
<1>1. own' = [own EXCEPT ![p] = 0] /\ pc' = [pc EXCEPT ![p] = "idle"]
  BY DEF Finish, At
<1>2. 0 \in 0 .. MaxStatement
  BY WalAssumption
<1>3. Clients'
  BY <1>1, <1>2 DEF Finish, Clients, Base, TypeOK
<1>4. own'[p] = 0 /\ pc'[p] = "idle"
  BY <1>1 DEF Base, TypeOK
<1> QED
  BY <1>3, <1>4 DEF Owner

(* The steps that only move a process. *)
LEMMA BaseLocks ==
  ASSUME Base, NEW p \in Proc,
         LockShared(p) \/ LockToRecover(p) \/ LockAgain(p) \/ FinishRead(p) \/ FailSync(p)
  PROVE  Files' /\ Clients' /\ History' /\ Known' /\ Owner(p)'
<1>1. Files /\ Clients /\ History /\ Known
  BY TypeParts DEF Base
<1>2. UNCHANGED <<failures, disk, last, writes, acked, discarded>>
  BY DEF LockShared, LockToRecover, LockAgain, FinishRead, FailSync, history
<1>3. Files' /\ Known'
  BY <1>1, <1>2 DEF Files, FileType, Known, LogKnown, disk
<1>4. CASE LockShared(p) \/ LockToRecover(p) \/ LockAgain(p)
  <2>1. pc[p] \notin Alone /\ UNCHANGED <<own, is_new, todo, failed>> /\ unchecked' \subseteq Proc
    BY <1>1, <1>4 DEF LockShared, LockToRecover, LockAgain, history, Clients, Alone
  <2>2. own[p] = 0
    BY <2>1, OwnsLast
  <2>3. Clients' /\ History'
    BY <1>1, <1>2, <2>1 DEF Clients, History
  <2>4. pc'[p] \notin {"writing", "frames", "fsync", "fsync_dir"}
    BY <1>4 DEF LockShared, LockToRecover, LockAgain, At, Base, TypeOK
  <2>5. Owner(p)'
    BY <2>1, <2>2, <2>4 DEF Owner
  <2> QED
    BY <1>3, <2>3, <2>5
<1>5. CASE FinishRead(p)
  <2>1. Clients' /\ Owner(p)'
    BY <1>5, BaseFinish DEF FinishRead
  <2>2. History'
    BY <1>1, <1>5 DEF FinishRead, history, History
  <2> QED
    BY <1>3, <2>1, <2>2
<1>6. CASE FailSync(p)
  <2>1. Clients' /\ Owner(p)'
    BY <1>6, BaseFinish DEF FailSync
  <2>2. own[p] \in Statement /\ failed' = failed \cup {own[p]}
    BY <1>6, OwnsLast DEF FailSync, Base, Owner
  <2>3. History'
    BY <1>1, <1>2, <2>2 DEF History
  <2> QED
    BY <1>3, <2>1, <2>3
<1> QED
  BY <1>4, <1>5, <1>6

LEMMA BaseExclusive ==
  ASSUME Base, NEW p \in Proc, LockExclusive(p)
  PROVE  Files' /\ Clients' /\ History' /\ Known' /\ Owner(p)'
<1>1. Files /\ Clients /\ History /\ Known
  BY TypeParts DEF Base
<1>2. /\ UNCHANGED <<failures, disk, is_new, todo, unchecked, writes, acked, discarded, failed>>
      /\ last' = last + 1 /\ last < MaxStatement
      /\ own' = [own EXCEPT ![p] = last + 1]
      /\ pc' = [pc EXCEPT ![p] = "recover"]
  BY DEF LockExclusive, At
<1>3. last \in Nat /\ last + 1 \in 0 .. MaxStatement /\ last + 1 # 0 /\ 1 .. last \subseteq 1 .. (last + 1)
  BY <1>1, <1>2, WalAssumption DEF History
<1>4. Files' /\ Clients' /\ History'
  BY <1>1, <1>2, <1>3 DEF Files, FileType, Clients, History, disk
<1>5. Known'
  BY <1>1, <1>2, <1>3 DEF Known, LogKnown, disk, Files, LogType
<1>6. own'[p] = last + 1 /\ pc'[p] = "recover"
  BY <1>1, <1>2 DEF Clients, Base, TypeOK
<1>7. last + 1 \notin 1 .. last /\ log.id # last + 1 /\ disk_log.id # last + 1
  BY <1>1, <1>3 DEF Known, LogKnown, Files, LogType
<1>8. Owner(p)'
  BY <1>1, <1>2, <1>3, <1>6, <1>7 DEF Owner, Known, LogKnown, Alone, disk
<1> QED
  BY <1>4, <1>5, <1>8

(* The steps of the recovery and of the commit that leave the log alone. *)
LEMMA BaseRecover ==
  ASSUME Base, NEW p \in Proc, Recover(p) \/ SyncData(p) \/ SyncLog(p) \/ SyncDirectory(p)
  PROVE  Files' /\ Clients' /\ History' /\ Known' /\ Owner(p)'
<1>1. Files /\ Clients /\ History /\ Known /\ Owner(p) /\ pc \in [Proc -> Steps]
  BY TypeParts DEF Base, TypeOK
<1>2. /\ UNCHANGED <<failures, data, log, own, is_new, unchecked, history>>
      /\ disk_data' \in {data, disk_data} /\ disk_log' \in {log, disk_log} /\ entry' \in BOOLEAN
  BY <1>1 DEF Recover, SyncData, SyncLog, SyncDirectory, disk, Files
<1>3. Files' /\ History' /\ Known'
  BY <1>1, <1>2 DEF Files, FileType, History, Known, LogKnown, history
<1>4. todo' = todo \/ todo' = [todo EXCEPT ![p] = Copied(log)]
  BY DEF Recover, SyncData, SyncLog, SyncDirectory, StartCheckpoint
<1>5. Clients'
  <2>1. CASE todo' = todo
    BY <1>1, <1>2, <2>1 DEF Clients
  <2>2. CASE todo' = [todo EXCEPT ![p] = Copied(log)] /\ Committed(log)
    <3>1. Copied(log) \subseteq Block
      BY <1>1, <2>2 DEF Known, LogKnown, Files, LogType, History, Copied, Committed, Block
    <3> QED
      BY <1>1, <1>2, <2>2, <3>1 DEF Clients
  <2>3. CASE todo' = [todo EXCEPT ![p] = Copied(log)] /\ ~ Committed(log)
    <3>1. SyncLog(p) \/ SyncDirectory(p) \/ todo' = todo
      BY <2>3 DEF Recover, SyncData
    <3>2. SyncLog(p) \/ SyncDirectory(p) => Committed(log)
      BY <1>1 DEF SyncLog, SyncDirectory, Owner
    <3> QED
      BY <2>1, <2>3, <3>1, <3>2
  <2> QED
    BY <1>4, <2>1, <2>2, <2>3
<1>6. CASE Recover(p)
  <2>1. pc[p] = "recover" /\ disk_log' = disk_log
    BY <1>6 DEF Recover, disk
  <2>2. \/ own[p] = 0 /\ pc'[p] \in {"relock", "checkpoint", "mark"}
        \/ own[p] # 0 /\ pc'[p] \in {"writing", "checkpoint", "mark"}
    BY <1>1, <1>6 DEF Recover, Opened, At
  <2>3. Owner(p)'
    BY <1>1, <1>2, <2>1, <2>2 DEF Owner, Alone, history
  <2> QED
    BY <1>3, <1>5, <2>3
<1>7. CASE SyncData(p)
  <2>1. pc[p] = "checkpoint" /\ pc'[p] = "mark" /\ disk_log' = disk_log
    BY <1>1, <1>7 DEF SyncData, At
  <2>2. Owner(p)'
    BY <1>1, <1>2, <2>1 DEF Owner, Alone, Committed, NeedsRecovery, history
  <2> QED
    BY <1>3, <1>5, <2>2
<1>8. CASE SyncLog(p) \/ SyncDirectory(p)
  <2>1. pc[p] \in {"fsync", "fsync_dir"} /\ pc'[p] \in {"fsync_dir", "checkpoint"}
    BY <1>1, <1>8 DEF SyncLog, SyncDirectory, StartCheckpoint, At
  <2>2. Owner(p)'
    BY <1>1, <1>2, <2>1 DEF Owner, Alone, Committed, NeedsRecovery, history
  <2> QED
    BY <1>3, <1>5, <2>2
<1> QED
  BY <1>6, <1>7, <1>8

LEMMA BaseCopy ==
  ASSUME Base, NEW p \in Proc, NEW b \in Block, CopyBlock(p, b)
  PROVE  Files' /\ Clients' /\ History' /\ Known' /\ Owner(p)'
<1>1. Files /\ Clients /\ History /\ Known /\ Owner(p)
  BY TypeParts DEF Base
<1>2. /\ UNCHANGED <<failures, disk_data, log, disk_log, entry, pc, own, is_new, unchecked, history>>
      /\ data' = [data EXCEPT ![b] = BlockOf(log, b)]
      /\ todo' = [todo EXCEPT ![p] = @ \ {b}]
      /\ pc[p] = "checkpoint"
  BY DEF CopyBlock
<1>3. data' = [x \in Block |-> IF x = b THEN BlockOf(log, b) ELSE data[x]]
  BY <1>1, <1>2 DEF Files, FileType
<1>4. /\ data'[Header] \in {data[Header], log.header}
      /\ \A x \in Page : data'[x] \in {data[x], log.id}
  BY <1>3, WalAssumption DEF BlockOf, Block, Header
<1>5. data' = [x \in Block |-> data'[x]]
  BY <1>3
<1>6. FileType(data')
  BY <1>1, <1>4, <1>5 DEF Files, FileType, LogType
<1>7. Files'
  BY <1>1, <1>2, <1>6 DEF Files, FileType
<1>8. Clients' /\ History'
  BY <1>1, <1>2 DEF Clients, History, history
<1>9. Known' /\ Owner(p)'
  BY <1>1, <1>2, <1>4 DEF Known, LogKnown, Owner, Committed, NeedsRecovery, history
<1> QED
  BY <1>7, <1>8, <1>9

LEMMA BaseMark ==
  ASSUME Base, NEW p \in Proc, Mark(p)
  PROVE  Files' /\ Clients' /\ History' /\ Known' /\ Owner(p)'
<1>1. Files /\ Clients /\ History /\ Known /\ Owner(p) /\ pc \in [Proc -> Steps]
  BY TypeParts DEF Base, TypeOK
<1>2. /\ UNCHANGED <<failures, data, disk_data, disk_log, entry, last, writes, discarded, failed>>
      /\ log' = [log EXCEPT !.checkpointed = TRUE] /\ pc[p] = "mark"
  BY DEF Mark
<1>3. log' \in LogType /\ log'.id = log.id /\ log'.header = log.header /\ log'.kind = log.kind
  BY <1>1, <1>2 DEF Files, LogType
<1>4. Files' /\ Known'
  BY <1>1, <1>2, <1>3 DEF Files, FileType, Known, LogKnown
<1>5. CASE Committing(p)
  <2>1. Finish(p) /\ acked' = acked \cup {own[p]}
    BY <1>5 DEF Mark
  <2>2. own[p] \in Statement
    BY <1>5, OwnsLast DEF Committing
  <2> QED
    BY <1>1, <1>2, <1>4, <2>1, <2>2, BaseFinish DEF History
<1>6. CASE ~ Committing(p)
  <2>1. Opened(p) /\ UNCHANGED <<own, is_new, todo, unchecked, acked>>
    BY <1>6 DEF Mark
  <2>2. Clients' /\ History'
    BY <1>1, <1>2, <2>1 DEF Clients, History
  <2>3. \/ own[p] = 0 /\ pc'[p] = "relock"
        \/ own[p] # 0 /\ log.id # own[p] /\ pc'[p] = "writing"
    BY <1>1, <1>6, <2>1 DEF Opened, At, Committing
  <2>4. Owner(p)'
    BY <1>1, <1>2, <1>3, <2>1, <2>3 DEF Owner, Alone
  <2> QED
    BY <1>4, <2>2, <2>4
<1> QED
  BY <1>5, <1>6

LEMMA BaseCreate ==
  ASSUME Base, NEW p \in Proc, CreateLog(p)
  PROVE  Files' /\ Clients' /\ History' /\ Known' /\ Owner(p)'
<1>1. Files /\ Clients /\ History /\ Known /\ Owner(p) /\ pc \in [Proc -> Steps]
  BY TypeParts DEF Base, TypeOK
<1>2. /\ UNCHANGED <<failures, data, disk_data, disk_log, entry, own, todo, unchecked, last, acked,
                     discarded, failed>>
      /\ log' = EmptyLog /\ pc[p] = "writing" /\ pc' = [pc EXCEPT ![p] = "frames"]
      /\ is_new' = [is_new EXCEPT ![p] = log.kind = "none"]
  BY DEF CreateLog, At
<1>3. own[p] # 0 /\ own[p] \in Statement /\ own[p] = last
  BY <1>1, <1>2, OwnsLast DEF Owner
<1>4. log' \in LogType /\ log'.id = 0 /\ log'.header = {} /\ log'.kind # "log"
  BY <1>2, EmptyLogs
<1>5. Files' /\ Known'
  <2>1. 0 <= last
    BY <1>1, WalAssumption DEF History
  <2>2. LogKnown(log')
    BY <1>2, <1>4, <2>1 DEF LogKnown
  <2> QED
    BY <1>1, <1>2, <1>4, <2>2 DEF Files, FileType, Known, LogKnown
<1>6. PICK W \in SUBSET Page : writes' = [writes EXCEPT ![own[p]] = W]
  BY DEF CreateLog
<1>7. Clients' /\ History'
  BY <1>1, <1>2, <1>3, <1>6 DEF Clients, History
<1>8. pc'[p] = "frames"
  BY <1>1, <1>2
<1>9. Owner(p)'
  BY <1>1, <1>2, <1>3, <1>4, <1>8 DEF Owner, Alone
<1> QED
  BY <1>5, <1>7, <1>9

LEMMA CommittedLogs ==
  ASSUME Base, NEW n \in Statement, n <= last
  PROVE  /\ CommittedLog(n) \in LogType /\ LogKnown(CommittedLog(n))
         /\ CommittedLog(n).id = n /\ CommittedLog(n).header = data[Header] \cup {n}
         /\ Committed(CommittedLog(n)) /\ NeedsRecovery(CommittedLog(n))
<1>1. last \in 0 .. MaxStatement /\ MaxStatement \in Nat /\ data[Header] \subseteq 1 .. last
  BY WalAssumption DEF Base, TypeOK, Known
<1>2. n \in 0 .. MaxStatement /\ n \in 1 .. last /\ 1 .. last \subseteq Statement
  BY <1>1 DEF Statement
<1>3. data[Header] \cup {n} \subseteq 1 .. last /\ data[Header] \cup {n} \in SUBSET Statement
  BY <1>1, <1>2
<1> QED
  BY <1>2, <1>3 DEF CommittedLog, LogType, LogKnown, Committed, NeedsRecovery

LEMMA BaseFrames ==
  ASSUME Base, NEW p \in Proc, WriteFrames(p)
  PROVE  Files' /\ Clients' /\ History' /\ Known' /\ Owner(p)'
<1>1. Files /\ Clients /\ History /\ Known /\ Owner(p) /\ pc \in [Proc -> Steps]
  BY TypeParts DEF Base, TypeOK
<1>2. /\ UNCHANGED <<failures, data, disk_data, disk_log, entry, own, is_new, todo, unchecked,
                     history>>
      /\ log' = CommittedLog(own[p]) /\ pc[p] = "frames" /\ pc' = [pc EXCEPT ![p] = "fsync"]
  BY DEF WriteFrames, At
<1>3. own[p] # 0 /\ own[p] \in Statement /\ own[p] = last /\ own[p] <= last
  BY <1>1, <1>2, OwnsLast DEF Owner, History
<1>4. /\ log' \in LogType /\ LogKnown(log') /\ log'.id = own[p]
      /\ Committed(log') /\ NeedsRecovery(log')
  BY <1>2, <1>3, CommittedLogs
<1>5. Files' /\ Known' /\ Clients' /\ History'
  BY <1>1, <1>2, <1>4 DEF Files, FileType, Known, LogKnown, Clients, History, history
<1>6. pc'[p] = "fsync"
  BY <1>1, <1>2
<1>7. Owner(p)'
  BY <1>1, <1>2, <1>3, <1>4, <1>6 DEF Owner, Alone, Committed, NeedsRecovery, history
<1> QED
  BY <1>5, <1>7

(* The steps that end a statement. *)
LEMMA BaseFails ==
  ASSUME Base, NEW p \in Proc,
         FailStatement(p) \/ FailCheckpoint(p) \/ FailMark(p) \/ Stop(p)
  PROVE  Files' /\ Clients' /\ History' /\ Known' /\ Owner(p)'
<1>1. Files /\ Clients /\ History /\ Known /\ Owner(p)
  BY TypeParts DEF Base
<1>2. Clients' /\ Owner(p)'
  BY BaseFinish DEF FailStatement, FailCheckpoint, FailMark, Stop
<1>3. /\ UNCHANGED <<failures, data, disk_data, disk_log, entry, last, writes>>
      /\ log' = log \/ (pc[p] = "frames" /\ log' \in Partial(own[p]))
      /\ acked' = acked \/ (own[p] # 0 /\ acked' = acked \cup {own[p]})
      /\ failed' = failed \/ (own[p] # 0 /\ failed' = failed \cup {own[p]})
      /\ discarded' = discarded \/ (own[p] # 0 /\ discarded' = discarded \cup {own[p]})
  BY <1>1 DEF FailStatement, FailCheckpoint, FailMark, Stop, disk, history, Committing, Owner
<1>4. own[p] # 0 => own[p] \in Statement /\ own[p] \in 1 .. last /\ own[p] <= last
  BY <1>1, OwnsLast DEF History
<1>5. History'
  BY <1>1, <1>3, <1>4 DEF History
<1>6. log' \in LogType /\ LogKnown(log')
  <2>1. CASE log' = log
    BY <1>1, <2>1 DEF Files, Known
  <2>2. CASE pc[p] = "frames" /\ log' \in Partial(own[p])
    <3>1. own[p] \in Statement /\ own[p] <= last
      BY <1>1, <1>4, <2>2 DEF Owner
    <3> QED
      BY <1>1, <2>2, <3>1, PartLogs DEF Base, Known
  <2> QED
    BY <1>3, <2>1, <2>2
<1>7. Files' /\ Known'
  BY <1>1, <1>3, <1>4, <1>6 DEF Files, FileType, Known, LogKnown
<1> QED
  BY <1>2, <1>5, <1>7

LEMMA BasePower ==
  ASSUME Base, PowerFails
  PROVE  Base'
<1>1. Files /\ Locks /\ Clients /\ History /\ Known
  BY TypeParts DEF Base
<1>2. PICK l \in LogsOnDisk, d \in DataOnDisk :
        log' = l /\ disk_log' = l /\ entry' = (l.kind # "none") /\ data' = d /\ disk_data' = d
  BY DEF PowerFails
<1>3. /\ UNCHANGED <<failures, history>>
      /\ lock' = [p \in Proc |-> "none"] /\ pc' = [p \in Proc |-> "idle"]
      /\ own' = [p \in Proc |-> 0] /\ is_new' = [p \in Proc |-> FALSE]
      /\ todo' = [p \in Proc |-> {}] /\ unchecked' = {}
  BY DEF PowerFails
<1>4. 0 \in 0 .. MaxStatement /\ 0 <= last
  BY <1>1, WalAssumption DEF History
<1>5. l \in LogType /\ LogKnown(l)
  <2>1. CASE l \in {log, disk_log}
    BY <1>1, <2>1 DEF Files, Known
  <2>2. CASE l \in {EmptyLog, ShortLog, NoLog}
    BY <1>4, <2>2, EmptyLogs DEF LogKnown
  <2>3. CASE l = [log EXCEPT !.commit = FALSE]
    BY <1>1, <2>3 DEF Files, LogType, Known, LogKnown
  <2> QED
    BY <1>2, <2>1, <2>2, <2>3 DEF LogsOnDisk
<1>6. FileType(d) /\ d[Header] \subseteq 1 .. last
  <2>1. PICK S \in SUBSET Block : d = [b \in Block |-> IF b \in S THEN data[b] ELSE disk_data[b]]
    BY <1>2 DEF DataOnDisk
  <2>2. \A b \in Block : d[b] \in {data[b], disk_data[b]}
    BY <2>1
  <2>3. Header \in Block /\ Page \subseteq Block
    BY DEF Block
  <2>4. d = [b \in Block |-> d[b]]
    BY <2>1
  <2> QED
    BY <1>1, <2>2, <2>3, <2>4 DEF FileType, Files, Known
<1>7. Files' /\ History' /\ Known'
  BY <1>1, <1>2, <1>3, <1>5, <1>6 DEF Files, FileType, History, Known, LogKnown, history
<1>8. Clients' /\ Locks'
  BY <1>3, <1>4 DEF Clients, Locks, Steps, Locked, CanHoldAlone
<1>9. ASSUME NEW p \in Proc PROVE Owner(p)'
  BY <1>3 DEF Owner
<1> QED
  BY <1>7, <1>8, <1>9, TypePartsNext DEF Base

LEMMA BaseActs ==
  ASSUME Base, NEW p \in Proc, Acts(p)
  PROVE  Base'
<1>1. Files' /\ Clients' /\ History' /\ Known' /\ Owner(p)'
  BY BaseLocks, BaseExclusive, BaseRecover, BaseCopy, BaseMark, BaseCreate, BaseFrames, BaseFails
     DEF Acts
<1>2. Locks'
  BY TypeLocks, LocksNext DEF Base
<1>3. \A q \in Proc \ {p} : Owner(q)'
  BY OthersOwn
<1> QED
  BY <1>1, <1>2, <1>3, TypePartsNext DEF Base

LEMMA BaseStutters ==
  ASSUME Base, UNCHANGED vars
  PROVE  Base'
<1>1. TypeOK'
  BY DEF Base, TypeOK, vars, disk, clients, history, Locked, CanHoldAlone
<1>2. Known' /\ \A p \in Proc : Owner(p)'
  BY DEF Base, Known, LogKnown, Owner, Committed, NeedsRecovery, vars, disk, clients, history
<1> QED
  BY <1>1, <1>2 DEF Base

LEMMA BaseInit == Init => Base
<1> SUFFICES ASSUME Init PROVE Base
  OBVIOUS
<1>1. 0 \in 0 .. MaxStatement /\ 0 <= last
  BY WalAssumption DEF Init
<1>2. FileType(Empty) /\ Empty[Header] = {}
  BY <1>1, WalAssumption DEF FileType, Empty, Block, Header
<1>3. Files /\ History
  BY <1>1, <1>2, EmptyLogs DEF Init, Files, History
<1>4. Clients /\ Locks
  BY <1>1 DEF Init, Clients, Locks, Steps, Locked, CanHoldAlone
<1>5. Known
  BY <1>1, <1>2, EmptyLogs DEF Init, Known, LogKnown
<1>6. ASSUME NEW p \in Proc PROVE Owner(p)
  BY DEF Init, Owner
<1> QED
  BY <1>3, <1>4, <1>5, <1>6, TypeParts DEF Base

(* Base holds of every behaviour. *)
LEMMA AlwaysBase == Spec => []Base
<1>1. Base /\ [Next]_vars => Base'
  <2>1. Base /\ Next => Base'
    BY NextActs, BaseActs, BasePower
  <2> QED
    BY <2>1, BaseStutters
<1> QED
  BY BaseInit, <1>1, PTL DEF Spec

(* The type of every variable, and that each process has the lock its step *)
(* needs: alone if it may write (open_read_connection and                  *)
(* open_write_connection, and flock_nix.c.v), whatever fails and whenever  *)
(* a process stops.                                                        *)
THEOREM TypeCorrect == Spec => []TypeOK
<1>1. Base => TypeOK
  BY DEF Base
<1> QED
  BY AlwaysBase, <1>1, PTL

-----------------------------------------------------------------------------
(* What recovery finds. *)

LEMMA RecoveredWhole ==
  ASSUME NEW l, NEW d, d = [b \in Block |-> d[b]],
         NeedsRecovery(l) /\ Committed(l) =>
           \A b \in Copied(l) : d[b] = BlockOf(l, b)
  PROVE  Recovered(l, d) = d
BY DEF Recovered

(* The file itself, when the log holds nothing that has to be copied.      *)
LEMMA StoredData ==
  ASSUME Base, Stored, ~ Pending \/ InFile(log, Copied(log))
  PROVE  Recovered(log, data) = data /\ Good(data)
<1>1. data = [b \in Block |-> data[b]]
  BY DEF Base, TypeOK
<1>2. Recovered(log, data) = data
  BY <1>1, RecoveredWhole DEF Pending, InFile
<1> QED
  BY <1>2 DEF Stored

LEMMA UnsyncedAlone ==
  ASSUME Base, NEW p \in Proc, Acts(p), pc[p] \in Alone
  PROVE  /\ Unsynced <=> pc[p] = "fsync"
         /\ Unsynced' <=> pc'[p] = "fsync"
<1>1. \A q \in Proc \ {p} : pc[q] # "fsync" /\ pc'[q] = pc[q]
  BY TypeLocks, OthersWait, OthersSame DEF Base
<1> QED
  BY <1>1 DEF Unsynced

LEMMA OthersAtStep ==
  ASSUME Base, NEW p \in Proc, Acts(p), NEW q \in Proc \ {p}, AtStep(q)
  PROVE  AtStep(q)'
<1>1. /\ pc'[q] = pc[q] /\ todo'[q] = todo[q]
      /\ q \in unchecked' <=> q \in unchecked
  BY OthersSame DEF Base
<1>2. CASE pc[p] \in Alone
  <2>1. pc[q] \in {"idle", "upgrade", "relock"}
    BY <1>2, TypeLocks, OthersWait DEF Base
  <2> QED
    BY <1>1, <2>1 DEF AtStep
<1>3. CASE pc[p] \notin Alone
  <2>1. UNCHANGED <<failures, disk, writes, acked, discarded>>
    BY <1>3, OnlyAlone
  <2> QED
    BY <1>1, <2>1 DEF AtStep, disk, NeedsRecovery, Committed, Whole, Pending, Copied, InFile, BlockOf
<1> QED
  BY <1>2, <1>3

LEMMA StoredKept ==
  ASSUME Stored, Recovered(log, data)' = Recovered(log, data), writes' = writes, acked' = acked
  PROVE  Stored'
BY DEF Stored, Good, Whole

(* The promise after a step that leaves the files alone.                   *)
LEMMA SameFiles ==
  ASSUME Stored, Durable, UNCHANGED <<failures, disk, writes, acked>>, Unsynced' <=> Unsynced
  PROVE  Stored' /\ Durable'
<1>1. UNCHANGED <<data, disk_data, log, disk_log, entry, writes, acked, failures>>
  BY DEF disk
<1>2. Stored'
  <2>1. Recovered(log, data)' = Recovered(log, data)
    BY <1>1 DEF Recovered, NeedsRecovery, Committed, Copied, BlockOf
  <2> QED
    BY <1>1, <2>1, StoredKept
<1>3. Pending' <=> Pending
  BY <1>1 DEF Pending, NeedsRecovery, Committed
<1>4. Needed => Needed'
  BY <1>1 DEF Needed, Copied
<1>5. Good(data) => Good(data)'
  BY <1>1 DEF Good, Whole
<1>6. Unneeded => Unneeded'
  BY <1>1, <1>5 DEF Unneeded, InFile, NeedsRecovery, Committed, Copied, BlockOf
<1> QED
  BY <1>1, <1>2, <1>3, <1>4, <1>6 DEF Durable

LEMMA KeptLocks ==
  ASSUME IInv, NEW p \in Proc, Acts(p), pc[p] \notin Alone
  PROVE  AtStep(p)' /\ Stored' /\ Durable'
<1>1. Base /\ Stored /\ Durable /\ pc \in [Proc -> Steps]
  BY DEF IInv, Base, TypeOK
<1>2. UNCHANGED <<failures, disk, writes, acked, discarded>>
  BY OnlyAlone
<1>3. \/ pc'[p] \in {"idle", "upgrade", "recover"}
      \/ pc'[p] = "reading" /\ (p \in unchecked' \/ ~ NeedsRecovery(log))
  BY <1>1 DEF Acts, Alone, LockShared, LockToRecover, LockAgain, FinishRead, LockExclusive, Recover,
    SyncData, Mark, CopyBlock, CreateLog, WriteFrames, SyncLog, SyncDirectory, FailStatement,
    FailSync, FailCheckpoint, FailMark, Stop, Finish, At
<1>4. AtStep(p)'
  BY <1>2, <1>3 DEF AtStep, disk, NeedsRecovery
<1>5. Unsynced' <=> Unsynced
  <2>1. pc[p] # "fsync" /\ pc'[p] # "fsync" /\ \A q \in Proc \ {p} : pc'[q] = pc[q]
    BY <1>1, <1>3, OthersSame DEF Base, Alone
  <2> QED
    BY <2>1 DEF Unsynced
<1> QED
  BY <1>1, <1>2, <1>4, <1>5, SameFiles

LEMMA KeptRecover ==
  ASSUME IInv, NEW p \in Proc, Recover(p) \/ FailMark(p)
  PROVE  AtStep(p)' /\ Stored' /\ Durable'
<1>1. Base /\ Stored /\ Durable /\ pc \in [Proc -> Steps] /\ Acts(p) /\ todo \in [Proc -> SUBSET Block]
  BY DEF IInv, Base, TypeOK, Acts
<1>2. pc[p] \in {"recover", "mark"} /\ UNCHANGED <<failures, disk, writes, acked>>
  BY DEF Recover, FailMark, history
<1>3. pc'[p] \in {"idle", "relock", "writing", "checkpoint", "mark"}
  BY <1>1 DEF Recover, FailMark, Opened, Finish, At
<1>4. Unsynced' <=> Unsynced
  BY <1>1, <1>2, <1>3, UnsyncedAlone DEF Alone
<1>5. CASE Recover(p)
  <2>1. pc'[p] = "writing" => ~ NeedsRecovery(log)
    BY <1>1, <1>5 DEF Recover, At
  <2>2. pc'[p] = "checkpoint" => Pending /\ todo'[p] = Copied(log)
    BY <1>1, <1>5 DEF Recover, Pending, Opened, At
  <2>3. pc'[p] = "mark" => NeedsRecovery(log) /\ ~ Committed(log)
    BY <1>1, <1>5 DEF Recover, Opened, At
  <2>4. AtStep(p)'
    BY <1>2, <1>3, <2>1, <2>2, <2>3
       DEF AtStep, disk, NeedsRecovery, Committed, Pending, Copied, InFile
  <2> QED
    BY <1>1, <1>2, <1>4, <2>4, SameFiles
<1>6. CASE FailMark(p)
  <2>1. pc'[p] = "idle"
    BY <1>1, <1>6 DEF FailMark, Finish, At
  <2>2. AtStep(p)'
    BY <2>1 DEF AtStep
  <2> QED
    BY <1>1, <1>2, <1>4, <2>2, SameFiles
<1> QED
  BY <1>5, <1>6

(* Copying a block that is in the log doesn't change what recovery finds.  *)
LEMMA KeptCopy ==
  ASSUME IInv, NEW p \in Proc, NEW b \in Block, CopyBlock(p, b)
  PROVE  AtStep(p)' /\ Stored' /\ Durable'
<1>1. Base /\ Stored /\ Durable /\ AtStep(p) /\ Acts(p) /\ todo \in [Proc -> SUBSET Block]
      /\ data = [x \in Block |-> data[x]]
  BY DEF IInv, Base, TypeOK, Acts
<1>2. /\ UNCHANGED <<failures, disk_data, log, disk_log, entry, pc, writes, acked>>
      /\ data' = [data EXCEPT ![b] = BlockOf(log, b)]
      /\ todo' = [todo EXCEPT ![p] = @ \ {b}]
      /\ pc[p] = "checkpoint" /\ b \in todo[p]
  BY DEF CopyBlock, history
<1>3. /\ Pending /\ b \in Copied(log) /\ todo'[p] = todo[p] \ {b}
      /\ todo[p] \subseteq Copied(log) /\ InFile(log, Copied(log) \ todo[p])
  BY <1>1, <1>2 DEF AtStep
<1>4. data' = [x \in Block |-> IF x = b THEN BlockOf(log, b) ELSE data[x]]
  BY <1>1, <1>2
<1>5. Pending' /\ Copied(log)' = Copied(log) /\ \A x : BlockOf(log, x)' = BlockOf(log, x)
  BY <1>2, <1>3 DEF Pending, NeedsRecovery, Committed, Copied, BlockOf
<1>6. Copied(log) \subseteq Block
  BY <1>1, <1>3 DEF Pending, Committed, Copied, Block, Base, TypeOK, Known, LogKnown, LogType
<1>7. AtStep(p)'
  <2>1. todo'[p] \subseteq Copied(log)
    BY <1>3
  <2>2. \A x \in Copied(log) \ todo'[p] : data'[x] = BlockOf(log, x)
    BY <1>3, <1>4, <1>6 DEF InFile
  <2> QED
    BY <1>2, <1>5, <2>1, <2>2 DEF AtStep, InFile
<1>8. Stored'
  <2>1. Recovered(log, data)' = [x \in Block |-> IF x \in Copied(log) THEN BlockOf(log, x) ELSE data'[x]]
    BY <1>5 DEF Recovered, Pending
  <2>2. Recovered(log, data) = [x \in Block |-> IF x \in Copied(log) THEN BlockOf(log, x) ELSE data[x]]
    BY <1>3 DEF Recovered, Pending
  <2>3. Recovered(log, data)' = Recovered(log, data)
    BY <1>3, <1>4, <2>1, <2>2
  <2> QED
    BY <1>1, <1>2, <2>3, StoredKept
<1>9. Durable'
  <2>1. ~ Unsynced /\ ~ Unsynced'
    BY <1>1, <1>2, UnsyncedAlone DEF Alone
  <2>2. Needed => Needed'
    BY <1>2, <1>3, <1>4, <1>5 DEF Needed
  <2> QED
    BY <1>1, <1>2, <1>3, <1>5, <2>1, <2>2 DEF Durable
<1> QED
  BY <1>7, <1>8, <1>9

LEMMA KeptSyncData ==
  ASSUME IInv, NEW p \in Proc, SyncData(p)
  PROVE  AtStep(p)' /\ Stored' /\ Durable'
<1>1. Base /\ Stored /\ Durable /\ AtStep(p) /\ Acts(p) /\ pc \in [Proc -> Steps]
  BY DEF IInv, Base, TypeOK, Acts
<1>2. /\ UNCHANGED <<failures, data, log, disk_log, entry, writes, acked>> /\ disk_data' = data
      /\ pc[p] = "checkpoint" /\ pc'[p] = "mark" /\ todo[p] = {}
  BY <1>1 DEF SyncData, At, history
<1>3. Pending /\ InFile(log, Copied(log))
  BY <1>1, <1>2 DEF AtStep
<1>4. Pending' /\ InFile(log, Copied(log))'
  BY <1>2, <1>3 DEF Pending, NeedsRecovery, Committed, Copied, BlockOf, InFile
<1>5. AtStep(p)'
  BY <1>2, <1>4 DEF AtStep, Pending
<1>6. Stored'
  <2>1. Recovered(log, data)' = Recovered(log, data)
    BY <1>2 DEF Recovered, NeedsRecovery, Committed, Copied, BlockOf
  <2> QED
    BY <1>1, <1>2, <2>1, StoredKept
<1>7. Durable'
  <2>1. ~ Unsynced /\ ~ Unsynced'
    BY <1>1, <1>2, UnsyncedAlone DEF Alone
  <2>2. Needed => Needed'
    BY <1>2 DEF Needed
  <2> QED
    BY <1>1, <1>2, <1>3, <1>4, <2>1, <2>2 DEF Durable
<1> QED
  BY <1>5, <1>6, <1>7

(* Once it's marked, recovery finds the file as it is, which is the same.  *)
LEMMA KeptMark ==
  ASSUME IInv, NEW p \in Proc, Mark(p)
  PROVE  AtStep(p)' /\ Stored' /\ Durable'
<1>1. Base /\ Stored /\ Durable /\ AtStep(p) /\ Acts(p) /\ pc \in [Proc -> Steps] /\ Owner(p)
      /\ log \in LogType /\ data = [x \in Block |-> data[x]]
  BY DEF IInv, Base, TypeOK, Acts
<1>2. /\ UNCHANGED <<failures, data, disk_data, disk_log, entry, writes>>
      /\ log' = [log EXCEPT !.checkpointed = TRUE] /\ pc[p] = "mark"
      /\ acked' = IF Committing(p) THEN acked \cup {own[p]} ELSE acked
      /\ pc'[p] \in {"idle", "relock", "writing"}
  BY <1>1 DEF Mark, Finish, Opened, At
<1>3. NeedsRecovery(log) /\ (Committed(log) => data = disk_data /\ InFile(log, Copied(log)))
  BY <1>1, <1>2 DEF AtStep
<1>4. Recovered(log, data) = data /\ Good(data)
  BY <1>1, <1>3, StoredData DEF Pending
<1>5. ~ NeedsRecovery(log') /\ Recovered(log', data') = data
  BY <1>1, <1>2 DEF NeedsRecovery, LogType, Recovered
<1>6. Committing(p) => own[p] \in data[Header]
  <2>1. ASSUME Committing(p) PROVE own[p] \in log.header /\ Committed(log)
    BY <1>1, <2>1 DEF Committing, Owner, Committed, Base, Known, LogKnown
  <2>2. Committed(log) => data[Header] = log.header
    BY <1>3 DEF InFile, Copied, BlockOf
  <2> QED
    BY <2>1, <2>2
<1>7. Good(data)'
  BY <1>2, <1>4, <1>6 DEF Good, Whole
<1>8. Stored'
  <2>1. Recovered(log, data)' = data'
    BY <1>1, <1>2 DEF NeedsRecovery, LogType, Recovered
  <2> QED
    BY <1>7, <2>1 DEF Stored, Good, Whole
<1>9. AtStep(p)'
  <2>1. ~ NeedsRecovery(log)'
    BY <1>1, <1>2 DEF NeedsRecovery, LogType
  <2> QED
    BY <1>2, <2>1 DEF AtStep
<1>10. Durable'
  <2> SUFFICES ASSUME "power" \in failures PROVE Durable'
    BY <1>2 DEF Durable
  <2>1. ~ Unsynced /\ ~ Pending'
    BY <1>1, <1>2, UnsyncedAlone DEF Alone, Pending, NeedsRecovery, LogType
  <2>2. data = disk_data
    BY <1>1, <1>3, <2>1 DEF Durable, Pending, Unneeded
  <2>3. NeedsRecovery(disk_log) /\ Committed(disk_log) => InFile(disk_log, Copied(disk_log))
    BY <1>1, <1>3, <2>1 DEF Durable, Pending, Unneeded, Needed
  <2>4. Unneeded'
    BY <1>2, <1>7, <2>2, <2>3
       DEF Unneeded, NeedsRecovery, Committed, Copied, BlockOf, InFile
  <2> QED
    BY <2>1, <2>4 DEF Durable
<1> QED
  BY <1>8, <1>9, <1>10

(* A new log holds nothing, and the file needs no older one.               *)
LEMMA KeptCreate ==
  ASSUME IInv, NEW p \in Proc, CreateLog(p)
  PROVE  AtStep(p)' /\ Stored' /\ Durable'
<1>1. /\ Base /\ Stored /\ Durable /\ AtStep(p) /\ Acts(p) /\ pc \in [Proc -> Steps] /\ Owner(p)
      /\ data = [x \in Block |-> data[x]] /\ disk_log \in LogType
      /\ writes \in [Statement -> SUBSET Page] /\ data[Header] \subseteq Statement
      /\ LogKnown(disk_log)
  BY DEF IInv, Base, TypeOK, Known, Acts
<1>2. /\ UNCHANGED <<failures, data, disk_data, disk_log, entry, acked>>
      /\ log' = EmptyLog /\ pc[p] = "writing" /\ pc'[p] = "frames"
  BY <1>1 DEF CreateLog, At
<1>3. PICK W \in SUBSET Page : writes' = [writes EXCEPT ![own[p]] = W]
  BY DEF CreateLog
<1>4. own[p] # 0 /\ own[p] \notin data[Header] /\ disk_log.id # own[p]
  BY <1>1, <1>2 DEF Owner
<1>5. \A n \in Statement \ {own[p]} : writes'[n] = writes[n]
  BY <1>1, <1>3
<1>6. ~ NeedsRecovery(log) /\ Recovered(log, data) = data /\ Good(data)
  <2>1. ~ NeedsRecovery(log)
    BY <1>1, <1>2 DEF AtStep
  <2> QED
    BY <1>1, <2>1, StoredData DEF Pending
<1>7. Good(data)'
  <2>1. \A n \in data[Header] : writes'[n] = writes[n]
    BY <1>1, <1>4, <1>5
  <2>2. \A b : {n \in data[Header] : b \in writes'[n]} = {n \in data[Header] : b \in writes[n]}
    BY <2>1
  <2> QED
    BY <1>2, <1>6, <2>2 DEF Good, Whole
<1>8. ~ Committed(log')
  BY <1>2, EmptyLogs
<1>9. Stored'
  <2>1. Recovered(log, data)' = data'
    BY <1>8 DEF Recovered, Committed
  <2> QED
    BY <1>7, <2>1 DEF Stored, Good, Whole
<1>10. AtStep(p)'
  BY <1>2, <1>8 DEF AtStep, Committed
<1>11. Durable'
  <2> SUFFICES ASSUME "power" \in failures PROVE Durable'
    BY <1>2 DEF Durable
  <2>1. ~ Pending' /\ Unneeded
    BY <1>1, <1>6, <1>8 DEF Pending, Committed, Durable
  <2>2. Committed(disk_log) => Copied(disk_log)' = Copied(disk_log)
    <3>1. Committed(disk_log) => disk_log.id \in Statement
      BY <1>1, WalAssumption DEF Committed, LogKnown, LogType
    <3> QED
      BY <1>2, <1>4, <1>5, <3>1 DEF Copied
  <2>3. Unneeded'
    BY <1>2, <1>7, <2>1, <2>2 DEF Unneeded, NeedsRecovery, Committed, BlockOf, InFile
  <2> QED
    BY <2>1, <2>3 DEF Durable
<1> QED
  BY <1>9, <1>10, <1>11

(* From its commit frame on, recovery finds the statement, all of it.      *)
LEMMA KeptFrames ==
  ASSUME IInv, NEW p \in Proc, WriteFrames(p)
  PROVE  AtStep(p)' /\ Stored' /\ Durable'
<1>1. /\ Base /\ Stored /\ Durable /\ AtStep(p) /\ Acts(p) /\ pc \in [Proc -> Steps] /\ Owner(p)
      /\ data = [x \in Block |-> data[x]]
      /\ data[Header] \subseteq 1 .. last /\ last \in Nat
      /\ writes \in [Statement -> SUBSET Page]
  BY WalAssumption DEF IInv, Base, TypeOK, Known, Acts
<1>2. /\ UNCHANGED <<failures, data, disk_data, disk_log, entry, writes, acked>>
      /\ log' = CommittedLog(own[p]) /\ pc[p] = "frames" /\ pc'[p] = "fsync"
  BY <1>1 DEF WriteFrames, At, history
<1>3. own[p] # 0 /\ own[p] \in Statement /\ own[p] = last /\ own[p] <= last
  BY <1>1, <1>2, OwnsLast DEF Owner
<1>4. /\ Committed(log') /\ NeedsRecovery(log')
      /\ log'.id = own[p] /\ log'.header = data[Header] \cup {own[p]}
  BY <1>1, <1>2, <1>3, CommittedLogs
<1>5. ~ Committed(log) /\ Good(data)
  BY <1>1, <1>2, StoredData DEF AtStep, Pending
<1>6. Good(data)'
  BY <1>2, <1>5 DEF Good, Whole
<1>7. AtStep(p)'
  BY <1>2, <1>6 DEF AtStep, Good
<1>8. Stored'
  <2> DEFINE r == Recovered(log, data)'
  <2>1. r = [b \in Block |-> IF b \in writes[own[p]] \cup {Header}
                             THEN (IF b = Header THEN data[Header] \cup {own[p]} ELSE own[p])
                             ELSE data[b]]
    BY <1>2, <1>4 DEF Recovered, NeedsRecovery, Committed, Copied, BlockOf
  <2>2. r[Header] = data[Header] \cup {own[p]}
    BY <2>1 DEF Block
  <2>3. ASSUME NEW b \in Page
        PROVE  LET writers == {n \in r[Header] : b \in writes[n]}
               IN  /\ r[b] = 0 => writers = {}
                   /\ r[b] # 0 => r[b] \in writers /\ \A n \in writers : n <= r[b]
    <3>1. b \in Block /\ b # Header
      BY WalAssumption DEF Block, Header
    <3>2. CASE b \in writes[own[p]]
      BY <1>1, <1>3, <2>1, <2>2, <3>1, <3>2
    <3>3. CASE b \notin writes[own[p]]
      <4>1. r[b] = data[b]
        BY <2>1, <3>1, <3>3
      <4>2. {n \in r[Header] : b \in writes[n]} = {n \in data[Header] : b \in writes[n]}
        BY <2>2, <3>3
      <4> QED
        BY <1>5, <4>1, <4>2 DEF Good, Whole
    <3> QED
      BY <3>2, <3>3
  <2>4. acked \subseteq r[Header]
    BY <1>5, <2>2 DEF Good
  <2> HIDE DEF r
  <2>5. Good(Recovered(log, data))'
    BY <1>2, <2>3, <2>4 DEF Good, Whole, r
  <2> QED
    BY <2>5 DEF Stored
<1>9. Durable'
  <2>1. ~ Pending /\ Unsynced'
    BY <1>1, <1>2, <1>5, UnsyncedAlone DEF Pending, Alone
  <2>2. Unneeded => Unneeded'
    BY <1>2, <1>6 DEF Unneeded, NeedsRecovery, Committed, Copied, BlockOf, InFile
  <2> QED
    BY <1>1, <1>2, <2>1, <2>2 DEF Durable
<1> QED
  BY <1>7, <1>8, <1>9

(* fsync of the log, and of its directory: the file may need it from then. *)
LEMMA KeptSync ==
  ASSUME Survivable, IInv, NEW p \in Proc, SyncLog(p) \/ SyncDirectory(p)
  PROVE  AtStep(p)' /\ Stored' /\ Durable'
<1>1. /\ Base /\ Stored /\ Durable /\ AtStep(p) /\ Acts(p) /\ pc \in [Proc -> Steps] /\ Owner(p)
      /\ todo \in [Proc -> SUBSET Block]
  BY DEF IInv, Base, TypeOK, Acts
<1>2. /\ UNCHANGED <<failures, data, disk_data, log, writes, acked>>
      /\ pc[p] \in {"fsync", "fsync_dir"}
      /\ \/ pc'[p] = "fsync_dir"
         \/ pc'[p] = "checkpoint" /\ todo'[p] = Copied(log)
  BY <1>1 DEF SyncLog, SyncDirectory, StartCheckpoint, At, history
<1>3. Pending
  BY <1>1, <1>2 DEF Owner, Pending
<1>4. Pending' /\ Copied(log)' = Copied(log)
  BY <1>2, <1>3 DEF Pending, NeedsRecovery, Committed, Copied
<1>5. Whole(data) /\ acked \subseteq data[Header]
  BY <1>1, <1>2 DEF AtStep
<1>6. Whole(data)' /\ acked' \subseteq data'[Header]
  BY <1>2, <1>5 DEF Whole
<1>7. AtStep(p)'
  <2>1. CASE pc'[p] = "fsync_dir"
    BY <1>6, <2>1 DEF AtStep
  <2>2. CASE pc'[p] = "checkpoint" /\ todo'[p] = Copied(log)
    BY <1>4, <2>2 DEF AtStep, InFile
  <2> QED
    BY <1>2, <2>1, <2>2
<1>8. Stored'
  <2>1. Recovered(log, data)' = Recovered(log, data)
    BY <1>2 DEF Recovered, NeedsRecovery, Committed, Copied, BlockOf
  <2> QED
    BY <1>1, <1>2, <2>1, StoredKept
<1>9. Durable'
  <2> SUFFICES ASSUME "power" \in failures PROVE Durable'
    BY <1>2 DEF Durable
  <2>1. ~ Unsynced'
    BY <1>1, <1>2, UnsyncedAlone DEF Alone
  <2>2. CASE SyncLog(p)
    <3>1. Unsynced /\ disk_log' = log /\ entry'
      BY <1>1, <1>2, <2>2, UnsyncedAlone DEF SyncLog, Alone, Survivable
    <3>2. data = disk_data
      BY <1>1, <3>1 DEF Durable, Unneeded
    <3>3. Needed'
      BY <1>2, <3>1, <3>2 DEF Needed
    <3> QED
      BY <1>4, <2>1, <3>3 DEF Durable
  <2>3. CASE SyncDirectory(p)
    <3>1. ~ Unsynced /\ disk_log' = disk_log /\ entry'
      BY <1>1, <2>3, UnsyncedAlone DEF SyncDirectory, Alone
    <3>2. Needed
      BY <1>1, <1>3, <3>1 DEF Durable
    <3>3. Needed'
      BY <1>2, <1>4, <3>1, <3>2 DEF Needed
    <3> QED
      BY <1>4, <2>1, <3>3 DEF Durable
  <2> QED
    BY <2>2, <2>3
<1> QED
  BY <1>7, <1>8, <1>9

(* A step that gives up before the commit frame of a statement.            *)
LEMMA KeptDiscard ==
  ASSUME IInv, NEW p \in Proc, FailStatement(p) \/ Stop(p), pc[p] \in {"writing", "frames"},
         Finish(p), UNCHANGED <<failures, data, disk_data, disk_log, entry, writes, acked>>,
         log' \in Partial(own[p]) \cup {log}, pc[p] = "writing" => log' = log
  PROVE  AtStep(p)' /\ Stored' /\ Durable'
<1>1. /\ Base /\ Stored /\ Durable /\ AtStep(p) /\ Acts(p) /\ pc \in [Proc -> Steps] /\ Owner(p)
      /\ data = [x \in Block |-> data[x]]
  BY DEF IInv, Base, TypeOK, Acts
<1>2. own[p] \in Statement /\ own[p] <= last
  <2>1. own[p] # 0 /\ own[p] = last
    BY <1>1, OwnsLast DEF Owner
  <2>2. own[p] \in Statement /\ last \in 0 .. MaxStatement /\ MaxStatement \in Nat
    BY <1>1, <2>1, OwnsLast, WalAssumption DEF Base, TypeOK
  <2> QED
    BY <2>1, <2>2
<1>3. ~ Pending /\ Recovered(log, data) = data /\ Good(data)
  BY <1>1, StoredData DEF AtStep, Pending
<1>4. ~ Pending'
  <2>1. CASE log' = log
    BY <1>3, <2>1 DEF Pending, NeedsRecovery, Committed
  <2>2. CASE log' \in Partial(own[p])
    BY <1>1, <1>2, <2>2, PartLogs DEF Base, Known, Pending, Committed
  <2> QED
    BY <2>1, <2>2
<1>5. Good(data)'
  BY <1>3 DEF Good, Whole
<1>6. Stored'
  <2>1. Recovered(log, data)' = data'
    BY <1>4 DEF Recovered, Pending
  <2> QED
    BY <1>5, <2>1 DEF Stored, Good, Whole
<1>7. pc'[p] = "idle"
  BY <1>1 DEF Finish, At
<1>8. Durable'
  <2>1. Unneeded => Unneeded'
    BY <1>5 DEF Unneeded, NeedsRecovery, Committed, Copied, BlockOf, InFile
  <2> QED
    BY <1>1, <1>3, <1>4, <2>1 DEF Durable
<1> QED
  BY <1>6, <1>7, <1>8 DEF AtStep

LEMMA KeptCheckpoint ==
  ASSUME IInv, NEW p \in Proc, FailCheckpoint(p)
  PROVE  AtStep(p)' /\ Stored' /\ Durable'
<1>1. /\ Base /\ Stored /\ Durable /\ AtStep(p) /\ Acts(p) /\ pc \in [Proc -> Steps] /\ Owner(p)
  BY DEF IInv, Base, TypeOK, Acts
<1>2. /\ UNCHANGED <<failures, disk, writes>> /\ pc[p] = "checkpoint" /\ pc'[p] = "idle"
      /\ acked' = IF Committing(p) THEN acked \cup {own[p]} ELSE acked
  BY <1>1 DEF FailCheckpoint, Finish, At
<1>3. Pending
  BY <1>1, <1>2 DEF AtStep
<1>4. Recovered(log, data)[Header] = log.header
  BY <1>3 DEF Pending, Recovered, Copied, BlockOf, Block
<1>5. Committing(p) => own[p] \in log.header
  BY <1>1, <1>3 DEF Committing, Pending, Committed, Base, Known, LogKnown
<1>6. Recovered(log, data)' = Recovered(log, data)
  BY <1>2 DEF Recovered, NeedsRecovery, Committed, Copied, BlockOf, disk
<1>7. Stored'
  <2>1. acked' \subseteq Recovered(log, data)[Header]
    BY <1>1, <1>2, <1>4, <1>5 DEF Stored, Good
  <2>2. Whole(Recovered(log, data))'
    BY <1>1, <1>2, <1>6 DEF Stored, Good, Whole
  <2> QED
    BY <1>6, <2>1, <2>2 DEF Stored, Good
<1>8. Durable'
  <2>1. ~ Unsynced /\ ~ Unsynced'
    BY <1>1, <1>2, UnsyncedAlone DEF Alone
  <2>2. Pending' /\ (Needed => Needed')
    BY <1>2, <1>3 DEF Pending, Needed, NeedsRecovery, Committed, Copied, disk
  <2> QED
    BY <1>1, <1>2, <1>3, <2>1, <2>2 DEF Durable
<1> QED
  BY <1>2, <1>7, <1>8 DEF AtStep

(* A process that stops, or fsync that fails: the power doesn't.           *)
LEMMA KeptNoPower ==
  ASSUME Survivable, IInv, NEW p \in Proc, FailSync(p) \/ (Stop(p) /\ pc[p] # "frames")
  PROVE  AtStep(p)' /\ Stored' /\ Durable'
<1>1. Base /\ Stored /\ pc \in [Proc -> Steps] /\ failures \in Environments
  BY DEF IInv, Base, TypeOK
<1>2. /\ UNCHANGED <<failures, disk, writes, acked>> /\ pc'[p] = "idle"
      /\ "fsync" \in failures \/ "stop" \in failures
  BY <1>1 DEF FailSync, Stop, Finish, At, disk, history
<1>3. "power" \notin failures'
  BY <1>1, <1>2 DEF Survivable
<1>4. Recovered(log, data)' = Recovered(log, data)
  BY <1>2 DEF Recovered, NeedsRecovery, Committed, Copied, BlockOf, disk
<1>5. Stored'
  BY <1>1, <1>2, <1>4, StoredKept
<1> QED
  BY <1>2, <1>3, <1>5 DEF AtStep, Durable

LEMMA KeptActs ==
  ASSUME Survivable, IInv, NEW p \in Proc, Acts(p)
  PROVE  IInv'
<1>1. Base /\ \A q \in Proc : AtStep(q)
  BY DEF IInv
<1>2. AtStep(p)' /\ Stored' /\ Durable'
  <2>1. CASE pc[p] \notin Alone
    BY <2>1, KeptLocks
  <2>2. CASE Recover(p) \/ FailMark(p)
    BY <2>2, KeptRecover
  <2>3. CASE \E b \in Block : CopyBlock(p, b)
    BY <2>3, KeptCopy
  <2>4. CASE SyncData(p)
    BY <2>4, KeptSyncData
  <2>5. CASE Mark(p)
    BY <2>5, KeptMark
  <2>6. CASE CreateLog(p)
    BY <2>6, KeptCreate
  <2>7. CASE WriteFrames(p)
    BY <2>7, KeptFrames
  <2>8. CASE SyncLog(p) \/ SyncDirectory(p)
    BY <2>8, KeptSync
  <2>9. CASE FailStatement(p)
    <3>1. /\ pc[p] \in {"writing", "frames"} /\ Finish(p)
          /\ UNCHANGED <<failures, data, disk_data, disk_log, entry, writes, acked>>
          /\ log' \in Partial(own[p]) \cup {log} /\ (pc[p] = "writing" => log' = log)
      BY <2>9 DEF FailStatement
    <3> QED
      BY <2>9, <3>1, KeptDiscard
  <2>10. CASE Stop(p) /\ pc[p] = "frames"
    <3>1. /\ Finish(p)
          /\ UNCHANGED <<failures, data, disk_data, disk_log, entry, writes, acked>>
          /\ log' \in Partial(own[p])
      BY <2>10 DEF Stop, history
    <3> QED
      BY <2>10, <3>1, KeptDiscard
  <2>11. CASE FailSync(p) \/ (Stop(p) /\ pc[p] # "frames")
    BY <2>11, KeptNoPower
  <2>12. CASE FailCheckpoint(p)
    BY <2>12, KeptCheckpoint
  <2>13. LockShared(p) \/ LockToRecover(p) \/ LockAgain(p) \/ FinishRead(p) \/ LockExclusive(p)
           => pc[p] \notin Alone
    BY DEF LockShared, LockToRecover, LockAgain, FinishRead, LockExclusive, Alone
  <2> QED
    BY <2>1, <2>2, <2>3, <2>4, <2>5, <2>6, <2>7, <2>8, <2>9, <2>10, <2>11, <2>12, <2>13 DEF Acts
<1>3. \A q \in Proc : AtStep(q)'
  BY <1>1, <1>2, OthersAtStep
<1>4. Base'
  BY <1>1, BaseActs
<1> QED
  BY <1>2, <1>3, <1>4 DEF IInv

-----------------------------------------------------------------------------
(* The failure of the power. *)

(* Whatever is on the disk, recovery finds a whole database.               *)
LEMMA PowerOutcomes ==
  ASSUME IInv, "power" \in failures, NEW l \in LogsOnDisk, NEW d \in DataOnDisk
  PROVE  Good(Recovered(l, d)) /\ d = [b \in Block |-> d[b]]
<1>1. /\ Base /\ Stored /\ Durable
      /\ data = [b \in Block |-> data[b]] /\ disk_data = [b \in Block |-> disk_data[b]]
  BY DEF IInv, Base, TypeOK
<1>2. PICK S \in SUBSET Block : d = [b \in Block |-> IF b \in S THEN data[b] ELSE disk_data[b]]
  BY DEF DataOnDisk
<1>3. d = [b \in Block |-> d[b]] /\ \A b \in Block : d[b] \in {data[b], disk_data[b]}
  BY <1>2
<1>4. CASE Pending /\ ~ Unsynced
  <2>1. Needed
    BY <1>1, <1>4 DEF Durable
  <2>2. l = log
    BY <2>1 DEF Needed, LogsOnDisk
  <2>3. \A b \in Block \ Copied(log) : d[b] = data[b]
    BY <1>3, <2>1 DEF Needed
  <2>4. Recovered(log, d) = [b \in Block |-> IF b \in Copied(log) THEN BlockOf(log, b) ELSE d[b]]
    BY <1>4 DEF Recovered, Pending
  <2>5. Recovered(log, data)
          = [b \in Block |-> IF b \in Copied(log) THEN BlockOf(log, b) ELSE data[b]]
    BY <1>4 DEF Recovered, Pending
  <2>6. Recovered(log, d) = Recovered(log, data)
    BY <2>3, <2>4, <2>5
  <2> QED
    BY <1>1, <1>3, <2>2, <2>6 DEF Stored
<1>5. CASE ~ (Pending /\ ~ Unsynced)
  <2>1. Unneeded
    BY <1>1, <1>5 DEF Durable
  <2>2. d = data /\ Good(data)
    BY <1>1, <1>2, <2>1 DEF Unneeded
  <2>3. CASE l = log
    BY <1>1, <1>3, <2>2, <2>3 DEF Stored
  <2>4. CASE l = disk_log
    <3>1. Recovered(l, d) = d
      BY <1>3, <2>1, <2>2, <2>4, RecoveredWhole DEF Unneeded, InFile
    <3> QED
      BY <1>3, <2>2, <3>1
  <2>5. CASE l \in {NoLog, EmptyLog, ShortLog, [log EXCEPT !.commit = FALSE]}
    <3>1. ~ Committed(l)
      <4>1. CASE l = [log EXCEPT !.commit = FALSE]
        BY <1>1, <4>1 DEF Base, TypeOK, LogType, Committed
      <4> QED
        BY <2>5, <4>1, EmptyLogs
    <3>2. Recovered(l, d) = d
      BY <1>3, <3>1, RecoveredWhole
    <3> QED
      BY <1>3, <2>2, <3>2
  <2> QED
    BY <2>3, <2>4, <2>5 DEF LogsOnDisk
<1> QED
  BY <1>4, <1>5

LEMMA KeptPower ==
  ASSUME IInv, PowerFails
  PROVE  IInv'
<1>1. PICK l \in LogsOnDisk, d \in DataOnDisk :
        log' = l /\ disk_log' = l /\ entry' = (l.kind # "none") /\ data' = d /\ disk_data' = d
  BY DEF PowerFails
<1>2. /\ "power" \in failures /\ UNCHANGED <<failures, writes, acked>>
      /\ pc' = [p \in Proc |-> "idle"]
  BY DEF PowerFails, history
<1>3. Good(Recovered(l, d)) /\ d = [b \in Block |-> d[b]]
  BY <1>2, PowerOutcomes
<1>4. Base'
  BY BasePower DEF IInv
<1>5. \A p \in Proc : AtStep(p)'
  BY <1>2 DEF AtStep
<1>6. Stored'
  <2>1. Recovered(log, data)' = Recovered(l, d)
    BY <1>1, <1>2 DEF Recovered, NeedsRecovery, Committed, Copied, BlockOf
  <2> QED
    BY <1>2, <1>3, <2>1 DEF Stored, Good, Whole
<1>7. Durable'
  <2>1. ~ Unsynced'
    BY <1>2 DEF Unsynced
  <2>2. CASE Pending'
    <3>1. entry'
      BY <1>1, <2>2 DEF Pending, Committed
    <3>2. Needed'
      BY <1>1, <3>1 DEF Needed
    <3> QED
      BY <2>1, <2>2, <3>2 DEF Durable
  <2>3. CASE ~ Pending'
    <3>1. ~ (NeedsRecovery(l) /\ Committed(l))
      BY <1>1, <2>3 DEF Pending, NeedsRecovery, Committed
    <3>2. Recovered(l, d) = d
      BY <1>3, <3>1, RecoveredWhole
    <3>3. Good(data)'
      BY <1>1, <1>2, <1>3, <3>2 DEF Good, Whole
    <3>4. Unneeded'
      BY <1>1, <3>1, <3>3 DEF Unneeded, NeedsRecovery, Committed
    <3> QED
      BY <2>3, <3>4 DEF Durable
  <2> QED
    BY <2>2, <2>3
<1> QED
  BY <1>4, <1>5, <1>6, <1>7 DEF IInv

-----------------------------------------------------------------------------
(* The promise. *)

LEMMA KeptStutters ==
  ASSUME IInv, UNCHANGED vars
  PROVE  IInv'
<1>1. /\ UNCHANGED <<failures, disk, writes, acked, pc, todo, unchecked>>
      /\ Base /\ Stored /\ Durable /\ \A p \in Proc : AtStep(p)
  BY DEF IInv, vars, clients, history
<1>2. Base'
  BY BaseStutters DEF IInv
<1>3. Unsynced' <=> Unsynced
  BY <1>1 DEF Unsynced
<1>4. Stored' /\ Durable'
  BY <1>1, <1>3, SameFiles
<1>5. ASSUME NEW p \in Proc PROVE AtStep(p)'
  <2>1. AtStep(p) /\ UNCHANGED <<data, disk_data, log, writes, acked, pc, todo, unchecked>>
    BY <1>1 DEF disk
  <2> QED
    BY <2>1 DEF AtStep, NeedsRecovery, Committed, Whole, Pending, Copied, InFile, BlockOf
<1> QED
  BY <1>2, <1>4, <1>5 DEF IInv

LEMMA KeptInit == Init => IInv
<1> SUFFICES ASSUME Init PROVE IInv
  OBVIOUS
<1>1. Base
  BY BaseInit
<1>2. ~ Committed(log) /\ ~ Committed(disk_log) /\ data = Empty /\ disk_data = Empty
  BY EmptyLogs DEF Init
<1>3. Empty = [b \in Block |-> Empty[b]] /\ Empty[Header] = {} /\ \A b \in Page : Empty[b] = 0
  BY WalAssumption DEF Empty, Block, Header
<1>4. Good(data)
  BY <1>2, <1>3 DEF Good, Whole, Init
<1>5. Recovered(log, data) = data
  BY <1>2, <1>3, RecoveredWhole
<1>6. Stored
  BY <1>4, <1>5 DEF Stored
<1>7. Durable
  BY <1>2, <1>4 DEF Durable, Pending, Unneeded
<1>8. ASSUME NEW p \in Proc PROVE AtStep(p)
  BY DEF Init, AtStep
<1> QED
  BY <1>1, <1>6, <1>7, <1>8 DEF IInv

LEMMA AlwaysIInv ==
  ASSUME Survivable
  PROVE  Spec => []IInv
<1>1. IInv /\ [Next]_vars => IInv'
  <2>1. IInv /\ Next => IInv'
    BY NextActs, KeptActs, KeptPower
  <2> QED
    BY <2>1, KeptStutters
<1> QED
  BY KeptInit, <1>1, PTL DEF Spec

LEMMA IInvReads == IInv => ReadsAreWhole
<1> SUFFICES ASSUME IInv, NEW p \in Proc, Using(p), p \notin unchecked PROVE Good(data)
  BY DEF ReadsAreWhole, Good
<1>1. Base /\ Stored /\ AtStep(p)
  BY DEF IInv
<1>2. CASE pc[p] \in {"reading", "writing", "frames"}
  BY <1>1, <1>2, StoredData DEF AtStep, Pending
<1>3. CASE pc[p] \in {"fsync", "fsync_dir"}
  BY <1>1, <1>3 DEF AtStep, Good
<1> QED
  BY <1>2, <1>3 DEF Using

LEMMA IInvRecoverable == IInv => Recoverable
<1> SUFFICES ASSUME IInv, NEW outcome \in Outcomes PROVE Good(Recovered(outcome[1], outcome[2]))
  BY DEF Recoverable, Good
<1>1. CASE "power" \in failures
  <2>1. outcome[1] \in LogsOnDisk /\ outcome[2] \in DataOnDisk
    BY <1>1 DEF Outcomes
  <2> QED
    BY <1>1, <2>1, PowerOutcomes
<1>2. CASE "power" \notin failures
  BY <1>2 DEF Outcomes, IInv, Stored
<1> QED
  BY <1>1, <1>2

(* A statement that checked the log when it opened the file finds every    *)
(* statement whole, and each that was reported to have succeeded           *)
(* (open_read_connection, wal_recover), whatever is interrupted, in an     *)
(* environment in which the promise can be kept.                           *)
THEOREM ReadsWhole ==
  ASSUME Survivable
  PROVE  Spec => []ReadsAreWhole
BY AlwaysIInv, IInvReads, PTL

(* Whatever is left when every process stops or the power fails, the next  *)
(* recovery (wal_recover) finds every statement that was reported to have  *)
(* succeeded, and each statement whole or not at all.                      *)
THEOREM AlwaysRecoverable ==
  ASSUME Survivable
  PROVE  Spec => []Recoverable
BY AlwaysIInv, IInvRecoverable, PTL

-----------------------------------------------------------------------------
(* The statements that are kept. *)

Kept == Recovered(log, data)[Header]

(* The log is never behind the file that it's copied into.                 *)
Ahead ==
  Pending => /\ data[Header] \subseteq log.header
             /\ "power" \in failures => disk_data[Header] \subseteq log.header

(* How a step changes the statements that are kept.                        *)
Same == Kept' = Kept /\ acked' = acked /\ discarded' = discarded

Commits(n) ==
  /\ n \notin Kept \cup discarded /\ Kept' = Kept \cup {n}
  /\ acked' = acked /\ discarded' = discarded

Acknowledges(n) ==
  /\ n \in Kept /\ acked' = acked \cup {n}
  /\ Kept' = Kept /\ discarded' = discarded

Discards(n) ==
  /\ n \notin Kept /\ discarded' = discarded \cup {n}
  /\ Kept' = Kept /\ acked' = acked

Promised == Same \/ \E n \in Statement : Commits(n) \/ Acknowledges(n) \/ Discards(n)

LEMMA KeptPending ==
  /\ Pending => Kept = log.header
  /\ Base /\ ~ Pending => Kept = data[Header]
<1>1. Pending => Kept = log.header
  BY DEF Pending, Kept, Recovered, Copied, BlockOf, Block
<1>2. Base /\ ~ Pending => Kept = data[Header]
  BY DEF Base, TypeOK, Pending, Kept, Recovered
<1> QED
  BY <1>1, <1>2

LEMMA KeptSame ==
  ASSUME UNCHANGED <<data, log, writes>>
  PROVE  Kept' = Kept /\ (Pending' <=> Pending)
BY DEF Kept, Recovered, NeedsRecovery, Committed, Copied, BlockOf, Pending

(* The steps that leave the log alone.                                     *)
LEMMA PromisedSame ==
  ASSUME Base, NEW p \in Proc, UNCHANGED <<failures, data, log, writes, acked, discarded>>
  PROVE  Promised
BY KeptSame DEF Promised, Same

(* The steps that report success.                                          *)
LEMMA PromisedAcknowledge ==
  ASSUME IInv, NEW p \in Proc, Mark(p) \/ FailCheckpoint(p)
  PROVE  Promised
<1>1. /\ Base /\ AtStep(p) /\ Owner(p) /\ log \in LogType /\ Base'
  BY BaseActs DEF IInv, Base, TypeOK, Acts
<1>2. /\ UNCHANGED <<failures, data, writes, discarded>>
      /\ acked' = IF Committing(p) THEN acked \cup {own[p]} ELSE acked
  BY DEF Mark, FailCheckpoint, disk
<1>3. Committing(p) => own[p] \in Statement /\ own[p] \in Kept
  <2>1. Committing(p) => own[p] \in Statement /\ Pending /\ own[p] \in log.header
    BY <1>1, OwnsLast DEF Committing, Owner, Pending, Committed, Base, Known, LogKnown
  <2> QED
    BY <2>1, KeptPending
<1>4. Kept' = Kept
  <2>1. CASE FailCheckpoint(p)
    <3>1. log' = log
      BY <2>1 DEF FailCheckpoint, disk
    <3> QED
      BY <1>2, <3>1, KeptSame
  <2>2. CASE Mark(p)
    <3>1. log' = [log EXCEPT !.checkpointed = TRUE] /\ pc[p] = "mark"
      BY <2>2 DEF Mark
    <3>2. Recovered(log, data) = data
      BY <1>1, <3>1, StoredData DEF AtStep, Pending, IInv
    <3>3. Recovered(log, data)' = data'
      BY <1>1, <3>1 DEF NeedsRecovery, LogType, Recovered
    <3> QED
      BY <1>2, <3>2, <3>3 DEF Kept
  <2> QED
    BY <2>1, <2>2
<1>5. CASE Committing(p)
  BY <1>2, <1>3, <1>4, <1>5 DEF Promised, Acknowledges
<1>6. CASE ~ Committing(p)
  BY <1>2, <1>4, <1>6 DEF Promised, Same
<1> QED
  BY <1>5, <1>6

(* The steps before the commit frame, and the commit frame itself.         *)
LEMMA PromisedStatement ==
  ASSUME IInv, NEW p \in Proc,
         \/ CreateLog(p) \/ WriteFrames(p) \/ FailStatement(p)
         \/ Stop(p) /\ pc[p] = "frames"
  PROVE  Promised
<1>1. /\ Base /\ AtStep(p) /\ Owner(p) /\ Base'
      /\ pc[p] \in {"writing", "frames"} /\ data' = data
  BY BaseActs
     DEF IInv, Base, Acts, CreateLog, WriteFrames, FailStatement, Stop
<1>2. own[p] # 0 /\ own[p] \notin data[Header] /\ own[p] \notin discarded
  BY <1>1 DEF Owner
<1>3. own[p] \in Statement /\ own[p] <= last
  BY <1>1, <1>2, OwnsLast, WalAssumption DEF Base, TypeOK
<1>4. Kept = data[Header]
  BY <1>1, KeptPending DEF AtStep, Pending
<1>5. CASE WriteFrames(p)
  <2>1. log' = CommittedLog(own[p]) /\ acked' = acked /\ discarded' = discarded
    BY <1>5 DEF WriteFrames, history
  <2>2. Pending' /\ log'.header = data[Header] \cup {own[p]}
    BY <1>1, <1>3, <2>1, CommittedLogs DEF Pending, NeedsRecovery, Committed
  <2>3. Kept' = log'.header
    BY <2>2 DEF Pending, Kept, Recovered, Copied, BlockOf, Block
  <2> QED
    BY <1>2, <1>3, <1>4, <2>1, <2>2, <2>3 DEF Promised, Commits
<1>6. CASE ~ WriteFrames(p)
  <2>1. /\ acked' = acked
        /\ \/ discarded' = discarded
           \/ discarded' = discarded \cup {own[p]}
    BY <1>6 DEF CreateLog, FailStatement, Stop, history
  <2>2. ~ Pending'
    <3>1. \/ log' = EmptyLog
          \/ log' = log /\ pc[p] = "writing"
          \/ log' \in Partial(own[p])
      BY <1>6 DEF CreateLog, FailStatement, Stop
    <3>2. CASE log' = EmptyLog
      BY <3>2, EmptyLogs DEF Pending, Committed
    <3>3. CASE log' = log /\ pc[p] = "writing"
      BY <1>1, <3>3 DEF AtStep, Pending, NeedsRecovery
    <3>4. CASE log' \in Partial(own[p])
      BY <1>1, <1>3, <3>4, PartLogs DEF Base, Known, Pending, Committed
    <3> QED
      BY <3>1, <3>2, <3>3, <3>4
  <2>3. Kept' = Kept
    BY <1>1, <1>4, <2>2 DEF Kept, Recovered, Pending
  <2>4. CASE discarded' = discarded
    BY <2>1, <2>3, <2>4 DEF Promised, Same
  <2>5. CASE discarded' = discarded \cup {own[p]}
    BY <1>2, <1>3, <1>4, <2>1, <2>3, <2>5 DEF Promised, Discards
  <2> QED
    BY <2>1, <2>4, <2>5
<1> QED
  BY <1>5, <1>6

LEMMA PromisedActs ==
  ASSUME IInv, NEW p \in Proc, Acts(p)
  PROVE  Promised /\ failures' = failures
<1>1. failures' = failures
  BY DEF Acts, LockShared, LockToRecover, LockAgain, FinishRead, LockExclusive, Recover,
    SyncData, Mark, CopyBlock, CreateLog, WriteFrames, SyncLog, SyncDirectory, FailStatement,
    FailSync, FailCheckpoint, FailMark, Stop
<1>2. CASE pc[p] \notin Alone
  <2>1. UNCHANGED <<failures, data, log, writes, acked, discarded>>
    BY <1>2, OnlyAlone DEF disk
  <2> QED
    BY <2>1, PromisedSame DEF IInv
<1>3. CASE \/ Recover(p) \/ SyncData(p) \/ SyncLog(p) \/ SyncDirectory(p) \/ FailSync(p)
           \/ FailMark(p) \/ (Stop(p) /\ pc[p] # "frames")
  <2>1. UNCHANGED <<failures, data, log, writes, acked, discarded>>
    BY <1>3 DEF Recover, SyncData, SyncLog, SyncDirectory, FailSync, FailMark, Stop, disk, history
  <2> QED
    BY <2>1, PromisedSame DEF IInv
<1>4. CASE Mark(p) \/ FailCheckpoint(p)
  BY <1>1, <1>4, PromisedAcknowledge
<1>5. CASE CreateLog(p) \/ WriteFrames(p) \/ FailStatement(p) \/ (Stop(p) /\ pc[p] = "frames")
  BY <1>1, <1>5, PromisedStatement
<1>6. CASE \E b \in Block : CopyBlock(p, b)
  <2>1. PICK b \in Block : CopyBlock(p, b)
    BY <1>6
  <2>2. Pending /\ AtStep(p) /\ log' = log /\ acked' = acked /\ discarded' = discarded
    BY <2>1 DEF CopyBlock, IInv, AtStep, history
  <2>3. writes' = writes
    BY <2>1 DEF CopyBlock, history
  <2>4. Kept' = Kept
    BY <2>2, <2>3 DEF Kept, Pending, Recovered, NeedsRecovery, Committed, Copied, BlockOf, Block
  <2> QED
    BY <1>1, <2>2, <2>4 DEF Promised, Same
<1>7. LockShared(p) \/ LockToRecover(p) \/ LockAgain(p) \/ FinishRead(p) \/ LockExclusive(p)
        => pc[p] \notin Alone
  BY DEF LockShared, LockToRecover, LockAgain, FinishRead, LockExclusive, Alone
<1> QED
  BY <1>2, <1>3, <1>4, <1>5, <1>6, <1>7 DEF Acts

(* The failure of the power takes back only what nobody was told about.    *)
LEMMA PromisedPower ==
  ASSUME IInv, Ahead, PowerFails
  PROVE  /\ Kept' \in SUBSET Kept /\ acked \subseteq Kept' /\ Ahead'
         /\ UNCHANGED <<failures, acked, discarded>> /\ "power" \in failures
<1>1. PICK l \in LogsOnDisk, d \in DataOnDisk :
        log' = l /\ disk_log' = l /\ entry' = (l.kind # "none") /\ data' = d /\ disk_data' = d
  BY DEF PowerFails
<1>2. "power" \in failures /\ UNCHANGED <<failures, writes, acked, discarded>>
  BY DEF PowerFails, history
<1>3. Good(Recovered(l, d)) /\ d[Header] \in {data[Header], disk_data[Header]}
  BY <1>2, PowerOutcomes DEF DataOnDisk, Block
<1>4. Recovered(log, data)' = Recovered(l, d)
  BY <1>1, <1>2 DEF Recovered, NeedsRecovery, Committed, Copied, BlockOf
<1>5. Recovered(l, d)[Header] = IF NeedsRecovery(l) /\ Committed(l) THEN l.header ELSE d[Header]
  BY DEF Recovered, Copied, BlockOf, Block
<1>6. Base /\ Durable /\ Stored
  BY DEF IInv
<1>7. CASE Pending /\ ~ Unsynced
  <2>1. l = log
    BY <1>2, <1>6, <1>7 DEF Durable, Needed, LogsOnDisk
  <2>2. Kept' = Kept
    BY <1>4, <1>5, <1>7, <2>1, KeptPending DEF Kept, Pending
  <2>3. Ahead'
    BY <1>1, <1>2, <1>3, <1>7, <2>1 DEF Ahead
  <2> QED
    BY <1>2, <1>3, <1>4, <2>2, <2>3 DEF Good, Kept
<1>8. CASE ~ (Pending /\ ~ Unsynced)
  <2>1. Unneeded
    BY <1>2, <1>6, <1>8 DEF Durable
  <2>2. d[Header] = data[Header]
    BY <1>3, <2>1 DEF Unneeded
  <2>3. data[Header] \subseteq Kept
    BY <1>6, KeptPending DEF Ahead
  <2>4. CASE l = log
    <3>1. Kept' = Kept
      BY <1>4, <1>5, <1>6, <2>2, <2>4, KeptPending DEF Kept, Pending
    <3>2. Ahead'
      BY <1>1, <1>2, <2>2, <2>4 DEF Ahead, Pending, NeedsRecovery, Committed
    <3> QED
      BY <1>2, <1>3, <1>4, <3>1, <3>2 DEF Good, Kept
  <2>5. CASE l = disk_log
    <3>1. NeedsRecovery(l) /\ Committed(l) => data[Header] = l.header
      BY <2>1, <2>5 DEF Unneeded, InFile, Copied, BlockOf
    <3>2. Kept' = data[Header]
      BY <1>4, <1>5, <2>2, <3>1 DEF Kept
    <3>3. Ahead'
      BY <1>1, <2>2, <3>1 DEF Ahead, Pending, NeedsRecovery, Committed
    <3> QED
      BY <1>2, <1>3, <1>4, <2>3, <3>2, <3>3 DEF Good, Kept
  <2>6. CASE l \in {NoLog, EmptyLog, ShortLog, [log EXCEPT !.commit = FALSE]}
    <3>1. ~ Committed(l)
      <4>1. CASE l = [log EXCEPT !.commit = FALSE]
        BY <1>6, <4>1 DEF Base, TypeOK, LogType, Committed
      <4> QED
        BY <2>6, <4>1, EmptyLogs
    <3>2. Kept' = data[Header]
      BY <1>4, <1>5, <2>2, <3>1 DEF Kept
    <3>3. Ahead'
      BY <1>1, <3>1 DEF Ahead, Pending, Committed
    <3> QED
      BY <1>2, <1>3, <1>4, <2>3, <3>2, <3>3 DEF Good, Kept
  <2> QED
    BY <2>4, <2>5, <2>6 DEF LogsOnDisk
<1> QED
  BY <1>7, <1>8

LEMMA AheadActs ==
  ASSUME IInv, Ahead, NEW p \in Proc, Acts(p)
  PROVE  Ahead'
<1>1. Base /\ Durable /\ AtStep(p) /\ Owner(p) /\ pc \in [Proc -> Steps] /\ failures' = failures
      /\ data = [x \in Block |-> data[x]] /\ log \in LogType
  BY PromisedActs DEF IInv, Base, TypeOK
<1>2. CASE UNCHANGED <<data, disk_data, log>>
  BY <1>1, <1>2 DEF Ahead, Pending, NeedsRecovery, Committed
<1>3. CASE CreateLog(p) \/ Mark(p) \/ FailStatement(p) \/ (Stop(p) /\ pc[p] = "frames")
  <2>1. CASE Mark(p) \/ CreateLog(p)
    <3>1. ~ Pending'
      BY <1>1, <2>1, EmptyLogs DEF Mark, CreateLog, Pending, NeedsRecovery, Committed, LogType
    <3> QED
      BY <3>1 DEF Ahead
  <2>2. CASE FailStatement(p) /\ pc[p] = "writing"
    BY <1>2, <2>2 DEF FailStatement
  <2>3. CASE (FailStatement(p) \/ Stop(p)) /\ pc[p] = "frames"
    <3>1. own[p] \in Statement /\ own[p] <= last
      BY <1>1, <2>3, OwnsLast, WalAssumption DEF Owner, Base, TypeOK
    <3>2. log' \in Partial(own[p])
      BY <2>3 DEF FailStatement, Stop
    <3>3. ~ Committed(log')
      BY <1>1, <3>1, <3>2, PartLogs DEF Base, Known
    <3> QED
      BY <3>3 DEF Ahead, Pending, Committed
  <2> QED
    BY <1>3, <2>1, <2>2, <2>3 DEF FailStatement
<1>4. CASE \E b \in Block : CopyBlock(p, b)
  <2>1. PICK b \in Block : CopyBlock(p, b)
    BY <1>4
  <2>2. /\ data' = [data EXCEPT ![b] = BlockOf(log, b)] /\ log' = log /\ disk_data' = disk_data
        /\ Pending
    BY <1>1, <2>1 DEF CopyBlock, AtStep
  <2>3. data'[Header] \in {data[Header], log.header}
    BY <1>1, <2>2 DEF BlockOf, Block
  <2> QED
    BY <1>1, <2>2, <2>3 DEF Ahead
<1>5. CASE SyncData(p)
  BY <1>1, <1>5 DEF SyncData, Ahead, Pending, NeedsRecovery, Committed
<1>6. CASE WriteFrames(p)
  <2>1. /\ log' = CommittedLog(own[p]) /\ data' = data /\ disk_data' = disk_data
        /\ own[p] \in Statement /\ own[p] <= last
    <3>1. own[p] # 0
      BY <1>1, <1>6 DEF WriteFrames, Owner
    <3>2. own[p] \in Statement /\ own[p] = last /\ last \in 0 .. MaxStatement /\ MaxStatement \in Nat
      BY <1>1, <3>1, OwnsLast, WalAssumption DEF Base, TypeOK
    <3> QED
      BY <1>6, <3>2 DEF WriteFrames
  <2>2. ~ Pending
    BY <1>1, <1>6 DEF WriteFrames, AtStep, Pending
  <2>3. "power" \in failures => disk_data = data
    BY <1>1, <2>2 DEF Durable, Unneeded
  <2>4. log'.header = data[Header] \cup {own[p]}
    BY <1>1, <2>1, CommittedLogs
  <2> QED
    BY <1>1, <2>1, <2>3, <2>4 DEF Ahead
<1>7. CASE SyncLog(p) \/ SyncDirectory(p) \/ FailCheckpoint(p) \/ FailSync(p) \/ FailMark(p)
           \/ Recover(p) \/ (Stop(p) /\ pc[p] # "frames")
  BY <1>2, <1>7 DEF SyncLog, SyncDirectory, FailCheckpoint, FailSync, FailMark, Recover, Stop, disk
<1>8. CASE pc[p] \notin Alone
  BY <1>2, <1>8, OnlyAlone DEF disk
<1>9. LockShared(p) \/ LockToRecover(p) \/ LockAgain(p) \/ FinishRead(p) \/ LockExclusive(p)
        => pc[p] \notin Alone
  BY DEF LockShared, LockToRecover, LockAgain, FinishRead, LockExclusive, Alone
<1> QED
  BY <1>3, <1>4, <1>5, <1>6, <1>7, <1>8, <1>9 DEF Acts

(* The write-ahead log (wal_commit, wal_checkpoint and wal_recover, with   *)
(* the locks of open_read_connection and open_write_connection) implements *)
(* DurableStore: a statement is kept from its commit frame on and never    *)
(* before, whatever fails, in an environment in which the promise can be   *)
(* kept.                                                                   *)
THEOREM LogImplementsStore ==
  ASSUME Survivable
  PROVE  Spec => ImplementsDurableStore
<1>1. Init => DS!Init /\ Ahead
  <2> SUFFICES ASSUME Init PROVE DS!Init /\ Ahead
    OBVIOUS
  <2>1. ~ Committed(log) /\ data = Empty /\ Empty[Header] = {}
    BY EmptyLogs DEF Init, Empty, Block
  <2>2. Base
    BY BaseInit
  <2>3. Recovered(log, data)[Header] = {}
    BY <2>1, <2>2, KeptPending DEF Kept, Pending
  <2> QED
    BY <2>1, <2>3 DEF Init, DS!Init, Ahead, Pending
<1>2. IInv /\ Ahead /\ [Next]_vars => Ahead' /\ [DS!Next]_(DS!vars)
  <2> SUFFICES ASSUME IInv, Ahead, [Next]_vars PROVE Ahead' /\ [DS!Next]_(DS!vars)
    OBVIOUS
  <2>1. CASE \E p \in Proc : Acts(p)
    <3>1. PICK p \in Proc : Acts(p)
      BY <2>1
    <3>2. Ahead' /\ Promised /\ failures' = failures
      BY <3>1, AheadActs, PromisedActs
    <3>3. CASE Same
      BY <3>2, <3>3 DEF Same, Kept, DS!vars
    <3>4. CASE \E n \in Statement : Commits(n)
      BY <3>2, <3>4 DEF Commits, Kept, DS!Next, DS!Commit
    <3>5. CASE \E n \in Statement : Acknowledges(n)
      BY <3>2, <3>5 DEF Acknowledges, Kept, DS!Next, DS!Acknowledge
    <3>6. CASE \E n \in Statement : Discards(n)
      BY <3>2, <3>6 DEF Discards, Kept, DS!Next, DS!Discard
    <3> QED
      BY <3>2, <3>3, <3>4, <3>5, <3>6 DEF Promised
  <2>2. CASE PowerFails
    BY <2>2, PromisedPower DEF Kept, DS!Next, DS!LosePower
  <2>3. CASE UNCHANGED vars
    <3>1. UNCHANGED <<failures, data, disk_data, log, writes, acked, discarded>>
      BY <2>3 DEF vars, disk, history
    <3>2. Kept' = Kept /\ (Pending' <=> Pending)
      BY <3>1, KeptSame
    <3>3. Ahead'
      BY <3>1, <3>2 DEF Ahead
    <3> QED
      BY <3>1, <3>2, <3>3 DEF Kept, DS!vars
  <2> QED
    BY <2>1, <2>2, <2>3, NextActs
<1> QED
  BY <1>1, <1>2, AlwaysIInv, PTL DEF Spec, ImplementsDurableStore, DS!Spec

-----------------------------------------------------------------------------
(* What a statement sees. *)

(* Only a checkpoint, or the power, changes the database file.             *)
LEMMA OnlyCopies ==
  ASSUME NEW p \in Proc, Acts(p)
  PROVE  data' = data \/ pc[p] = "checkpoint"
BY DEF Acts, LockShared, LockToRecover, LockAgain, FinishRead, LockExclusive, Recover, SyncData,
  Mark, CopyBlock, CreateLog, WriteFrames, SyncLog, SyncDirectory, FailStatement, FailSync,
  FailCheckpoint, FailMark, Stop, disk

(* A checkpoint is of a process that is alone with the file.               *)
LEMMA NobodyUses ==
  ASSUME Locks, NEW q \in Proc, pc[q] = "checkpoint", NEW p \in Proc
  PROVE  ~ Using(p)
<1>1. CASE p = q
  BY <1>1 DEF Using
<1>2. CASE p # q
  <2>1. pc[q] \in Alone
    BY DEF Alone
  <2>2. pc[p] \in {"idle", "upgrade", "relock"}
    BY <1>2, <2>1, OthersWait
  <2> QED
    BY <2>2 DEF Using
<1> QED
  BY <1>1, <1>2

(* A statement sees one state of the database file from its start to its   *)
(* end (the flocks of open_read_connection and open_write_connection),     *)
(* whatever fails: a checkpoint of another one waits for it.               *)
THEOREM OneFileAlways == Spec => StatementsSeeOneFile
<1> DEFINE OneFile == \A p \in Proc : Using(p) /\ Using(p)' => data' = data
<1>1. ASSUME TypeOK, Next
      PROVE  OneFile
  <2> SUFFICES ASSUME NEW p \in Proc, Using(p), Using(p)'
               PROVE  data' = data
    OBVIOUS
  <2>1. CASE \E q \in Proc : Acts(q)
    <3>1. PICK q \in Proc : Acts(q)
      BY <2>1
    <3>2. pc[q] # "checkpoint"
      BY <1>1, TypeLocks, NobodyUses
    <3> QED
      BY <3>1, <3>2, OnlyCopies
  <2>2. CASE PowerFails
    <3>1. pc'[p] = "idle"
      BY <2>2 DEF PowerFails
    <3> QED
      BY <3>1 DEF Using
  <2> QED
    BY <1>1, <2>1, <2>2, NextActs
<1>2. TypeOK /\ [Next]_vars => [OneFile]_vars
  <2> HIDE DEF OneFile
  <2> QED BY <1>1
<1> QED
  BY <1>2, TypeCorrect, PTL DEF Spec, StatementsSeeOneFile
=============================================================================
