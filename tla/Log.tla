-------------------------------- MODULE Log --------------------------------
(* The xv6 write-ahead log (log.c): begin_op() and its admission rule,        *)
(* log_write(), end_op(), commit() one disk write at a time, a machine that   *)
(* may stop between any two steps, and recover_from_log() at the next boot.   *)
EXTENDS Naturals, Sequences, FiniteSets, SequencesExt

CONSTANTS Block,        \* blocks outside the log that operations modify
          Value,        \* contents of a block
          LogOp,           \* processes that make file system calls
          MAXOPBLOCKS,  \* blocks an operation reserves, and may write
          NoBlock,      \* appending of a process outside log_write()
          LOGSIZE,      \* blocks begin_op() shares out
          NLog          \* sb.nlog: blocks of the log area, its header included

ASSUME LogAssumption ==
  /\ MAXOPBLOCKS \in Nat \ {0}
  /\ LOGSIZE \in Nat
  /\ NLog \in Nat \ {0}
  /\ NoBlock \notin Block
  /\ IsFiniteSet(LogOp) /\ Value # {}

VARIABLES
  home, logData, head,             \* on disk: home blocks, log blocks, header
  cache,                           \* the blocks as bread() returns them
  logged,                          \* log.lh in memory
  outstanding, committing,
  op,                              \* what each process is doing
  wrote,                           \* the blocks the operation has modified
  appending,                             \* the block log_write() is about to append
  phase, tail                      \* where commit() or the recovery is

disk   == <<home, logData, head>>
vars   == <<disk, cache, logged, outstanding, committing, op, wrote, appending, phase, tail>>

OpState == {"idle", "begin", "asleep", "in", "append", "commit"}
Phase   == {"none", "write_log", "write_head", "install", "clear", "read_head",
            "reinstall", "reclear", "panic"}

TypeOK ==
  /\ home \in [Block -> Value] /\ cache \in [Block -> Value]
  /\ logData \in [1..LOGSIZE -> Value]
  /\ head \in Seq(Block) /\ Len(head) <= LOGSIZE
  /\ logged \in Seq(Block) /\ Len(logged) <= LOGSIZE
  /\ Cardinality(ToSet(logged)) = Len(logged)
  /\ outstanding \in 0..Cardinality(LogOp) /\ committing \in BOOLEAN
  /\ op \in [LogOp -> OpState] /\ wrote \in [LogOp -> SUBSET Block]
  /\ appending \in [LogOp -> Block \cup {NoBlock}]
  /\ phase \in Phase /\ tail \in 1..(LOGSIZE + 1)

Init ==
  /\ home \in [Block -> Value] /\ \A b, c \in Block : home[b] = home[c]
  /\ logData = [i \in 1..LOGSIZE |-> CHOOSE v \in Value : TRUE]
  /\ head = <<>>
  /\ cache = home
  /\ logged = <<>> /\ outstanding = 0 /\ committing = FALSE
  /\ op = [t \in LogOp |-> "idle"] /\ wrote = [t \in LogOp |-> {}] /\ appending = [t \in LogOp |-> NoBlock]
  /\ phase = "none" /\ tail = 1

Up == phase \notin {"read_head", "reinstall", "reclear", "panic"}

-----------------------------------------------------------------------------
(* begin_op() *)

Admitted == ~committing /\ Len(logged) + (outstanding + 1) * MAXOPBLOCKS <= LOGSIZE

Begin(t) ==
  /\ Up /\ op[t] \in {"idle", "begin"}
  /\ IF Admitted
     THEN /\ outstanding' = outstanding + 1
          /\ op' = [op EXCEPT ![t] = "in"]
     ELSE /\ op' = [op EXCEPT ![t] = "asleep"]
          /\ UNCHANGED outstanding
  /\ UNCHANGED <<disk, cache, logged, committing, wrote, appending, phase, tail>>

AwakeNone(f) == f

(* wakeup(&log): every sleeper tries again.                                   *)
Awake(f) == [t \in LogOp |-> IF f[t] = "asleep" THEN "begin" ELSE f[t]]

-----------------------------------------------------------------------------
(* log_write(): the size is tested before log.lock is taken.                  *)

TooBig == Len(logged) >= LOGSIZE \/ Len(logged) >= NLog - 1

(* The caller keeps the buffer locked from bread() until it has logged it.     *)
BufferLocked(b) == \E t \in LogOp : appending[t] = b

Modify(t, b, v) ==
  /\ Up /\ op[t] = "in"
  /\ ~BufferLocked(b)
  /\ b \in wrote[t] \/ Cardinality(wrote[t]) < MAXOPBLOCKS
  /\ cache' = [cache EXCEPT ![b] = v]
  /\ wrote' = [wrote EXCEPT ![t] = @ \cup {b}]
  /\ IF TooBig
     THEN phase' = "panic" /\ UNCHANGED <<op, appending>>
     ELSE /\ op' = [op EXCEPT ![t] = "append"]
          /\ appending' = [appending EXCEPT ![t] = b]
          /\ UNCHANGED phase
  /\ UNCHANGED <<disk, logged, outstanding, committing, tail>>

(* Log absorption: a block is logged once.                                    *)
Absorbed(b) == IF b \in ToSet(logged) THEN logged ELSE Append(logged, b)

AppendBlock(t) ==
  /\ Up /\ op[t] = "append"
  /\ logged' = Absorbed(appending[t])
  /\ op' = [op EXCEPT ![t] = "in"]
  /\ appending' = [appending EXCEPT ![t] = NoBlock]
  /\ UNCHANGED <<disk, cache, outstanding, committing, wrote, phase, tail>>

-----------------------------------------------------------------------------
(* end_op() *)

AnyOp == outstanding >= 1
LastOp == outstanding = 1

(* commit() does nothing when no block was logged.                            *)
CommitWhenFull == IF Len(logged) < LOGSIZE - MAXOPBLOCKS THEN "none" ELSE "write_log"
CommitStart    == IF logged = <<>> THEN "none" ELSE "write_log"

EndOp(t) ==
  /\ Up /\ op[t] = "in"
  /\ outstanding' = outstanding - 1
  /\ wrote' = [wrote EXCEPT ![t] = {}]
  /\ IF LastOp
     THEN /\ committing' = TRUE
          /\ op' = [op EXCEPT ![t] = "commit"]
          /\ phase' = CommitStart
     ELSE /\ op' = Awake([op EXCEPT ![t] = "idle"])
          /\ UNCHANGED <<committing, phase>>
  /\ UNCHANGED <<disk, cache, logged, appending, tail>>

(* The end of end_op() once commit() has returned.                            *)
Committed(t) ==
  /\ op[t] = "commit" /\ phase = "none"
  /\ committing' = FALSE
  /\ op' = Awake([op EXCEPT ![t] = "idle"])
  /\ UNCHANGED <<disk, cache, logged, outstanding, wrote, appending, phase, tail>>

-----------------------------------------------------------------------------
(* commit() and recover_from_log(), a disk write per step.                    *)

WriteLog ==
  /\ phase = "write_log" /\ tail <= Len(logged)
  /\ logData' = [logData EXCEPT ![tail] = cache[logged[tail]]]
  /\ tail' = tail + 1
  /\ UNCHANGED <<home, head, cache, logged, outstanding, committing, op, wrote, appending, phase>>

WriteLogDone ==
  /\ phase = "write_log" /\ tail > Len(logged)
  /\ phase' = "write_head" /\ tail' = 1
  /\ UNCHANGED <<disk, cache, logged, outstanding, committing, op, wrote, appending>>

(* write_head(): the true point at which the transaction commits.             *)
WriteHead ==
  /\ phase = "write_head"
  /\ head' = logged
  /\ phase' = "install"
  /\ UNCHANGED <<home, logData, cache, logged, outstanding, committing, op, wrote, appending, tail>>

(* install_trans()                                                            *)
Install ==
  /\ phase \in {"install", "reinstall"} /\ tail <= Len(logged)
  /\ home' = [home EXCEPT ![logged[tail]] = logData[tail]]
  /\ tail' = tail + 1
  /\ UNCHANGED <<logData, head, cache, logged, outstanding, committing, op, wrote, appending, phase>>

InstallDone ==
  /\ phase \in {"install", "reinstall"} /\ tail > Len(logged)
  /\ phase' = IF phase = "install" THEN "clear" ELSE "reclear"
  /\ tail' = 1
  /\ logged' = <<>>
  /\ UNCHANGED <<disk, cache, outstanding, committing, op, wrote, appending>>

(* write_head() once more: the log is empty.  After a boot bread() finds the  *)
(* home blocks.                                                               *)
Clear ==
  /\ phase \in {"clear", "reclear"}
  /\ head' = logged
  /\ cache' = IF phase = "clear" THEN cache ELSE home
  /\ phase' = "none"
  /\ UNCHANGED <<home, logData, logged, outstanding, committing, op, wrote, appending, tail>>

(* The machine stops: what is in memory is lost.                              *)
Crash ==
  /\ phase' = "read_head" /\ tail' = 1
  /\ logged' = <<>> /\ outstanding' = 0 /\ committing' = FALSE
  /\ op' = [t \in LogOp |-> "idle"] /\ wrote' = [t \in LogOp |-> {}] /\ appending' = [t \in LogOp |-> NoBlock]
  /\ cache' = home
  /\ UNCHANGED disk

(* initlog() -> recover_from_log() -> read_head()                             *)
ReadHead ==
  /\ phase = "read_head"
  /\ logged' = head
  /\ phase' = "reinstall"
  /\ UNCHANGED <<disk, cache, outstanding, committing, op, wrote, appending, tail>>

DiskStep ==
  \/ WriteLog \/ WriteLogDone \/ WriteHead \/ Install \/ InstallDone \/ Clear \/ ReadHead

Next ==
  \/ \E t \in LogOp : \/ Begin(t) \/ AppendBlock(t) \/ EndOp(t) \/ Committed(t)
                    \/ \E b \in Block, v \in Value : Modify(t, b, v)
  \/ DiskStep
  \/ Crash

Spec == Init /\ [][Next]_vars

-----------------------------------------------------------------------------
(* The blocks a recovery would leave.                                         *)
Replayed ==
  [b \in Block |->
     IF b \in ToSet(head)
     THEN logData[CHOOSE i \in 1..Len(head) : head[i] = b]
     ELSE home[b]]

(* log.c makes the operations atomic with respect to crashes: the head block  *)
(* is the one write that commits a group.  A panic stops the machine.         *)
Disk == INSTANCE AtomicDisk WITH
  durable <- Replayed,
  current <- IF Up THEN cache ELSE Replayed,
  active  <- IF Up THEN {t \in LogOp : op[t] \in {"in", "append"}} ELSE {}

AtomicGroups == Disk!ASpec

(* Once end_op() has committed and no operation is in progress, the disk      *)
(* holds everything the file system reads.                                    *)
QuietIsDurable ==
  Up /\ outstanding = 0 /\ ~committing => Replayed = cache /\ head = <<>>

(* begin_op() shares out LOGSIZE blocks so that no operation runs out of log, *)
(* whatever the others of its group write.                                    *)
LogFits == Len(logged) <= NLog - 1

(* log_write(): panic("too big a transaction") is for a caller that breaks    *)
(* its promise of MAXOPBLOCKS.                                                *)
NoPanic == phase # "panic"

(* end_op(): who sleeps in begin_op() gets another try, if the operations in  *)
(* progress end and the disk answers.                                         *)
Fairness ==
  /\ WF_vars(DiskStep)
  /\ \A t \in LogOp : /\ WF_vars(AppendBlock(t))
                   /\ SF_vars(EndOp(t))
                   /\ WF_vars(Committed(t))

FairSpec == Spec /\ Fairness

SleepersWoken == \A t \in LogOp : op[t] = "asleep" ~> op[t] # "asleep"

(* The log and its buffers are well formed, and at rest the disk is up to     *)
(* date.                                                                      *)
LogSound == TypeOK /\ QuietIsDurable

=============================================================================
