------------------------------ MODULE BufCache ------------------------------
(* The buffer cache with the sleep lock of each buffer and the queue of the   *)
(* disk: bio.c, sleeplock.c and ide.c.  A process reads a block, may change   *)
(* it for the log or write it to the disk, and releases it.  bcache.lock,     *)
(* idelock and the spinlock of a sleep lock make a step of each critical      *)
(* section.                                                                   *)
EXTENDS Integers, Sequences, FiniteSets, SequencesExt, FiniteSetsExt

CONSTANTS User,    \* processes
          NBUF,
          BlockNo, \* blocks of the disk
          Nobody,
          BadBlock, \* blocks at which the disk may report an error
          MaxData  \* bound: the changes made to blocks

ASSUME CacheAssumption ==
  /\ NBUF \in Nat \ {0} /\ MaxData \in Nat
  /\ IsFiniteSet(User) /\ Nobody \notin User
  /\ 0 \notin BlockNo

ASSUME BadBlockAssumption == BadBlock \subseteq BlockNo

VARIABLES
  buf,     \* bcache.buf: [block, valid, dirty, ref, lock, data]; block 0: none
  lru,     \* the list of buffers, the most recently used one first
  queue,   \* idequeue; its head is the request the disk works on
  platter, \* the blocks on the disk
  at,      \* per process: where it is
  bp,      \* per process: the buffer bget() gave it
  want     \* per process: the block it asked for

cacheVars == <<buf, lru, queue, platter, at, bp, want>>

Buffer == 1..NBUF
At == {"idle", "lock", "waitlock", "rw", "io", "woken", "use", "drop", "panic"}

CacheInit ==
  /\ buf = [b \in Buffer |-> [block |-> 0, valid |-> FALSE, dirty |-> FALSE, ref |-> 0,
                              lock |-> Nobody, data |-> 0]]
  /\ lru = [k \in Buffer |-> NBUF + 1 - k]
  /\ queue = <<>>
  /\ platter = [k \in BlockNo |-> 0]
  /\ at = [p \in User |-> "idle"]
  /\ bp = [p \in User |-> 0]
  /\ want = [p \in User |-> 0]

Goes(p, l)  == at' = [at EXCEPT ![p] = l]
Has(p)      == buf[bp[p]]
Asleep(l, b) == {p \in User : at[p] = l /\ bp[p] = b}
(* wakeup(): processes asleep at l on b go on at m, and p goes to k.          *)
Wakes(l, b, m, p, k) ==
  at' = [q \in User |-> IF q = p THEN k ELSE IF q \in Asleep(l, b) THEN m ELSE at[q]]

-----------------------------------------------------------------------------
(* bget() under bcache.lock: the buffer of that block, or else the least      *)
(* recently used one that is neither referenced nor pinned by the log.        *)
CachedIfValid(k) == {b \in Buffer : buf[b].block = k /\ buf[b].valid}  \* mutant
Cached(k) == {b \in Buffer : buf[b].block = k}
UnusedOrDirty == {b \in Buffer : buf[b].ref = 0}             \* mutant
Unused    == {b \in Buffer : buf[b].ref = 0 /\ ~buf[b].dirty}

BgetHit(p, k) ==
  /\ at[p] = "idle" /\ Cached(k) # {}
  /\ \E b \in Cached(k) :
       /\ buf' = [buf EXCEPT ![b].ref = @ + 1]
       /\ bp' = [bp EXCEPT ![p] = b]
  /\ want' = [want EXCEPT ![p] = k]
  /\ Goes(p, "lock")
  /\ UNCHANGED <<lru, queue, platter>>

LeastRecent(b) ==
  \E i \in 1..Len(lru) :
    lru[i] = b /\ b \in Unused /\ \A j \in (i + 1)..Len(lru) : lru[j] \notin Unused

BgetMiss(p, k) ==
  /\ at[p] = "idle" /\ Cached(k) = {}
  /\ IF Unused = {} THEN Goes(p, "panic") /\ UNCHANGED <<buf, bp, want>>
     ELSE /\ \E b \in Buffer :
               /\ LeastRecent(b)
               /\ buf' = [buf EXCEPT ![b].block = k, ![b].valid = FALSE,
                                     ![b].dirty = FALSE, ![b].ref = 1]
               /\ bp' = [bp EXCEPT ![p] = b]
          /\ want' = [want EXCEPT ![p] = k]
          /\ Goes(p, "lock")
  /\ UNCHANGED <<lru, queue, platter>>

(* acquiresleep(), and bread()'s look at the buffer, which is now p's.        *)
Acquiresleep(p) ==
  /\ at[p] = "lock"
  /\ IF Has(p).lock # Nobody THEN Goes(p, "waitlock") /\ UNCHANGED buf
     ELSE /\ buf' = [buf EXCEPT ![bp[p]].lock = p]
          /\ Goes(p, IF Has(p).valid THEN "use" ELSE "rw")
  /\ UNCHANGED <<lru, queue, platter, bp, want>>

-----------------------------------------------------------------------------
(* iderw(): it starts the disk when its request is the only one.  A request   *)
(* moves on only when the one before has ended.                               *)
Iderw(p) ==
  /\ at[p] = "rw"
  /\ queue' = Append(queue, bp[p])
  /\ Goes(p, "io")
  /\ UNCHANGED <<buf, lru, platter, bp, want>>

WakesIo(b)   == Wakes("io", b, "woken", Nobody, "idle")

(* ideintr(): the request at the head is done.                                *)
Woken(b) == WakesIo(b)

(* An error shows nowhere: a read that failed leaves the buffer as it was,    *)
(* valid now, and the driver does not look at what became of a write.         *)
Outcomes(k) == IF k \in BadBlock THEN BOOLEAN ELSE {TRUE}

Ideintr ==
  LET b == Head(queue) IN
  /\ queue # <<>>
  /\ queue' = Tail(queue)
  /\ \E ok \in Outcomes(buf[b].block) :
       /\ buf' = [buf EXCEPT ![b].data = IF ok /\ ~buf[b].dirty THEN platter[buf[b].block] ELSE @,
                             ![b].valid = TRUE, ![b].dirty = FALSE]
       /\ platter' = IF ok /\ buf[b].dirty
                     THEN [platter EXCEPT ![buf[b].block] = buf[b].data] ELSE platter
  /\ Woken(b)
  /\ UNCHANGED <<lru, bp, want>>

AfterIo(p)   == IF Has(p).valid /\ ~Has(p).dirty THEN "use" ELSE "io"
IderwDone(p) ==
  /\ at[p] = "woken"
  /\ Goes(p, AfterIo(p))
  /\ UNCHANGED <<buf, lru, queue, platter, bp, want>>

-----------------------------------------------------------------------------
(* The process has the block: log_write() marks it, bwrite() writes it.       *)
Contents == 0..MaxData
Changed  == {buf[b].data : b \in Buffer} \cup {platter[k] : k \in BlockNo}
NewData  == Max(Changed) + 1

LogWrite(p) ==
  /\ at[p] = "use" /\ NewData \in Contents
  /\ buf' = [buf EXCEPT ![bp[p]].data = NewData, ![bp[p]].dirty = TRUE]
  /\ UNCHANGED <<lru, queue, platter, at, bp, want>>

Bwrite(p) ==
  /\ at[p] = "use" /\ Has(p).dirty
  /\ buf' = [buf EXCEPT ![bp[p]].dirty = TRUE]
  /\ Goes(p, "rw")
  /\ UNCHANGED <<lru, queue, platter, bp, want>>

(* brelse(): releasesleep() first, then the reference under bcache.lock.      *)
LetsNobodyIn(p) == Goes(p, "drop")   \* mutant
LetsIn(p)       == Wakes("waitlock", bp[p], "lock", p, "drop")

Releasesleep(p) ==
  /\ at[p] = "use"
  /\ buf' = [buf EXCEPT ![bp[p]].lock = Nobody]
  /\ LetsIn(p)
  /\ UNCHANGED <<lru, queue, platter, bp, want>>

(* The list of buffers after b has been put at its front.                     *)
MostRecent(b) == <<b>> \o RemoveAt(lru, CHOOSE i \in 1..Len(lru) : lru[i] = b)

Brelse(p) ==
  /\ at[p] = "drop"
  /\ buf' = [buf EXCEPT ![bp[p]].ref = @ - 1]
  /\ lru' = IF Has(p).ref = 1 THEN MostRecent(bp[p]) ELSE lru
  /\ Goes(p, "idle")
  /\ bp' = [bp EXCEPT ![p] = 0]
  /\ UNCHANGED <<queue, platter, want>>

-----------------------------------------------------------------------------

CacheStep(p) ==
  Acquiresleep(p) \/ Iderw(p) \/ IderwDone(p) \/ Bwrite(p) \/ Releasesleep(p) \/ Brelse(p)

CacheNext ==
  \/ \E p \in User, k \in BlockNo : BgetHit(p, k) \/ BgetMiss(p, k)
  \/ \E p \in User : CacheStep(p) \/ LogWrite(p)
  \/ Ideintr
  \/ (\E p \in User : at[p] = "panic") /\ UNCHANGED cacheVars

CacheSpec == CacheInit /\ [][CacheNext]_cacheVars

(* A process in the kernel runs when it can; the disk ends what it started.   *)
CacheFair == WF_cacheVars(Ideintr) /\ \A p \in User : WF_cacheVars(CacheStep(p))

-----------------------------------------------------------------------------

Holders(b) == {p \in User : bp[p] = b}

(* Buffers, list and processes have the fields the code gives them; the list  *)
(* holds every buffer once and a reference count is the processes that have   *)
(* the buffer.                                                                *)
CacheTypeOK ==
  /\ \A b \in Buffer : buf[b].ref = Cardinality(Holders(b)) /\ buf[b].lock \in User \cup {Nobody}
  /\ Len(lru) = NBUF /\ ToSet(lru) = Buffer
  /\ at \in [User -> At] /\ bp \in [User -> Buffer \cup {0}]

(* A block is in at most one buffer, so that its lock is one lock (bget).     *)
OneBuffer ==
  \A b, c \in Buffer : b # c /\ buf[b].block # 0 => buf[b].block # buf[c].block

(* The buffer a process locks after bget() let go of bcache.lock still holds  *)
(* the block it asked for, and nobody else uses it.                           *)
HeldIsWanted ==
  \A p \in User : at[p] \in {"rw", "io", "woken", "use"} =>
    Has(p).lock = p /\ Has(p).block = want[p]

(* A buffer is in the queue once, for the process that has it locked and      *)
(* sleeps, and it leaves the queue with the work done: no request is lost,    *)
(* started twice, or changed while the disk works on it.                      *)
QueueOnce ==
  /\ IsInjective(queue)
  /\ \A b \in Buffer : b \in ToSet(queue) <=> \E p \in Asleep("io", b) : buf[b].lock = p

(* The cache implements a store of blocks: a block that bget() recycles has   *)
(* nothing the disk does not have, and a reader sees the last change, whether *)
(* the log still holds it back or it has been written.  That is so of the     *)
(* blocks the disk can read and write; what a reader of another one gets may  *)
(* be anything, and it is not told.                                           *)
GoodBlock == BlockNo \ BadBlock

Visible == [k \in GoodBlock |->
              IF \E b \in Cached(k) : buf[b].valid
              THEN buf[CHOOSE b \in Cached(k) : buf[b].valid].data ELSE platter[k]]
InUse   == [k \in GoodBlock |->
              IF \E b \in Cached(k) : buf[b].valid
              THEN buf[CHOOSE b \in Cached(k) : buf[b].valid].lock ELSE Nobody]

Blocks == INSTANCE BlockStore WITH
            StoreProc <- User, StoreBlock <- GoodBlock, Content <- Contents,
            store <- Visible, holder <- InUse
CacheIsStore == Blocks!StoreSpec

(* While a process waits for a block, for its lock or for the disk, somebody  *)
(* comes to use it, unless bget() panics.  It need not be that process: who   *)
(* lets a sleep lock go may take it again before the one it woke runs.        *)
Waits(p, k) == want[p] = k /\ at[p] \in {"lock", "waitlock", "rw", "io", "woken"}

BlockArrives ==
  \A k \in BlockNo :
    (\E p \in User : Waits(p, k)) ~>
      \E q \in User : (at[q] = "use" /\ want[q] = k) \/ at[q] = "panic"

(* Buffers, their locks and the queue of the driver agree at every step.      *)
BuffersSound == CacheTypeOK /\ OneBuffer /\ HeldIsWanted /\ QueueOnce

=============================================================================
