-------------------------------- MODULE Pipe --------------------------------
(* One xv6 pipe (pipe.c): readers and writers over the circular buffer under  *)
(* p->lock, the sleeps on &p->nread and &p->nwrite, pipeclose() by the last   *)
(* holder of an end, and kill().  A process has one end of the pipe; fork()   *)
(* hands it on.  p->lock is held from acquire() to the release() in sleep()   *)
(* or at the end of the call; each round of a loop under it is a step.        *)
EXTENDS Integers, FiniteSets

CONSTANTS Reader, Writer,  \* processes that may hold the read end, the write end
          NoProc,          \* the holder of a free p->lock
          PIPESIZE,
          W,               \* nread and nwrite are uints: they wrap at W
          MaxIO,           \* bound: the largest n of a read or a write
          MaxBytes,        \* bound: no write starts that would go beyond
          Cpus             \* how many processors the Makefiles start: 1, 2

ASSUME PipeAssumption ==
  /\ Reader \cap Writer = {} /\ NoProc \notin Reader \cup Writer
  /\ PIPESIZE \in Nat \ {0} /\ W \in Nat /\ W > PIPESIZE /\ W % PIPESIZE = 0
  /\ MaxIO \in Nat \ {0} /\ MaxBytes \in Nat
  /\ Cpus \subseteq Nat \ {0}

PipeProc == Reader \cup Writer

VARIABLES
  holder,               \* the process that holds p->lock
  nread, nwrite, data,
  readopen, writeopen,
  freed,                \* the page of the pipe went back to kfree()
  open,                 \* the processes with a descriptor of their end
  pc,                   \* "out": no descriptor; "io", "copy": under p->lock
  left,                 \* n - i of the call in progress
  killed,
  ncpu,
  sent, got             \* history: bytes are numbered as they go in; the last
                        \* that went in, the last that came out

ring  == <<nread, nwrite, data, sent, got>>
ends  == <<readopen, writeopen, freed, open>>
pipeVars  == <<holder, ring, ends, pc, left, killed, ncpu>>

Pc == {"out", "user", "io", "copy", "dozing", "asleep", "acquire", "close"}

PipeTypeOK ==
  /\ holder \in PipeProc \cup {NoProc}
  /\ nread \in 0..(W - 1) /\ nwrite \in 0..(W - 1)
  /\ data \in [0..(PIPESIZE - 1) -> Nat]
  /\ readopen \in BOOLEAN /\ writeopen \in BOOLEAN /\ freed \in BOOLEAN
  /\ open \in SUBSET PipeProc
  /\ pc \in [PipeProc -> Pc] /\ left \in [PipeProc -> 0..MaxIO]
  /\ killed \in [PipeProc -> BOOLEAN]
  /\ ncpu \in Cpus
  /\ sent \in Nat /\ got \in Nat

(* pipealloc() has succeeded; one process reads and another writes.           *)
PipeInit ==
  /\ holder = NoProc
  /\ nread = 0 /\ nwrite = 0 /\ data = [i \in 0..(PIPESIZE - 1) |-> 0]
  /\ readopen = TRUE /\ writeopen = TRUE /\ freed = FALSE
  /\ \E r \in Reader, w \in Writer : open = {r, w}
  /\ pc = [p \in PipeProc |-> IF p \in open THEN "user" ELSE "out"]
  /\ left = [p \in PipeProc |-> 0]
  /\ killed = [p \in PipeProc |-> FALSE]
  /\ ncpu \in Cpus
  /\ sent = 0 /\ got = 0

-----------------------------------------------------------------------------
(* The buffer *)

FullUnwrapped == nwrite = nread + PIPESIZE
Full  == nwrite = (nread + PIPESIZE) % W
Empty == nread = nwrite

Bump(n) == (n + 1) % W

(* wakeup() on the channel where the processes of S sleep.                    *)
Wakeup(S) == [p \in PipeProc |-> IF p \in S /\ pc[p] = "asleep" THEN "acquire" ELSE pc[p]]

Release(p, woken, to) ==
  /\ holder' = NoProc
  /\ pc' = [Wakeup(woken) EXCEPT ![p] = to]

-----------------------------------------------------------------------------
(* System calls *)

(* A read or a write of n bytes starts.  trap() lets no killed process do so. *)
Enter(p) ==
  /\ pc[p] = "user" /\ p \in open /\ ~killed[p]
  /\ \E n \in 1..MaxIO :
       /\ p \in Writer => sent + n <= MaxBytes
       /\ left' = [left EXCEPT ![p] = n]
  /\ pc' = [pc EXCEPT ![p] = "acquire"]
  /\ UNCHANGED <<holder, ring, ends, killed, ncpu>>

(* fork(): a new process shares the end of its parent.                        *)
Inherit(p, q) ==
  /\ pc[p] = "user" /\ p \in open /\ ~killed[p]
  /\ pc[q] = "out" /\ ~killed[q] /\ (p \in Reader <=> q \in Reader)
  /\ open' = open \cup {q}
  /\ pc' = [pc EXCEPT ![q] = "user"]
  /\ UNCHANGED <<holder, ring, readopen, writeopen, freed, left, killed, ncpu>>

(* fileclose(), from close() or exit(): the last holder of an end goes on to  *)
(* pipeclose().                                                               *)
SameEnd(p) == IF p \in Reader THEN Reader ELSE Writer

Close(p) ==
  /\ pc[p] = "user" /\ p \in open
  /\ open' = open \ {p}
  /\ pc' = [pc EXCEPT ![p] = IF open' \cap SameEnd(p) = {} THEN "close" ELSE "out"]
  /\ UNCHANGED <<holder, ring, readopen, writeopen, freed, left, killed, ncpu>>

(* kill(), by a process that has no part in the pipe.  On one processor it    *)
(* does not run while p->lock is held, for a holder has interrupts off.       *)
WokenByKill(s) == IF s = "asleep" THEN "acquire" ELSE s

Kill(p) ==
  /\ pc[p] # "out"
  /\ ncpu > 1 \/ holder = NoProc
  /\ killed' = [killed EXCEPT ![p] = TRUE]
  /\ pc' = [pc EXCEPT ![p] = WokenByKill(@)]
  /\ UNCHANGED <<holder, ring, ends, left, ncpu>>

-----------------------------------------------------------------------------
(* sleep(chan, &p->lock) *)

(* The loop has decided to sleep; p->lock goes once ptable.lock is held.      *)
Sleep(p) ==
  /\ pc[p] = "dozing"
  /\ holder' = NoProc
  /\ pc' = [pc EXCEPT ![p] = "asleep"]
  /\ UNCHANGED <<ring, ends, left, killed, ncpu>>

(* acquire(&p->lock), at the start of a call or at the end of sleep().        *)
Acquire(p) ==
  /\ pc[p] = "acquire" /\ holder = NoProc
  /\ holder' = p
  /\ pc' = [pc EXCEPT ![p] = "io"]
  /\ UNCHANGED <<ring, ends, left, killed, ncpu>>

-----------------------------------------------------------------------------
(* pipewrite() *)

Writing(w) == pc[w] = "io" /\ left[w] > 0

WriteByte(w) ==
  /\ Writing(w) /\ ~Full
  /\ data' = [data EXCEPT ![nwrite % PIPESIZE] = sent + 1]
  /\ nwrite' = Bump(nwrite)
  /\ left' = [left EXCEPT ![w] = @ - 1]
  /\ sent' = sent + 1
  /\ UNCHANGED <<holder, nread, got, ends, pc, killed, ncpu>>

WriteFail(w) ==
  /\ Writing(w) /\ Full
  /\ ~readopen \/ killed[w]
  /\ Release(w, {}, "user")
  /\ left' = [left EXCEPT ![w] = 0]
  /\ UNCHANGED <<ring, ends, killed, ncpu>>

WriteWait(w) ==
  /\ Writing(w) /\ Full
  /\ readopen /\ ~killed[w]
  /\ pc' = [Wakeup(Reader) EXCEPT ![w] = "dozing"]
  /\ UNCHANGED <<holder, ring, ends, left, killed, ncpu>>

WriteDone(w) ==
  /\ pc[w] = "io" /\ left[w] = 0
  /\ Release(w, Reader, "user")
  /\ UNCHANGED <<ring, ends, left, killed, ncpu>>

-----------------------------------------------------------------------------
(* piperead() *)

NothingYet(r) == pc[r] = "io" /\ Empty /\ writeopen

ReadFail(r) ==
  /\ NothingYet(r) /\ killed[r]
  /\ Release(r, {}, "user")
  /\ left' = [left EXCEPT ![r] = 0]
  /\ UNCHANGED <<ring, ends, killed, ncpu>>

ReadWait(r) ==
  /\ NothingYet(r) /\ ~killed[r]
  /\ pc' = [pc EXCEPT ![r] = "dozing"]
  /\ UNCHANGED <<holder, ring, ends, left, killed, ncpu>>

ReadByte(r) ==
  /\ pc[r] \in {"io", "copy"}
  /\ left[r] > 0 /\ ~Empty
  /\ got' = data[nread % PIPESIZE]
  /\ nread' = Bump(nread)
  /\ left' = [left EXCEPT ![r] = @ - 1]
  /\ pc' = [pc EXCEPT ![r] = "copy"]
  /\ UNCHANGED <<holder, nwrite, data, sent, ends, killed, ncpu>>

WokenByRead == Writer

ReadDone(r) ==
  /\ pc[r] \in {"io", "copy"} /\ ~NothingYet(r)
  /\ left[r] = 0 \/ Empty
  /\ Release(r, WokenByRead, "user")
  /\ left' = [left EXCEPT ![r] = 0]
  /\ UNCHANGED <<ring, ends, killed, ncpu>>

-----------------------------------------------------------------------------
(* pipeclose() *)

OwnEnd(p) == SameEnd(p)
OtherEnd(p) == IF p \in Reader THEN Writer ELSE Reader

FreeAtOnce(p) == TRUE
LastEnd(p) == IF p \in Reader THEN ~writeopen ELSE ~readopen

PipeClose(p) ==
  /\ pc[p] = "close" /\ holder = NoProc
  /\ readopen' = (readopen /\ p \notin Reader)
  /\ writeopen' = (writeopen /\ p \notin Writer)
  /\ pc' = [Wakeup(OtherEnd(p)) EXCEPT ![p] = "out"]
  /\ freed' = LastEnd(p)
  /\ UNCHANGED <<holder, ring, open, left, killed, ncpu>>

-----------------------------------------------------------------------------

Write(w) == WriteByte(w) \/ WriteFail(w) \/ WriteWait(w) \/ WriteDone(w)
Read(r)  == ReadFail(r) \/ ReadWait(r) \/ ReadByte(r) \/ ReadDone(r)

(* What a process does while it holds p->lock.                                *)
Locked(p) == (p \in Writer /\ Write(p)) \/ (p \in Reader /\ Read(p)) \/ Sleep(p)

Finished == open = {} /\ (\A p \in PipeProc : pc[p] = "out") /\ UNCHANGED pipeVars

PipeNext ==
  \/ \E p \in PipeProc : Enter(p) \/ Close(p) \/ Kill(p) \/ Locked(p) \/ Acquire(p) \/ PipeClose(p)
  \/ \E p, q \in PipeProc : Inherit(p, q)
  \/ Finished

PipeSpec == PipeInit /\ [][PipeNext]_pipeVars

(* With p->lock in hand a process is not interrupted; whoever waits for it    *)
(* finds it free whenever it is scheduled, on one processor.                  *)
PipeFairness ==
  \A p \in PipeProc : WF_pipeVars(Locked(p)) /\ SF_pipeVars(Acquire(p) \/ PipeClose(p))

PipeFairSpec == PipeSpec /\ PipeFairness

-----------------------------------------------------------------------------
(* Properties *)

Unread == (nwrite - nread) % W

(* The bytes between nread and nwrite are the ones that went in and have not  *)
(* come out, in order, across the wrap of both counters and of the buffer,    *)
(* whoever wrote and read them (pipewrite(), piperead()).                     *)
InOrder ==
  /\ Unread <= PIPESIZE
  /\ got + Unread = sent
  /\ \A i \in 1..Unread : data[(nread + i - 1) % PIPESIZE] = got + i

(* While nobody holds p->lock, a reader sleeps only on an empty pipe that     *)
(* somebody can still write to, a writer only on a full one that somebody can *)
(* still read (the wakeup() calls of pipewrite(), piperead(), pipeclose()).   *)
(* A killed writer is the exception: it may leave bytes and wake nobody.      *)
NoLostWakeup ==
  holder = NoProc /\ (\A w \in Writer : ~killed[w]) =>
    /\ \A r \in Reader : pc[r] = "asleep" => Empty /\ writeopen
    /\ \A w \in Writer : pc[w] = "asleep" => Full /\ readopen

(* pipeclose() frees the page only when no process can reach it any more,     *)
(* not even one that waits for p->lock or is on its way into pipeclose().     *)
FreedIsUnused ==
  freed => holder = NoProc /\ open = {} /\ \A p \in PipeProc : pc[p] = "out"

(* kill(): a process that sleeps in the pipe when it is killed, or goes to    *)
(* sleep afterwards, is woken.                                                *)
KilledAwake == \A p \in PipeProc : killed[p] => pc[p] # "asleep"

(* On one processor it is.                                                    *)
KilledAwakeOnOne == ncpu = 1 => KilledAwake

InCall(p) == pc[p] \in {"io", "copy", "dozing", "asleep", "acquire"}

(* On one processor, a call in progress ends once its process is killed or an *)
(* end of the pipe is closed (pipewrite(), piperead(), pipeclose(), kill()).  *)
CallsEnd ==
  \A p \in PipeProc :
    ncpu = 1 /\ InCall(p) /\ (killed[p] \/ ~readopen \/ ~writeopen) ~> ~InCall(p)

(* Bytes, locks and sleepers together, in every state of a call.              *)
PipeSound == PipeTypeOK /\ InOrder /\ NoLostWakeup /\ KilledAwakeOnOne

=============================================================================
