-------------------------- MODULE ProcTable_proofs --------------------------
(* Safety of the process table, for every number of slots and processors.     *)
EXTENDS ProcTable, TLAPS

(* Who holds ptable.lock: a CPU inside the loop of scheduler() does, and a    *)
(* CPU that waits for it runs no process.                                     *)
LockInv ==
  \A c \in CPU : /\ at[c] = "loop" => lock = c
                 /\ at[c] = "idle" => cur[c] = Null

(* The slot a fork() has in hand: np is set between allocproc() and the final *)
(* release, and has no parent until the fields are copied.                    *)
ForkInv ==
  \A p \in Slot :
    /\ child[p] # Null <=> pc[p] \in {"embryo", "copied"}
    /\ child[p] # Null => Live(p)
    /\ pc[p] = "embryo" => parent[child[p]] = Null
    /\ pc[p] = "copied" => parent[child[p]] = p

(* The first process never leaves, nobody is its own parent, and a free slot  *)
(* is nobody's child.                                                         *)
ParentInv ==
  /\ Live(initproc)
  /\ parent[initproc] = Null
  /\ \A p \in Slot : parent[p] # p
  /\ \A p \in Slot : state[p] = "UNUSED" => parent[p] = Null

PidInv ==
  /\ nextpid > 0
  /\ \A p \in Slot : pid[p] < nextpid
  /\ PidNamesOneSlot

IInv ==
  /\ TypeOK /\ LockInv /\ OneCpuPerProcess
  /\ ForkInv /\ EmbryoOwned
  /\ ParentInv /\ NoOrphan /\ NoLostWakeup /\ PidInv

(* TypeOK in parts: the table, the threads and the processors.                *)
TableType ==
  /\ state \in [Slot -> State] /\ pid \in [Slot -> Nat]
  /\ parent \in [Slot -> Slot \cup {Null}]
  /\ chan \in [Slot -> Slot \cup {Null, TicksChan}]
  /\ killed \in [Slot -> BOOLEAN] /\ tickets \in [Slot -> Nat]
  /\ inuse \in [Slot -> {0, 1}] /\ nextpid \in Nat

ThreadType ==
  /\ ctx \in [Slot -> Where] /\ pc \in [Slot -> Pc]
  /\ child \in [Slot -> Slot \cup {Null}]

CpuType ==
  /\ lock \in CPU \cup {NoCpu} /\ at \in [CPU -> {"idle", "loop", "proc"}]
  /\ cur \in [CPU -> Slot \cup {Null}] /\ cursor \in [CPU -> Nat]
  /\ turn \in [CPU -> Nat] /\ panicked \in BOOLEAN

USE ProcAssumption DEF ProcAssumption, Slot, Null, initproc, TicksChan, State, Where, Pc,
  table, threads, cpus, Live, Children, Zombies

(* userinit() leaves a table that satisfies the invariant.                    *)
LEMMA InitIInv == Init => IInv
<1> SUFFICES ASSUME Init PROVE IInv
  OBVIOUS
<1> USE DEF Init
<1>1. TypeOK
  <2>1. TicketsPositive
    BY DEF TicketsPositive
  <2>2. TableType
    BY DEF TableType
  <2>3. ThreadType
    BY DEF ThreadType
  <2>4. CpuType
    BY DEF CpuType
  <2> QED
    BY <2>1, <2>2, <2>3, <2>4 DEF TypeOK, TableType, ThreadType, CpuType
<1>2. LockInv /\ OneCpuPerProcess
  BY DEF LockInv, OneCpuPerProcess
<1>3. ForkInv /\ EmbryoOwned
  BY DEF ForkInv, EmbryoOwned
<1>4. ParentInv /\ NoOrphan /\ NoLostWakeup
  BY DEF ParentInv, NoOrphan, NoLostWakeup
<1>5. PidInv
  BY DEF PidInv, PidNamesOneSlot
<1> QED
  BY <1>1, <1>2, <1>3, <1>4, <1>5 DEF IInv

-----------------------------------------------------------------------------
(* Steps of a thread that change nothing but where it is.                     *)

(* A thread that enters or leaves a call without a slot in hand.              *)
LEMMA ForkInvPc ==
  ASSUME TypeOK, ForkInv, NEW p \in Slot, NEW w \in Pc \ {"embryo", "copied"},
         pc[p] \notin {"embryo", "copied"}, pc' = [pc EXCEPT ![p] = w],
         \A q \in Slot : Live(q)' <=> Live(q), UNCHANGED <<parent, child>>
  PROVE  ForkInv'
<1>1. \A q \in Slot : pc'[q] \in {"embryo", "copied"} <=> pc[q] \in {"embryo", "copied"}
  BY DEF TypeOK
<1>2. \A q \in Slot : pc'[q] \in {"embryo", "copied"} => pc'[q] = pc[q]
  BY DEF TypeOK
<1> QED
  BY <1>1, <1>2 DEF ForkInv, TypeOK

(* A step that only moves a thread of a running process to another label      *)
(* outside fork().                                                            *)
LEMMA PcStep ==
  ASSUME IInv, NEW p \in Slot, NEW w \in Pc \ {"embryo", "copied"},
         pc[p] \notin {"embryo", "copied"}, pc' = [pc EXCEPT ![p] = w],
         UNCHANGED <<table, ctx, child, cpus, panicked>>
  PROVE  IInv'
<1>1. TypeOK'
  BY DEF IInv, TypeOK, TicketsPositive
<1>2. ForkInv'
  BY ForkInvPc DEF IInv
<1>3. LockInv' /\ OneCpuPerProcess' /\ EmbryoOwned' /\ ParentInv' /\ NoOrphan'
      /\ NoLostWakeup' /\ PidInv'
  BY DEF IInv, LockInv, OneCpuPerProcess, EmbryoOwned, ParentInv, NoOrphan, NoLostWakeup,
         PidInv, PidNamesOneSlot
<1> QED
  BY <1>1, <1>2, <1>3 DEF IInv

(* A scheduler takes the free lock.                                           *)
LEMMA SchedAcquireStep ==
  ASSUME IInv, NEW c \in CPU, SchedAcquire(c)
  PROVE  IInv'
<1> USE DEF SchedAcquire
<1>1. TypeOK'
  <2>1. TableType'
    BY SMTT(120) DEF IInv, TypeOK, OneCpuPerProcess, EmbryoOwned, TableType
  <2>2. ThreadType'
    BY SMTT(120) DEF IInv, TypeOK, OneCpuPerProcess, EmbryoOwned, ThreadType
  <2>3. CpuType'
    BY SMTT(120) DEF IInv, TypeOK, OneCpuPerProcess, EmbryoOwned, CpuType
  <2>4. TicketsPositive'
    BY SMTT(120) DEF IInv, TypeOK, OneCpuPerProcess, EmbryoOwned, TicketsPositive
  <2> QED
    BY <2>1, <2>2, <2>3, <2>4 DEF TypeOK, TableType, ThreadType, CpuType
<1>2. LockInv'
  BY SMTT(120) DEF IInv, TypeOK, LockInv
<1>3. OneCpuPerProcess'
  BY SMTT(120) DEF IInv, TypeOK, LockInv, OneCpuPerProcess, EmbryoOwned
<1>4. ForkInv' /\ EmbryoOwned' /\ ParentInv' /\ NoOrphan' /\ NoLostWakeup' /\ PidInv'
  BY DEF IInv, ForkInv, EmbryoOwned, ParentInv, NoOrphan, NoLostWakeup, PidInv, PidNamesOneSlot
<1> QED
  BY <1>1, <1>2, <1>3, <1>4 DEF IInv

(* A RUNNABLE slot is on no CPU: it may become c->proc.                       *)
LEMMA SchedPickStep ==
  ASSUME IInv, NEW c \in CPU, SchedPick(c)
  PROVE  IInv'
<1> USE DEF SchedPick, InLoop, Ready, IsFirst
<1>1. TypeOK'
  <2>1. TableType'
    BY SMTT(120) DEF IInv, TypeOK, OneCpuPerProcess, EmbryoOwned, TableType
  <2>2. ThreadType'
    BY SMTT(120) DEF IInv, TypeOK, OneCpuPerProcess, EmbryoOwned, ThreadType
  <2>3. CpuType'
    BY SMTT(120) DEF IInv, TypeOK, OneCpuPerProcess, EmbryoOwned, CpuType
  <2>4. TicketsPositive'
    BY SMTT(120) DEF IInv, TypeOK, OneCpuPerProcess, EmbryoOwned, TicketsPositive
  <2> QED
    BY <2>1, <2>2, <2>3, <2>4 DEF TypeOK, TableType, ThreadType, CpuType
<1>2. LockInv'
  BY SMTT(120) DEF IInv, TypeOK, LockInv
<1>3. OneCpuPerProcess'
  BY SMTT(120) DEF IInv, TypeOK, LockInv, OneCpuPerProcess, EmbryoOwned
<1>4. ForkInv' /\ EmbryoOwned' /\ ParentInv' /\ NoOrphan' /\ NoLostWakeup' /\ PidInv'
  BY DEF IInv, ForkInv, EmbryoOwned, ParentInv, NoOrphan, NoLostWakeup, PidInv, PidNamesOneSlot
<1> QED
  BY <1>1, <1>2, <1>3, <1>4 DEF IInv

(* The slot that was picked becomes RUNNING, on this CPU only.                *)
LEMMA SchedSliceStep ==
  ASSUME IInv, NEW c \in CPU, SchedSlice(c)
  PROVE  IInv'
<1> USE DEF SchedSlice, InLoop, MoreSlices
<1>1. TypeOK'
  <2>1. TableType'
    BY SMTT(120) DEF IInv, TypeOK, OneCpuPerProcess, EmbryoOwned, TableType
  <2>2. ThreadType'
    BY SMTT(120) DEF IInv, TypeOK, OneCpuPerProcess, EmbryoOwned, ThreadType
  <2>3. CpuType'
    BY SMTT(120) DEF IInv, TypeOK, OneCpuPerProcess, EmbryoOwned, CpuType
  <2>4. TicketsPositive'
    BY SMTT(120) DEF IInv, TypeOK, OneCpuPerProcess, EmbryoOwned, TicketsPositive
  <2> QED
    BY <2>1, <2>2, <2>3, <2>4 DEF TypeOK, TableType, ThreadType, CpuType
<1>2. LockInv'
  BY SMTT(120) DEF IInv, TypeOK, LockInv
<1>3. OneCpuPerProcess'
  BY SMTT(120) DEF IInv, TypeOK, LockInv, OneCpuPerProcess, EmbryoOwned
<1>4. ForkInv'
  BY SMTT(120) DEF IInv, TypeOK, OneCpuPerProcess, ForkInv, EmbryoOwned, ParentInv
<1>5. EmbryoOwned'
  BY SMTT(120) DEF IInv, TypeOK, OneCpuPerProcess, ForkInv, EmbryoOwned
<1>6. ParentInv'
  BY SMTT(120) DEF IInv, TypeOK, OneCpuPerProcess, ForkInv, EmbryoOwned, ParentInv
<1>7. NoOrphan'
  BY SMTT(120) DEF IInv, TypeOK, OneCpuPerProcess, ForkInv, EmbryoOwned, ParentInv, NoOrphan
<1>8. NoLostWakeup'
  BY SMTT(120) DEF IInv, TypeOK, OneCpuPerProcess, ForkInv, EmbryoOwned, ParentInv, NoLostWakeup
<1>9. PidInv'
  BY SMTT(120) DEF IInv, TypeOK, PidInv, PidNamesOneSlot
<1> QED
  BY <1>1, <1>2, <1>3, <1>4, <1>5, <1>6, <1>7, <1>8, <1>9 DEF IInv

(* The scheduler drops a slot that is no longer RUNNING.                      *)
LEMMA SchedNextStep ==
  ASSUME IInv, NEW c \in CPU, SchedNext(c)
  PROVE  IInv'
<1> USE DEF SchedNext, InLoop, NextCursor
<1>1. TypeOK'
  <2>1. TableType'
    BY SMTT(120) DEF IInv, TypeOK, OneCpuPerProcess, EmbryoOwned, TableType
  <2>2. ThreadType'
    BY SMTT(120) DEF IInv, TypeOK, OneCpuPerProcess, EmbryoOwned, ThreadType
  <2>3. CpuType'
    BY SMTT(120) DEF IInv, TypeOK, OneCpuPerProcess, EmbryoOwned, CpuType
  <2>4. TicketsPositive'
    BY SMTT(120) DEF IInv, TypeOK, OneCpuPerProcess, EmbryoOwned, TicketsPositive
  <2> QED
    BY <2>1, <2>2, <2>3, <2>4 DEF TypeOK, TableType, ThreadType, CpuType
<1>2. LockInv'
  BY SMTT(120) DEF IInv, TypeOK, LockInv
<1>3. OneCpuPerProcess'
  BY SMTT(120) DEF IInv, TypeOK, LockInv, OneCpuPerProcess, EmbryoOwned
<1>4. ForkInv' /\ EmbryoOwned' /\ ParentInv' /\ NoOrphan' /\ NoLostWakeup' /\ PidInv'
  BY DEF IInv, ForkInv, EmbryoOwned, ParentInv, NoOrphan, NoLostWakeup, PidInv, PidNamesOneSlot
<1> QED
  BY <1>1, <1>2, <1>3, <1>4 DEF IInv

(* The lock is given back with c->proc null.                                  *)
LEMMA SchedReleaseStep ==
  ASSUME IInv, NEW c \in CPU, SchedRelease(c)
  PROVE  IInv'
<1> USE DEF SchedRelease, InLoop
<1>1. TypeOK'
  <2>1. TableType'
    BY SMTT(120) DEF IInv, TypeOK, OneCpuPerProcess, EmbryoOwned, TableType
  <2>2. ThreadType'
    BY SMTT(120) DEF IInv, TypeOK, OneCpuPerProcess, EmbryoOwned, ThreadType
  <2>3. CpuType'
    BY SMTT(120) DEF IInv, TypeOK, OneCpuPerProcess, EmbryoOwned, CpuType
  <2>4. TicketsPositive'
    BY SMTT(120) DEF IInv, TypeOK, OneCpuPerProcess, EmbryoOwned, TicketsPositive
  <2> QED
    BY <2>1, <2>2, <2>3, <2>4 DEF TypeOK, TableType, ThreadType, CpuType
<1>2. LockInv'
  BY SMTT(120) DEF IInv, TypeOK, LockInv
<1>3. OneCpuPerProcess'
  BY SMTT(120) DEF IInv, TypeOK, LockInv, OneCpuPerProcess, EmbryoOwned
<1>4. ForkInv' /\ EmbryoOwned' /\ ParentInv' /\ NoOrphan' /\ NoLostWakeup' /\ PidInv'
  BY DEF IInv, ForkInv, EmbryoOwned, ParentInv, NoOrphan, NoLostWakeup, PidInv, PidNamesOneSlot
<1> QED
  BY <1>1, <1>2, <1>3, <1>4 DEF IInv

(* A new process leaves the kernel.                                           *)
LEMMA ForkretStep ==
  ASSUME IInv, NEW c \in CPU, NEW p \in Slot, Forkret(c, p)
  PROVE  IInv'
<1> USE DEF Forkret, Resumes
<1>1. TypeOK'
  <2>1. TableType'
    BY SMTT(120) DEF IInv, TypeOK, OneCpuPerProcess, EmbryoOwned, TableType
  <2>2. ThreadType'
    BY SMTT(120) DEF IInv, TypeOK, OneCpuPerProcess, EmbryoOwned, ThreadType
  <2>3. CpuType'
    BY SMTT(120) DEF IInv, TypeOK, OneCpuPerProcess, EmbryoOwned, CpuType
  <2>4. TicketsPositive'
    BY SMTT(120) DEF IInv, TypeOK, OneCpuPerProcess, EmbryoOwned, TicketsPositive
  <2> QED
    BY <2>1, <2>2, <2>3, <2>4 DEF TypeOK, TableType, ThreadType, CpuType
<1>2. LockInv'
  BY SMTT(120) DEF IInv, TypeOK, LockInv
<1>3. OneCpuPerProcess' /\ ForkInv' /\ EmbryoOwned' /\ ParentInv' /\ NoOrphan' /\ NoLostWakeup' /\ PidInv'
  BY DEF IInv, OneCpuPerProcess, ForkInv, EmbryoOwned, ParentInv, NoOrphan, NoLostWakeup,
         PidInv, PidNamesOneSlot
<1> QED
  BY <1>1, <1>2, <1>3 DEF IInv

(* A thread comes back from yield().                                          *)
LEMMA YieldReturnStep ==
  ASSUME IInv, NEW c \in CPU, NEW p \in Slot, YieldReturn(c, p)
  PROVE  IInv'
<1> USE DEF YieldReturn, Resumes
<1>1. TypeOK'
  <2>1. TableType'
    BY SMTT(120) DEF IInv, TypeOK, OneCpuPerProcess, EmbryoOwned, TableType
  <2>2. ThreadType'
    BY SMTT(120) DEF IInv, TypeOK, OneCpuPerProcess, EmbryoOwned, ThreadType
  <2>3. CpuType'
    BY SMTT(120) DEF IInv, TypeOK, OneCpuPerProcess, EmbryoOwned, CpuType
  <2>4. TicketsPositive'
    BY SMTT(120) DEF IInv, TypeOK, OneCpuPerProcess, EmbryoOwned, TicketsPositive
  <2> QED
    BY <2>1, <2>2, <2>3, <2>4 DEF TypeOK, TableType, ThreadType, CpuType
<1>2. LockInv'
  BY SMTT(120) DEF IInv, TypeOK, LockInv
<1>3. ForkInv'
  <2>1. CASE pc[p] = "user" /\ killed[p]
    BY <2>1, ForkInvPc DEF IInv
  <2>2. CASE ~(pc[p] = "user" /\ killed[p])
    BY <2>2 DEF IInv, TypeOK, ForkInv
  <2> QED
    BY <2>1, <2>2
<1>4. OneCpuPerProcess' /\ EmbryoOwned' /\ ParentInv' /\ NoOrphan' /\ NoLostWakeup' /\ PidInv'
  BY DEF IInv, OneCpuPerProcess, EmbryoOwned, ParentInv, NoOrphan, NoLostWakeup, PidInv, PidNamesOneSlot
<1> QED
  BY <1>1, <1>2, <1>3, <1>4 DEF IInv

(* A thread comes back from sleep(): its channel is cleared, and it is not    *)
(* SLEEPING.                                                                  *)
LEMMA SleepReturnStep ==
  ASSUME IInv, NEW c \in CPU, NEW p \in Slot, SleepReturn(c, p)
  PROVE  IInv'
<1> USE DEF SleepReturn, Resumes
<1>1. TypeOK'
  <2>1. TableType'
    BY SMTT(120) DEF IInv, TypeOK, OneCpuPerProcess, EmbryoOwned, TableType
  <2>2. ThreadType'
    BY SMTT(120) DEF IInv, TypeOK, OneCpuPerProcess, EmbryoOwned, ThreadType
  <2>3. CpuType'
    BY SMTT(120) DEF IInv, TypeOK, OneCpuPerProcess, EmbryoOwned, CpuType
  <2>4. TicketsPositive'
    BY SMTT(120) DEF IInv, TypeOK, OneCpuPerProcess, EmbryoOwned, TicketsPositive
  <2> QED
    BY <2>1, <2>2, <2>3, <2>4 DEF TypeOK, TableType, ThreadType, CpuType
<1>2. LockInv'
  BY SMTT(120) DEF IInv, TypeOK, LockInv
<1>3. NoLostWakeup'
  BY SMTT(120) DEF IInv, TypeOK, OneCpuPerProcess, ForkInv, EmbryoOwned, ParentInv, NoLostWakeup
<1>4. OneCpuPerProcess' /\ ForkInv' /\ EmbryoOwned' /\ ParentInv' /\ NoOrphan' /\ PidInv'
  BY DEF IInv, OneCpuPerProcess, ForkInv, EmbryoOwned, ParentInv, NoOrphan, PidInv, PidNamesOneSlot
<1> QED
  BY <1>1, <1>2, <1>3, <1>4 DEF IInv

(* A clock interrupt: exit, or yield with the lock in hand.                   *)
LEMMA TimerStep ==
  ASSUME IInv, NEW c \in CPU, NEW p \in Slot, Timer(c, p)
  PROVE  IInv'
<1> USE DEF Timer, Runs, Sched
<1>1. CASE pc[p] = "user" /\ killed[p]
  BY <1>1, PcStep
<1>2. CASE ~(pc[p] = "user" /\ killed[p])
  <2>1. /\ state[p] = "RUNNING"
        /\ state' = [state EXCEPT ![p] = "RUNNABLE"]
        /\ lock = NoCpu /\ lock' = c
        /\ at' = [at EXCEPT ![c] = "loop"]
        /\ ctx' = [ctx EXCEPT ![p] = "yield"]
        /\ UNCHANGED <<pid, parent, chan, killed, tickets, inuse, nextpid, pc, child,
                       cur, cursor, turn, panicked>>
    BY <1>2 DEF IInv, OneCpuPerProcess
  <2> HIDE DEF Timer, Runs, Sched
  <2>2. TypeOK'
    BY <2>1 DEF IInv, TypeOK, TicketsPositive
  <2>3. LockInv'
    BY SMTT(60), <2>1 DEF IInv, TypeOK, LockInv
  <2>4. OneCpuPerProcess'
    BY SMTT(60), <2>1 DEF Timer, Runs, IInv, TypeOK, LockInv, OneCpuPerProcess
  <2>5. \A q \in Slot : /\ Live(q)' <=> Live(q)
                        /\ \A w \in {"EMBRYO", "UNUSED", "ZOMBIE", "SLEEPING"} :
                             state'[q] = w <=> state[q] = w
    BY <2>1 DEF IInv, TypeOK
  <2>6. ForkInv' /\ EmbryoOwned'
    BY SMTT(60), <2>1, <2>5 DEF IInv, TypeOK, ForkInv, EmbryoOwned
  <2>7. ParentInv' /\ NoOrphan' /\ NoLostWakeup' /\ PidInv'
    BY SMTT(60), <2>1, <2>5 DEF IInv, TypeOK, ParentInv, NoOrphan, NoLostWakeup, PidInv, PidNamesOneSlot
  <2> QED
    BY <2>2, <2>3, <2>4, <2>6, <2>7 DEF IInv
<1> QED
  BY <1>1, <1>2

(* Sleepers on ticks become RUNNABLE; nobody in wait() is among them.         *)
LEMMA TimerWakeupStep ==
  ASSUME IInv, TimerWakeup
  PROVE  IInv'
<1> USE DEF TimerWakeup, Wakeup1
<1>1. TypeOK'
  <2>1. TableType'
    BY SMTT(120) DEF IInv, TypeOK, OneCpuPerProcess, EmbryoOwned, TableType
  <2>2. ThreadType'
    BY SMTT(120) DEF IInv, TypeOK, OneCpuPerProcess, EmbryoOwned, ThreadType
  <2>3. CpuType'
    BY SMTT(120) DEF IInv, TypeOK, OneCpuPerProcess, EmbryoOwned, CpuType
  <2>4. TicketsPositive'
    BY SMTT(120) DEF IInv, TypeOK, OneCpuPerProcess, EmbryoOwned, TicketsPositive
  <2> QED
    BY <2>1, <2>2, <2>3, <2>4 DEF TypeOK, TableType, ThreadType, CpuType
<1>2. LockInv'
  BY SMTT(120) DEF IInv, TypeOK, LockInv
<1>3. OneCpuPerProcess'
  BY SMTT(120) DEF IInv, TypeOK, LockInv, OneCpuPerProcess, EmbryoOwned
<1>4. ForkInv'
  BY SMTT(120) DEF IInv, TypeOK, OneCpuPerProcess, ForkInv, EmbryoOwned, ParentInv
<1>5. EmbryoOwned'
  BY SMTT(120) DEF IInv, TypeOK, OneCpuPerProcess, ForkInv, EmbryoOwned
<1>6. ParentInv'
  BY SMTT(120) DEF IInv, TypeOK, OneCpuPerProcess, ForkInv, EmbryoOwned, ParentInv
<1>7. NoOrphan'
  BY SMTT(120) DEF IInv, TypeOK, OneCpuPerProcess, ForkInv, EmbryoOwned, ParentInv, NoOrphan
<1>8. NoLostWakeup'
  BY SMTT(120) DEF IInv, TypeOK, OneCpuPerProcess, ForkInv, EmbryoOwned, ParentInv, NoLostWakeup
<1>9. PidInv'
  BY SMTT(120) DEF IInv, TypeOK, PidInv, PidNamesOneSlot
<1> QED
  BY <1>1, <1>2, <1>3, <1>4, <1>5, <1>6, <1>7, <1>8, <1>9 DEF IInv

(* The running process is marked killed; it does not sleep.                   *)
LEMMA FaultStep ==
  ASSUME IInv, NEW c \in CPU, NEW p \in Slot, Fault(c, p)
  PROVE  IInv'
<1> USE DEF Fault, Runs
<1>1. TypeOK'
  <2>1. TableType'
    BY SMTT(120) DEF IInv, TypeOK, OneCpuPerProcess, EmbryoOwned, TableType
  <2>2. ThreadType'
    BY SMTT(120) DEF IInv, TypeOK, OneCpuPerProcess, EmbryoOwned, ThreadType
  <2>3. CpuType'
    BY SMTT(120) DEF IInv, TypeOK, OneCpuPerProcess, EmbryoOwned, CpuType
  <2>4. TicketsPositive'
    BY SMTT(120) DEF IInv, TypeOK, OneCpuPerProcess, EmbryoOwned, TicketsPositive
  <2> QED
    BY <2>1, <2>2, <2>3, <2>4 DEF TypeOK, TableType, ThreadType, CpuType
<1>2. ForkInv'
  BY ForkInvPc DEF IInv
<1>3. NoLostWakeup'
  BY SMTT(120) DEF IInv, TypeOK, OneCpuPerProcess, ForkInv, EmbryoOwned, ParentInv, NoLostWakeup
<1>4. LockInv' /\ OneCpuPerProcess' /\ EmbryoOwned' /\ ParentInv' /\ NoOrphan' /\ PidInv'
  BY DEF IInv, LockInv, OneCpuPerProcess, EmbryoOwned, ParentInv, NoOrphan, PidInv, PidNamesOneSlot
<1> QED
  BY <1>1, <1>2, <1>3, <1>4 DEF IInv

(* A call starts.                                                             *)
LEMMA SyscallEntryStep ==
  ASSUME IInv, NEW c \in CPU, NEW p \in Slot, SyscallEntry(c, p)
  PROVE  IInv'
<1> USE DEF SyscallEntry, Runs, Calls
<1>1. PICK w \in Pc \ {"embryo", "copied"} : pc' = [pc EXCEPT ![p] = w]
  BY ProcAssumption DEF Pc
<1> QED
  BY <1>1, PcStep

(* A call ends.                                                               *)
LEMMA SyscallReturnStep ==
  ASSUME IInv, NEW c \in CPU, NEW p \in Slot, SyscallReturn(c, p)
  PROVE  IInv'
<1> USE DEF SyscallReturn, Runs
<1>1. CASE killed[p]
  BY <1>1, PcStep
<1>2. CASE ~killed[p]
  BY <1>2, PcStep
<1> QED
  BY <1>1, <1>2

(* The slot that fork() has in hand.                                          *)
LEMMA InFork ==
  ASSUME IInv, NEW c \in CPU, NEW p \in Slot, Runs(c, p), pc[p] \in {"embryo", "copied"}
  PROVE  /\ child[p] \in Slot /\ child[p] # p /\ child[p] # initproc
         /\ state[child[p]] = "EMBRYO"
         /\ state[p] = "RUNNING"
BY SMTT(60) DEF Runs, IInv, TypeOK, OneCpuPerProcess, ForkInv, EmbryoOwned, ParentInv

(* allocproc(): the slot it takes was nobody's child and in no other fork().  *)
LEMMA ForkAllocStep ==
  ASSUME IInv, NEW c \in CPU, NEW p \in Slot, ForkAlloc(c, p)
  PROVE  IInv'
<1> USE DEF ForkAlloc, Runs, FreshPid, IsFirst, Unused
<1>0. state[p] = "RUNNING" /\ child[p] = Null
  BY DEF IInv, TypeOK, OneCpuPerProcess, ForkInv
<1>1. TypeOK'
  <2>1. TableType'
    BY SMTT(120) DEF IInv, TypeOK, OneCpuPerProcess, EmbryoOwned, TableType
  <2>2. ThreadType'
    BY SMTT(120) DEF IInv, TypeOK, OneCpuPerProcess, EmbryoOwned, ThreadType
  <2>3. CpuType'
    BY SMTT(120) DEF IInv, TypeOK, OneCpuPerProcess, EmbryoOwned, CpuType
  <2>4. TicketsPositive'
    BY SMTT(120) DEF IInv, TypeOK, OneCpuPerProcess, EmbryoOwned, TicketsPositive
  <2> QED
    BY <2>1, <2>2, <2>3, <2>4 DEF TypeOK, TableType, ThreadType, CpuType
<1>2. LockInv'
  BY SMTT(120) DEF IInv, TypeOK, LockInv
<1>3. OneCpuPerProcess'
  BY SMTT(120) DEF IInv, TypeOK, LockInv, OneCpuPerProcess, EmbryoOwned
<1>4. ForkInv'
  BY SMTT(120) DEF IInv, TypeOK, OneCpuPerProcess, ForkInv, EmbryoOwned, ParentInv
<1>5. EmbryoOwned'
  <2>1. PICK np \in Slot : /\ state[np] = "UNUSED"
                           /\ state' = [state EXCEPT ![np] = "EMBRYO"]
                           /\ child' = [child EXCEPT ![p] = np]
    OBVIOUS
  <2>2. \A q \in Slot : child[q] # np
    BY <2>1 DEF IInv, EmbryoOwned
  <2>3. \A q \in Slot : Live(q) => Live(q)'
    BY <2>1 DEF IInv, TypeOK
  <2>4. child'[p] = np /\ \A q \in Slot \ {p} : child'[q] = child[q]
    BY <2>1 DEF IInv, TypeOK
  <2>5. state'[np] = "EMBRYO" /\ \A q \in Slot \ {np} : state'[q] = state[q]
    BY <2>1 DEF IInv, TypeOK
  <2>6. p # np
    BY <1>0, <2>1
  <2> HIDE DEF ForkAlloc, Runs
  <2>7. \A q \in Slot : state'[q] = "EMBRYO" => \E r \in Slot : Live(r)' /\ child'[r] = q
    BY <1>0, <2>3, <2>4, <2>5, <2>6 DEF IInv, EmbryoOwned
  <2>8. \A q, r \in Slot : child'[q] # Null /\ child'[q] = child'[r] => q = r
    BY <2>2, <2>4 DEF IInv, EmbryoOwned
  <2>9. \A q \in Slot : child'[q] # Null => state'[child'[q]] = "EMBRYO"
    <3> SUFFICES ASSUME NEW q \in Slot, child'[q] # Null PROVE state'[child'[q]] = "EMBRYO"
      OBVIOUS
    <3>1. CASE q = p
      BY <2>4, <2>5, <3>1
    <3>2. CASE q # p
      <4>1. child'[q] = child[q] /\ child[q] \in Slot /\ state[child[q]] = "EMBRYO"
        BY SMTT(60), <2>4, <3>2 DEF IInv, TypeOK, EmbryoOwned
      <4> QED
        BY <2>2, <2>5, <4>1
    <3> QED
      BY <3>1, <3>2
  <2> QED
    BY <2>7, <2>8, <2>9 DEF EmbryoOwned
<1>6. ParentInv'
  BY SMTT(120) DEF IInv, TypeOK, OneCpuPerProcess, ForkInv, EmbryoOwned, ParentInv
<1>7. NoOrphan'
  BY SMTT(120) DEF IInv, TypeOK, OneCpuPerProcess, ForkInv, EmbryoOwned, ParentInv, NoOrphan
<1>8. NoLostWakeup'
  BY SMTT(120) DEF IInv, TypeOK, OneCpuPerProcess, ForkInv, EmbryoOwned, ParentInv, NoLostWakeup
<1>9. PidInv'
  BY SMTT(120) DEF IInv, TypeOK, PidInv, PidNamesOneSlot
<1> QED
  BY <1>1, <1>2, <1>3, <1>4, <1>5, <1>6, <1>7, <1>8, <1>9 DEF IInv

(* The table is full.                                                         *)
LEMMA ForkNoSlotStep ==
  ASSUME IInv, NEW c \in CPU, NEW p \in Slot, ForkNoSlot(c, p)
  PROVE  IInv'
<1>1. AfterFailedFork(p) \in Pc \ {"embryo", "copied"}
  BY DEF AfterFailedFork
<1> QED
  BY <1>1, PcStep DEF ForkNoSlot, Runs

(* The slot goes back to UNUSED; its parent field was never set.              *)
LEMMA ForkFailStep ==
  ASSUME IInv, NEW c \in CPU, NEW p \in Slot, ForkFail(c, p)
  PROVE  IInv'
<1> USE DEF ForkFail, Runs, AfterFailedFork
<1>0. /\ child[p] \in Slot /\ child[p] # p /\ state[child[p]] = "EMBRYO"
      /\ state[p] = "RUNNING"
  BY InFork
<1>1. TypeOK'
  <2>1. state' \in [Slot -> State] /\ tickets' \in [Slot -> Nat]
    BY <1>0 DEF IInv, TypeOK
  <2>2. TicketsPositive'
    BY <1>0 DEF IInv, TypeOK, TicketsPositive
  <2> QED
    BY <1>0, <2>1, <2>2 DEF IInv, TypeOK
<1>2. LockInv'
  BY SMTT(120) DEF IInv, TypeOK, LockInv
<1>3. OneCpuPerProcess'
  BY SMTT(120) DEF IInv, TypeOK, LockInv, OneCpuPerProcess, EmbryoOwned
<1>4. ForkInv'
  BY SMTT(120) DEF IInv, TypeOK, OneCpuPerProcess, ForkInv, EmbryoOwned, ParentInv
<1>5. EmbryoOwned'
  <2>1. /\ child'[p] = Null /\ state'[child[p]] = "UNUSED"
        /\ \A q \in Slot \ {p} : child'[q] = child[q]
        /\ \A q \in Slot \ {child[p]} : state'[q] = state[q]
    BY <1>0 DEF IInv, TypeOK
  <2>2. \A q \in Slot : Live(q)' <=> Live(q)
    BY <1>0, <2>1
  <2>3. \A q \in Slot \ {p} : child[q] # child[p]
    BY <1>0 DEF IInv, EmbryoOwned
  <2> HIDE DEF ForkFail, Runs
  <2>4. \A q \in Slot : state'[q] = "EMBRYO" => \E r \in Slot : Live(r)' /\ child'[r] = q
    BY <2>1, <2>2 DEF IInv, EmbryoOwned
  <2>5. \A q, r \in Slot : child'[q] # Null /\ child'[q] = child'[r] => q = r
    BY <2>1 DEF IInv, EmbryoOwned
  <2>6. ASSUME NEW q \in Slot, child'[q] # Null PROVE state'[child'[q]] = "EMBRYO"
    <3>1. q # p /\ child'[q] = child[q] /\ child[q] \in Slot /\ state[child[q]] = "EMBRYO"
      BY SMTT(60), <2>1, <2>6 DEF IInv, TypeOK, EmbryoOwned
    <3> QED
      BY <2>1, <2>3, <3>1
  <2> QED
    BY <2>4, <2>5, <2>6 DEF EmbryoOwned
<1>6. ParentInv'
  BY SMTT(120) DEF IInv, TypeOK, OneCpuPerProcess, ForkInv, EmbryoOwned, ParentInv
<1>7. NoOrphan'
  BY SMTT(120) DEF IInv, TypeOK, OneCpuPerProcess, ForkInv, EmbryoOwned, ParentInv, NoOrphan
<1>8. NoLostWakeup'
  BY SMTT(120) DEF IInv, TypeOK, OneCpuPerProcess, ForkInv, EmbryoOwned, ParentInv, NoLostWakeup
<1>9. PidInv'
  BY SMTT(120) DEF IInv, TypeOK, PidInv, PidNamesOneSlot
<1> QED
  BY <1>1, <1>2, <1>3, <1>4, <1>5, <1>6, <1>7, <1>8, <1>9 DEF IInv

(* The child gets its parent, which runs.                                     *)
LEMMA ForkCopyStep ==
  ASSUME IInv, NEW c \in CPU, NEW p \in Slot, ForkCopy(c, p)
  PROVE  IInv'
<1> USE DEF ForkCopy, Runs
<1>0. /\ child[p] \in Slot /\ child[p] # p /\ state[child[p]] = "EMBRYO"
      /\ state[p] = "RUNNING"
  BY InFork
<1>1. TypeOK'
  <2>1. state' \in [Slot -> State] /\ tickets' \in [Slot -> Nat]
    BY <1>0 DEF IInv, TypeOK
  <2>2. TicketsPositive'
    BY <1>0 DEF IInv, TypeOK, TicketsPositive
  <2> QED
    BY <1>0, <2>1, <2>2 DEF IInv, TypeOK
<1>2. LockInv'
  BY SMTT(120) DEF IInv, TypeOK, LockInv
<1>3. OneCpuPerProcess'
  BY SMTT(120) DEF IInv, TypeOK, LockInv, OneCpuPerProcess, EmbryoOwned
<1>4. ForkInv'
  BY SMTT(120) DEF IInv, TypeOK, OneCpuPerProcess, ForkInv, EmbryoOwned, ParentInv
<1>5. EmbryoOwned'
  BY SMTT(120) DEF IInv, TypeOK, OneCpuPerProcess, ForkInv, EmbryoOwned
<1>6. ParentInv'
  BY SMTT(120) DEF IInv, TypeOK, OneCpuPerProcess, ForkInv, EmbryoOwned, ParentInv
<1>7. NoOrphan'
  BY SMTT(120) DEF IInv, TypeOK, OneCpuPerProcess, ForkInv, EmbryoOwned, ParentInv, NoOrphan
<1>8. NoLostWakeup'
  BY SMTT(120) DEF IInv, TypeOK, OneCpuPerProcess, ForkInv, EmbryoOwned, ParentInv, NoLostWakeup
<1>9. PidInv'
  BY SMTT(120) DEF IInv, TypeOK, PidInv, PidNamesOneSlot
<1> QED
  BY <1>1, <1>2, <1>3, <1>4, <1>5, <1>6, <1>7, <1>8, <1>9 DEF IInv

(* The child becomes RUNNABLE; its parent is awake.                           *)
LEMMA ForkPublishStep ==
  ASSUME IInv, NEW c \in CPU, NEW p \in Slot, ForkPublish(c, p)
  PROVE  IInv'
<1> USE DEF ForkPublish, Runs
<1>0. /\ child[p] \in Slot /\ child[p] # p /\ state[child[p]] = "EMBRYO"
      /\ state[p] = "RUNNING"
  BY InFork
<1>1. TypeOK'
  <2>1. state' \in [Slot -> State] /\ tickets' \in [Slot -> Nat]
    BY <1>0 DEF IInv, TypeOK
  <2>2. TicketsPositive'
    BY <1>0 DEF IInv, TypeOK, TicketsPositive
  <2> QED
    BY <1>0, <2>1, <2>2 DEF IInv, TypeOK
<1>2. LockInv'
  BY SMTT(120) DEF IInv, TypeOK, LockInv
<1>3. OneCpuPerProcess'
  BY SMTT(120) DEF IInv, TypeOK, LockInv, OneCpuPerProcess, EmbryoOwned
<1>4. ForkInv'
  BY SMTT(120) DEF IInv, TypeOK, OneCpuPerProcess, ForkInv, EmbryoOwned, ParentInv
<1>5. EmbryoOwned'
  BY SMTT(120) DEF IInv, TypeOK, OneCpuPerProcess, ForkInv, EmbryoOwned
<1>6. ParentInv'
  BY SMTT(120) DEF IInv, TypeOK, OneCpuPerProcess, ForkInv, EmbryoOwned, ParentInv
<1>7. NoOrphan'
  BY SMTT(120) DEF IInv, TypeOK, OneCpuPerProcess, ForkInv, EmbryoOwned, ParentInv, NoOrphan
<1>8. NoLostWakeup'
  BY SMTT(120) DEF IInv, TypeOK, OneCpuPerProcess, ForkInv, EmbryoOwned, ParentInv, NoLostWakeup
<1>9. PidInv'
  BY SMTT(120) DEF IInv, TypeOK, PidInv, PidNamesOneSlot
<1> QED
  BY <1>1, <1>2, <1>3, <1>4, <1>5, <1>6, <1>7, <1>8, <1>9 DEF IInv

(* The zombie leaves the table; it has no children and runs nowhere.          *)
LEMMA WaitReapStep ==
  ASSUME IInv, NEW c \in CPU, NEW p \in Slot, WaitReap(c, p)
  PROVE  IInv'
<1> USE DEF WaitReap, WaitScans, IsFirst
<1>1. TypeOK'
  <2>1. TableType'
    BY SMTT(120) DEF IInv, TypeOK, OneCpuPerProcess, EmbryoOwned, TableType
  <2>2. ThreadType'
    BY SMTT(120) DEF IInv, TypeOK, OneCpuPerProcess, EmbryoOwned, ThreadType
  <2>3. CpuType'
    BY SMTT(120) DEF IInv, TypeOK, OneCpuPerProcess, EmbryoOwned, CpuType
  <2>4. TicketsPositive'
    BY SMTT(120) DEF IInv, TypeOK, OneCpuPerProcess, EmbryoOwned, TicketsPositive
  <2> QED
    BY <2>1, <2>2, <2>3, <2>4 DEF TypeOK, TableType, ThreadType, CpuType
<1>2. LockInv'
  BY SMTT(120) DEF IInv, TypeOK, LockInv
<1>3. OneCpuPerProcess'
  BY SMTT(120) DEF IInv, TypeOK, LockInv, OneCpuPerProcess, EmbryoOwned
<1>4. ForkInv'
  BY SMTT(120) DEF IInv, TypeOK, OneCpuPerProcess, ForkInv, EmbryoOwned, ParentInv
<1>5. EmbryoOwned'
  BY SMTT(120) DEF IInv, TypeOK, OneCpuPerProcess, ForkInv, EmbryoOwned
<1>6. ParentInv'
  BY SMTT(120) DEF IInv, TypeOK, OneCpuPerProcess, ForkInv, EmbryoOwned, ParentInv
<1>7. NoOrphan'
  BY SMTT(120) DEF IInv, TypeOK, OneCpuPerProcess, ForkInv, EmbryoOwned, ParentInv, NoOrphan
<1>8. NoLostWakeup'
  BY SMTT(120) DEF IInv, TypeOK, OneCpuPerProcess, ForkInv, EmbryoOwned, ParentInv, NoLostWakeup
<1>9. PidInv'
  BY SMTT(120) DEF IInv, TypeOK, PidInv, PidNamesOneSlot
<1> QED
  BY <1>1, <1>2, <1>3, <1>4, <1>5, <1>6, <1>7, <1>8, <1>9 DEF IInv

(* wait() returns -1.                                                         *)
LEMMA WaitFailStep ==
  ASSUME IInv, NEW c \in CPU, NEW p \in Slot, WaitFail(c, p)
  PROVE  IInv'
<1> USE DEF WaitFail, WaitScans
<1>1. TypeOK'
  <2>1. TableType'
    BY SMTT(120) DEF IInv, TypeOK, OneCpuPerProcess, EmbryoOwned, TableType
  <2>2. ThreadType'
    BY SMTT(120) DEF IInv, TypeOK, OneCpuPerProcess, EmbryoOwned, ThreadType
  <2>3. CpuType'
    BY SMTT(120) DEF IInv, TypeOK, OneCpuPerProcess, EmbryoOwned, CpuType
  <2>4. TicketsPositive'
    BY SMTT(120) DEF IInv, TypeOK, OneCpuPerProcess, EmbryoOwned, TicketsPositive
  <2> QED
    BY <2>1, <2>2, <2>3, <2>4 DEF TypeOK, TableType, ThreadType, CpuType
<1>2. LockInv'
  BY SMTT(120) DEF IInv, TypeOK, LockInv
<1>3. ForkInv'
  BY ForkInvPc DEF IInv
<1>4. OneCpuPerProcess' /\ EmbryoOwned' /\ ParentInv' /\ NoOrphan' /\ NoLostWakeup' /\ PidInv'
  BY DEF IInv, OneCpuPerProcess, EmbryoOwned, ParentInv, NoOrphan, NoLostWakeup, PidInv, PidNamesOneSlot
<1> QED
  BY <1>1, <1>2, <1>3, <1>4 DEF IInv

(* wait() sleeps after a scan that found children and no zombie.              *)
LEMMA WaitSleepStep ==
  ASSUME IInv, NEW c \in CPU, NEW p \in Slot, WaitSleep(c, p)
  PROVE  IInv'
<1> USE DEF WaitSleep, WaitScans, Sched
<1>1. TypeOK'
  <2>1. TableType'
    BY SMTT(120) DEF IInv, TypeOK, OneCpuPerProcess, EmbryoOwned, TableType
  <2>2. ThreadType'
    BY SMTT(120) DEF IInv, TypeOK, OneCpuPerProcess, EmbryoOwned, ThreadType
  <2>3. CpuType'
    BY SMTT(120) DEF IInv, TypeOK, OneCpuPerProcess, EmbryoOwned, CpuType
  <2>4. TicketsPositive'
    BY SMTT(120) DEF IInv, TypeOK, OneCpuPerProcess, EmbryoOwned, TicketsPositive
  <2> QED
    BY <2>1, <2>2, <2>3, <2>4 DEF TypeOK, TableType, ThreadType, CpuType
<1>2. LockInv'
  BY SMTT(120) DEF IInv, TypeOK, LockInv
<1>3. OneCpuPerProcess'
  BY SMTT(120) DEF IInv, TypeOK, LockInv, OneCpuPerProcess, EmbryoOwned
<1>4. ForkInv'
  BY SMTT(120) DEF IInv, TypeOK, OneCpuPerProcess, ForkInv, EmbryoOwned, ParentInv
<1>5. EmbryoOwned'
  BY SMTT(120) DEF IInv, TypeOK, OneCpuPerProcess, ForkInv, EmbryoOwned
<1>6. ParentInv'
  BY SMTT(120) DEF IInv, TypeOK, OneCpuPerProcess, ForkInv, EmbryoOwned, ParentInv
<1>7. NoOrphan'
  BY SMTT(120) DEF IInv, TypeOK, OneCpuPerProcess, ForkInv, EmbryoOwned, ParentInv, NoOrphan
<1>8. NoLostWakeup'
  BY SMTT(120) DEF IInv, TypeOK, OneCpuPerProcess, ForkInv, EmbryoOwned, ParentInv, NoLostWakeup
<1>9. PidInv'
  BY SMTT(120) DEF IInv, TypeOK, PidInv, PidNamesOneSlot
<1> QED
  BY <1>1, <1>2, <1>3, <1>4, <1>5, <1>6, <1>7, <1>8, <1>9 DEF IInv

(* exit(): the children get a living parent and nobody sleeps through it.     *)
LEMMA ExitStep ==
  ASSUME IInv, NEW c \in CPU, NEW p \in Slot, Exit(c, p)
  PROVE  IInv'
<1>1. /\ at[c] = "proc" /\ cur[c] = p /\ state[p] = "RUNNING" /\ lock = NoCpu
      /\ p # initproc /\ pc[p] = "exit" /\ child[p] = Null
  BY DEF Exit, Runs, IInv, OneCpuPerProcess, ForkInv
<1>2. /\ state' = [Wakeup1(ExitWakes(p)) EXCEPT ![p] = "ZOMBIE"]
      /\ parent' = Reparented(p)
      /\ ctx' = [ctx EXCEPT ![p] = "live"]
      /\ at' = [at EXCEPT ![c] = "loop"] /\ lock' = c
      /\ UNCHANGED <<pid, chan, killed, tickets, inuse, nextpid, pc, child,
                     cur, cursor, turn, panicked>>
  BY DEF Exit, Sched
<1>3. /\ state' \in [Slot -> State] /\ state'[p] = "ZOMBIE"
      /\ \A q \in Slot \ {p} :
           state'[q] = IF state[q] = "SLEEPING" /\ chan[q] \in ExitWakes(p)
                       THEN "RUNNABLE" ELSE state[q]
  BY <1>2 DEF IInv, TypeOK, Wakeup1
<1>4. /\ parent' \in [Slot -> Slot \cup {Null}]
      /\ \A q \in Slot : parent'[q] = IF parent[q] = p THEN initproc ELSE parent[q]
  BY <1>2 DEF IInv, TypeOK, Reparented
<1>5. \A q \in Slot \ {p} :
        /\ Live(q)' <=> Live(q)
        /\ \A w \in {"EMBRYO", "UNUSED", "ZOMBIE", "RUNNING"} : state'[q] = w <=> state[q] = w
  BY <1>3 DEF IInv, TypeOK
<1>6. TypeOK'
  BY <1>1, <1>2, <1>3, <1>4, <1>5 DEF IInv, TypeOK, TicketsPositive
<1>7. LockInv'
  BY <1>1, <1>2 DEF IInv, TypeOK, LockInv
<1>8. OneCpuPerProcess'
  BY SMTT(60), <1>1, <1>2, <1>3, <1>5 DEF IInv, TypeOK, LockInv, OneCpuPerProcess
<1>9. EmbryoOwned'
  <2>1. \A q \in Slot : state'[q] = "EMBRYO" => \E r \in Slot : Live(r)' /\ child'[r] = q
    BY <1>1, <1>2, <1>3, <1>5 DEF IInv, EmbryoOwned
  <2>2. \A q, r \in Slot : child'[q] # Null /\ child'[q] = child'[r] => q = r
    BY <1>2 DEF IInv, EmbryoOwned
  <2>3. \A q \in Slot : child'[q] # Null => state'[child'[q]] = "EMBRYO"
    BY SMTT(60), <1>1, <1>2, <1>5 DEF IInv, TypeOK, EmbryoOwned
  <2> QED
    BY <2>1, <2>2, <2>3 DEF EmbryoOwned
<1>10. ForkInv'
  BY SMTT(60), <1>1, <1>2, <1>4, <1>5 DEF IInv, TypeOK, ForkInv
<1>11. ParentInv'
  BY SMTT(60), <1>1, <1>3, <1>4, <1>5 DEF IInv, TypeOK, ParentInv
<1>12. NoOrphan'
  <2> SUFFICES ASSUME NEW q \in Slot \ {initproc}, Live(q)' \/ state'[q] = "ZOMBIE"
               PROVE  parent'[q] # Null /\ Live(parent[q])'
    BY DEF NoOrphan
  <2>1. parent[q] # Null /\ Live(parent[q])
    BY <1>1, <1>5 DEF IInv, NoOrphan
  <2>2. CASE parent[q] = p
    BY <1>1, <1>4, <1>5, <2>2 DEF IInv, ParentInv
  <2>3. CASE parent[q] # p
    BY SMTT(60), <1>4, <1>5, <2>1, <2>3 DEF IInv, TypeOK
  <2> QED
    BY <2>2, <2>3
<1>13. NoLostWakeup'
  <2> SUFFICES ASSUME NEW q \in Slot, state'[q] = "SLEEPING", chan[q] = q
               PROVE  Children(q)' # {} /\ Zombies(q)' = {} /\ ~killed[q]
    BY <1>2 DEF NoLostWakeup
  <2>1. q # p /\ state[q] = "SLEEPING" /\ q # parent[p]
    BY <1>3 DEF ExitWakes
  <2>2. q = initproc => Zombies(p) = {}
    BY <1>3, <2>1 DEF ExitWakes
  <2>3. Children(q) # {} /\ Zombies(q) = {} /\ ~killed[q]
    BY <2>1 DEF IInv, NoLostWakeup
  <2>4. \A r \in Children(q) : r \in Children(q)'
    BY <1>4, <2>1
  <2>5. ASSUME NEW r \in Zombies(q)'
        PROVE  FALSE
    <3>1. CASE r = p
      BY <1>4, <2>1, <2>5, <3>1 DEF IInv, ParentInv
    <3>2. CASE r # p
      BY <1>4, <1>5, <2>2, <2>3, <2>5, <3>2
    <3> QED
      BY <3>1, <3>2
  <2> QED
    BY <2>3, <2>4, <2>5
<1>14. PidInv'
  BY <1>2 DEF IInv, PidInv, PidNamesOneSlot
<1> QED
  BY <1>6, <1>7, <1>8, <1>9, <1>10, <1>11, <1>12, <1>13, <1>14 DEF IInv

(* A panic changes no slot.                                                   *)
LEMMA InitExitsStep ==
  ASSUME IInv, NEW c \in CPU, NEW p \in Slot, InitExits(c, p)
  PROVE  IInv'
<1> USE DEF InitExits, Runs
<1>1. TypeOK'
  <2>1. TableType'
    BY SMTT(120) DEF IInv, TypeOK, OneCpuPerProcess, EmbryoOwned, TableType
  <2>2. ThreadType'
    BY SMTT(120) DEF IInv, TypeOK, OneCpuPerProcess, EmbryoOwned, ThreadType
  <2>3. CpuType'
    BY SMTT(120) DEF IInv, TypeOK, OneCpuPerProcess, EmbryoOwned, CpuType
  <2>4. TicketsPositive'
    BY SMTT(120) DEF IInv, TypeOK, OneCpuPerProcess, EmbryoOwned, TicketsPositive
  <2> QED
    BY <2>1, <2>2, <2>3, <2>4 DEF TypeOK, TableType, ThreadType, CpuType
<1>2. /\ LockInv' /\ OneCpuPerProcess' /\ ForkInv' /\ EmbryoOwned'
      /\ ParentInv' /\ NoOrphan' /\ NoLostWakeup' /\ PidInv'
  BY DEF IInv, LockInv, OneCpuPerProcess, ForkInv, EmbryoOwned, ParentInv, NoOrphan,
         NoLostWakeup, PidInv, PidNamesOneSlot
<1> QED
  BY <1>1, <1>2 DEF IInv

(* kill() marks a slot and wakes it in one step.                              *)
LEMMA KillStep ==
  ASSUME IInv, NEW c \in CPU, NEW p \in Slot, Kill(c, p)
  PROVE  IInv'
<1> USE DEF Kill, Runs, IsFirst
<1>1. CASE UNCHANGED <<killed, state>>
  BY <1>1, PcStep
<1>2. ASSUME NEW q \in Slot,
             killed' = [killed EXCEPT ![q] = TRUE],
             state' = [state EXCEPT ![q] = KilledState(@)]
      PROVE  IInv'
  <2>1. \A r \in Slot : \/ state'[r] = state[r]
                        \/ r = q /\ state[r] = "SLEEPING" /\ state'[r] = "RUNNABLE"
    BY <1>2 DEF IInv, TypeOK, KilledState
  <2>2. killed'[q] = TRUE /\ state'[q] # "SLEEPING"
    BY <1>2 DEF IInv, TypeOK, KilledState
  <2>3. \A r \in Slot \ {q} : killed'[r] = killed[r]
    BY <1>2 DEF IInv, TypeOK
  <2>4. /\ pc[p] = "kill" /\ pc' = [pc EXCEPT ![p] = "ret"]
        /\ UNCHANGED <<pid, parent, chan, tickets, inuse, nextpid, ctx, child, cpus, panicked>>
    OBVIOUS
  <2> HIDE DEF Kill
  <2>5. state' \in [Slot -> State] /\ killed' \in [Slot -> BOOLEAN]
    BY <1>2 DEF IInv, TypeOK, KilledState
  <2>6. TypeOK'
    BY <2>1, <2>4, <2>5 DEF IInv, TypeOK, TicketsPositive
  <2>7. LockInv' /\ OneCpuPerProcess'
    <3>1. \A r \in Slot : state'[r] = "RUNNING" <=> state[r] = "RUNNING"
      BY <2>1
    <3> QED
      BY SMTT(60), <2>4, <3>1 DEF IInv, TypeOK, LockInv, OneCpuPerProcess
  <2>8. \A r \in Slot : /\ Live(r)' <=> Live(r)
                        /\ \A w \in {"EMBRYO", "UNUSED", "ZOMBIE"} :
                             state'[r] = w <=> state[r] = w
    BY <2>1 DEF IInv, TypeOK
  <2>9. EmbryoOwned'
    BY SMTT(60), <2>4, <2>8 DEF IInv, TypeOK, EmbryoOwned
  <2>10. ForkInv'
    BY <2>4, <2>8, \A r \in Slot : pc'[r] = IF r = p THEN "ret" ELSE pc[r]
       DEF IInv, TypeOK, ForkInv
  <2>11. ParentInv' /\ NoOrphan' /\ PidInv'
    BY SMTT(60), <2>4, <2>8 DEF IInv, TypeOK, ParentInv, NoOrphan, PidInv, PidNamesOneSlot
  <2>12. NoLostWakeup'
    <3>1. \A r \in Slot : Children(r)' = Children(r) /\ Zombies(r)' = Zombies(r)
      BY <2>4, <2>8
    <3>2. \A r \in Slot : state'[r] = "SLEEPING" => r # q /\ state[r] = "SLEEPING"
      BY <2>1, <2>2
    <3> QED
      BY <2>3, <2>4, <3>1, <3>2 DEF IInv, NoLostWakeup
  <2> QED
    BY <2>6, <2>7, <2>9, <2>10, <2>11, <2>12 DEF IInv
<1> QED
  BY <1>1, <1>2

(* Only a positive number is stored.                                          *)
LEMMA SetTicketsStep ==
  ASSUME IInv, NEW c \in CPU, NEW p \in Slot, SetTickets(c, p)
  PROVE  IInv'
<1> USE DEF SetTickets, Runs, ValidTickets
<1>1. TypeOK'
  <2>1. PICK n \in 0..MaxTickets :
          tickets' = IF n >= 1 THEN [tickets EXCEPT ![p] = n] ELSE tickets
    OBVIOUS
  <2>2. tickets' \in [Slot -> Nat] /\ TicketsPositive'
    BY SMTT(60), <2>1 DEF IInv, TypeOK, TicketsPositive
  <2> QED
    BY <2>2 DEF IInv, TypeOK
<1>2. ForkInv'
  BY ForkInvPc DEF IInv
<1>3. LockInv' /\ OneCpuPerProcess' /\ EmbryoOwned' /\ ParentInv' /\ NoOrphan'
      /\ NoLostWakeup' /\ PidInv'
  BY DEF IInv, LockInv, OneCpuPerProcess, EmbryoOwned, ParentInv, NoOrphan, NoLostWakeup,
         PidInv, PidNamesOneSlot
<1> QED
  BY <1>1, <1>2, <1>3 DEF IInv

(* sys_sleep() ends.                                                          *)
LEMMA SleepDoneStep ==
  ASSUME IInv, NEW c \in CPU, NEW p \in Slot, SleepDone(c, p)
  PROVE  IInv'
BY PcStep DEF SleepDone, Runs

(* sys_sleep() decides to sleep.                                              *)
LEMMA SleepTestStep ==
  ASSUME IInv, NEW c \in CPU, NEW p \in Slot, SleepTest(c, p)
  PROVE  IInv'
BY PcStep DEF SleepTest, Runs

(* A process sleeps on ticks, not in wait().                                  *)
LEMMA SleepOnTicksStep ==
  ASSUME IInv, NEW c \in CPU, NEW p \in Slot, SleepOnTicks(c, p)
  PROVE  IInv'
<1> USE DEF SleepOnTicks, Runs, Sched
<1>1. TypeOK'
  <2>1. TableType'
    BY SMTT(120) DEF IInv, TypeOK, OneCpuPerProcess, EmbryoOwned, TableType
  <2>2. ThreadType'
    BY SMTT(120) DEF IInv, TypeOK, OneCpuPerProcess, EmbryoOwned, ThreadType
  <2>3. CpuType'
    BY SMTT(120) DEF IInv, TypeOK, OneCpuPerProcess, EmbryoOwned, CpuType
  <2>4. TicketsPositive'
    BY SMTT(120) DEF IInv, TypeOK, OneCpuPerProcess, EmbryoOwned, TicketsPositive
  <2> QED
    BY <2>1, <2>2, <2>3, <2>4 DEF TypeOK, TableType, ThreadType, CpuType
<1>2. LockInv'
  BY SMTT(120) DEF IInv, TypeOK, LockInv
<1>3. OneCpuPerProcess'
  BY SMTT(120) DEF IInv, TypeOK, LockInv, OneCpuPerProcess, EmbryoOwned
<1>4. ForkInv'
  <2>1. pc[p] \notin {"embryo", "copied"} /\ pc' = [pc EXCEPT ![p] = "sleep"]
    OBVIOUS
  <2>2. \A q \in Slot : Live(q)' <=> Live(q)
    BY SMTT(60) DEF IInv, TypeOK, OneCpuPerProcess
  <2>3. UNCHANGED <<child, parent>>
    OBVIOUS
  <2> QED
    BY ForkInvPc, <2>1, <2>2, <2>3 DEF IInv
<1>5. EmbryoOwned'
  BY SMTT(120) DEF IInv, TypeOK, OneCpuPerProcess, ForkInv, EmbryoOwned
<1>6. ParentInv'
  BY SMTT(120) DEF IInv, TypeOK, OneCpuPerProcess, ForkInv, EmbryoOwned, ParentInv
<1>7. NoOrphan'
  BY SMTT(120) DEF IInv, TypeOK, OneCpuPerProcess, ForkInv, EmbryoOwned, ParentInv, NoOrphan
<1>8. NoLostWakeup'
  BY SMTT(120) DEF IInv, TypeOK, OneCpuPerProcess, ForkInv, EmbryoOwned, ParentInv, NoLostWakeup
<1>9. PidInv'
  BY SMTT(120) DEF IInv, TypeOK, PidInv, PidNamesOneSlot
<1> QED
  BY <1>1, <1>2, <1>3, <1>4, <1>5, <1>6, <1>7, <1>8, <1>9 DEF IInv

(* Every step of the table keeps the invariant.                               *)
LEMMA NextIInv == IInv /\ [Next]_vars => IInv'
<1> SUFFICES ASSUME IInv, [Next]_vars PROVE IInv'
  OBVIOUS
<1>1. ASSUME NEW c \in CPU, SchedulerStep(c) PROVE IInv'
  BY <1>1, SchedAcquireStep, SchedPickStep, SchedSliceStep, SchedNextStep, SchedReleaseStep
     DEF SchedulerStep
<1>2. ASSUME NEW c \in CPU, NEW p \in Slot, Resume(c, p) PROVE IInv'
  BY <1>2, ForkretStep, YieldReturnStep, SleepReturnStep DEF Resume
<1>3. ASSUME NEW c \in CPU, NEW p \in Slot, Fork(c, p) PROVE IInv'
  BY <1>3, ForkAllocStep, ForkNoSlotStep, ForkFailStep, ForkCopyStep, ForkPublishStep DEF Fork, Allocproc
<1>4. ASSUME NEW c \in CPU, NEW p \in Slot, Wait(c, p) PROVE IInv'
  BY <1>4, WaitReapStep, WaitFailStep, WaitSleepStep DEF Wait
<1>5. ASSUME NEW c \in CPU, NEW p \in Slot, KernelStep(c, p) PROVE IInv'
  BY <1>3, <1>4, <1>5, ExitStep, InitExitsStep, KillStep, SetTicketsStep, SleepDoneStep,
     SleepTestStep, SleepOnTicksStep, SyscallReturnStep DEF KernelStep
<1>6. CASE UNCHANGED vars
  BY SMTT(60), <1>6 DEF vars, IInv, TypeOK, TicketsPositive, LockInv, OneCpuPerProcess, ForkInv, EmbryoOwned,
     ParentInv, NoOrphan, NoLostWakeup, PidInv, PidNamesOneSlot
<1> QED
  BY <1>1, <1>2, <1>5, <1>6, SyscallEntryStep, TimerStep, FaultStep, TimerWakeupStep
     DEF Next, Frozen

(* The inductive invariant of the process table.                              *)
THEOREM Invariance == Spec => []IInv
BY InitIInv, NextIInv, PTL DEF Spec

(* Every field keeps its type, and every process has a ticket.                *)
THEOREM TypeCorrect == Spec => []TypeOK
BY Invariance, PTL DEF IInv

(* scheduler() and sched() never let two processors run one process.          *)
THEOREM OneCpu == Spec => []OneCpuPerProcess
BY Invariance, PTL DEF IInv

(* exit() leaves every process with a parent that can still wait for it.      *)
THEOREM NoOrphans == Spec => []NoOrphan
BY Invariance, PTL DEF IInv

(* exit(), kill() and wait() lose no wakeup of a parent.                      *)
THEOREM WakeupsArrive == Spec => []NoLostWakeup
BY Invariance, PTL DEF IInv

(* allocproc() and fork(): a slot in the making has exactly one owner.        *)
THEOREM EmbryosOwned == Spec => []EmbryoOwned
BY Invariance, PTL DEF IInv

(* A pid names at most one slot of the table.                                 *)
THEOREM PidsUnique == Spec => []PidNamesOneSlot
BY Invariance, PTL DEF IInv, PidInv

=============================================================================
