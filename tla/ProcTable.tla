------------------------------ MODULE ProcTable ------------------------------
(* The xv6 process table and its ticket scheduler: proc.c (allocproc, fork,   *)
(* exit, wait, kill, sleep, wakeup1, yield, sched, scheduler), the timer and  *)
(* fault paths of trap.c and the system calls of sysproc.c that change the    *)
(* table.  ptable.lock is explicit: a process hands it to the scheduler of    *)
(* its CPU when it calls sched(), and the process the scheduler switches to   *)
(* releases it.  A critical section that neither sleeps nor switches is one   *)
(* step; what the code does outside the lock is a step of its own.            *)
EXTENDS Naturals, FiniteSets

CONSTANTS NPROC,       \* slots in ptable.proc
          CPU,         \* the processors that run scheduler()
          NoCpu,       \* the holder of a free ptable.lock
          MaxPid,      \* bound: user programs call fork() while nextpid <= MaxPid
          MaxTickets,  \* bound: the largest argument of settickets()
          KillPids,    \* the arguments user programs give to kill()
          UserCalls    \* the calls user programs make, besides fork()

ASSUME ProcAssumption ==
  /\ NPROC \in Nat \ {0}
  /\ MaxPid \in Nat \ {0}
  /\ MaxTickets \in Nat \ {0}
  /\ KillPids \subseteq Nat
  /\ NoCpu \notin CPU
  /\ UserCalls \subseteq {"wait", "kill", "settickets", "sleep", "exit"}

Slot      == 1..NPROC
Null      == 0            \* a null struct proc pointer, and the pid of a free slot
initproc  == 1            \* userinit() takes the first slot of an empty table
TicksChan == NPROC + 1    \* the address of ticks; every other channel is a slot

State == {"UNUSED", "EMBRYO", "SLEEPING", "RUNNABLE", "RUNNING", "ZOMBIE"}

VARIABLES
  state, pid, parent, chan, killed, tickets, inuse,  \* the fields of struct proc
  nextpid,
  ctx,       \* where p->context resumes ("live": the thread is on a CPU)
  pc,        \* what the thread of the slot is doing ("user": out of the kernel)
  child,     \* np, the local variable of fork()
  lock,      \* the CPU that holds ptable.lock, or NoCpu
  at,        \* per CPU: before acquire, in the loop of scheduler(), or in a process
  cur,       \* c->proc
  cursor,    \* p, the loop variable of scheduler()
  turn,      \* i, the slice counter of scheduler()
  panicked

table   == <<state, pid, parent, chan, killed, tickets, inuse, nextpid>>
threads == <<ctx, pc, child>>
cpus    == <<lock, at, cur, cursor, turn>>
vars    == <<table, threads, cpus, panicked>>

Where   == {"forkret", "yield", "sleep", "live"}
Pc      == {"user", "fork", "embryo", "copied", "wait", "kill", "settickets",
            "sleep", "dozing", "ret", "exit"}

(* settickets() refuses anything else, and allocproc() starts with 1.         *)
TicketsPositive == \A p \in Slot : state[p] # "UNUSED" => tickets[p] >= 1

TypeOK ==
  /\ state \in [Slot -> State]
  /\ pid \in [Slot -> Nat]
  /\ parent \in [Slot -> Slot \cup {Null}]
  /\ chan \in [Slot -> Slot \cup {Null, TicksChan}]
  /\ killed \in [Slot -> BOOLEAN]
  /\ tickets \in [Slot -> Nat]
  /\ TicketsPositive
  /\ inuse \in [Slot -> {0, 1}]
  /\ nextpid \in Nat
  /\ ctx \in [Slot -> Where]
  /\ pc \in [Slot -> Pc]
  /\ child \in [Slot -> Slot \cup {Null}]
  /\ lock \in CPU \cup {NoCpu}
  /\ at \in [CPU -> {"idle", "loop", "proc"}]
  /\ cur \in [CPU -> Slot \cup {Null}]
  /\ cursor \in [CPU -> Nat]
  /\ turn \in [CPU -> Nat]
  /\ panicked \in BOOLEAN

(* main() has run userinit(): the first process is RUNNABLE in slot 1.        *)
Init ==
  /\ state = [p \in Slot |-> IF p = initproc THEN "RUNNABLE" ELSE "UNUSED"]
  /\ pid = [p \in Slot |-> IF p = initproc THEN 1 ELSE 0]
  /\ parent = [p \in Slot |-> Null]
  /\ chan = [p \in Slot |-> Null]
  /\ killed = [p \in Slot |-> FALSE]
  /\ tickets = [p \in Slot |-> IF p = initproc THEN 1 ELSE 0]
  /\ inuse = [p \in Slot |-> 0]
  /\ nextpid = 2
  /\ ctx = [p \in Slot |-> "forkret"]
  /\ pc = [p \in Slot |-> "user"]
  /\ child = [p \in Slot |-> Null]
  /\ lock = NoCpu
  /\ at = [c \in CPU |-> "idle"]
  /\ cur = [c \in CPU |-> Null]
  /\ cursor = [c \in CPU |-> 1]
  /\ turn = [c \in CPU |-> 1]
  /\ panicked = FALSE

-----------------------------------------------------------------------------
(* Helpers *)

IsFirst(p, S) == p \in S /\ \A q \in S : p <= q

UnusedOrEmbryo == {p \in Slot : state[p] \in {"UNUSED", "EMBRYO"}}
Unused      == {p \in Slot : state[p] = "UNUSED"}
Children(p) == {q \in Slot : parent[q] = p}
Zombies(p)  == {q \in Children(p) : state[q] = "ZOMBIE"}

(* The thread of slot p executes on CPU c, in user space or in the kernel     *)
(* outside any critical section, so that interrupts are on.                   *)
Runs(c, p) ==
  /\ at[c] = "proc" /\ cur[c] = p
  /\ ctx[p] = "live"
  /\ lock # c
  /\ ~panicked

(* wakeup1 for every channel in C.                                            *)
Wakeup1(C) ==
  [q \in Slot |-> IF state[q] = "SLEEPING" /\ chan[q] \in C THEN "RUNNABLE" ELSE state[q]]

SchedUnlocked(c, p, w) ==
  /\ ctx' = [ctx EXCEPT ![p] = w]
  /\ at' = [at EXCEPT ![c] = "loop"]
  /\ lock' = NoCpu
  /\ UNCHANGED <<cur, cursor, turn>>

(* sched(): with ptable.lock held and p->state changed, swtch to the          *)
(* scheduler of c; the thread will resume at w.                               *)
Sched(c, p, w) ==
  /\ ctx' = [ctx EXCEPT ![p] = w]
  /\ at' = [at EXCEPT ![c] = "loop"]
  /\ lock' = c
  /\ UNCHANGED <<cur, cursor, turn>>

-----------------------------------------------------------------------------
(* scheduler() *)

(* sti(); acquire(&ptable.lock); p = ptable.proc                              *)
SchedAcquire(c) ==
  /\ ~panicked
  /\ at[c] = "idle" /\ lock = NoCpu
  /\ lock' = c
  /\ at' = [at EXCEPT ![c] = "loop"]
  /\ cursor' = [cursor EXCEPT ![c] = 1]
  /\ UNCHANGED <<table, threads, cur, turn, panicked>>

InLoop(c) == ~panicked /\ at[c] = "loop" /\ lock = c

Ready(c) == {p \in Slot : p >= cursor[c] /\ state[p] = "RUNNABLE"}

(* The for loop reaches the next RUNNABLE slot and i starts from 1.           *)
SchedPick(c) ==
  /\ InLoop(c) /\ cur[c] = Null
  /\ \E p \in Slot :
       /\ IsFirst(p, Ready(c))
       /\ cur' = [cur EXCEPT ![c] = p]
       /\ cursor' = [cursor EXCEPT ![c] = p]
  /\ UNCHANGED <<table, threads, lock, at, turn, panicked>>

(* The condition of the while loop.  p->tickets is read before every slice,   *)
(* so that a settickets() of this very turn counts.                           *)
MoreSlices(c) == turn[c] <= tickets[cur[c]] /\ state[cur[c]] = "RUNNABLE"

(* One iteration of it: mark the process and swtch to it for a slice.         *)
SchedSlice(c) ==
  /\ InLoop(c) /\ cur[c] # Null
  /\ MoreSlices(c)
  /\ state' = [state EXCEPT ![cur[c]] = "RUNNING"]
  /\ inuse' = [inuse EXCEPT ![cur[c]] = 1]
  /\ turn' = [turn EXCEPT ![c] = @ + 1]
  /\ at' = [at EXCEPT ![c] = "proc"]
  /\ UNCHANGED <<pid, parent, chan, killed, tickets, nextpid, threads,
                 lock, cur, cursor, panicked>>

FirstCursor(c) == 1
NextCursor(c) == cursor[c] + 1

SchedNext(c) ==
  /\ InLoop(c) /\ cur[c] # Null
  /\ ~MoreSlices(c)
  /\ cur' = [cur EXCEPT ![c] = Null]
  /\ cursor' = [cursor EXCEPT ![c] = NextCursor(c)]
  /\ turn' = [turn EXCEPT ![c] = 1]      \* i is dead until the next turn
  /\ UNCHANGED <<table, threads, lock, at, panicked>>

SchedRelease(c) ==
  /\ InLoop(c) /\ cur[c] = Null
  /\ Ready(c) = {}
  /\ lock' = NoCpu
  /\ at' = [at EXCEPT ![c] = "idle"]
  /\ cursor' = [cursor EXCEPT ![c] = 1]  \* p is dead until the next pass
  /\ UNCHANGED <<table, threads, cur, turn, panicked>>

-----------------------------------------------------------------------------
(* The thread resumes with ptable.lock held.                                  *)

Resumes(c, p, w) ==
  /\ ~panicked
  /\ at[c] = "proc" /\ cur[c] = p /\ lock = c
  /\ ctx[p] = w
  /\ ctx' = [ctx EXCEPT ![p] = "live"]

(* forkret() releases the lock and goes to user space through trapret.        *)
Forkret(c, p) ==
  /\ Resumes(c, p, "forkret")
  /\ lock' = NoCpu
  /\ UNCHANGED <<table, pc, child, at, cur, cursor, turn, panicked>>

(* yield() returns into trap(), which looks at p->killed once more when the   *)
(* interrupt came from user space.                                            *)
YieldReturn(c, p) ==
  /\ Resumes(c, p, "yield")
  /\ lock' = NoCpu
  /\ pc' = [pc EXCEPT ![p] = IF @ = "user" /\ killed[p] THEN "exit" ELSE @]
  /\ UNCHANGED <<table, child, at, cur, cursor, turn, panicked>>

(* sleep() tidies up.  wait() called it with ptable.lock and goes on with it; *)
(* sys_sleep() called it with tickslock and gives ptable.lock back.           *)
SleepReturn(c, p) ==
  /\ Resumes(c, p, "sleep")
  /\ chan' = [chan EXCEPT ![p] = Null]
  /\ lock' = IF pc[p] = "wait" THEN lock ELSE NoCpu
  /\ UNCHANGED <<state, pid, parent, killed, tickets, inuse, nextpid,
                 pc, child, at, cur, cursor, turn, panicked>>

-----------------------------------------------------------------------------
(* Traps *)

(* Nobody holds tickslock: sys_sleep() keeps it from its test to sleep().     *)
TicksFree == \A q \in Slot : pc[q] # "dozing"

(* A clock interrupt: a killed process that was in user space exits, any      *)
(* other one yields.  A thread with tickslock has interrupts off.             *)
Timer(c, p) ==
  /\ Runs(c, p)
  /\ pc[p] # "dozing"
  /\ IF pc[p] = "user" /\ killed[p]
     THEN /\ pc' = [pc EXCEPT ![p] = "exit"]
          /\ UNCHANGED <<table, ctx, child, cpus, panicked>>
     ELSE /\ lock = NoCpu
          /\ state' = [state EXCEPT ![p] = "RUNNABLE"]
          /\ Sched(c, p, "yield")
          /\ UNCHANGED <<pid, parent, chan, killed, tickets, inuse, nextpid,
                         pc, child, panicked>>

(* The clock of CPU 0 calls wakeup(&ticks), whatever it interrupted.          *)
TimerWakeup ==
  /\ ~panicked
  /\ lock = NoCpu /\ TicksFree
  /\ \E p \in Slot : state[p] = "SLEEPING" /\ chan[p] = TicksChan
  /\ state' = Wakeup1({TicksChan})
  /\ UNCHANGED <<pid, parent, chan, killed, tickets, inuse, nextpid,
                 threads, cpus, panicked>>

(* A trap in user space that is no interrupt kills the process.               *)
Fault(c, p) ==
  /\ Runs(c, p)
  /\ pc[p] = "user"
  /\ killed' = [killed EXCEPT ![p] = TRUE]
  /\ pc' = [pc EXCEPT ![p] = "exit"]
  /\ UNCHANGED <<state, pid, parent, chan, tickets, inuse, nextpid,
                 ctx, child, cpus, panicked>>

Forking == {q \in Slot : pc[q] = "fork"}

(* The calls a user program may make; the program of the first process        *)
(* (init.c) only forks and waits.                                             *)
Calls(p) ==
  (IF p = initproc THEN {"wait"} ELSE UserCalls)
    \cup (IF nextpid + Cardinality(Forking) <= MaxPid THEN {"fork"} ELSE {})

(* trap(), T_SYSCALL: a killed process exits instead.                         *)
SyscallEntry(c, p) ==
  /\ Runs(c, p)
  /\ pc[p] = "user"
  /\ \E call \in IF killed[p] THEN {"exit"} ELSE Calls(p) : pc' = [pc EXCEPT ![p] = call]
  /\ UNCHANGED <<table, ctx, child, cpus, panicked>>

SyscallReturn(c, p) ==
  /\ Runs(c, p)
  /\ pc[p] = "ret"
  /\ pc' = [pc EXCEPT ![p] = IF killed[p] THEN "exit" ELSE "user"]
  /\ UNCHANGED <<table, ctx, child, cpus, panicked>>

-----------------------------------------------------------------------------
(* fork() *)

(* fork() returns -1: init.c then exits, another program does as it likes.    *)
AfterFailedFork(p) == IF p = initproc THEN "exit" ELSE "ret"

CountedPid == Cardinality(Slot \ Unused) + 1
FreshPid == nextpid

(* allocproc() up to its release.                                             *)
ForkAlloc(c, p) ==
  /\ Runs(c, p)
  /\ pc[p] = "fork" /\ lock = NoCpu
  /\ \E np \in Slot :
       /\ IsFirst(np, Unused)
       /\ state' = [state EXCEPT ![np] = "EMBRYO"]
       /\ pid' = [pid EXCEPT ![np] = FreshPid]
       /\ nextpid' = nextpid + 1
       /\ tickets' = [tickets EXCEPT ![np] = 1]
       /\ inuse' = [inuse EXCEPT ![np] = 0]
       /\ child' = [child EXCEPT ![p] = np]
  /\ pc' = [pc EXCEPT ![p] = "embryo"]
  /\ UNCHANGED <<parent, chan, killed, ctx, cpus, panicked>>

ForkNoSlot(c, p) ==
  /\ Runs(c, p)
  /\ pc[p] = "fork" /\ lock = NoCpu
  /\ Unused = {}
  /\ pc' = [pc EXCEPT ![p] = AfterFailedFork(p)]
  /\ UNCHANGED <<table, ctx, child, cpus, panicked>>

(* One critical section, whichever it finds.                                  *)
Allocproc(c, p) == IF Unused = {} THEN ForkNoSlot(c, p) ELSE ForkAlloc(c, p)

(* kalloc() or copyuvm() fails: the slot is given back without the lock, and  *)
(* keeps its pid.                                                             *)
ForkFail(c, p) ==
  /\ Runs(c, p)
  /\ pc[p] = "embryo"
  /\ state' = [state EXCEPT ![child[p]] = "UNUSED"]
  /\ child' = [child EXCEPT ![p] = Null]
  /\ pc' = [pc EXCEPT ![p] = AfterFailedFork(p)]
  /\ UNCHANGED <<pid, parent, chan, killed, tickets, inuse, nextpid, ctx, cpus, panicked>>

(* The fields the child takes from its parent, without the lock.              *)
ForkCopy(c, p) ==
  /\ Runs(c, p)
  /\ pc[p] = "embryo"
  /\ parent' = [parent EXCEPT ![child[p]] = p]
  /\ tickets' = [tickets EXCEPT ![child[p]] = tickets[p]]
  /\ ctx' = [ctx EXCEPT ![child[p]] = "forkret"]
  /\ pc' = [pc EXCEPT ![p] = "copied", ![child[p]] = "user"]
  /\ UNCHANGED <<state, pid, chan, killed, inuse, nextpid, child, cpus, panicked>>

ForkPublish(c, p) ==
  /\ Runs(c, p)
  /\ pc[p] = "copied" /\ lock = NoCpu
  /\ state' = [state EXCEPT ![child[p]] = "RUNNABLE"]
  /\ child' = [child EXCEPT ![p] = Null]
  /\ pc' = [pc EXCEPT ![p] = "ret"]
  /\ UNCHANGED <<pid, parent, chan, killed, tickets, inuse, nextpid, ctx, cpus, panicked>>

-----------------------------------------------------------------------------
(* wait() and exit() *)

(* wait() scans the table with the lock: taken now, or kept by sleep().       *)
WaitScans(c, p) ==
  /\ ~panicked
  /\ at[c] = "proc" /\ cur[c] = p /\ ctx[p] = "live"
  /\ pc[p] = "wait" /\ lock \in {NoCpu, c}

WaitReap(c, p) ==
  /\ WaitScans(c, p)
  /\ \E z \in Slot :
       /\ IsFirst(z, Zombies(p))
       /\ state' = [state EXCEPT ![z] = "UNUSED"]
       /\ pid' = [pid EXCEPT ![z] = 0]
       /\ parent' = [parent EXCEPT ![z] = Null]
       /\ killed' = [killed EXCEPT ![z] = FALSE]
  /\ pc' = [pc EXCEPT ![p] = "ret"]
  /\ lock' = NoCpu
  /\ UNCHANGED <<chan, tickets, inuse, nextpid, ctx, child, at, cur, cursor, turn, panicked>>

WaitFail(c, p) ==
  /\ WaitScans(c, p)
  /\ Zombies(p) = {}
  /\ Children(p) = {} \/ killed[p]
  /\ pc' = [pc EXCEPT ![p] = "ret"]
  /\ lock' = NoCpu
  /\ UNCHANGED <<table, ctx, child, at, cur, cursor, turn, panicked>>

WaitSleep(c, p) ==
  /\ WaitScans(c, p)
  /\ Zombies(p) = {}
  /\ Children(p) # {} /\ ~killed[p]
  /\ chan' = [chan EXCEPT ![p] = p]
  /\ state' = [state EXCEPT ![p] = "SLEEPING"]
  /\ Sched(c, p, "sleep")
  /\ UNCHANGED <<pid, parent, killed, tickets, inuse, nextpid, pc, child, panicked>>

ExitWakesInit(p) == IF Zombies(p) # {} THEN {initproc} ELSE {}
ReparentedIfAlive(p) ==
  [q \in Slot |-> IF parent[q] = p /\ state[q] # "ZOMBIE" THEN initproc ELSE parent[q]]

(* The channels exit() wakes, and the parents it leaves behind.               *)
ExitWakes(p) == {parent[p]} \cup (IF Zombies(p) # {} THEN {initproc} ELSE {})
Reparented(p) == [q \in Slot |-> IF parent[q] = p THEN initproc ELSE parent[q]]

(* exit() from its acquire on.                                                *)
Exit(c, p) ==
  /\ Runs(c, p)
  /\ pc[p] = "exit" /\ lock = NoCpu
  /\ p # initproc
  /\ state' = [Wakeup1(ExitWakes(p)) EXCEPT ![p] = "ZOMBIE"]
  /\ parent' = Reparented(p)
  /\ Sched(c, p, "live")                 \* a zombie's context is never resumed
  /\ UNCHANGED <<pid, chan, killed, tickets, inuse, nextpid, pc, child, panicked>>

(* panic("init exiting"): the machine stops.                                  *)
InitExits(c, p) ==
  /\ Runs(c, p)
  /\ pc[p] = "exit"
  /\ p = initproc
  /\ panicked' = TRUE
  /\ UNCHANGED <<table, threads, cpus>>

-----------------------------------------------------------------------------
(* kill(), settickets() and sleep() *)

SleepsOn(s) == s
KilledState(s) == IF s = "SLEEPING" THEN "RUNNABLE" ELSE s

(* kill() takes the first slot with that pid, whatever its state.             *)
Kill(c, p) ==
  /\ Runs(c, p)
  /\ pc[p] = "kill" /\ lock = NoCpu
  /\ \E k \in KillPids :
       LET match == {q \in Slot : pid[q] = k} IN
       \/ \E q \in Slot :
            /\ IsFirst(q, match)
            /\ killed' = [killed EXCEPT ![q] = TRUE]
            /\ state' = [state EXCEPT ![q] = KilledState(@)]
       \/ match = {} /\ UNCHANGED <<killed, state>>
  /\ pc' = [pc EXCEPT ![p] = "ret"]
  /\ UNCHANGED <<pid, parent, chan, tickets, inuse, nextpid, ctx, child, cpus, panicked>>

AnyTickets(n) == n >= 0
ValidTickets(n) == n >= 1

SetTickets(c, p) ==
  /\ Runs(c, p)
  /\ pc[p] = "settickets"
  /\ \E n \in 0..MaxTickets :
       tickets' = IF ValidTickets(n) THEN [tickets EXCEPT ![p] = n] ELSE tickets
  /\ pc' = [pc EXCEPT ![p] = "ret"]
  /\ UNCHANGED <<state, pid, parent, chan, killed, inuse, nextpid, ctx, child, cpus, panicked>>

(* One iteration of sys_sleep(), under tickslock: the time has passed, or the *)
(* process was killed ...                                                     *)
SleepDone(c, p) ==
  /\ Runs(c, p)
  /\ pc[p] = "sleep" /\ TicksFree
  /\ pc' = [pc EXCEPT ![p] = "ret"]
  /\ UNCHANGED <<table, ctx, child, cpus, panicked>>

(* ... or neither, and it calls sleep().  p->killed belongs to ptable.lock,   *)
(* which sleep() has yet to acquire.                                          *)
SleepTest(c, p) ==
  /\ Runs(c, p)
  /\ pc[p] = "sleep" /\ TicksFree
  /\ ~killed[p]
  /\ pc' = [pc EXCEPT ![p] = "dozing"]
  /\ UNCHANGED <<table, ctx, child, cpus, panicked>>

(* sleep(&ticks, &tickslock): with ptable.lock held, tickslock can go.        *)
SleepOnTicks(c, p) ==
  /\ Runs(c, p)
  /\ pc[p] = "dozing" /\ lock = NoCpu
  /\ chan' = [chan EXCEPT ![p] = TicksChan]
  /\ state' = [state EXCEPT ![p] = "SLEEPING"]
  /\ pc' = [pc EXCEPT ![p] = "sleep"]
  /\ Sched(c, p, "sleep")
  /\ UNCHANGED <<pid, parent, killed, tickets, inuse, nextpid, child, panicked>>

-----------------------------------------------------------------------------

SchedulerStep(c) ==
  \/ SchedAcquire(c) \/ SchedPick(c) \/ SchedSlice(c)
  \/ SchedNext(c) \/ SchedRelease(c)

Resume(c, p) == Forkret(c, p) \/ YieldReturn(c, p) \/ SleepReturn(c, p)

Fork(c, p) ==
  \/ Allocproc(c, p) \/ ForkFail(c, p) \/ ForkCopy(c, p) \/ ForkPublish(c, p)

Wait(c, p) == WaitReap(c, p) \/ WaitFail(c, p) \/ WaitSleep(c, p)

(* What the kernel does for a process once it is in a system call or a trap.  *)
KernelStep(c, p) ==
  \/ Fork(c, p) \/ Wait(c, p) \/ Exit(c, p) \/ InitExits(c, p)
  \/ Kill(c, p) \/ SetTickets(c, p) \/ SyscallReturn(c, p)
  \/ SleepDone(c, p) \/ SleepTest(c, p) \/ SleepOnTicks(c, p)

(* panic() disables interrupts and spins.                                     *)
Frozen == panicked /\ UNCHANGED vars

Next ==
  \/ \E c \in CPU : SchedulerStep(c)
  \/ \E c \in CPU, p \in Slot :
       \/ Resume(c, p) \/ KernelStep(c, p) \/ SyscallEntry(c, p)
       \/ Timer(c, p) \/ Fault(c, p)
  \/ TimerWakeup
  \/ Frozen

Spec == Init /\ [][Next]_vars

-----------------------------------------------------------------------------
(* Safety *)

Live(p) == state[p] \notin {"UNUSED", "EMBRYO", "ZOMBIE"}

(* A process runs on at most one processor, and exactly the processes that a  *)
(* CPU executes are marked RUNNING (scheduler(), sched(), yield()).           *)
OneCpuPerProcess ==
  /\ \A c, d \in CPU : cur[c] # Null /\ cur[c] = cur[d] => c = d
  /\ \A c \in CPU : at[c] = "proc" => cur[c] # Null /\ state[cur[c]] = "RUNNING"
  /\ \A p \in Slot : state[p] = "RUNNING" => \E c \in CPU : at[c] = "proc" /\ cur[c] = p

(* Every process but the first has a parent that can still wait for it:       *)
(* exit() hands its children to init before it becomes a ZOMBIE.              *)
NoOrphan ==
  \A p \in Slot \ {initproc} :
    Live(p) \/ state[p] = "ZOMBIE" => parent[p] # Null /\ Live(parent[p])

(* No wakeup is lost: a process that sleeps in wait() has a child left to     *)
(* wait for, none of them has exited yet, and it was not killed.              *)
NoLostWakeup ==
  \A p \in Slot : state[p] = "SLEEPING" /\ chan[p] = p =>
    Children(p) # {} /\ Zombies(p) = {} /\ ~killed[p]

(* A slot under construction belongs to the one fork() in progress that took  *)
(* it, which is why fork() may give it back without the lock.                 *)
EmbryoOwned ==
  /\ \A q \in Slot : state[q] = "EMBRYO" => \E p \in Slot : Live(p) /\ child[p] = q
  /\ \A p, q \in Slot : child[p] # Null /\ child[p] = child[q] => p = q
  /\ \A p \in Slot : child[p] # Null => state[child[p]] = "EMBRYO"

(* kill() names a process by its pid: no two slots share one, not            *)
(* even with a slot a failed fork() gave back.                                *)
PidNamesOneSlot ==
  \A p, q \in Slot : pid[p] = pid[q] /\ pid[p] # 0 => p = q

(* fill() copies the table for getpinfo() under the lock, free slots too.     *)
Fill == [p \in Slot |-> [inuse |-> inuse[p], tickets |-> tickets[p], pid |-> pid[p]]]

(* pstat.h: inuse tells "whether this slot of the process table is in use (1  *)
(* or 0)".  wait() frees a slot without clearing the field.                   *)
FreeSlotNotInUse == \A p \in Slot : state[p] = "UNUSED" => Fill[p].inuse = 0

(* kill() kills "the process with the given pid": a process that allocproc()  *)
(* has just set up cannot have been the target of one.                        *)
BornAlive ==
  [][\A p \in Slot : state[p] = "UNUSED" /\ state'[p] = "EMBRYO" => ~killed'[p]]_vars

-----------------------------------------------------------------------------
(* Liveness, for one processor: nothing in an xchg spinlock makes it fair     *)
(* when several compete for it.                                               *)

(* init.c calls wait() after every fork().                                    *)
InitWaits == \E c \in CPU : SyscallEntry(c, initproc) /\ pc'[initproc] = "wait"

(* The scheduler and a resumed thread go on; a slice is long enough for a     *)
(* thread in the kernel to make a step, if not in this slice then in another; *)
(* the clock interrupts a process that keeps the CPU.                         *)
Fairness ==
  /\ \A c \in CPU : WF_vars(SchedulerStep(c) \/ \E p \in Slot : Resume(c, p))
  /\ \A p \in Slot : SF_vars((\E c \in CPU : KernelStep(c, p)) \/ (p = initproc /\ InitWaits))
  /\ \A c \in CPU : WF_vars(\E p \in Slot : Timer(c, p))

FairSpec == Spec /\ Fairness

(* scheduler(): no RUNNABLE process starves, whatever tickets the others set. *)
RunnableRuns ==
  \A p \in Slot : state[p] = "RUNNABLE" ~> state[p] = "RUNNING" \/ panicked

(* exit() and wait(): a zombie that init inherited leaves the table.          *)
OrphanReaped ==
  \A p \in Slot \ {initproc} : state[p] = "ZOMBIE" /\ parent[p] = initproc ~>
    state[p] = "UNUSED" \/ panicked

(* kill(): the process exits, even if it sleeps or never makes a call again.  *)
KilledExits ==
  \A p \in Slot : Live(p) /\ killed[p] ~> state[p] = "ZOMBIE" \/ panicked

=============================================================================
