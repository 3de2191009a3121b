------------------------------ MODULE Spinlocks ------------------------------
(* Spinlocks against interrupts: acquire(), release(), pushcli(), popcli(),   *)
(* and the way of ptable.lock through yield(), sched() and scheduler(), one   *)
(* step per access to the lock, the flags or the processor's ncli and intena. *)
(* A kernel thread is a stack of frames, each at some step of its code; an    *)
(* interrupt puts the frame of its handler on top.                            *)
EXTENDS Integers, Sequences, FiniteSets

CONSTANTS Cpu, Kproc,  \* processors, processes (threads besides the schedulers)
          Newborn,     \* processes that have never run
          Sleeping,    \* processes whose calls sleep; others yield()
          Interrupted  \* bound: the threads that interrupts find running

(* "pt": ptable.lock, "t": a lock that interrupt handlers take too.           *)
SpinLock == {"pt", "t"}
Thread   == Cpu \cup Kproc  \* the scheduler of a processor has its name
None     == "none"

ASSUME SpinAssumption == Newborn \subseteq Kproc /\ Cpu \cap Kproc = {} /\ None \notin Cpu

VARIABLES
  lk,    \* locks: [locked, cpu]
  cpu,   \* processors: [runs: a thread, ncli, intena, flag: FL_IF]
  stack, \* threads: the frames, the running one first
  saved, \* threads: the local variable of sched()
  ready, \* processes that are RUNNABLE
  died   \* a panic

spinVars == <<lk, cpu, stack, saved, ready, died>>

(* A step and the lock it is about.  acquire() is look, cli, xchg, own, and   *)
(* release() is disown, free, popcli.                                         *)
Op(do, l) == [do |-> do, l |-> l]
Pt(do)    == Op(do, "pt")
Tk(do)    == Op(do, "t")

(* The steps of scheduler() for one pass over the table, of yield(), and of a *)
(* call that sleeps: sleep() takes ptable.lock under the lock of the caller,  *)
(* lets that one go first, and takes it again when it is back.  The handler   *)
(* of the clock's interrupt wakes sleepers under tickslock, and yields if it  *)
(* interrupted a process.                                                     *)
Pass     == <<Pt("look"), Pt("cli"), Pt("xchg"), Pt("own"), Pt("run"),
              Pt("disown"), Pt("free"), Pt("popcli"), Pt("sti")>>
Yield    == <<Pt("look"), Pt("cli"), Pt("xchg"), Pt("own"), Pt("sched"), Pt("resume"),
              Pt("disown"), Pt("free"), Pt("popcli")>>
SleepCall == <<Tk("look"), Tk("cli"), Tk("xchg"), Tk("own"),
               Pt("look"), Pt("cli"), Pt("xchg"), Pt("own"), Tk("disown"), Tk("free"), Tk("popcli"),
               Pt("sched"), Pt("resume"), Pt("disown"), Pt("free"), Pt("popcli"),
               Tk("look"), Tk("cli"), Tk("xchg"), Tk("own"), Tk("disown"), Tk("free"), Tk("popcli")>>
Tick     == <<Tk("look"), Tk("cli"), Tk("xchg"), Tk("own"),
              Pt("look"), Pt("cli"), Pt("xchg"), Pt("own"), Pt("disown"), Pt("free"), Pt("popcli"),
              Tk("disown"), Tk("free"), Tk("popcli"), Tk("iret")>>
TickProc == <<Tk("look"), Tk("cli"), Tk("xchg"), Tk("own"),
              Pt("look"), Pt("cli"), Pt("xchg"), Pt("own"), Pt("disown"), Pt("free"), Pt("popcli"),
              Tk("disown"), Tk("free"), Tk("popcli"),
              Pt("look"), Pt("cli"), Pt("xchg"), Pt("own"), Pt("sched"), Pt("resume"),
              Pt("disown"), Pt("free"), Pt("popcli"), Tk("iret")>>

Code == [pass |-> Pass, yield |-> Yield, sleep |-> SleepCall, tick |-> Tick, tickproc |-> TickProc]

(* A frame is at step k; eflags is the local variable of pushcli().           *)
CallFrame(code, k) == [code |-> code, k |-> k, eflags |-> FALSE]

SpinInit ==
  /\ lk = [l \in SpinLock |-> [locked |-> FALSE, cpu |-> None]]
  /\ cpu = [c \in Cpu |-> [runs |-> c, ncli |-> 0, intena |-> FALSE, flag |-> FALSE]]
  /\ stack = [t \in Thread |-> <<IF t \in Cpu THEN CallFrame("pass", 9)
                                 ELSE IF t \in Newborn THEN CallFrame("tickproc", 21)
                                 ELSE CallFrame("yield", 6)>>]
  /\ saved = [t \in Thread |-> TRUE]
  /\ ready = Kproc
  /\ died = FALSE

(* The next step of the thread on processor c is do; a frame that is through  *)
(* goes.                                                                      *)
On(c)        == cpu[c].runs
Top(c)       == Head(stack[On(c)])
Next1(c, do) == ~died /\ stack[On(c)] # <<>> /\ Code[Top(c).code][Top(c).k].do = do
L(c)         == Code[Top(c).code][Top(c).k].l
Advance(s)   == IF Head(s).k = Len(Code[Head(s).code]) THEN Tail(s)
                ELSE <<[Head(s) EXCEPT !.k = @ + 1]>> \o Tail(s)
Step(c)      == stack' = [stack EXCEPT ![On(c)] = Advance(@)]
Dies         == died' = TRUE /\ UNCHANGED <<lk, cpu, stack, saved, ready>>

(* holding()                                                                  *)
Holding(c, l) == lk[l].locked /\ lk[l].cpu = c

-----------------------------------------------------------------------------
(* pushcli(): the flags are read before interrupts are off; what was read is  *)
(* in the frame, since a handler has its own.                                 *)
Look(c) ==
  /\ Next1(c, "look")
  /\ stack' = [stack EXCEPT ![On(c)] =
       <<[code |-> Top(c).code, k |-> Top(c).k + 1, eflags |-> cpu[c].flag]>> \o Tail(@)]
  /\ UNCHANGED <<lk, cpu, saved, ready, died>>

Cli(c) ==
  /\ Next1(c, "cli")
  /\ IF Holding(c, L(c)) THEN Dies
     ELSE /\ cpu' = [cpu EXCEPT ![c].flag = FALSE, ![c].ncli = @ + 1,
                                ![c].intena = IF cpu[c].ncli = 0 THEN Top(c).eflags ELSE @]
          /\ Step(c)
          /\ UNCHANGED <<lk, saved, ready, died>>

IsFree(l)        == ~lk[l].locked

Xchg(c) ==
  /\ Next1(c, "xchg") /\ IsFree(L(c))
  /\ lk' = [lk EXCEPT ![L(c)].locked = TRUE]
  /\ Step(c)
  /\ UNCHANGED <<cpu, saved, ready, died>>

Own(c) ==
  /\ Next1(c, "own")
  /\ lk' = [lk EXCEPT ![L(c)].cpu = c]
  /\ Step(c)
  /\ UNCHANGED <<cpu, saved, ready, died>>

Disown(c) ==
  /\ Next1(c, "disown")
  /\ IF ~Holding(c, L(c)) THEN Dies
     ELSE /\ lk' = [lk EXCEPT ![L(c)].cpu = None]
          /\ Step(c)
          /\ UNCHANGED <<cpu, saved, ready, died>>

FreeLock(c) ==
  /\ Next1(c, "free")
  /\ lk' = [lk EXCEPT ![L(c)].locked = FALSE]
  /\ Step(c)
  /\ UNCHANGED <<cpu, saved, ready, died>>

TurnsOn(c)      == cpu[c].ncli = 1 /\ cpu[c].intena

Popcli(c) ==
  /\ Next1(c, "popcli")
  /\ IF cpu[c].flag \/ cpu[c].ncli < 1 THEN Dies
     ELSE /\ cpu' = [cpu EXCEPT ![c].ncli = @ - 1, ![c].flag = TurnsOn(c)]
          /\ Step(c)
          /\ UNCHANGED <<lk, saved, ready, died>>

-----------------------------------------------------------------------------
(* sched(): the thread is off the processor; the scheduler's thread goes on.  *)
(* A sleeper counts as ready, since the wakeup may have come by the next pass.*)
SchedPanics(c) == ~Holding(c, "pt") \/ cpu[c].ncli # 1 \/ cpu[c].flag

SchedOut(c) ==
  /\ Next1(c, "sched")
  /\ IF SchedPanics(c) THEN Dies
     ELSE /\ saved' = [saved EXCEPT ![On(c)] = cpu[c].intena]
          /\ cpu' = [cpu EXCEPT ![c].runs = c]
          /\ ready' = ready \cup {On(c)}
          /\ Step(c)
          /\ UNCHANGED <<lk, died>>

IntenaOfCpu(c)    == cpu[c].intena   \* mutant: intena is the processor's
IntenaOfThread(c) == saved[On(c)]
Restored(c)       == IntenaOfThread(c)

SchedIn(c) ==
  /\ Next1(c, "resume")
  /\ cpu' = [cpu EXCEPT ![c].intena = Restored(c)]
  /\ Step(c)
  /\ UNCHANGED <<lk, saved, ready, died>>

NoLonger(p)   == ready \ {p}

(* scheduler(): it runs processes, then lets the lock go and turns interrupts *)
(* on.                                                                        *)
Run(c) ==
  /\ Next1(c, "run")
  /\ \E p \in ready :
       /\ cpu' = [cpu EXCEPT ![c].runs = p]
       /\ ready' = NoLonger(p)
  /\ UNCHANGED <<lk, stack, saved, died>>

EndOfTable(c) ==
  /\ Next1(c, "run")
  /\ Step(c)
  /\ UNCHANGED <<lk, cpu, saved, ready, died>>

Sti(c) ==
  /\ Next1(c, "sti")
  /\ cpu' = [cpu EXCEPT ![c].flag = TRUE]
  /\ Step(c)
  /\ UNCHANGED <<lk, saved, ready, died>>

-----------------------------------------------------------------------------
(* A thread with nothing left: the scheduler's loop, or a system call.        *)
Work(t) == IF t \in Cpu THEN "pass" ELSE IF t \in Sleeping THEN "sleep" ELSE "yield"

Loop(c) ==
  /\ ~died /\ stack[On(c)] = <<>>
  /\ stack' = [stack EXCEPT ![On(c)] = <<CallFrame(Work(On(c)), 1)>>]
  /\ UNCHANGED <<lk, cpu, saved, ready, died>>

(* An interrupt gate clears the flag, iret restores it.  Interrupts are off   *)
(* in a handler, to its end: yield() in it gives up the processor, not that.  *)
Handler(t) == IF t \in Kproc THEN "tickproc" ELSE "tick"

Interrupt(c) ==
  /\ ~died /\ cpu[c].flag /\ On(c) \in Interrupted
  /\ cpu' = [cpu EXCEPT ![c].flag = FALSE]
  /\ stack' = [stack EXCEPT ![On(c)] = <<CallFrame(Handler(On(c)), 1)>> \o @]
  /\ UNCHANGED <<lk, saved, ready, died>>

Iret(c) ==
  /\ Next1(c, "iret")
  /\ cpu' = [cpu EXCEPT ![c].flag = TRUE]
  /\ Step(c)
  /\ UNCHANGED <<lk, saved, ready, died>>

SpinNext ==
  \/ \E c \in Cpu :
       \/ Look(c) \/ Cli(c) \/ Xchg(c) \/ Own(c) \/ Disown(c) \/ FreeLock(c) \/ Popcli(c)
       \/ SchedOut(c) \/ SchedIn(c) \/ Run(c) \/ EndOfTable(c) \/ Sti(c)
       \/ Loop(c) \/ Interrupt(c) \/ Iret(c)
  \/ died /\ UNCHANGED spinVars

SpinSpec == SpinInit /\ [][SpinNext]_spinVars

-----------------------------------------------------------------------------

(* The thread on processor c is between the xchg of l and its end.            *)
Inside(c, l) ==
  \E n \in DOMAIN stack[On(c)] :
    LET f == stack[On(c)][n] IN
    \E i \in 1..(f.k - 1) :
      /\ Code[f.code][i] = Op("xchg", l)
      /\ \A j \in i..(f.k - 1) : Code[f.code][j] # Op("free", l)

(* A lock and a processor have the fields of struct spinlock and struct cpu;  *)
(* a thread is on one processor at most.                                      *)
SpinTypeOK ==
  /\ lk \in [SpinLock -> [locked : BOOLEAN, cpu : Cpu \cup {None}]]
  /\ \A c \in Cpu : cpu[c].ncli \in 0..3 /\ cpu[c].runs \in Kproc \cup {c} /\ cpu[c].runs \notin ready
  /\ \A c, d \in Cpu : c # d => On(c) # On(d)

(* Two processors are never inside the same lock, and a lock is taken exactly *)
(* while one is, across swtch() too, where another thread lets it go.         *)
OneInside ==
  \A l \in SpinLock :
    /\ Cardinality({c \in Cpu : Inside(c, l)}) <= 1
    /\ lk[l].locked <=> \E c \in Cpu : Inside(c, l)

(* A processor inside a lock takes no interrupt, so that a handler never      *)
(* spins on a lock of the thread it interrupted.                              *)
QuietInside == \A c \in Cpu, l \in SpinLock : Inside(c, l) => ~cpu[c].flag

(* pushcli() and popcli() match: a thread that holds nothing and is not in a  *)
(* handler has interrupts on, on whatever processor it ran before.            *)
InterruptsBack == \A c \in Cpu : stack[On(c)] = <<>> => cpu[c].flag /\ cpu[c].ncli = 0

(* The kernel's own checks: acquire() of a lock held here, release() of one   *)
(* that is not, popcli() out of balance, sched() with another lock.           *)
NeverDies == ~died

(* Locks exclude, and interrupts are off where they must be and only there.   *)
SpinSound == SpinTypeOK /\ OneInside /\ QuietInside /\ InterruptsBack /\ NeverDies

=============================================================================
