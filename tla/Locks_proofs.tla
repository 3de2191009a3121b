---------------------------- MODULE Locks_proofs ----------------------------
(* Locks exclude and interrupts are off exactly where they must be, for any   *)
(* number of processors and processes and any interleaving of their steps     *)
(* and interrupts; and the life of a pipe's page, the order of its bytes and  *)
(* the wakeups of its processes, for any number of readers and writers and    *)
(* any sizes.                                                                 *)
EXTENDS Spinlocks, Pipe, FiniteSetTheorems, TLAPS

Codes  == {"pass", "yield", "sleep", "tick", "tickproc"}
Frames == {f \in [code : Codes, k : 1..24, eflags : BOOLEAN] : f.k <= Len(Code[f.code])}

At(f, code, m, n) == f.code = code /\ f.k \in m..n

(* A frame between the xchg of l and its end; between its lk->cpu = mycpu()   *)
(* and lk->cpu = 0.                                                           *)
Held(f, l) ==
  IF l = "pt"
  THEN \/ At(f, "pass", 4, 7) \/ At(f, "yield", 4, 8) \/ At(f, "sleep", 8, 15)
       \/ At(f, "tick", 8, 10) \/ At(f, "tickproc", 8, 10) \/ At(f, "tickproc", 18, 22)
  ELSE \/ At(f, "sleep", 4, 10) \/ At(f, "sleep", 20, 22)
       \/ At(f, "tick", 4, 13) \/ At(f, "tickproc", 4, 13)

Owned(f, l) ==
  IF l = "pt"
  THEN \/ At(f, "pass", 5, 6) \/ At(f, "yield", 5, 7) \/ At(f, "sleep", 9, 14)
       \/ At(f, "tick", 9, 9) \/ At(f, "tickproc", 9, 9) \/ At(f, "tickproc", 19, 21)
  ELSE \/ At(f, "sleep", 5, 9) \/ At(f, "sleep", 21, 21)
       \/ At(f, "tick", 5, 12) \/ At(f, "tickproc", 5, 12)

(* The places of the i-th step of acquire() that are not the first of a code; *)
(* of the (i + 1)-th step of release(); of a lock that is not ptable.lock.    *)
Again(f, i) ==
  \/ At(f, "sleep", 4 + i, 4 + i) \/ At(f, "sleep", 16 + i, 16 + i) \/ At(f, "tick", 4 + i, 4 + i)
  \/ At(f, "tickproc", 4 + i, 4 + i) \/ At(f, "tickproc", 14 + i, 14 + i)
Gives(f, i) ==
  \/ At(f, "pass", 6 + i, 6 + i) \/ At(f, "yield", 7 + i, 7 + i)
  \/ At(f, "sleep", 9 + i, 9 + i) \/ At(f, "sleep", 14 + i, 14 + i) \/ At(f, "sleep", 21 + i, 21 + i)
  \/ At(f, "tick", 9 + i, 9 + i) \/ At(f, "tick", 12 + i, 12 + i)
  \/ At(f, "tickproc", 9 + i, 9 + i) \/ At(f, "tickproc", 12 + i, 12 + i) \/ At(f, "tickproc", 21 + i, 21 + i)
OfT(f) ==
  \/ At(f, "sleep", 1, 4) \/ At(f, "sleep", 9, 11) \/ At(f, "sleep", 17, 23)
  \/ At(f, "tick", 1, 4) \/ At(f, "tick", 12, 15)
  \/ At(f, "tickproc", 1, 4) \/ At(f, "tickproc", 12, 14) \/ At(f, "tickproc", 24, 24)

(* How many pushcli() a frame has on its processor.                           *)
Shallow(f) ==
  \/ At(f, "pass", 1, 2) \/ At(f, "pass", 9, 9) \/ At(f, "yield", 1, 2)
  \/ At(f, "sleep", 1, 2) \/ At(f, "sleep", 17, 18)
  \/ At(f, "tick", 1, 2) \/ At(f, "tick", 15, 15)
  \/ At(f, "tickproc", 1, 2) \/ At(f, "tickproc", 15, 16) \/ At(f, "tickproc", 24, 24)
Deep(f)  == At(f, "sleep", 7, 11) \/ At(f, "tick", 7, 11) \/ At(f, "tickproc", 7, 11)
Depth(f) == IF Deep(f) THEN 2 ELSE IF Shallow(f) THEN 0 ELSE 1

Handles(f) == f.code \in {"tick", "tickproc"}

(* Where an interrupt may find a frame, whose processor has interrupts on.    *)
Rests(f) ==
  \/ ~Handles(f) /\ f.k <= 2 /\ (f.k = 2 => f.eflags)
  \/ At(f, "sleep", 17, 18) /\ (f.k = 18 => f.eflags)
  \/ At(f, "pass", 9, 9) \/ At(f, "tickproc", 24, 24)

HeldBy(s, l)  == s # <<>> /\ Held(Head(s), l)
OwnedBy(s, l) == s # <<>> /\ Owned(Head(s), l)

(* Every frame but the first was interrupted, and a scheduler has the frames  *)
(* of one.                                                                    *)
StackOK(t, s) ==
  /\ s \in Seq(Frames)
  /\ \A n \in 2..Len(s) : Rests(s[n])
  /\ \A n \in 1..Len(s) : t \in Cpu <=> s[n].code \in {"pass", "tick"}

(* What sched() saved is what the thread had.                                 *)
SavedOK(s, b) ==
  s # <<>> => /\ At(Head(s), "yield", 6, 6) \/ At(Head(s), "sleep", 13, 13) => b
              /\ At(Head(s), "tickproc", 20, 20) => ~b

(* The processor p of a thread whose stack is s.                              *)
OnOK(s, p) ==
  IF s = <<>> THEN p.ncli = 0 /\ p.flag
  ELSE LET f == Head(s) IN
    /\ p.ncli = Depth(f)
    /\ p.flag => Shallow(f)
    /\ At(f, "tick", 1, 15) \/ At(f, "tickproc", 1, 23) => ~p.flag
    /\ (~Handles(f) /\ f.k <= 2) \/ At(f, "sleep", 17, 18) => p.flag
    /\ f.k = 2 => (f.eflags <=> ~Handles(f))
    /\ At(f, "sleep", 18, 18) => f.eflags
    /\ At(f, "tickproc", 16, 16) => ~f.eflags
    /\ At(f, "tick", 3, 14) \/ At(f, "tickproc", 3, 14) \/ At(f, "tickproc", 17, 19) => ~p.intena
    /\ \/ At(f, "yield", 3, 5) \/ At(f, "yield", 7, 9)
       \/ At(f, "sleep", 3, 12) \/ At(f, "sleep", 14, 16) \/ At(f, "sleep", 19, 23)
       => p.intena

(* A thread that is on no processor is at swtch(), or has never run.          *)
Off(t, s) ==
  /\ s # <<>>
  /\ IF t \in Cpu THEN At(Head(s), "pass", 5, 5)
     ELSE At(Head(s), "yield", 6, 6) \/ At(Head(s), "sleep", 13, 13) \/ At(Head(s), "tickproc", 20, 21)

Processor == [runs : Thread, ncli : Nat, intena : BOOLEAN, flag : BOOLEAN]
Lock      == [locked : BOOLEAN, cpu : Cpu \cup {None}]

Typed ==
  /\ lk \in [SpinLock -> Lock] /\ cpu \in [Cpu -> Processor]
  /\ DOMAIN stack = Thread /\ saved \in [Thread -> BOOLEAN]
  /\ ready \subseteq Kproc /\ died = FALSE

Threads ==
  \A t \in Thread :
    /\ StackOK(t, stack[t]) /\ SavedOK(stack[t], saved[t])
    /\ (\A c \in Cpu : On(c) # t) => Off(t, stack[t])

Placed ==
  /\ \A c \in Cpu : On(c) \in Kproc \cup {c} /\ On(c) \notin ready
  /\ \A c, d \in Cpu : c # d => On(c) # On(d)

Processors == \A c \in Cpu : OnOK(stack[On(c)], cpu[c])

Locks ==
  \A l \in SpinLock :
    /\ lk[l].locked <=> \E c \in Cpu : HeldBy(stack[On(c)], l)
    /\ \A c, d \in Cpu : HeldBy(stack[On(c)], l) /\ HeldBy(stack[On(d)], l) => c = d
    /\ \A c \in Cpu : lk[l].cpu = c <=> OwnedBy(stack[On(c)], l)

SpinInv == Typed /\ Threads /\ Placed /\ Processors /\ Locks
-----------------------------------------------------------------------------
(* Frames and their steps *)

LEMMA CodeLengths ==
  /\ Len(Code["pass"]) = 9 /\ Len(Code["yield"]) = 9 /\ Len(Code["sleep"]) = 23
  /\ Len(Code["tick"]) = 15 /\ Len(Code["tickproc"]) = 24
<1>1. Len(Code["pass"]) = 9
  BY DEF Code, Pass
<1>2. Len(Code["yield"]) = 9
  BY DEF Code, Yield
<1>3. Len(Code["sleep"]) = 23
  BY DEF Code, SleepCall
<1>4. Len(Code["tick"]) = 15
  BY DEF Code, Tick
<1>5. Len(Code["tickproc"]) = 24
  BY DEF Code, TickProc
<1> QED
  BY <1>1, <1>2, <1>3, <1>4, <1>5

LEMMA FrameCodes ==
  ASSUME NEW f \in Frames
  PROVE  /\ f.code \in Codes /\ f.k \in 1..24 /\ f.eflags \in BOOLEAN
         /\ f.code \in {"pass", "yield"} => f.k \in 1..9
         /\ f.code = "sleep" => f.k \in 1..23
         /\ f.code = "tick" => f.k \in 1..15
<1>1. f \in [code : Codes, k : 1..24, eflags : BOOLEAN] /\ f.k <= Len(Code[f.code])
  BY DEF Frames
<1>2. f.code \in Codes /\ f.k \in 1..24 /\ f.eflags \in BOOLEAN
  BY <1>1
<1>3. f.code = "pass" => f.k <= 9
  BY ZenonT(90), <1>1, CodeLengths
<1>4. f.code = "yield" => f.k <= 9
  BY ZenonT(90), <1>1, CodeLengths
<1>5. f.code = "sleep" => f.k <= 23
  BY ZenonT(90), <1>1, CodeLengths
<1>6. f.code = "tick" => f.k <= 15
  BY ZenonT(90), <1>1, CodeLengths
<1> QED
  BY <1>2, <1>3, <1>4, <1>5, <1>6

LEMMA FrameIs ==
  ASSUME NEW code \in Codes, NEW k \in Nat, NEW e \in BOOLEAN, k >= 1, k <= Len(Code[code])
  PROVE  [code |-> code, k |-> k, eflags |-> e] \in Frames
<1>1. Len(Code[code]) \in 1..24
  BY CodeLengths DEF Codes
<1>2. k \in 1..24
  <2>1. PICK n \in 1..24 : n = Len(Code[code])
    BY <1>1
  <2>2. k <= n /\ k >= 1
    BY <2>1
  <2> QED
    BY <2>2
<1> DEFINE f == [code |-> code, k |-> k, eflags |-> e]
<1>3. f \in [code : Codes, k : 1..24, eflags : BOOLEAN]
  BY <1>2
<1>4. f.code = code /\ f.k = k
  OBVIOUS
<1> HIDE DEF f
<1>5. f.k <= Len(Code[f.code])
  BY <1>4
<1> QED
  BY <1>3, <1>5 DEF Frames, f

(* The places of a step in the code.                                          *)
LEMMA Looks ==
  ASSUME NEW f \in Frames
  PROVE  Code[f.code][f.k].do = "look" <=> f.k = 1 \/ Again(f, 1)
<1>0. f.code \in Codes
  BY FrameCodes
<1>1. CASE f.code = "pass"
  BY SMTT(60), <1>1, FrameCodes DEF Code, Pass, Pt, Tk, Op, At, Again
<1>2. CASE f.code = "yield"
  BY SMTT(60), <1>2, FrameCodes DEF Code, Yield, Pt, Tk, Op, At, Again
<1>3. CASE f.code = "sleep"
  BY SMTT(60), <1>3, FrameCodes DEF Code, SleepCall, Pt, Tk, Op, At, Again
<1>4. CASE f.code = "tick"
  BY SMTT(60), <1>4, FrameCodes DEF Code, Tick, Pt, Tk, Op, At, Again
<1>5. CASE f.code = "tickproc"
  BY SMTT(60), <1>5, FrameCodes DEF Code, TickProc, Pt, Tk, Op, At, Again
<1> QED
  BY <1>0, <1>1, <1>2, <1>3, <1>4, <1>5 DEF Codes
LEMMA Clis ==
  ASSUME NEW f \in Frames
  PROVE  Code[f.code][f.k].do = "cli" <=> f.k = 2 \/ Again(f, 2)
<1>0. f.code \in Codes
  BY FrameCodes
<1>1. CASE f.code = "pass"
  BY SMTT(60), <1>1, FrameCodes DEF Code, Pass, Pt, Tk, Op, At, Again
<1>2. CASE f.code = "yield"
  BY SMTT(60), <1>2, FrameCodes DEF Code, Yield, Pt, Tk, Op, At, Again
<1>3. CASE f.code = "sleep"
  BY SMTT(60), <1>3, FrameCodes DEF Code, SleepCall, Pt, Tk, Op, At, Again
<1>4. CASE f.code = "tick"
  BY SMTT(60), <1>4, FrameCodes DEF Code, Tick, Pt, Tk, Op, At, Again
<1>5. CASE f.code = "tickproc"
  BY SMTT(60), <1>5, FrameCodes DEF Code, TickProc, Pt, Tk, Op, At, Again
<1> QED
  BY <1>0, <1>1, <1>2, <1>3, <1>4, <1>5 DEF Codes
LEMMA Xchgs ==
  ASSUME NEW f \in Frames
  PROVE  Code[f.code][f.k].do = "xchg" <=> f.k = 3 \/ Again(f, 3)
<1>0. f.code \in Codes
  BY FrameCodes
<1>1. CASE f.code = "pass"
  BY SMTT(60), <1>1, FrameCodes DEF Code, Pass, Pt, Tk, Op, At, Again
<1>2. CASE f.code = "yield"
  BY SMTT(60), <1>2, FrameCodes DEF Code, Yield, Pt, Tk, Op, At, Again
<1>3. CASE f.code = "sleep"
  BY SMTT(60), <1>3, FrameCodes DEF Code, SleepCall, Pt, Tk, Op, At, Again
<1>4. CASE f.code = "tick"
  BY SMTT(60), <1>4, FrameCodes DEF Code, Tick, Pt, Tk, Op, At, Again
<1>5. CASE f.code = "tickproc"
  BY SMTT(60), <1>5, FrameCodes DEF Code, TickProc, Pt, Tk, Op, At, Again
<1> QED
  BY <1>0, <1>1, <1>2, <1>3, <1>4, <1>5 DEF Codes
LEMMA Owns ==
  ASSUME NEW f \in Frames
  PROVE  Code[f.code][f.k].do = "own" <=> f.k = 4 \/ Again(f, 4)
<1>0. f.code \in Codes
  BY FrameCodes
<1>1. CASE f.code = "pass"
  BY SMTT(60), <1>1, FrameCodes DEF Code, Pass, Pt, Tk, Op, At, Again
<1>2. CASE f.code = "yield"
  BY SMTT(60), <1>2, FrameCodes DEF Code, Yield, Pt, Tk, Op, At, Again
<1>3. CASE f.code = "sleep"
  BY SMTT(60), <1>3, FrameCodes DEF Code, SleepCall, Pt, Tk, Op, At, Again
<1>4. CASE f.code = "tick"
  BY SMTT(60), <1>4, FrameCodes DEF Code, Tick, Pt, Tk, Op, At, Again
<1>5. CASE f.code = "tickproc"
  BY SMTT(60), <1>5, FrameCodes DEF Code, TickProc, Pt, Tk, Op, At, Again
<1> QED
  BY <1>0, <1>1, <1>2, <1>3, <1>4, <1>5 DEF Codes
LEMMA Disowns ==
  ASSUME NEW f \in Frames
  PROVE  Code[f.code][f.k].do = "disown" <=> Gives(f, 0)
<1>0. f.code \in Codes
  BY FrameCodes
<1>1. CASE f.code = "pass"
  BY SMTT(60), <1>1, FrameCodes DEF Code, Pass, Pt, Tk, Op, At, Gives
<1>2. CASE f.code = "yield"
  BY SMTT(60), <1>2, FrameCodes DEF Code, Yield, Pt, Tk, Op, At, Gives
<1>3. CASE f.code = "sleep"
  BY SMTT(60), <1>3, FrameCodes DEF Code, SleepCall, Pt, Tk, Op, At, Gives
<1>4. CASE f.code = "tick"
  BY SMTT(60), <1>4, FrameCodes DEF Code, Tick, Pt, Tk, Op, At, Gives
<1>5. CASE f.code = "tickproc"
  BY SMTT(60), <1>5, FrameCodes DEF Code, TickProc, Pt, Tk, Op, At, Gives
<1> QED
  BY <1>0, <1>1, <1>2, <1>3, <1>4, <1>5 DEF Codes
LEMMA Frees ==
  ASSUME NEW f \in Frames
  PROVE  Code[f.code][f.k].do = "free" <=> Gives(f, 1)
<1>0. f.code \in Codes
  BY FrameCodes
<1>1. CASE f.code = "pass"
  BY SMTT(60), <1>1, FrameCodes DEF Code, Pass, Pt, Tk, Op, At, Gives
<1>2. CASE f.code = "yield"
  BY SMTT(60), <1>2, FrameCodes DEF Code, Yield, Pt, Tk, Op, At, Gives
<1>3. CASE f.code = "sleep"
  BY SMTT(60), <1>3, FrameCodes DEF Code, SleepCall, Pt, Tk, Op, At, Gives
<1>4. CASE f.code = "tick"
  BY SMTT(60), <1>4, FrameCodes DEF Code, Tick, Pt, Tk, Op, At, Gives
<1>5. CASE f.code = "tickproc"
  BY SMTT(60), <1>5, FrameCodes DEF Code, TickProc, Pt, Tk, Op, At, Gives
<1> QED
  BY <1>0, <1>1, <1>2, <1>3, <1>4, <1>5 DEF Codes
LEMMA Popclis ==
  ASSUME NEW f \in Frames
  PROVE  Code[f.code][f.k].do = "popcli" <=> Gives(f, 2)
<1>0. f.code \in Codes
  BY FrameCodes
<1>1. CASE f.code = "pass"
  BY SMTT(60), <1>1, FrameCodes DEF Code, Pass, Pt, Tk, Op, At, Gives
<1>2. CASE f.code = "yield"
  BY SMTT(60), <1>2, FrameCodes DEF Code, Yield, Pt, Tk, Op, At, Gives
<1>3. CASE f.code = "sleep"
  BY SMTT(60), <1>3, FrameCodes DEF Code, SleepCall, Pt, Tk, Op, At, Gives
<1>4. CASE f.code = "tick"
  BY SMTT(60), <1>4, FrameCodes DEF Code, Tick, Pt, Tk, Op, At, Gives
<1>5. CASE f.code = "tickproc"
  BY SMTT(60), <1>5, FrameCodes DEF Code, TickProc, Pt, Tk, Op, At, Gives
<1> QED
  BY <1>0, <1>1, <1>2, <1>3, <1>4, <1>5 DEF Codes
LEMMA Others ==
  ASSUME NEW f \in Frames
  PROVE  /\ Code[f.code][f.k].do = "run" <=> At(f, "pass", 5, 5)
         /\ Code[f.code][f.k].do = "sti" <=> At(f, "pass", 9, 9)
         /\ Code[f.code][f.k].do = "sched" <=> At(f, "yield", 5, 5) \/ At(f, "sleep", 12, 12) \/ At(f, "tickproc", 19, 19)
         /\ Code[f.code][f.k].do = "resume" <=> At(f, "yield", 6, 6) \/ At(f, "sleep", 13, 13) \/ At(f, "tickproc", 20, 20)
         /\ Code[f.code][f.k].do = "iret" <=> At(f, "tick", 15, 15) \/ At(f, "tickproc", 24, 24)
<1>0. f.code \in Codes
  BY FrameCodes
<1>1. CASE f.code = "pass"
  BY SMTT(60), <1>1, FrameCodes DEF Code, Pass, Pt, Tk, Op, At
<1>2. CASE f.code = "yield"
  BY SMTT(60), <1>2, FrameCodes DEF Code, Yield, Pt, Tk, Op, At
<1>3. CASE f.code = "sleep"
  BY SMTT(60), <1>3, FrameCodes DEF Code, SleepCall, Pt, Tk, Op, At
<1>4. CASE f.code = "tick"
  BY SMTT(60), <1>4, FrameCodes DEF Code, Tick, Pt, Tk, Op, At
<1>5. CASE f.code = "tickproc"
  BY SMTT(60), <1>5, FrameCodes DEF Code, TickProc, Pt, Tk, Op, At
<1> QED
  BY <1>0, <1>1, <1>2, <1>3, <1>4, <1>5 DEF Codes
LEMMA LocksOf ==
  ASSUME NEW f \in Frames
  PROVE  Code[f.code][f.k].l = IF OfT(f) THEN "t" ELSE "pt"
<1>0. f.code \in Codes
  BY FrameCodes
<1>1. CASE f.code = "pass"
  BY SMTT(60), <1>1, FrameCodes DEF Code, Pass, Pt, Tk, Op, At, OfT
<1>2. CASE f.code = "yield"
  BY SMTT(60), <1>2, FrameCodes DEF Code, Yield, Pt, Tk, Op, At, OfT
<1>3. CASE f.code = "sleep"
  BY SMTT(60), <1>3, FrameCodes DEF Code, SleepCall, Pt, Tk, Op, At, OfT
<1>4. CASE f.code = "tick"
  BY SMTT(60), <1>4, FrameCodes DEF Code, Tick, Pt, Tk, Op, At, OfT
<1>5. CASE f.code = "tickproc"
  BY SMTT(60), <1>5, FrameCodes DEF Code, TickProc, Pt, Tk, Op, At, OfT
<1> QED
  BY <1>0, <1>1, <1>2, <1>3, <1>4, <1>5 DEF Codes

-----------------------------------------------------------------------------
(* Stacks *)

LEMMA Tailed ==
  ASSUME NEW t, NEW s, StackOK(t, s), s # <<>>
  PROVE  /\ Head(s) \in Frames /\ StackOK(t, Tail(s))
         /\ Tail(s) # <<>> => Rests(Head(Tail(s)))
         /\ t \in Cpu <=> Head(s).code \in {"pass", "tick"}
<1>1. s \in Seq(Frames) /\ Len(s) >= 1 /\ Head(s) = s[1] /\ Head(s) \in Frames
  BY DEF StackOK
<1>2. Tail(s) \in Seq(Frames) /\ Len(Tail(s)) = Len(s) - 1 /\ \A n \in 1..Len(Tail(s)) : Tail(s)[n] = s[n + 1]
  BY <1>1
<1>3. StackOK(t, Tail(s))
  BY <1>1, <1>2 DEF StackOK
<1>4. Tail(s) # <<>> => Head(Tail(s)) = s[2] /\ Len(s) >= 2
  BY <1>1, <1>2
<1> QED
  BY <1>1, <1>3, <1>4 DEF StackOK

LEMMA Pushed ==
  ASSUME NEW t, NEW u, StackOK(t, u), NEW g \in Frames, u # <<>> => Rests(Head(u)),
         t \in Cpu <=> g.code \in {"pass", "tick"}
  PROVE  StackOK(t, <<g>> \o u) /\ <<g>> \o u # <<>> /\ Head(<<g>> \o u) = g
<1> DEFINE s == <<g>> \o u
<1>1. u \in Seq(Frames) /\ <<g>> \in Seq(Frames)
  BY DEF StackOK
<1>2. /\ s \in Seq(Frames) /\ Len(s) = Len(u) + 1 /\ s[1] = g
      /\ \A n \in 2..Len(s) : s[n] = u[n - 1]
  BY <1>1
<1>3. \A n \in 2..Len(s) : n - 1 \in 1..Len(u)
  BY <1>1, <1>2
<1>4. Len(u) >= 1 => Rests(u[1])
  BY <1>1
<1> HIDE DEF s
<1>5. \A n \in 2..Len(s) : Rests(s[n])
  <2> SUFFICES ASSUME NEW n \in 2..Len(s) PROVE Rests(u[n - 1])
    BY <1>2
  <2>1. CASE n = 2
    BY <2>1, <1>3, <1>4
  <2>2. CASE n # 2
    BY <2>2, <1>3 DEF StackOK
  <2> QED
    BY <2>1, <2>2
<1>6. \A n \in 1..Len(s) : t \in Cpu <=> s[n].code \in {"pass", "tick"}
  BY SMTT(60), <1>2, <1>3 DEF StackOK
<1>7. s # <<>> /\ Head(s) = g
  BY <1>2
<1> QED
  BY <1>2, <1>5, <1>6, <1>7 DEF StackOK, s

(* A frame goes on to its next step, or is through and uncovers one at rest.  *)
LEMMA Advances ==
  ASSUME NEW t, NEW s, StackOK(t, s), s # <<>>
  PROVE  /\ StackOK(t, Advance(s))
         /\ Head(s).k < Len(Code[Head(s).code]) =>
              /\ Advance(s) # <<>>
              /\ Head(Advance(s)) = [Head(s) EXCEPT !.k = @ + 1]
         /\ Head(s).k = Len(Code[Head(s).code]) =>
              (Advance(s) # <<>> => Head(Advance(s)) \in Frames /\ Rests(Head(Advance(s))))
<1> DEFINE f == Head(s)
           g == [f EXCEPT !.k = @ + 1]
<1>1. /\ f \in Frames /\ StackOK(t, Tail(s)) /\ (Tail(s) # <<>> => Rests(Head(Tail(s))))
      /\ t \in Cpu <=> f.code \in {"pass", "tick"}
  BY ZenonT(90), Tailed
<1>2. CASE f.k = Len(Code[f.code])
  <2>1. Advance(s) = Tail(s)
    BY <1>2 DEF Advance
  <2>2. Advance(s) # <<>> => Head(Advance(s)) \in Frames
    BY ZenonT(90), <1>1, <2>1, Tailed
  <2> QED
    BY <1>1, <1>2, <2>1, <2>2
<1>3. CASE f.k # Len(Code[f.code])
  <2>1. Advance(s) = <<g>> \o Tail(s)
    BY <1>3 DEF Advance
  <2>2. g \in Frames /\ g.code = f.code
    <3>1. /\ f \in [code : Codes, k : 1..24, eflags : BOOLEAN]
          /\ f.k <= Len(Code[f.code]) /\ Len(Code[f.code]) \in Nat
      BY <1>1, CodeLengths DEF Frames, Codes
    <3>2. g = [code |-> f.code, k |-> f.k + 1, eflags |-> f.eflags]
      BY <3>1
    <3>3. f.code \in Codes /\ f.k + 1 \in Nat /\ f.eflags \in BOOLEAN /\ f.k + 1 >= 1 /\ f.k + 1 <= Len(Code[f.code])
      BY SMTT(60), <3>1, <1>3
    <3> QED
      BY <3>2, <3>3, FrameIs
  <2> HIDE DEF g
  <2>3. StackOK(t, <<g>> \o Tail(s)) /\ <<g>> \o Tail(s) # <<>> /\ Head(<<g>> \o Tail(s)) = g
    BY ZenonT(90), <1>1, <2>2, Pushed
  <2> QED
    BY <1>3, <2>1, <2>3 DEF g
<1> QED
  BY <1>2, <1>3

-----------------------------------------------------------------------------
(* Inside, as the model says it, is Held of the running frame.                *)

LEMMA Window ==
  ASSUME NEW S, NEW x, NEW y, NEW k \in Nat, NEW a \in Nat, NEW b \in Nat, 1 <= a, a < b,
         \A i \in 1..k : (S[i] = x <=> i = a) /\ (S[i] = y <=> i = b)
  PROVE  (\E i \in 1..(k - 1) : S[i] = x /\ \A j \in i..(k - 1) : S[j] # y) <=> k \in (a + 1)..b
  OBVIOUS

LEMMA Windows ==
  ASSUME NEW S, NEW x, NEW y, NEW k \in Nat, NEW a \in Nat, NEW b \in Nat, NEW d \in Nat, NEW e \in Nat,
         1 <= a, a < b, b < d, d < e,
         \A i \in 1..k : (S[i] = x <=> i = a \/ i = d) /\ (S[i] = y <=> i = b \/ i = e)
  PROVE  (\E i \in 1..(k - 1) : S[i] = x /\ \A j \in i..(k - 1) : S[j] # y)
         <=> k \in (a + 1)..b \/ k \in (d + 1)..e
  OBVIOUS

(* Where the locks are taken and let go.                                      *)
LEMMA PassLocks ==
  /\ \A i \in 1..9 : (Code["pass"][i] = Op("xchg", "pt") <=> i = 3)
                   /\ (Code["pass"][i] = Op("free", "pt") <=> i = 7)
  /\ \A i \in 1..9 : Code["pass"][i] # Op("xchg", "t")
  BY DEF Code, Pass, Pt, Tk, Op
LEMMA YieldLocks ==
  /\ \A i \in 1..9 : (Code["yield"][i] = Op("xchg", "pt") <=> i = 3)
                   /\ (Code["yield"][i] = Op("free", "pt") <=> i = 8)
  /\ \A i \in 1..9 : Code["yield"][i] # Op("xchg", "t")
  BY DEF Code, Yield, Pt, Tk, Op
LEMMA SleepLocks ==
  /\ \A i \in 1..23 : (Code["sleep"][i] = Op("xchg", "pt") <=> i = 7)
                   /\ (Code["sleep"][i] = Op("free", "pt") <=> i = 15)
  /\ \A i \in 1..23 : (Code["sleep"][i] = Op("xchg", "t") <=> i = 3 \/ i = 19)
                   /\ (Code["sleep"][i] = Op("free", "t") <=> i = 10 \/ i = 22)
  BY DEF Code, SleepCall, Pt, Tk, Op
LEMMA TickLocks ==
  /\ \A i \in 1..15 : (Code["tick"][i] = Op("xchg", "pt") <=> i = 7)
                   /\ (Code["tick"][i] = Op("free", "pt") <=> i = 10)
  /\ \A i \in 1..15 : (Code["tick"][i] = Op("xchg", "t") <=> i = 3)
                   /\ (Code["tick"][i] = Op("free", "t") <=> i = 13)
  BY DEF Code, Tick, Pt, Tk, Op
LEMMA TickProcLocks ==
  /\ \A i \in 1..24 : (Code["tickproc"][i] = Op("xchg", "pt") <=> i = 7 \/ i = 17)
                   /\ (Code["tickproc"][i] = Op("free", "pt") <=> i = 10 \/ i = 22)
  /\ \A i \in 1..24 : (Code["tickproc"][i] = Op("xchg", "t") <=> i = 3)
                   /\ (Code["tickproc"][i] = Op("free", "t") <=> i = 13)
  BY DEF Code, TickProc, Pt, Tk, Op

LEMMA HeldIs ==
  ASSUME NEW f \in Frames, NEW l \in SpinLock
  PROVE  (\E i \in 1..(f.k - 1) : /\ Code[f.code][i] = Op("xchg", l)
                                  /\ \A j \in i..(f.k - 1) : Code[f.code][j] # Op("free", l))
         <=> Held(f, l)
<1> DEFINE In == \E i \in 1..(f.k - 1) : /\ Code[f.code][i] = Op("xchg", l)
                                        /\ \A j \in i..(f.k - 1) : Code[f.code][j] # Op("free", l)
<1> SUFFICES In <=> Held(f, l)
  OBVIOUS
<1>1. f.code \in Codes /\ f.k \in 1..24
  BY FrameCodes
<1>2. CASE f.code = "pass"
  <2>1. f.k \in 1..9
    BY <1>2, FrameCodes
  <2>2. l = "pt" => (In <=> f.k \in (3 + 1)..7)
    BY <1>2, <2>1, PassLocks, Window
  <2>3. l = "t" => ~In
    BY <1>2, <2>1, PassLocks
  <2> HIDE DEF In
  <2> QED
    BY <1>2, <2>1, <2>2, <2>3 DEF Held, At, SpinLock
<1>3. CASE f.code = "yield"
  <2>1. f.k \in 1..9
    BY <1>3, FrameCodes
  <2>2. l = "pt" => (In <=> f.k \in (3 + 1)..8)
    BY <1>3, <2>1, YieldLocks, Window
  <2>3. l = "t" => ~In
    BY <1>3, <2>1, YieldLocks
  <2> HIDE DEF In
  <2> QED
    BY <1>3, <2>1, <2>2, <2>3 DEF Held, At, SpinLock
<1>4. CASE f.code = "sleep"
  <2>1. f.k \in 1..23
    BY <1>4, FrameCodes
  <2>2. l = "pt" => (In <=> f.k \in (7 + 1)..15)
    BY <1>4, <2>1, SleepLocks, Window
  <2>3. l = "t" => (In <=> f.k \in (3 + 1)..10 \/ f.k \in (19 + 1)..22)
    BY <1>4, <2>1, SleepLocks, Windows
  <2> HIDE DEF In
  <2> QED
    BY <1>4, <2>1, <2>2, <2>3 DEF Held, At, SpinLock
<1>5. CASE f.code = "tick"
  <2>1. f.k \in 1..15
    BY <1>5, FrameCodes
  <2>2. l = "pt" => (In <=> f.k \in (7 + 1)..10)
    BY <1>5, <2>1, TickLocks, Window
  <2>3. l = "t" => (In <=> f.k \in (3 + 1)..13)
    BY <1>5, <2>1, TickLocks, Window
  <2> HIDE DEF In
  <2> QED
    BY <1>5, <2>1, <2>2, <2>3 DEF Held, At, SpinLock
<1>6. CASE f.code = "tickproc"
  <2>1. f.k \in 1..24
    BY <1>6, FrameCodes
  <2>2. l = "pt" => (In <=> f.k \in (7 + 1)..10 \/ f.k \in (17 + 1)..22)
    BY <1>6, <2>1, TickProcLocks, Windows
  <2>3. l = "t" => (In <=> f.k \in (3 + 1)..13)
    BY <1>6, <2>1, TickProcLocks, Window
  <2> HIDE DEF In
  <2> QED
    BY <1>6, <2>1, <2>2, <2>3 DEF Held, At, SpinLock
<1> QED
  BY <1>1, <1>2, <1>3, <1>4, <1>5, <1>6 DEF Codes

LEMMA InsideIs ==
  ASSUME NEW c \in Cpu, NEW l \in SpinLock, StackOK(On(c), stack[On(c)])
  PROVE  Inside(c, l) <=> HeldBy(stack[On(c)], l)
<1> DEFINE s == stack[On(c)]
<1>1. s \in Seq(Frames) /\ \A n \in 2..Len(s) : Rests(s[n])
  BY DEF StackOK
<1>2. \A n \in DOMAIN s : s[n] \in Frames
  BY <1>1
<1>3. Inside(c, l) <=> \E n \in DOMAIN s : Held(s[n], l)
  BY <1>2, HeldIs DEF Inside
<1>4. \A n \in 2..Len(s) : ~Held(s[n], l)
  <2>1. \A f \in Frames : Rests(f) => ~Held(f, l)
    BY FrameCodes DEF Rests, Held, At, Handles
  <2> QED
    BY <1>1, <2>1
<1>5. s # <<>> <=> 1 \in DOMAIN s
  BY <1>1
<1>6. s # <<>> => Head(s) = s[1]
  BY <1>1
<1>7. \A n \in DOMAIN s : n = 1 \/ n \in 2..Len(s)
  BY <1>1
<1> QED
  BY <1>3, <1>4, <1>5, <1>6, <1>7 DEF HeldBy

-----------------------------------------------------------------------------
(* A step of the thread on processor c that stays there                       *)

LEMMA OwnedIsHeld ==
  ASSUME NEW s, NEW l
  PROVE  OwnedBy(s, l) => HeldBy(s, l)
  BY DEF OwnedBy, HeldBy, Owned, Held, At

LEMMA LocalStep ==
  ASSUME SpinInv, NEW c \in Cpu, NEW s2, NEW p2 \in Processor,
         stack' = [stack EXCEPT ![On(c)] = s2],
         cpu' \in [Cpu -> Processor], \A d \in Cpu : cpu'[d] = IF d = c THEN p2 ELSE cpu[d], p2.runs = On(c),
         UNCHANGED <<saved, ready, died>>,
         lk' \in [SpinLock -> Lock],
         StackOK(On(c), s2), SavedOK(s2, saved[On(c)]), OnOK(s2, p2),
         \A l \in SpinLock :
           /\ HeldBy(s2, l) /\ ~HeldBy(stack[On(c)], l) => ~lk[l].locked
           /\ lk'[l].locked <=> HeldBy(s2, l) \/ (lk[l].locked /\ ~HeldBy(stack[On(c)], l))
           /\ lk'[l].cpu = IF OwnedBy(s2, l) THEN c
                           ELSE IF OwnedBy(stack[On(c)], l) THEN None ELSE lk[l].cpu
  PROVE  SpinInv'
<1> DEFINE t == On(c)
<1>0. /\ Typed /\ Threads /\ Placed /\ Processors /\ Locks
      /\ cpu \in [Cpu -> Processor] /\ cpu' \in [Cpu -> Processor]
      /\ DOMAIN stack = Thread /\ t \in Thread
  BY DEF SpinInv, Typed, Placed, On, Processor, Thread
<1>1. \A d \in Cpu : On(d)' = On(d)
  BY <1>0 DEF On
<1>2. \A d \in Cpu : stack'[On(d)] = IF d = c THEN s2 ELSE stack[On(d)]
  BY <1>0 DEF Placed, On, Processor
<1>3. \A d \in Cpu : cpu'[d] = IF d = c THEN p2 ELSE cpu[d]
  BY <1>0
<1>4. Typed'
  BY <1>0 DEF Typed
<1>5. Threads'
  <2> SUFFICES ASSUME NEW u \in Thread
               PROVE  /\ StackOK(u, stack'[u]) /\ SavedOK(stack'[u], saved[u])
                      /\ (\A d \in Cpu : On(d) # u) => Off(u, stack'[u])
    BY <1>1 DEF Threads, StackOK, SavedOK, Off
  <2>1. CASE u = t
    BY <2>1, <1>0
  <2>2. CASE u # t
    BY <2>2, <1>0 DEF Threads
  <2> QED
    BY <2>1, <2>2
<1>6. Placed'
  BY <1>0, <1>1 DEF Placed
<1>7. Processors'
  <2> SUFFICES ASSUME NEW d \in Cpu PROVE OnOK(stack'[On(d)], cpu'[d])
    BY <1>1 DEF Processors, OnOK
  <2> QED
    BY <1>0, <1>2, <1>3 DEF Processors
<1>8. Locks'
  <2> SUFFICES ASSUME NEW l \in SpinLock
               PROVE  /\ lk'[l].locked <=> \E d \in Cpu : HeldBy(stack'[On(d)], l)
                      /\ \A d, e \in Cpu : HeldBy(stack'[On(d)], l) /\ HeldBy(stack'[On(e)], l) => d = e
                      /\ \A d \in Cpu : lk'[l].cpu = d <=> OwnedBy(stack'[On(d)], l)
    BY <1>1 DEF Locks, HeldBy, OwnedBy
  <2>1. /\ lk[l].locked <=> \E d \in Cpu : HeldBy(stack[On(d)], l)
        /\ \A d, e \in Cpu : HeldBy(stack[On(d)], l) /\ HeldBy(stack[On(e)], l) => d = e
        /\ \A d \in Cpu : lk[l].cpu = d <=> OwnedBy(stack[On(d)], l)
    BY <1>0 DEF Locks
  <2>2. /\ \A d \in Cpu : HeldBy(stack'[On(d)], l) <=> IF d = c THEN HeldBy(s2, l) ELSE HeldBy(stack[On(d)], l)
        /\ \A d \in Cpu : OwnedBy(stack'[On(d)], l) <=> IF d = c THEN OwnedBy(s2, l) ELSE OwnedBy(stack[On(d)], l)
    BY <1>2
  <2>3. /\ OwnedBy(s2, l) => HeldBy(s2, l)
        /\ \A d \in Cpu : OwnedBy(stack[On(d)], l) => HeldBy(stack[On(d)], l)
    BY OwnedIsHeld
  <2>4. /\ HeldBy(s2, l) /\ ~HeldBy(stack[On(c)], l) => ~lk[l].locked
        /\ lk'[l].locked <=> HeldBy(s2, l) \/ (lk[l].locked /\ ~HeldBy(stack[On(c)], l))
        /\ lk'[l].cpu = IF OwnedBy(s2, l) THEN c
                        ELSE IF OwnedBy(stack[On(c)], l) THEN None ELSE lk[l].cpu
    OBVIOUS
  <2>5. lk'[l].locked <=> \E d \in Cpu : HeldBy(stack'[On(d)], l)
    BY <2>1, <2>2, <2>4
  <2>6. \A d, e \in Cpu : HeldBy(stack'[On(d)], l) /\ HeldBy(stack'[On(e)], l) => d = e
    BY <2>1, <2>2, <2>4
  <2>7. \A d \in Cpu : lk'[l].cpu = d <=> OwnedBy(stack'[On(d)], l)
    BY <2>1, <2>2, <2>3, <2>4, SpinAssumption
  <2> QED
    BY <2>5, <2>6, <2>7
<1> QED
  BY <1>4, <1>5, <1>6, <1>7, <1>8 DEF SpinInv

(* One that leaves the locks alone.                                           *)
LEMMA QuietStep ==
  ASSUME SpinInv, NEW c \in Cpu, NEW s2, NEW p2 \in Processor,
         stack' = [stack EXCEPT ![On(c)] = s2],
         cpu' \in [Cpu -> Processor], \A d \in Cpu : cpu'[d] = IF d = c THEN p2 ELSE cpu[d], p2.runs = On(c),
         UNCHANGED <<lk, saved, ready, died>>,
         StackOK(On(c), s2), SavedOK(s2, saved[On(c)]), OnOK(s2, p2),
         \A l \in SpinLock : /\ HeldBy(s2, l) <=> HeldBy(stack[On(c)], l)
                             /\ OwnedBy(s2, l) <=> OwnedBy(stack[On(c)], l)
  PROVE  SpinInv'
<1>1. ASSUME NEW l \in SpinLock
      PROVE  /\ HeldBy(s2, l) /\ ~HeldBy(stack[On(c)], l) => ~lk[l].locked
             /\ lk[l].locked <=> HeldBy(s2, l) \/ (lk[l].locked /\ ~HeldBy(stack[On(c)], l))
             /\ lk[l].cpu = IF OwnedBy(s2, l) THEN c
                            ELSE IF OwnedBy(stack[On(c)], l) THEN None ELSE lk[l].cpu
  <2>1. HeldBy(stack[On(c)], l) => lk[l].locked
    BY DEF SpinInv, Locks
  <2>2. OwnedBy(stack[On(c)], l) => lk[l].cpu = c
    BY DEF SpinInv, Locks
  <2> QED
    BY <2>1, <2>2
<1>2. lk' = lk /\ lk \in [SpinLock -> Lock]
  BY DEF SpinInv, Typed
<1> QED
  BY ZenonT(90), <1>1, <1>2, LocalStep

(* What is known of the running thread.                                       *)
LEMMA Running ==
  ASSUME SpinInv, NEW c \in Cpu
  PROVE  /\ On(c) \in Thread /\ cpu[c] \in Processor /\ cpu[c].runs = On(c)
         /\ StackOK(On(c), stack[On(c)]) /\ SavedOK(stack[On(c)], saved[On(c)]) /\ OnOK(stack[On(c)], cpu[c])
         /\ On(c) \in Cpu => On(c) = c
         /\ stack[On(c)] # <<>> => Top(c) \in Frames
         /\ cpu \in [Cpu -> Processor] /\ lk \in [SpinLock -> Lock]
<1>1. cpu \in [Cpu -> Processor] /\ lk \in [SpinLock -> Lock]
  BY DEF SpinInv, Typed
<1>2. On(c) \in Kproc \cup {c}
  BY DEF SpinInv, Placed
<1>3. cpu[c].runs = On(c) /\ On(c) \in Thread /\ (On(c) \in Cpu => On(c) = c)
  BY <1>2, SpinAssumption DEF On, Thread
<1>4. StackOK(On(c), stack[On(c)]) /\ SavedOK(stack[On(c)], saved[On(c)])
  BY <1>3 DEF SpinInv, Threads
<1>5. OnOK(stack[On(c)], cpu[c])
  BY DEF SpinInv, Processors
<1>6. stack[On(c)] # <<>> => Top(c) \in Frames
  BY ZenonT(90), <1>4, Tailed DEF Top
<1> QED
  BY <1>1, <1>3, <1>4, <1>5, <1>6

-----------------------------------------------------------------------------
(* The steps *)

LEMMA Stepping ==
  ASSUME SpinInv, NEW c \in Cpu, stack[On(c)] # <<>>
  PROVE  LET f == Top(c)
             s2 == Advance(stack[On(c)])
         IN  /\ StackOK(On(c), s2)
             /\ f.k < Len(Code[f.code]) =>
                  /\ s2 # <<>> /\ Head(s2).code = f.code
                  /\ Head(s2).k = f.k + 1 /\ Head(s2).eflags = f.eflags
             /\ f.k = Len(Code[f.code]) /\ s2 # <<>> => Head(s2) \in Frames /\ Rests(Head(s2))
<1>1. StackOK(On(c), stack[On(c)]) /\ Top(c) \in Frames /\ Top(c) = Head(stack[On(c)])
  BY Running DEF Top
<1>2. Top(c) \in [code : Codes, k : 1..24, eflags : BOOLEAN]
  BY <1>1 DEF Frames
<1>3. /\ [Top(c) EXCEPT !.k = @ + 1].code = Top(c).code
      /\ [Top(c) EXCEPT !.k = @ + 1].k = Top(c).k + 1
      /\ [Top(c) EXCEPT !.k = @ + 1].eflags = Top(c).eflags
  BY <1>2
<1> QED
  BY ZenonT(90), <1>1, <1>3, Advances

(* The end of the code of a frame.                                            *)
LEMMA Ends ==
  ASSUME NEW f \in Frames
  PROVE  f.k < Len(Code[f.code]) <=>
           ~(At(f, "pass", 9, 9) \/ At(f, "yield", 9, 9) \/ At(f, "sleep", 23, 23)
             \/ At(f, "tick", 15, 15) \/ At(f, "tickproc", 24, 24))
<1>1. f.code \in Codes /\ f.k \in 1..24
  BY FrameCodes
<1>2. CASE f.code = "pass"
  BY <1>1, <1>2, FrameCodes, CodeLengths DEF At
<1>3. CASE f.code = "yield"
  BY <1>1, <1>3, FrameCodes, CodeLengths DEF At
<1>4. CASE f.code = "sleep"
  BY <1>1, <1>4, FrameCodes, CodeLengths DEF At
<1>5. CASE f.code = "tick"
  BY <1>1, <1>5, FrameCodes, CodeLengths DEF At
<1>6. CASE f.code = "tickproc"
  BY <1>1, <1>6, FrameCodes, CodeLengths DEF At
<1> QED
  BY <1>1, <1>2, <1>3, <1>4, <1>5, <1>6 DEF Codes

LEMMA EndIs ==
  ASSUME NEW f \in Frames, ~(f.k < Len(Code[f.code]))
  PROVE  f.k = Len(Code[f.code])
  BY SMTT(60), FrameCodes, CodeLengths DEF Frames, Codes

(* A thread whose frame is at rest, or that has none, once interrupts are on. *)
LEMMA Resting ==
  ASSUME NEW s, NEW p, s # <<>> => Head(s) \in Frames /\ Rests(Head(s)), p.flag = TRUE, p.ncli = 0
  PROVE  /\ OnOK(s, p)
         /\ \A b : SavedOK(s, b)
         /\ \A l \in SpinLock : ~HeldBy(s, l) /\ ~OwnedBy(s, l)
<1>1. CASE s = <<>>
  BY <1>1 DEF OnOK, SavedOK, HeldBy, OwnedBy
<1>2. CASE s # <<>>
  <2> DEFINE f == Head(s)
  <2>1. f \in Frames /\ Rests(f)
    BY <1>2
  <2> HIDE DEF f
  <2>2. f.code \in Codes /\ f.k \in 1..24 /\ f.eflags \in BOOLEAN
    BY <2>1, FrameCodes
  <2>3. Shallow(f) /\ Depth(f) = 0
    BY SMTT(60), <2>1, <2>2 DEF Rests, Shallow, Depth, Deep, At, Handles, Codes
  <2>4. OnOK(s, p)
    BY SMTT(60), <1>2, <2>1, <2>2, <2>3 DEF OnOK, f, Rests, At, Handles, Codes
  <2>5. \A b : SavedOK(s, b)
    BY <2>1, <2>2 DEF SavedOK, f, Rests, At, Handles
  <2>6. \A l \in SpinLock : ~HeldBy(s, l) /\ ~OwnedBy(s, l)
    BY <2>1, <2>2 DEF f, Rests, At, Handles, HeldBy, OwnedBy, Held, Owned
  <2> QED
    BY <2>4, <2>5, <2>6
<1> QED
  BY <1>1, <1>2

LEMMA LookInv ==
  ASSUME SpinInv, NEW c \in Cpu, Look(c)
  PROVE  SpinInv'
<1> DEFINE s == stack[On(c)]
           f == Top(c)
           g == [code |-> f.code, k |-> f.k + 1, eflags |-> cpu[c].flag]
           s2 == <<g>> \o Tail(s)
<1>1. /\ s # <<>> /\ f \in Frames /\ f = Head(s) /\ Code[f.code][f.k].do = "look"
      /\ On(c) \in Thread /\ cpu[c] \in Processor /\ cpu[c].runs = On(c)
      /\ StackOK(On(c), s) /\ OnOK(s, cpu[c]) /\ cpu \in [Cpu -> Processor]
  BY Running DEF Look, Next1, Top
<1>2. f \in [code : Codes, k : 1..24, eflags : BOOLEAN]
  BY <1>1 DEF Frames
<1>3. f.k < Len(Code[f.code]) /\ Len(Code[f.code]) \in Nat
  BY SMTT(60), <1>1, <1>2, Looks, Ends, CodeLengths DEF Codes, At, Again
<1>4. cpu[c].flag \in BOOLEAN
  BY <1>1 DEF Processor
<1>6. g \in Frames /\ g.code = f.code /\ g.k = f.k + 1 /\ g.eflags = cpu[c].flag
  <2> HIDE DEF f, g
  <2>1. f.code \in Codes /\ f.k + 1 \in Nat /\ f.k + 1 >= 1 /\ f.k + 1 <= Len(Code[f.code])
    BY SMTT(60), <1>2, <1>3
  <2>2. g \in Frames
    BY <2>1, <1>4, FrameIs DEF g
  <2> QED
    BY <2>2 DEF g
<1>8. stack' = [stack EXCEPT ![On(c)] = s2] /\ UNCHANGED <<cpu, lk, saved, ready, died>>
  BY DEF Look
<1> HIDE DEF g
<1>7. StackOK(On(c), s2) /\ s2 # <<>> /\ Head(s2) = g
  <2> HIDE DEF f, s
  <2>1. StackOK(On(c), Tail(s)) /\ (Tail(s) # <<>> => Rests(Head(Tail(s)))) /\ (On(c) \in Cpu <=> g.code \in {"pass", "tick"})
    BY ZenonT(90), <1>1, <1>6, Tailed
  <2> QED
    BY ZenonT(90), <1>6, <2>1, Pushed
<1> HIDE DEF s2
<1> HIDE DEF f, s
<1>5. f.k = 1 \/ Again(f, 1)
  BY <1>1, Looks
<1>9. OnOK(s2, cpu[c])
  <2>1. CASE f.k = 1
    BY SMTT(60), <2>1, <1>1, <1>2, <1>4, <1>6, <1>7 DEF OnOK, At, Handles, Depth, Deep, Shallow, Codes
  <2>2. CASE At(f, "sleep", 5, 5)
    BY SMTT(60), <2>2, <1>1, <1>2, <1>4, <1>6, <1>7 DEF OnOK, At, Handles, Depth, Deep, Shallow, Codes
  <2>3. CASE At(f, "sleep", 17, 17)
    BY SMTT(60), <2>3, <1>1, <1>2, <1>4, <1>6, <1>7 DEF OnOK, At, Handles, Depth, Deep, Shallow, Codes
  <2>4. CASE At(f, "tick", 5, 5)
    BY SMTT(60), <2>4, <1>1, <1>2, <1>4, <1>6, <1>7 DEF OnOK, At, Handles, Depth, Deep, Shallow, Codes
  <2>5. CASE At(f, "tickproc", 5, 5)
    BY SMTT(60), <2>5, <1>1, <1>2, <1>4, <1>6, <1>7 DEF OnOK, At, Handles, Depth, Deep, Shallow, Codes
  <2>6. CASE At(f, "tickproc", 15, 15)
    BY SMTT(60), <2>6, <1>1, <1>2, <1>4, <1>6, <1>7 DEF OnOK, At, Handles, Depth, Deep, Shallow, Codes
  <2> QED
    BY <1>5, <2>1, <2>2, <2>3, <2>4, <2>5, <2>6 DEF Again
<1>10. SavedOK(s2, saved[On(c)])
  BY <1>1, <1>5, <1>6, <1>7 DEF SavedOK, At, Again, Codes
<1>11. \A l \in SpinLock : (HeldBy(s2, l) <=> HeldBy(s, l)) /\ (OwnedBy(s2, l) <=> OwnedBy(s, l))
  BY SMTT(60), <1>1, <1>5, <1>6, <1>7 DEF HeldBy, OwnedBy, Held, Owned, At, Again, Codes
<1> QED
  BY ZenonT(90), <1>1, <1>7, <1>8, <1>9, <1>10, <1>11, QuietStep DEF s

(* What holds when the running thread of c is at a step do.                   *)
LEMMA Now ==
  ASSUME SpinInv, NEW c \in Cpu, NEW do, Next1(c, do)
  PROVE  LET s == stack[On(c)]
             f == Top(c)
         IN  /\ s # <<>> /\ f = Head(s) /\ Code[f.code][f.k].do = do
             /\ f \in Frames /\ f.code \in Codes /\ f.k \in 1..24 /\ f.eflags \in BOOLEAN
             /\ On(c) \in Thread /\ cpu[c] \in Processor /\ cpu[c].runs = On(c)
             /\ StackOK(On(c), s) /\ SavedOK(s, saved[On(c)]) /\ OnOK(s, cpu[c])
             /\ On(c) \in Cpu <=> f.code \in {"pass", "tick"}
             /\ L(c) = Code[f.code][f.k].l
<1>1. stack[On(c)] # <<>> /\ Top(c) = Head(stack[On(c)]) /\ Code[Top(c).code][Top(c).k].do = do
  BY DEF Next1, Top
<1>2. /\ Top(c) \in Frames
      /\ On(c) \in Thread /\ cpu[c] \in Processor /\ cpu[c].runs = On(c)
      /\ StackOK(On(c), stack[On(c)]) /\ SavedOK(stack[On(c)], saved[On(c)]) /\ OnOK(stack[On(c)], cpu[c])
  BY <1>1, Running
<1>3. Top(c).code \in Codes /\ Top(c).k \in 1..24 /\ Top(c).eflags \in BOOLEAN
  BY <1>2, FrameCodes
<1>4. On(c) \in Cpu <=> Top(c).code \in {"pass", "tick"}
  BY ZenonT(90), <1>1, <1>2, Tailed
<1> QED
  BY <1>1, <1>2, <1>3, <1>4 DEF L

LEMMA CliInv ==
  ASSUME SpinInv, NEW c \in Cpu, Cli(c)
  PROVE  SpinInv'
<1> DEFINE s == stack[On(c)]
           f == Top(c)
           s2 == Advance(s)
           g == Head(s2)
           p == cpu[c]
           p2 == cpu'[c]
<1>0. Next1(c, "cli")
  BY DEF Cli
<1>1. /\ s # <<>> /\ f = Head(s) /\ f \in Frames /\ f.code \in Codes /\ f.k \in 1..24 /\ f.eflags \in BOOLEAN
      /\ On(c) \in Thread /\ p \in Processor /\ p.runs = On(c)
      /\ OnOK(s, p) /\ L(c) = Code[f.code][f.k].l
  BY <1>0, Now
<1>2. f.k = 2 \/ Again(f, 2)
  BY <1>0, <1>1, Now, Clis
<1>3. L(c) = IF OfT(f) THEN "t" ELSE "pt"
  <2> HIDE DEF f
  <2> QED
    BY <1>1, LocksOf
<1>13. L(c) \in SpinLock
  BY <1>3 DEF SpinLock
<1>14. ~Owned(f, L(c))
  <2> HIDE DEF f
  <2>1. CASE f.k = 2
    BY SMTT(60), <2>1, <1>1, <1>3 DEF Owned, At, OfT, Codes
  <2>2. CASE At(f, "sleep", 6, 6)
    BY SMTT(60), <2>2, <1>1, <1>3 DEF Owned, At, OfT, Codes
  <2>3. CASE At(f, "sleep", 18, 18)
    BY SMTT(60), <2>3, <1>1, <1>3 DEF Owned, At, OfT, Codes
  <2>4. CASE At(f, "tick", 6, 6)
    BY SMTT(60), <2>4, <1>1, <1>3 DEF Owned, At, OfT, Codes
  <2>5. CASE At(f, "tickproc", 6, 6)
    BY SMTT(60), <2>5, <1>1, <1>3 DEF Owned, At, OfT, Codes
  <2>6. CASE At(f, "tickproc", 16, 16)
    BY SMTT(60), <2>6, <1>1, <1>3 DEF Owned, At, OfT, Codes
  <2> QED
    BY <1>2, <2>1, <2>2, <2>3, <2>4, <2>5, <2>6 DEF Again
<1>4. ~Holding(c, L(c))
  <2>1. lk[L(c)].cpu = c <=> OwnedBy(s, L(c))
    BY <1>13 DEF SpinInv, Locks
  <2> QED
    BY <1>1, <1>14, <2>1 DEF Holding, OwnedBy
<1>5. f.k < Len(Code[f.code])
  BY <1>1, <1>2, Ends DEF At, Again
<1>6. /\ StackOK(On(c), s2) /\ s2 # <<>>
      /\ g.code = f.code /\ g.k = f.k + 1 /\ g.eflags = f.eflags
  BY <1>1, <1>5, Stepping
<1>7. /\ stack' = [stack EXCEPT ![On(c)] = s2] /\ UNCHANGED <<lk, saved, ready, died>>
      /\ cpu' = [cpu EXCEPT ![c].flag = FALSE, ![c].ncli = @ + 1,
                            ![c].intena = IF cpu[c].ncli = 0 THEN Top(c).eflags ELSE @]
  BY ZenonT(90), <1>4 DEF Cli, Step
<1>8. /\ p2 \in Processor /\ p2.runs = On(c) /\ p2.ncli = p.ncli + 1 /\ p2.flag = FALSE
      /\ p2.intena = IF p.ncli = 0 THEN f.eflags ELSE p.intena
      /\ cpu' \in [Cpu -> Processor] /\ \A d \in Cpu : cpu'[d] = IF d = c THEN p2 ELSE cpu[d]
  <2>1. cpu \in [Cpu -> Processor]
    BY SMTT(60), Running
  <2> HIDE DEF f
  <2> QED
    BY <1>1, <1>7, <2>1 DEF Processor, f
<1> HIDE DEF s, f, s2, g, p, p2
<1>9. OnOK(s2, p2)
  <2>1. CASE f.k = 2
    BY SMTT(60), <2>1, <1>1, <1>6, <1>8 DEF OnOK, At, Handles, Depth, Deep, Shallow, Codes, f, g
  <2>2. CASE At(f, "sleep", 6, 6)
    BY SMTT(60), <2>2, <1>1, <1>6, <1>8 DEF OnOK, At, Handles, Depth, Deep, Shallow, Codes, f, g
  <2>3. CASE At(f, "sleep", 18, 18)
    BY SMTT(60), <2>3, <1>1, <1>6, <1>8 DEF OnOK, At, Handles, Depth, Deep, Shallow, Codes, f, g
  <2>4. CASE At(f, "tick", 6, 6)
    BY SMTT(60), <2>4, <1>1, <1>6, <1>8 DEF OnOK, At, Handles, Depth, Deep, Shallow, Codes, f, g
  <2>5. CASE At(f, "tickproc", 6, 6)
    BY SMTT(60), <2>5, <1>1, <1>6, <1>8 DEF OnOK, At, Handles, Depth, Deep, Shallow, Codes, f, g
  <2>6. CASE At(f, "tickproc", 16, 16)
    BY SMTT(60), <2>6, <1>1, <1>6, <1>8 DEF OnOK, At, Handles, Depth, Deep, Shallow, Codes, f, g
  <2> QED
    BY <1>2, <2>1, <2>2, <2>3, <2>4, <2>5, <2>6 DEF Again
<1>10. SavedOK(s2, saved[On(c)])
  BY <1>1, <1>2, <1>6 DEF SavedOK, At, Again, g
<1>11. \A l \in SpinLock : (HeldBy(s2, l) <=> HeldBy(s, l)) /\ (OwnedBy(s2, l) <=> OwnedBy(s, l))
  BY SMTT(60), <1>1, <1>2, <1>6 DEF HeldBy, OwnedBy, Held, Owned, At, Again, OfT, Codes, g
<1> QED
  BY ZenonT(90), <1>1, <1>6, <1>7, <1>8, <1>9, <1>10, <1>11, QuietStep DEF s

LEMMA XchgInv ==
  ASSUME SpinInv, NEW c \in Cpu, Xchg(c)
  PROVE  SpinInv'
<1> DEFINE s == stack[On(c)]
           f == Top(c)
           s2 == Advance(s)
           g == Head(s2)
           p == cpu[c]
<1>0. Next1(c, "xchg")
  BY DEF Xchg
<1>1. /\ s # <<>> /\ f = Head(s) /\ f \in Frames /\ f.code \in Codes /\ f.k \in 1..24 /\ f.eflags \in BOOLEAN
      /\ On(c) \in Thread /\ p \in Processor /\ p.runs = On(c)
      /\ OnOK(s, p) /\ L(c) = Code[f.code][f.k].l
  BY SMTT(60), <1>0, Now
<1>2. f.k = 3 \/ Again(f, 3)
  BY SMTT(60), <1>0, <1>1, Now, Xchgs
<1>3. L(c) = IF OfT(f) THEN "t" ELSE "pt"
  <2> HIDE DEF f
  <2> QED
    BY <1>1, LocksOf
<1>13. L(c) \in SpinLock
  BY <1>3 DEF SpinLock
<1>5. f.k < Len(Code[f.code])
  BY SMTT(60), <1>1, <1>2, Ends DEF At, Again
<1>6. /\ StackOK(On(c), s2) /\ s2 # <<>>
      /\ g.code = f.code /\ g.k = f.k + 1 /\ g.eflags = f.eflags
  BY <1>1, <1>5, Stepping
<1>7. /\ stack' = [stack EXCEPT ![On(c)] = s2] /\ UNCHANGED <<cpu, saved, ready, died>>
      /\ lk' = [lk EXCEPT ![L(c)].locked = TRUE]
  BY DEF Xchg, Step
<1>8. cpu' \in [Cpu -> Processor] /\ (\A d \in Cpu : cpu'[d] = IF d = c THEN p ELSE cpu[d]) /\ lk \in [SpinLock -> Lock]
  BY <1>7, Running
<1> HIDE DEF s, f, s2, g, p
<1>9. OnOK(s2, p)
  <2>1. CASE f.k = 3
    BY SMTT(60), <2>1, <1>1, <1>6 DEF OnOK, At, Handles, Depth, Deep, Shallow, Codes, f, g
  <2>2. CASE At(f, "sleep", 7, 7)
    BY SMTT(60), <2>2, <1>1, <1>6 DEF OnOK, At, Handles, Depth, Deep, Shallow, Codes, f, g
  <2>3. CASE At(f, "sleep", 19, 19)
    BY SMTT(60), <2>3, <1>1, <1>6 DEF OnOK, At, Handles, Depth, Deep, Shallow, Codes, f, g
  <2>4. CASE At(f, "tick", 7, 7)
    BY SMTT(60), <2>4, <1>1, <1>6 DEF OnOK, At, Handles, Depth, Deep, Shallow, Codes, f, g
  <2>5. CASE At(f, "tickproc", 7, 7)
    BY SMTT(60), <2>5, <1>1, <1>6 DEF OnOK, At, Handles, Depth, Deep, Shallow, Codes, f, g
  <2>6. CASE At(f, "tickproc", 17, 17)
    BY SMTT(60), <2>6, <1>1, <1>6 DEF OnOK, At, Handles, Depth, Deep, Shallow, Codes, f, g
  <2> QED
    BY <1>2, <2>1, <2>2, <2>3, <2>4, <2>5, <2>6 DEF Again
<1>10. SavedOK(s2, saved[On(c)])
  BY <1>1, <1>2, <1>6 DEF SavedOK, At, Again, g
<1>11. \A l \in SpinLock : HeldBy(s2, l) <=> HeldBy(s, l) \/ l = L(c)
  BY SMTT(60), <1>1, <1>2, <1>3, <1>6 DEF HeldBy, Held, At, Again, OfT, Handles, Codes, SpinLock, g
<1>12. \A l \in SpinLock : OwnedBy(s2, l) <=> OwnedBy(s, l)
  BY SMTT(60), <1>1, <1>2, <1>6 DEF OwnedBy, Owned, At, Again, OfT, Codes, SpinLock, g
<1>16. ~lk[L(c)].locked
  BY DEF Xchg, IsFree
<1>14. /\ lk' \in [SpinLock -> Lock]
       /\ \A l \in SpinLock : /\ lk'[l].locked <=> lk[l].locked \/ l = L(c)
                              /\ lk'[l].cpu = lk[l].cpu
  <2>1. lk' \in [SpinLock -> Lock] /\ lk'[L(c)].locked = TRUE
    BY ZenonT(90), <1>13, <1>7, <1>8 DEF Lock
  <2>2. \A l \in SpinLock : lk'[l].cpu = lk[l].cpu /\ (l # L(c) => lk'[l].locked = lk[l].locked)
    BY ZenonT(90), <1>13, <1>7, <1>8 DEF Lock
  <2> QED
    BY <2>1, <2>2
<1>15. ASSUME NEW l \in SpinLock
       PROVE  /\ HeldBy(s2, l) /\ ~HeldBy(s, l) => ~lk[l].locked
              /\ lk'[l].locked <=> HeldBy(s2, l) \/ (lk[l].locked /\ ~HeldBy(s, l))
              /\ lk'[l].cpu = IF OwnedBy(s2, l) THEN c ELSE IF OwnedBy(s, l) THEN None ELSE lk[l].cpu
  <2>1. (HeldBy(s, l) => lk[l].locked) /\ (OwnedBy(s, l) => lk[l].cpu = c)
    BY DEF SpinInv, Locks, s
  <2>2. HeldBy(s2, l) /\ ~HeldBy(s, l) => ~lk[l].locked
    BY <1>11, <1>12, <1>16, <1>14, <2>1
  <2>3. lk'[l].locked <=> HeldBy(s2, l) \/ (lk[l].locked /\ ~HeldBy(s, l))
    BY <1>11, <1>12, <1>16, <1>14, <2>1
  <2>4. lk'[l].cpu = IF OwnedBy(s2, l) THEN c ELSE IF OwnedBy(s, l) THEN None ELSE lk[l].cpu
    <3>1. OwnedBy(s2, l) <=> OwnedBy(s, l)
      BY <1>12
    <3>2. lk'[l].cpu = lk[l].cpu
      BY <1>14, Zenon
    <3> QED
      BY <2>1, <3>1, <3>2
  <2> QED
    BY <2>2, <2>3, <2>4
<1> QED
  BY ZenonT(90), <1>1, <1>6, <1>7, <1>8, <1>9, <1>10, <1>14, <1>15, LocalStep DEF s

LEMMA OwnInv ==
  ASSUME SpinInv, NEW c \in Cpu, Own(c)
  PROVE  SpinInv'
<1> DEFINE s == stack[On(c)]
           f == Top(c)
           s2 == Advance(s)
           g == Head(s2)
           p == cpu[c]
<1>0. Next1(c, "own")
  BY DEF Own
<1>1. /\ s # <<>> /\ f = Head(s) /\ f \in Frames /\ f.code \in Codes /\ f.k \in 1..24 /\ f.eflags \in BOOLEAN
      /\ On(c) \in Thread /\ p \in Processor /\ p.runs = On(c)
      /\ OnOK(s, p) /\ L(c) = Code[f.code][f.k].l
  BY <1>0, Now
<1>2. f.k = 4 \/ Again(f, 4)
  BY SMTT(60), <1>0, <1>1, Now, Owns
<1>3. L(c) = IF OfT(f) THEN "t" ELSE "pt"
  <2> HIDE DEF f
  <2> QED
    BY <1>1, LocksOf
<1>13. L(c) \in SpinLock
  BY <1>3 DEF SpinLock
<1>5. f.k < Len(Code[f.code])
  BY SMTT(60), <1>1, <1>2, Ends DEF At, Again
<1>6. /\ StackOK(On(c), s2) /\ s2 # <<>>
      /\ g.code = f.code /\ g.k = f.k + 1 /\ g.eflags = f.eflags
  BY <1>1, <1>5, Stepping
<1>7. /\ stack' = [stack EXCEPT ![On(c)] = s2] /\ UNCHANGED <<cpu, saved, ready, died>>
      /\ lk' = [lk EXCEPT ![L(c)].cpu = c]
  BY DEF Own, Step
<1>8. cpu' \in [Cpu -> Processor] /\ (\A d \in Cpu : cpu'[d] = IF d = c THEN p ELSE cpu[d]) /\ lk \in [SpinLock -> Lock]
  BY <1>7, Running
<1> HIDE DEF s, f, s2, g, p
<1>9. OnOK(s2, p)
  <2>1. CASE f.k = 4
    BY SMTT(60), <2>1, <1>1, <1>6 DEF OnOK, At, Handles, Depth, Deep, Shallow, Codes, f, g
  <2>2. CASE At(f, "sleep", 8, 8)
    BY SMTT(60), <2>2, <1>1, <1>6 DEF OnOK, At, Handles, Depth, Deep, Shallow, Codes, f, g
  <2>3. CASE At(f, "sleep", 20, 20)
    BY SMTT(60), <2>3, <1>1, <1>6 DEF OnOK, At, Handles, Depth, Deep, Shallow, Codes, f, g
  <2>4. CASE At(f, "tick", 8, 8)
    BY SMTT(60), <2>4, <1>1, <1>6 DEF OnOK, At, Handles, Depth, Deep, Shallow, Codes, f, g
  <2>5. CASE At(f, "tickproc", 8, 8)
    BY SMTT(60), <2>5, <1>1, <1>6 DEF OnOK, At, Handles, Depth, Deep, Shallow, Codes, f, g
  <2>6. CASE At(f, "tickproc", 18, 18)
    BY SMTT(60), <2>6, <1>1, <1>6 DEF OnOK, At, Handles, Depth, Deep, Shallow, Codes, f, g
  <2> QED
    BY <1>2, <2>1, <2>2, <2>3, <2>4, <2>5, <2>6 DEF Again
<1>10. SavedOK(s2, saved[On(c)])
  BY <1>1, <1>2, <1>6 DEF SavedOK, At, Again, g
<1>11. \A l \in SpinLock : HeldBy(s2, l) <=> HeldBy(s, l)
  BY <1>1, <1>2, <1>6 DEF HeldBy, Held, At, Again, OfT, Codes, SpinLock, g
<1>12. \A l \in SpinLock : OwnedBy(s2, l) <=> OwnedBy(s, l) \/ l = L(c)
  BY SMTT(90), <1>1, <1>2, <1>3, <1>6 DEF OwnedBy, Owned, At, Again, OfT, Handles, Codes, SpinLock, g
<1>14. /\ lk' \in [SpinLock -> Lock]
       /\ \A l \in SpinLock : /\ lk'[l].locked <=> lk[l].locked
                              /\ lk'[l].cpu = IF l = L(c) THEN c ELSE lk[l].cpu
  BY <1>13, <1>7, <1>8 DEF Lock
<1>15. ASSUME NEW l \in SpinLock
       PROVE  /\ HeldBy(s2, l) /\ ~HeldBy(s, l) => ~lk[l].locked
              /\ lk'[l].locked <=> HeldBy(s2, l) \/ (lk[l].locked /\ ~HeldBy(s, l))
              /\ lk'[l].cpu = IF OwnedBy(s2, l) THEN c ELSE IF OwnedBy(s, l) THEN None ELSE lk[l].cpu
  <2>1. (HeldBy(s, l) => lk[l].locked) /\ (OwnedBy(s, l) => lk[l].cpu = c)
    BY DEF SpinInv, Locks, s
  <2>2. HeldBy(s2, l) /\ ~HeldBy(s, l) => ~lk[l].locked
    BY <1>11, <1>12, <1>14, <2>1
  <2>3. lk'[l].locked <=> HeldBy(s2, l) \/ (lk[l].locked /\ ~HeldBy(s, l))
    BY <1>11, <1>12, <1>14, <2>1
  <2>4. lk'[l].cpu = IF OwnedBy(s2, l) THEN c ELSE IF OwnedBy(s, l) THEN None ELSE lk[l].cpu
    <3>1. OwnedBy(s2, l) <=> OwnedBy(s, l) \/ l = L(c)
      BY <1>12
    <3>2. lk'[l].cpu = IF l = L(c) THEN c ELSE lk[l].cpu
      BY <1>14, Zenon
    <3> QED
      BY <2>1, <3>1, <3>2
  <2> QED
    BY <2>2, <2>3, <2>4
<1> QED
  BY ZenonT(90), <1>1, <1>6, <1>7, <1>8, <1>9, <1>10, <1>14, <1>15, LocalStep DEF s

LEMMA DisownInv ==
  ASSUME SpinInv, NEW c \in Cpu, Disown(c)
  PROVE  SpinInv'
<1> DEFINE s == stack[On(c)]
           f == Top(c)
           s2 == Advance(s)
           g == Head(s2)
           p == cpu[c]
<1>0. Next1(c, "disown")
  BY DEF Disown
<1>1. /\ s # <<>> /\ f = Head(s) /\ f \in Frames /\ f.code \in Codes /\ f.k \in 1..24 /\ f.eflags \in BOOLEAN
      /\ On(c) \in Thread /\ p \in Processor /\ p.runs = On(c)
      /\ OnOK(s, p) /\ L(c) = Code[f.code][f.k].l
  BY <1>0, Now
<1>2. Gives(f, 0)
  BY SMTT(60), <1>0, <1>1, Now, Disowns
<1>3. L(c) = IF OfT(f) THEN "t" ELSE "pt"
  <2> HIDE DEF f
  <2> QED
    BY <1>1, LocksOf
<1>13. L(c) \in SpinLock
  BY <1>3 DEF SpinLock
<1>4. Holding(c, L(c))
  <2>1. Owned(f, L(c)) /\ Held(f, L(c))
    BY SMTT(60), <1>1, <1>2, <1>3 DEF Owned, Held, At, Gives, OfT, Codes
  <2>2. /\ lk[L(c)].cpu = c <=> OwnedBy(s, L(c))
        /\ HeldBy(s, L(c)) => lk[L(c)].locked
    BY <1>13 DEF SpinInv, Locks
  <2> QED
    BY ZenonT(90), <1>1, <2>1, <2>2 DEF Holding, OwnedBy, HeldBy
<1>5. f.k < Len(Code[f.code])
  BY SMTT(60), <1>1, <1>2, Ends DEF At, Gives
<1>6. /\ StackOK(On(c), s2) /\ s2 # <<>>
      /\ g.code = f.code /\ g.k = f.k + 1 /\ g.eflags = f.eflags
  BY <1>1, <1>5, Stepping
<1>7. /\ stack' = [stack EXCEPT ![On(c)] = s2] /\ UNCHANGED <<cpu, saved, ready, died>>
      /\ lk' = [lk EXCEPT ![L(c)].cpu = None]
  BY <1>4 DEF Disown, Step
<1>8. cpu' \in [Cpu -> Processor] /\ (\A d \in Cpu : cpu'[d] = IF d = c THEN p ELSE cpu[d]) /\ lk \in [SpinLock -> Lock]
  BY <1>7, Running
<1> HIDE DEF s, f, s2, g, p
<1>9. OnOK(s2, p)
  <2>1. CASE At(f, "pass", 6, 6)
    BY SMTT(60), <2>1, <1>1, <1>6 DEF OnOK, At, Handles, Depth, Deep, Shallow, Codes, f, g
  <2>2. CASE At(f, "yield", 7, 7)
    BY SMTT(60), <2>2, <1>1, <1>6 DEF OnOK, At, Handles, Depth, Deep, Shallow, Codes, f, g
  <2>3. CASE At(f, "sleep", 9, 9)
    BY SMTT(60), <2>3, <1>1, <1>6 DEF OnOK, At, Handles, Depth, Deep, Shallow, Codes, f, g
  <2>4. CASE At(f, "sleep", 14, 14)
    BY SMTT(60), <2>4, <1>1, <1>6 DEF OnOK, At, Handles, Depth, Deep, Shallow, Codes, f, g
  <2>5. CASE At(f, "sleep", 21, 21)
    BY SMTT(60), <2>5, <1>1, <1>6 DEF OnOK, At, Handles, Depth, Deep, Shallow, Codes, f, g
  <2>6. CASE At(f, "tick", 9, 9)
    BY SMTT(60), <2>6, <1>1, <1>6 DEF OnOK, At, Handles, Depth, Deep, Shallow, Codes, f, g
  <2>7. CASE At(f, "tick", 12, 12)
    BY SMTT(60), <2>7, <1>1, <1>6 DEF OnOK, At, Handles, Depth, Deep, Shallow, Codes, f, g
  <2>8. CASE At(f, "tickproc", 9, 9)
    BY SMTT(60), <2>8, <1>1, <1>6 DEF OnOK, At, Handles, Depth, Deep, Shallow, Codes, f, g
  <2>9. CASE At(f, "tickproc", 12, 12)
    BY SMTT(60), <2>9, <1>1, <1>6 DEF OnOK, At, Handles, Depth, Deep, Shallow, Codes, f, g
  <2>10. CASE At(f, "tickproc", 21, 21)
    BY SMTT(60), <2>10, <1>1, <1>6 DEF OnOK, At, Handles, Depth, Deep, Shallow, Codes, f, g
  <2> QED
    BY <1>2, <2>1, <2>2, <2>3, <2>4, <2>5, <2>6, <2>7, <2>8, <2>9, <2>10 DEF Gives
<1>10. SavedOK(s2, saved[On(c)])
  BY <1>1, <1>2, <1>6 DEF SavedOK, At, Gives, g
<1>11. \A l \in SpinLock : HeldBy(s2, l) <=> HeldBy(s, l)
  BY SMTT(60), <1>1, <1>2, <1>6 DEF HeldBy, Held, At, Gives, OfT, Codes, SpinLock, g
<1>12. \A l \in SpinLock : /\ OwnedBy(s2, l) <=> OwnedBy(s, l) /\ l # L(c)
                           /\ l = L(c) => OwnedBy(s, l)
  BY SMTT(90), <1>1, <1>2, <1>3, <1>6 DEF OwnedBy, Owned, At, Gives, OfT, Handles, Codes, SpinLock, g
<1>14. /\ lk' \in [SpinLock -> Lock]
       /\ \A l \in SpinLock : /\ lk'[l].locked <=> lk[l].locked
                              /\ lk'[l].cpu = IF l = L(c) THEN None ELSE lk[l].cpu
  BY <1>13, <1>7, <1>8 DEF Lock
<1>15. ASSUME NEW l \in SpinLock
       PROVE  /\ HeldBy(s2, l) /\ ~HeldBy(s, l) => ~lk[l].locked
              /\ lk'[l].locked <=> HeldBy(s2, l) \/ (lk[l].locked /\ ~HeldBy(s, l))
              /\ lk'[l].cpu = IF OwnedBy(s2, l) THEN c ELSE IF OwnedBy(s, l) THEN None ELSE lk[l].cpu
  <2>1. (HeldBy(s, l) => lk[l].locked) /\ (OwnedBy(s, l) => lk[l].cpu = c)
    BY DEF SpinInv, Locks, s
  <2>2. HeldBy(s2, l) /\ ~HeldBy(s, l) => ~lk[l].locked
    BY <1>11, <1>12, <1>14, <2>1
  <2>3. lk'[l].locked <=> HeldBy(s2, l) \/ (lk[l].locked /\ ~HeldBy(s, l))
    BY <1>11, <1>12, <1>14, <2>1
  <2>4. lk'[l].cpu = IF OwnedBy(s2, l) THEN c ELSE IF OwnedBy(s, l) THEN None ELSE lk[l].cpu
    <3>1. (OwnedBy(s2, l) <=> OwnedBy(s, l) /\ l # L(c)) /\ (l = L(c) => OwnedBy(s, l))
      BY <1>12
    <3>2. lk'[l].cpu = IF l = L(c) THEN None ELSE lk[l].cpu
      BY <1>14, Zenon
    <3> QED
      BY <2>1, <3>1, <3>2
  <2> QED
    BY <2>2, <2>3, <2>4
<1> QED
  BY ZenonT(90), <1>1, <1>6, <1>7, <1>8, <1>9, <1>10, <1>14, <1>15, LocalStep DEF s

LEMMA FreeLockInv ==
  ASSUME SpinInv, NEW c \in Cpu, FreeLock(c)
  PROVE  SpinInv'
<1> DEFINE s == stack[On(c)]
           f == Top(c)
           s2 == Advance(s)
           g == Head(s2)
           p == cpu[c]
<1>0. Next1(c, "free")
  BY DEF FreeLock
<1>1. /\ s # <<>> /\ f = Head(s) /\ f \in Frames /\ f.code \in Codes /\ f.k \in 1..24 /\ f.eflags \in BOOLEAN
      /\ On(c) \in Thread /\ p \in Processor /\ p.runs = On(c)
      /\ OnOK(s, p) /\ L(c) = Code[f.code][f.k].l
  BY <1>0, Now
<1>2. Gives(f, 1)
  BY SMTT(60), <1>0, <1>1, Now, Frees
<1>3. L(c) = IF OfT(f) THEN "t" ELSE "pt"
  <2> HIDE DEF f
  <2> QED
    BY <1>1, LocksOf
<1>13. L(c) \in SpinLock
  BY <1>3 DEF SpinLock
<1>5. f.k < Len(Code[f.code])
  BY SMTT(60), <1>1, <1>2, Ends DEF At, Gives
<1>6. /\ StackOK(On(c), s2) /\ s2 # <<>>
      /\ g.code = f.code /\ g.k = f.k + 1 /\ g.eflags = f.eflags
  BY <1>1, <1>5, Stepping
<1>7. /\ stack' = [stack EXCEPT ![On(c)] = s2] /\ UNCHANGED <<cpu, saved, ready, died>>
      /\ lk' = [lk EXCEPT ![L(c)].locked = FALSE]
  BY DEF FreeLock, Step
<1>8. cpu' \in [Cpu -> Processor] /\ (\A d \in Cpu : cpu'[d] = IF d = c THEN p ELSE cpu[d]) /\ lk \in [SpinLock -> Lock]
  BY <1>7, Running
<1> HIDE DEF s, f, s2, g, p
<1>9. OnOK(s2, p)
  <2>1. CASE At(f, "pass", 7, 7)
    BY SMTT(60), <2>1, <1>1, <1>6 DEF OnOK, At, Handles, Depth, Deep, Shallow, Codes, f, g
  <2>2. CASE At(f, "yield", 8, 8)
    BY SMTT(60), <2>2, <1>1, <1>6 DEF OnOK, At, Handles, Depth, Deep, Shallow, Codes, f, g
  <2>3. CASE At(f, "sleep", 10, 10)
    BY SMTT(60), <2>3, <1>1, <1>6 DEF OnOK, At, Handles, Depth, Deep, Shallow, Codes, f, g
  <2>4. CASE At(f, "sleep", 15, 15)
    BY SMTT(60), <2>4, <1>1, <1>6 DEF OnOK, At, Handles, Depth, Deep, Shallow, Codes, f, g
  <2>5. CASE At(f, "sleep", 22, 22)
    BY SMTT(60), <2>5, <1>1, <1>6 DEF OnOK, At, Handles, Depth, Deep, Shallow, Codes, f, g
  <2>6. CASE At(f, "tick", 10, 10)
    BY SMTT(60), <2>6, <1>1, <1>6 DEF OnOK, At, Handles, Depth, Deep, Shallow, Codes, f, g
  <2>7. CASE At(f, "tick", 13, 13)
    BY SMTT(60), <2>7, <1>1, <1>6 DEF OnOK, At, Handles, Depth, Deep, Shallow, Codes, f, g
  <2>8. CASE At(f, "tickproc", 10, 10)
    BY SMTT(60), <2>8, <1>1, <1>6 DEF OnOK, At, Handles, Depth, Deep, Shallow, Codes, f, g
  <2>9. CASE At(f, "tickproc", 13, 13)
    BY SMTT(60), <2>9, <1>1, <1>6 DEF OnOK, At, Handles, Depth, Deep, Shallow, Codes, f, g
  <2>10. CASE At(f, "tickproc", 22, 22)
    BY SMTT(60), <2>10, <1>1, <1>6 DEF OnOK, At, Handles, Depth, Deep, Shallow, Codes, f, g
  <2> QED
    BY <1>2, <2>1, <2>2, <2>3, <2>4, <2>5, <2>6, <2>7, <2>8, <2>9, <2>10 DEF Gives
<1>10. SavedOK(s2, saved[On(c)])
  BY <1>1, <1>2, <1>6 DEF SavedOK, At, Gives, g
<1>11. \A l \in SpinLock : /\ HeldBy(s2, l) <=> HeldBy(s, l) /\ l # L(c)
                           /\ l = L(c) => HeldBy(s, l)
  BY SMTT(60), <1>1, <1>2, <1>3, <1>6 DEF HeldBy, Held, At, Gives, OfT, Handles, Codes, SpinLock, g
<1>12. \A l \in SpinLock : OwnedBy(s2, l) <=> OwnedBy(s, l)
  BY SMTT(60), <1>1, <1>2, <1>6 DEF OwnedBy, Owned, At, Gives, OfT, Codes, SpinLock, g
<1>14. /\ lk' \in [SpinLock -> Lock]
       /\ \A l \in SpinLock : /\ lk'[l].locked <=> lk[l].locked /\ l # L(c)
                              /\ lk'[l].cpu = lk[l].cpu
  BY ZenonT(90), <1>13, <1>7, <1>8 DEF Lock
<1>15. ASSUME NEW l \in SpinLock
       PROVE  /\ HeldBy(s2, l) /\ ~HeldBy(s, l) => ~lk[l].locked
              /\ lk'[l].locked <=> HeldBy(s2, l) \/ (lk[l].locked /\ ~HeldBy(s, l))
              /\ lk'[l].cpu = IF OwnedBy(s2, l) THEN c ELSE IF OwnedBy(s, l) THEN None ELSE lk[l].cpu
  <2>1. (HeldBy(s, l) => lk[l].locked) /\ (OwnedBy(s, l) => lk[l].cpu = c)
    BY DEF SpinInv, Locks, s
  <2>2. HeldBy(s2, l) /\ ~HeldBy(s, l) => ~lk[l].locked
    BY <1>11, <1>12, <1>14, <2>1
  <2>3. lk'[l].locked <=> HeldBy(s2, l) \/ (lk[l].locked /\ ~HeldBy(s, l))
    BY <1>11, <1>12, <1>14, <2>1
  <2>4. lk'[l].cpu = IF OwnedBy(s2, l) THEN c ELSE IF OwnedBy(s, l) THEN None ELSE lk[l].cpu
    <3>1. OwnedBy(s2, l) <=> OwnedBy(s, l)
      BY <1>12
    <3>2. lk'[l].cpu = lk[l].cpu
      BY <1>14, Zenon
    <3> QED
      BY <2>1, <3>1, <3>2
  <2> QED
    BY <2>2, <2>3, <2>4
<1> QED
  BY ZenonT(90), <1>1, <1>6, <1>7, <1>8, <1>9, <1>10, <1>14, <1>15, LocalStep DEF s

LEMMA EndOfTableInv ==
  ASSUME SpinInv, NEW c \in Cpu, EndOfTable(c)
  PROVE  SpinInv'
<1> DEFINE s == stack[On(c)]
           f == Top(c)
           s2 == Advance(s)
           g == Head(s2)
           p == cpu[c]
<1>0. Next1(c, "run")
  BY DEF EndOfTable
<1>1. /\ s # <<>> /\ f = Head(s) /\ f \in Frames /\ f.code \in Codes /\ f.k \in 1..24 /\ f.eflags \in BOOLEAN
      /\ On(c) \in Thread /\ p \in Processor /\ p.runs = On(c)
      /\ OnOK(s, p) /\ L(c) = Code[f.code][f.k].l
  BY <1>0, Now
<1>2. At(f, "pass", 5, 5)
  BY <1>0, <1>1, Now, Others
<1>5. f.k < Len(Code[f.code])
  BY <1>1, <1>2, Ends DEF At
<1>6. /\ StackOK(On(c), s2) /\ s2 # <<>>
      /\ g.code = f.code /\ g.k = f.k + 1 /\ g.eflags = f.eflags
  BY <1>1, <1>5, Stepping
<1>7. stack' = [stack EXCEPT ![On(c)] = s2] /\ UNCHANGED <<cpu, lk, saved, ready, died>>
  BY DEF EndOfTable, Step
<1>8. cpu' \in [Cpu -> Processor] /\ (\A d \in Cpu : cpu'[d] = IF d = c THEN p ELSE cpu[d])
  BY <1>7, Running
<1> HIDE DEF s, f, s2, g, p
<1>9. OnOK(s2, p)
  BY <1>1, <1>2, <1>6 DEF OnOK, At, Handles, Depth, Deep, Shallow, Codes, f, g
<1>10. SavedOK(s2, saved[On(c)])
  BY <1>1, <1>2, <1>6 DEF SavedOK, At, g
<1>11. \A l \in SpinLock : (HeldBy(s2, l) <=> HeldBy(s, l)) /\ (OwnedBy(s2, l) <=> OwnedBy(s, l))
  BY SMTT(60), <1>1, <1>2, <1>6 DEF HeldBy, OwnedBy, Held, Owned, At, Codes, g
<1> QED
  BY ZenonT(90), <1>1, <1>6, <1>7, <1>8, <1>9, <1>10, <1>11, QuietStep DEF s

LEMMA SchedInInv ==
  ASSUME SpinInv, NEW c \in Cpu, SchedIn(c)
  PROVE  SpinInv'
<1> DEFINE s == stack[On(c)]
           f == Top(c)
           s2 == Advance(s)
           g == Head(s2)
           p == cpu[c]
           p2 == cpu'[c]
<1>0. Next1(c, "resume")
  BY DEF SchedIn
<1>1. /\ s # <<>> /\ f = Head(s) /\ f \in Frames /\ f.code \in Codes /\ f.k \in 1..24 /\ f.eflags \in BOOLEAN
      /\ On(c) \in Thread /\ p \in Processor /\ p.runs = On(c)
      /\ OnOK(s, p) /\ L(c) = Code[f.code][f.k].l
  BY <1>0, Now
<1>2. At(f, "yield", 6, 6) \/ At(f, "sleep", 13, 13) \/ At(f, "tickproc", 20, 20)
  BY <1>0, <1>1, Now, Others
<1>5. f.k < Len(Code[f.code])
  BY SMTT(60), <1>1, <1>2, Ends DEF At
<1>6. /\ StackOK(On(c), s2) /\ s2 # <<>>
      /\ g.code = f.code /\ g.k = f.k + 1 /\ g.eflags = f.eflags
  BY <1>1, <1>5, Stepping
<1>7. /\ stack' = [stack EXCEPT ![On(c)] = s2] /\ UNCHANGED <<lk, saved, ready, died>>
      /\ cpu' = [cpu EXCEPT ![c].intena = saved[On(c)]]
  BY DEF SchedIn, Step, Restored, IntenaOfThread
<1>8. /\ p2 \in Processor /\ p2.runs = On(c) /\ p2.ncli = p.ncli /\ p2.flag = p.flag /\ p2.intena = saved[On(c)]
      /\ cpu' \in [Cpu -> Processor] /\ \A d \in Cpu : cpu'[d] = IF d = c THEN p2 ELSE cpu[d]
  <2>1. cpu \in [Cpu -> Processor] /\ saved[On(c)] \in BOOLEAN
    BY <1>1, Running DEF SpinInv, Typed
  <2> HIDE DEF f
  <2> QED
    BY <1>1, <1>7, <2>1 DEF Processor
<1>13. /\ At(f, "yield", 6, 6) \/ At(f, "sleep", 13, 13) => saved[On(c)]
       /\ At(f, "tickproc", 20, 20) => ~saved[On(c)]
  BY SMTT(60), <1>0, <1>1, Now DEF SavedOK
<1> HIDE DEF s, f, s2, g, p, p2
<1>9. OnOK(s2, p2)
  BY SMTT(60), <1>1, <1>2, <1>6, <1>8, <1>13 DEF OnOK, At, Handles, Depth, Deep, Shallow, Codes, f, g
<1>10. SavedOK(s2, saved[On(c)])
  BY <1>1, <1>2, <1>6 DEF SavedOK, At, g
<1>11. \A l \in SpinLock : (HeldBy(s2, l) <=> HeldBy(s, l)) /\ (OwnedBy(s2, l) <=> OwnedBy(s, l))
  BY <1>1, <1>2, <1>6 DEF HeldBy, OwnedBy, Held, Owned, At, Codes, g
<1> QED
  BY ZenonT(90), <1>1, <1>6, <1>7, <1>8, <1>9, <1>10, <1>11, QuietStep DEF s

LEMMA PopcliInv ==
  ASSUME SpinInv, NEW c \in Cpu, Popcli(c)
  PROVE  SpinInv'
<1> DEFINE s == stack[On(c)]
           f == Top(c)
           s2 == Advance(s)
           g == Head(s2)
           p == cpu[c]
           p2 == cpu'[c]
<1>0. Next1(c, "popcli")
  BY DEF Popcli
<1>1. /\ s # <<>> /\ f = Head(s) /\ f \in Frames /\ f.code \in Codes /\ f.k \in 1..24 /\ f.eflags \in BOOLEAN
      /\ On(c) \in Thread /\ p \in Processor /\ p.runs = On(c)
      /\ OnOK(s, p) /\ L(c) = Code[f.code][f.k].l
  BY SMTT(60), <1>0, Now
<1>2. Gives(f, 2)
  BY SMTT(60), <1>0, <1>1, Now, Popclis
<1>4. ~p.flag /\ p.ncli >= 1 /\ p.ncli = Depth(f)
  BY SMTT(60), <1>1, <1>2 DEF OnOK, Depth, Deep, Shallow, At, Gives
<1>3. TurnsOn(c) \in BOOLEAN
  BY DEF TurnsOn
<1>7. /\ stack' = [stack EXCEPT ![On(c)] = s2] /\ UNCHANGED <<lk, saved, ready, died>>
      /\ cpu' = [cpu EXCEPT ![c].ncli = @ - 1, ![c].flag = TurnsOn(c)]
  <2>1. ~(cpu[c].flag \/ cpu[c].ncli < 1)
    <3> HIDE DEF f
    <3> QED
      BY <1>1, <1>4 DEF Processor
  <2> QED
    BY <2>1 DEF Popcli, Step
<1>8. /\ p2 \in Processor /\ p2.runs = On(c) /\ p2.ncli = p.ncli - 1 /\ p2.intena = p.intena /\ p2.flag = TurnsOn(c)
      /\ cpu' \in [Cpu -> Processor] /\ \A d \in Cpu : cpu'[d] = IF d = c THEN p2 ELSE cpu[d]
  <2>1. cpu \in [Cpu -> Processor]
    BY Running
  <2> HIDE DEF f
  <2>2. p.ncli - 1 \in Nat
    BY <1>1, <1>4 DEF Processor
  <2> QED
    BY ZenonT(90), <1>1, <1>3, <1>7, <2>1, <2>2 DEF Processor
<1>10. p2.flag <=> p.ncli = 1 /\ p.intena
  BY ZenonT(90), <1>8 DEF TurnsOn
<1>5. StackOK(On(c), s2)
  BY <1>1, Stepping
<1>6. CASE f.k < Len(Code[f.code])
  <2>1. s2 # <<>> /\ g.code = f.code /\ g.k = f.k + 1 /\ g.eflags = f.eflags
    BY <1>1, <1>6, Stepping
  <2>0. ~(At(f, "pass", 9, 9) \/ At(f, "yield", 9, 9) \/ At(f, "sleep", 23, 23)
          \/ At(f, "tick", 15, 15) \/ At(f, "tickproc", 24, 24))
    BY SMTT(60), <1>1, <1>6, Ends
  <2> HIDE DEF s, f, s2, g, p, p2
  <2>2. OnOK(s2, p2)
    <3>1. CASE At(f, "pass", 8, 8)
      BY SMTT(60), <3>1, <1>1, <1>4, <1>8, <1>10, <2>0, <2>1 DEF OnOK, At, Handles, Depth, Deep, Shallow, f, g
    <3>2. CASE At(f, "yield", 9, 9)
      BY SMTT(60), <3>2, <1>1, <1>4, <1>8, <1>10, <2>0, <2>1 DEF OnOK, At, Handles, Depth, Deep, Shallow, f, g
    <3>3. CASE At(f, "sleep", 11, 11)
      BY SMTT(60), <3>3, <1>1, <1>4, <1>8, <1>10, <2>0, <2>1 DEF OnOK, At, Handles, Depth, Deep, Shallow, f, g
    <3>4. CASE At(f, "sleep", 16, 16)
      BY SMTT(60), <3>4, <1>1, <1>4, <1>8, <1>10, <2>0, <2>1 DEF OnOK, At, Handles, Depth, Deep, Shallow, f, g
    <3>5. CASE At(f, "sleep", 23, 23)
      BY SMTT(60), <3>5, <1>1, <1>4, <1>8, <1>10, <2>0, <2>1 DEF OnOK, At, Handles, Depth, Deep, Shallow, f, g
    <3>6. CASE At(f, "tick", 11, 11)
      BY SMTT(60), <3>6, <1>1, <1>4, <1>8, <1>10, <2>0, <2>1 DEF OnOK, At, Handles, Depth, Deep, Shallow, f, g
    <3>7. CASE At(f, "tick", 14, 14)
      BY SMTT(60), <3>7, <1>1, <1>4, <1>8, <1>10, <2>0, <2>1 DEF OnOK, At, Handles, Depth, Deep, Shallow, f, g
    <3>8. CASE At(f, "tickproc", 11, 11)
      BY SMTT(60), <3>8, <1>1, <1>4, <1>8, <1>10, <2>0, <2>1 DEF OnOK, At, Handles, Depth, Deep, Shallow, f, g
    <3>9. CASE At(f, "tickproc", 14, 14)
      BY SMTT(60), <3>9, <1>1, <1>4, <1>8, <1>10, <2>0, <2>1 DEF OnOK, At, Handles, Depth, Deep, Shallow, f, g
    <3>10. CASE At(f, "tickproc", 23, 23)
      BY SMTT(60), <3>10, <1>1, <1>4, <1>8, <1>10, <2>0, <2>1 DEF OnOK, At, Handles, Depth, Deep, Shallow, f, g
    <3> QED
      BY <1>2, <3>1, <3>2, <3>3, <3>4, <3>5, <3>6, <3>7, <3>8, <3>9, <3>10 DEF Gives
  <2>3. SavedOK(s2, saved[On(c)])
    BY <1>1, <1>2, <2>1 DEF SavedOK, At, Gives, g
  <2>4. \A l \in SpinLock : (HeldBy(s2, l) <=> HeldBy(s, l)) /\ (OwnedBy(s2, l) <=> OwnedBy(s, l))
    <3>1. CASE At(f, "pass", 8, 8)
      BY SMTT(60), <3>1, <1>1, <2>0, <2>1 DEF HeldBy, OwnedBy, Held, Owned, At, g
    <3>2. CASE At(f, "yield", 9, 9)
      BY SMTT(60), <3>2, <1>1, <2>0, <2>1 DEF HeldBy, OwnedBy, Held, Owned, At, g
    <3>3. CASE At(f, "sleep", 11, 11)
      BY SMTT(60), <3>3, <1>1, <2>0, <2>1 DEF HeldBy, OwnedBy, Held, Owned, At, g
    <3>4. CASE At(f, "sleep", 16, 16)
      BY SMTT(60), <3>4, <1>1, <2>0, <2>1 DEF HeldBy, OwnedBy, Held, Owned, At, g
    <3>5. CASE At(f, "sleep", 23, 23)
      BY SMTT(60), <3>5, <1>1, <2>0, <2>1 DEF HeldBy, OwnedBy, Held, Owned, At, g
    <3>6. CASE At(f, "tick", 11, 11)
      BY SMTT(60), <3>6, <1>1, <2>0, <2>1 DEF HeldBy, OwnedBy, Held, Owned, At, g
    <3>7. CASE At(f, "tick", 14, 14)
      BY SMTT(60), <3>7, <1>1, <2>0, <2>1 DEF HeldBy, OwnedBy, Held, Owned, At, g
    <3>8. CASE At(f, "tickproc", 11, 11)
      BY SMTT(60), <3>8, <1>1, <2>0, <2>1 DEF HeldBy, OwnedBy, Held, Owned, At, g
    <3>9. CASE At(f, "tickproc", 14, 14)
      BY SMTT(60), <3>9, <1>1, <2>0, <2>1 DEF HeldBy, OwnedBy, Held, Owned, At, g
    <3>10. CASE At(f, "tickproc", 23, 23)
      BY SMTT(60), <3>10, <1>1, <2>0, <2>1 DEF HeldBy, OwnedBy, Held, Owned, At, g
    <3> QED
      BY <1>2, <3>1, <3>2, <3>3, <3>4, <3>5, <3>6, <3>7, <3>8, <3>9, <3>10 DEF Gives
  <2> QED
    BY ZenonT(90), <1>1, <1>5, <1>7, <1>8, <2>2, <2>3, <2>4, QuietStep DEF s
<1>9. CASE ~(f.k < Len(Code[f.code]))
  <2>1. s2 # <<>> => g \in Frames /\ Rests(g)
    BY <1>1, <1>9, EndIs, Stepping
  <2>0. \/ At(f, "pass", 9, 9) \/ At(f, "yield", 9, 9) \/ At(f, "sleep", 23, 23)
        \/ At(f, "tick", 15, 15) \/ At(f, "tickproc", 24, 24)
    BY <1>1, <1>9, Ends
  <2> HIDE DEF s, f, s2, g, p, p2
  <2>2. p2.flag = TRUE /\ p2.ncli = 0
    <3>1. p.ncli = 1 /\ p.intena
      BY SMTT(60), <1>1, <1>2, <2>0 DEF OnOK, At, Gives, Handles, Depth, Deep, Shallow, f
    <3> QED
      BY <1>3, <1>8, <1>10, <3>1
  <2>3. /\ OnOK(s2, p2) /\ SavedOK(s2, saved[On(c)])
        /\ \A l \in SpinLock : ~HeldBy(s2, l) /\ ~OwnedBy(s2, l)
    BY ZenonT(90), <2>1, <2>2, Resting DEF g
  <2>4. \A l \in SpinLock : ~HeldBy(s, l) /\ ~OwnedBy(s, l)
    BY SMTT(60), <1>1, <1>2, <2>0 DEF HeldBy, OwnedBy, Held, Owned, At, Gives, Codes
  <2> QED
    BY ZenonT(90), <1>1, <1>5, <1>7, <1>8, <2>3, <2>4, QuietStep DEF s
<1> QED
  BY <1>6, <1>9

LEMMA StiInv ==
  ASSUME SpinInv, NEW c \in Cpu, Sti(c)
  PROVE  SpinInv'
<1> DEFINE s == stack[On(c)]
           f == Top(c)
           s2 == Advance(s)
           g == Head(s2)
           p == cpu[c]
           p2 == cpu'[c]
<1>0. Next1(c, "sti")
  BY DEF Sti
<1>1. /\ s # <<>> /\ f = Head(s) /\ f \in Frames /\ f.code \in Codes /\ f.k \in 1..24 /\ f.eflags \in BOOLEAN
      /\ On(c) \in Thread /\ p \in Processor /\ p.runs = On(c)
      /\ OnOK(s, p) /\ L(c) = Code[f.code][f.k].l
  BY <1>0, Now
<1>2. At(f, "pass", 9, 9)
  BY <1>0, <1>1, Now, Others
<1>7. /\ stack' = [stack EXCEPT ![On(c)] = s2] /\ UNCHANGED <<lk, saved, ready, died>>
      /\ cpu' = [cpu EXCEPT ![c].flag = TRUE]
  BY SMTT(60) DEF Sti, Step
<1>8. /\ p2 \in Processor /\ p2.runs = On(c) /\ p2.ncli = p.ncli /\ p2.flag = TRUE
      /\ cpu' \in [Cpu -> Processor] /\ \A d \in Cpu : cpu'[d] = IF d = c THEN p2 ELSE cpu[d]
  <2>1. cpu \in [Cpu -> Processor]
    BY Running
  <2> HIDE DEF f
  <2> QED
    BY ZenonT(90), <1>1, <1>7, <2>1 DEF Processor
<1>5. StackOK(On(c), s2)
  BY <1>1, Stepping
<1>6. ~(f.k < Len(Code[f.code]))
  BY <1>1, <1>2, Ends DEF At
<1>9. s2 # <<>> => g \in Frames /\ Rests(g)
  BY SMTT(60), <1>1, <1>6, EndIs, Stepping
<1> HIDE DEF s, f, s2, g, p, p2
<1>10. p2.flag = TRUE /\ p2.ncli = 0
  BY <1>1, <1>2, <1>8 DEF OnOK, At, Handles, Depth, Deep, Shallow, f
<1>11. /\ OnOK(s2, p2) /\ SavedOK(s2, saved[On(c)])
       /\ \A l \in SpinLock : ~HeldBy(s2, l) /\ ~OwnedBy(s2, l)
  BY <1>9, <1>10, Resting DEF g
<1>12. \A l \in SpinLock : ~HeldBy(s, l) /\ ~OwnedBy(s, l)
  BY <1>1, <1>2 DEF HeldBy, OwnedBy, Held, Owned, At, Codes
<1> QED
  BY ZenonT(90), <1>1, <1>5, <1>7, <1>8, <1>11, <1>12, QuietStep DEF s

LEMMA IretInv ==
  ASSUME SpinInv, NEW c \in Cpu, Iret(c)
  PROVE  SpinInv'
<1> DEFINE s == stack[On(c)]
           f == Top(c)
           s2 == Advance(s)
           g == Head(s2)
           p == cpu[c]
           p2 == cpu'[c]
<1>0. Next1(c, "iret")
  BY DEF Iret
<1>1. /\ s # <<>> /\ f = Head(s) /\ f \in Frames /\ f.code \in Codes /\ f.k \in 1..24 /\ f.eflags \in BOOLEAN
      /\ On(c) \in Thread /\ p \in Processor /\ p.runs = On(c)
      /\ OnOK(s, p) /\ L(c) = Code[f.code][f.k].l
  BY SMTT(60), <1>0, Now
<1>2. At(f, "tick", 15, 15) \/ At(f, "tickproc", 24, 24)
  BY <1>0, <1>1, Now, Others
<1>7. /\ stack' = [stack EXCEPT ![On(c)] = s2] /\ UNCHANGED <<lk, saved, ready, died>>
      /\ cpu' = [cpu EXCEPT ![c].flag = TRUE]
  BY SMTT(60) DEF Iret, Step
<1>8. /\ p2 \in Processor /\ p2.runs = On(c) /\ p2.ncli = p.ncli /\ p2.flag = TRUE
      /\ cpu' \in [Cpu -> Processor] /\ \A d \in Cpu : cpu'[d] = IF d = c THEN p2 ELSE cpu[d]
  <2>1. cpu \in [Cpu -> Processor]
    BY Running
  <2> HIDE DEF f
  <2> QED
    BY <1>1, <1>7, <2>1 DEF Processor
<1>5. StackOK(On(c), s2)
  BY <1>1, Stepping
<1>6. ~(f.k < Len(Code[f.code]))
  BY <1>1, <1>2, Ends DEF At
<1>9. s2 # <<>> => g \in Frames /\ Rests(g)
  BY <1>1, <1>6, EndIs, Stepping
<1> HIDE DEF s, f, s2, g, p, p2
<1>10. p2.flag = TRUE /\ p2.ncli = 0
  BY <1>1, <1>2, <1>8 DEF OnOK, At, Handles, Depth, Deep, Shallow, f
<1>11. /\ OnOK(s2, p2) /\ SavedOK(s2, saved[On(c)])
       /\ \A l \in SpinLock : ~HeldBy(s2, l) /\ ~OwnedBy(s2, l)
  BY <1>9, <1>10, Resting DEF g
<1>12. \A l \in SpinLock : ~HeldBy(s, l) /\ ~OwnedBy(s, l)
  BY <1>1, <1>2 DEF HeldBy, OwnedBy, Held, Owned, At, Codes
<1> QED
  BY <1>1, <1>5, <1>7, <1>8, <1>11, <1>12, QuietStep DEF s


LEMMA EntryIs ==
  ASSUME NEW code \in Codes
  PROVE  [code |-> code, k |-> 1, eflags |-> FALSE] \in Frames
<1>1. \E n \in 1..24 : n = Len(Code[code])
  BY CodeLengths DEF Codes
<1>2. \A n \in 1..24 : 1 <= n
  OBVIOUS
<1>3. 1 <= Len(Code[code])
  BY ZenonT(90), <1>1, <1>2
<1>4. 1 \in Nat /\ 1 >= 1 /\ FALSE \in BOOLEAN
  OBVIOUS
<1> QED
  BY <1>3, <1>4, FrameIs, Zenon

LEMMA LoopInv ==
  ASSUME SpinInv, NEW c \in Cpu, Loop(c)
  PROVE  SpinInv'
<1> DEFINE t == On(c)
           g == CallFrame(Work(t), 1)
           p == cpu[c]
<1>1. /\ stack[t] = <<>> /\ stack' = [stack EXCEPT ![t] = <<g>>]
      /\ UNCHANGED <<cpu, lk, saved, ready, died>>
  BY DEF Loop
<1>2. /\ t \in Thread /\ p \in Processor /\ p.runs = t /\ OnOK(stack[t], p)
      /\ cpu' \in [Cpu -> Processor] /\ \A d \in Cpu : cpu'[d] = IF d = c THEN p ELSE cpu[d]
  BY <1>1, Running
<1>3. /\ Work(t) \in {"pass", "sleep", "yield"} /\ (t \in Cpu <=> Work(t) = "pass")
      /\ g = [code |-> Work(t), k |-> 1, eflags |-> FALSE]
  BY DEF Work, CallFrame
<1>4. g \in Frames /\ g.code = Work(t) /\ g.k = 1
  <2> HIDE DEF t
  <2>1. PICK w \in Codes : w = Work(t)
    BY <1>3 DEF Codes
  <2>2. [code |-> w, k |-> 1, eflags |-> FALSE] \in Frames
    BY EntryIs
  <2> QED
    BY <1>3, <2>1, <2>2 DEF CallFrame
<1> HIDE DEF g, t, p
<1>5. <<g>> \in Seq(Frames) /\ Len(<<g>>) = 1 /\ <<g>>[1] = g /\ <<g>> # <<>> /\ Head(<<g>>) = g
  BY <1>4
<1>6. StackOK(t, <<g>>)
  BY <1>3, <1>4, <1>5 DEF StackOK
<1>7. p.ncli = 0 /\ p.flag
  BY <1>1, <1>2 DEF OnOK
<1>8. OnOK(<<g>>, p)
  BY <1>3, <1>4, <1>5, <1>7 DEF OnOK, At, Handles, Depth, Deep, Shallow
<1>9. SavedOK(<<g>>, saved[t])
  BY <1>4, <1>5 DEF SavedOK, At
<1>10. \A l \in SpinLock : (HeldBy(<<g>>, l) <=> HeldBy(stack[t], l)) /\ (OwnedBy(<<g>>, l) <=> OwnedBy(stack[t], l))
  BY <1>1, <1>4, <1>5 DEF HeldBy, OwnedBy, Held, Owned, At
<1> QED
  BY ZenonT(90), <1>1, <1>2, <1>6, <1>8, <1>9, <1>10, QuietStep DEF t

LEMMA InterruptInv ==
  ASSUME SpinInv, NEW c \in Cpu, Interrupt(c)
  PROVE  SpinInv'
<1> DEFINE t == On(c)
           s == stack[t]
           g == CallFrame(Handler(t), 1)
           s2 == <<g>> \o s
           p == cpu[c]
           p2 == cpu'[c]
<1>1. /\ p.flag /\ stack' = [stack EXCEPT ![t] = s2] /\ cpu' = [cpu EXCEPT ![c].flag = FALSE]
      /\ UNCHANGED <<lk, saved, ready, died>>
  BY DEF Interrupt
<1>2. /\ t \in Thread /\ p \in Processor /\ p.runs = t /\ StackOK(t, s) /\ OnOK(s, p)
      /\ cpu \in [Cpu -> Processor]
  BY Running
<1>3. /\ p2 \in Processor /\ p2.runs = t /\ p2.ncli = p.ncli /\ p2.flag = FALSE
      /\ cpu' \in [Cpu -> Processor] /\ \A d \in Cpu : cpu'[d] = IF d = c THEN p2 ELSE cpu[d]
  <2> HIDE DEF t
  <2> QED
    BY ZenonT(90), <1>1, <1>2 DEF Processor
<1>4. Handler(t) \in {"tick", "tickproc"} /\ (t \in Cpu <=> Handler(t) = "tick")
  BY <1>2, SpinAssumption DEF Handler, Thread
<1>5. g \in Frames /\ g.code = Handler(t) /\ g.k = 1
  <2> HIDE DEF t
  <2>1. PICK w \in Codes : w = Handler(t)
    BY <1>4 DEF Codes
  <2>2. [code |-> w, k |-> 1, eflags |-> FALSE] \in Frames
    BY EntryIs
  <2> QED
    BY <2>1, <2>2 DEF CallFrame
<1> HIDE DEF g, t, p, p2, s
<1>6. s # <<>> => Head(s) \in Frames /\ Shallow(Head(s)) /\ Rests(Head(s))
  <2> SUFFICES ASSUME s # <<>> PROVE Head(s) \in Frames /\ Shallow(Head(s)) /\ Rests(Head(s))
    OBVIOUS
  <2> DEFINE f == Head(s)
  <2>1. f \in Frames
    BY ZenonT(90), <1>2, Tailed
  <2>2. f.code \in Codes /\ f.k \in 1..24 /\ f.eflags \in BOOLEAN
    BY <2>1, FrameCodes
  <2>3. /\ Shallow(f) /\ ~(At(f, "tick", 1, 15) \/ At(f, "tickproc", 1, 23))
        /\ f.k = 2 => (f.eflags <=> ~Handles(f))
        /\ At(f, "sleep", 18, 18) => f.eflags
    BY <1>1, <1>2 DEF OnOK
  <2> HIDE DEF f
  <2>4. Rests(f)
    BY <2>2, <2>3 DEF Rests, Shallow, At, Handles, Codes
  <2> QED
    BY <2>1, <2>3, <2>4 DEF f
<1>7. StackOK(t, s2) /\ s2 # <<>> /\ Head(s2) = g
  BY <1>2, <1>4, <1>5, <1>6, Pushed
<1> HIDE DEF s2
<1>8. p2.ncli = 0
  BY SMTT(60), <1>2, <1>3, <1>6 DEF OnOK, Depth, Deep, Shallow, At
<1>9. OnOK(s2, p2)
  BY SMTT(60), <1>3, <1>4, <1>5, <1>7, <1>8 DEF OnOK, At, Handles, Depth, Deep, Shallow
<1>10. SavedOK(s2, saved[t])
  BY <1>5, <1>7 DEF SavedOK, At
<1>11. \A l \in SpinLock : ~HeldBy(s2, l) /\ ~OwnedBy(s2, l)
  BY <1>5, <1>7 DEF HeldBy, OwnedBy, Held, Owned, At
<1>12. \A l \in SpinLock : ~HeldBy(s, l) /\ ~OwnedBy(s, l)
  <2>1. \A l \in SpinLock : ~HeldBy(s, l)
    BY SMTT(60), <1>6 DEF HeldBy, Held, Shallow, At
  <2> QED
    BY <2>1, OwnedIsHeld
<1> QED
  BY ZenonT(90), <1>1, <1>2, <1>3, <1>7, <1>9, <1>10, <1>11, <1>12, QuietStep DEF t, s

-----------------------------------------------------------------------------
(* Processor c goes from a thread to thread u, which takes its locks over.    *)
LEMMA SwitchStep ==
  ASSUME SpinInv, NEW c \in Cpu, NEW u \in Kproc \cup {c}, u # On(c),
         NEW s2, NEW p2 \in Processor, p2.runs = u,
         cpu' \in [Cpu -> Processor], \A d \in Cpu : cpu'[d] = IF d = c THEN p2 ELSE cpu[d],
         DOMAIN stack' = Thread, \A t \in Thread : stack'[t] = IF t = On(c) THEN s2 ELSE stack[t],
         UNCHANGED <<lk, died>>, ready' \subseteq Kproc, u \notin ready',
         \A d \in Cpu : d # c => On(d) # u /\ On(d) \notin ready',
         saved' \in [Thread -> BOOLEAN], \A t \in Thread : t # On(c) => saved'[t] = saved[t],
         StackOK(On(c), s2), Off(On(c), s2), SavedOK(s2, saved'[On(c)]), OnOK(stack[u], p2),
         \A l \in SpinLock : /\ HeldBy(stack[u], l) <=> HeldBy(stack[On(c)], l)
                             /\ OwnedBy(stack[u], l) <=> OwnedBy(stack[On(c)], l)
  PROVE  SpinInv'
<1>0. /\ Typed /\ Threads /\ Placed /\ Processors /\ Locks
      /\ cpu \in [Cpu -> Processor] /\ DOMAIN stack = Thread /\ (\A d \in Cpu : On(d) \in Thread) /\ u \in Thread
  BY DEF SpinInv, Typed, Placed, On, Processor, Thread
<1>1. \A d \in Cpu : On(d)' = IF d = c THEN u ELSE On(d)
  BY DEF On
<1>2. \A d \in Cpu : stack'[On(d)'] = IF d = c THEN stack[u] ELSE stack[On(d)]
  BY <1>0, <1>1 DEF Placed
<1>4. Typed'
  BY <1>0 DEF Typed
<1>5. Threads'
  <2> SUFFICES ASSUME NEW t \in Thread
               PROVE  /\ StackOK(t, stack'[t]) /\ SavedOK(stack'[t], saved'[t])
                      /\ (\A d \in Cpu : On(d)' # t) => Off(t, stack'[t])
    BY DEF Threads, StackOK, SavedOK, Off
  <2>1. CASE t = On(c)
    BY <2>1, <1>0
  <2>2. CASE t # On(c)
    <3>1. (\A d \in Cpu : On(d)' # t) => \A d \in Cpu : On(d) # t
      BY <2>2, <1>1
    <3> QED
      BY <2>2, <3>1, <1>0 DEF Threads
  <2> QED
    BY <2>1, <2>2
<1>6. Placed'
  BY <1>0, <1>1 DEF Placed
<1>7. Processors'
  <2> SUFFICES ASSUME NEW d \in Cpu PROVE OnOK(stack'[On(d)'], cpu'[d])
    BY DEF Processors, OnOK
  <2> QED
    BY <1>0, <1>2 DEF Processors
<1>8. Locks'
  <2> SUFFICES ASSUME NEW l \in SpinLock
               PROVE  /\ lk[l].locked <=> \E d \in Cpu : HeldBy(stack'[On(d)'], l)
                      /\ \A d, e \in Cpu : HeldBy(stack'[On(d)'], l) /\ HeldBy(stack'[On(e)'], l) => d = e
                      /\ \A d \in Cpu : lk[l].cpu = d <=> OwnedBy(stack'[On(d)'], l)
    BY DEF Locks, HeldBy, OwnedBy
  <2>1. \A d \in Cpu : /\ HeldBy(stack'[On(d)'], l) <=> HeldBy(stack[On(d)], l)
                       /\ OwnedBy(stack'[On(d)'], l) <=> OwnedBy(stack[On(d)], l)
    BY <1>2
  <2>2. /\ lk[l].locked <=> \E d \in Cpu : HeldBy(stack[On(d)], l)
        /\ \A d, e \in Cpu : HeldBy(stack[On(d)], l) /\ HeldBy(stack[On(e)], l) => d = e
        /\ \A d \in Cpu : lk[l].cpu = d <=> OwnedBy(stack[On(d)], l)
    BY <1>0 DEF Locks
  <2> HIDE <1>1, <1>2
  <2> QED
    BY <2>1, <2>2
<1> QED
  BY <1>4, <1>5, <1>6, <1>7, <1>8 DEF SpinInv

LEMMA RunInv ==
  ASSUME SpinInv, NEW c \in Cpu, Run(c)
  PROVE  SpinInv'
<1> DEFINE s == stack[On(c)]
           f == Top(c)
           p == cpu[c]
           p2 == cpu'[c]
<1>0. Next1(c, "run")
  BY DEF Run
<1>1. /\ s # <<>> /\ f = Head(s) /\ f \in Frames /\ f.code \in Codes /\ f.k \in 1..24
      /\ On(c) \in Thread /\ p \in Processor
      /\ StackOK(On(c), s) /\ SavedOK(s, saved[On(c)]) /\ OnOK(s, p) /\ (On(c) \in Cpu <=> f.code \in {"pass", "tick"})
  BY SMTT(60), <1>0, Now
<1>2. At(f, "pass", 5, 5)
  BY <1>0, <1>1, Now, Others
<1>3. On(c) = c
  BY <1>1, <1>2, Running DEF At
<1>4. PICK u \in ready : cpu' = [cpu EXCEPT ![c].runs = u] /\ ready' = ready \ {u}
  BY ZenonT(90) DEF Run, NoLonger
<1>5. UNCHANGED <<lk, stack, saved, died>>
  BY DEF Run
<1>6. /\ u \in Kproc /\ u \in Thread /\ u \notin Cpu /\ u # On(c) /\ (\A d \in Cpu : On(d) # u)
      /\ ready' \subseteq Kproc /\ u \notin ready' /\ \A d \in Cpu : On(d) \notin ready'
      /\ saved' \in [Thread -> BOOLEAN] /\ cpu \in [Cpu -> Processor] /\ DOMAIN stack = Thread
  BY <1>3, <1>4, <1>5, SpinAssumption DEF SpinInv, Typed, Placed, Thread
<1>7. /\ p2 \in Processor /\ p2.runs = u /\ p2.ncli = p.ncli /\ p2.flag = p.flag
      /\ cpu' \in [Cpu -> Processor] /\ \A d \in Cpu : cpu'[d] = IF d = c THEN p2 ELSE cpu[d]
  <2> HIDE DEF f
  <2> QED
    BY <1>1, <1>4, <1>6 DEF Processor
<1>8. DOMAIN stack' = Thread /\ \A t \in Thread : stack'[t] = IF t = On(c) THEN s ELSE stack[t]
  BY <1>5, <1>6
<1> DEFINE h == Head(stack[u])
<1>9. stack[u] # <<>> /\ (At(h, "yield", 6, 6) \/ At(h, "sleep", 13, 13) \/ At(h, "tickproc", 20, 21))
  BY <1>6 DEF SpinInv, Threads, Off
<1>10. h \in Frames /\ h.k \in 1..24
  <2>1. StackOK(u, stack[u])
    BY <1>6 DEF SpinInv, Threads
  <2> QED
    BY ZenonT(90), <1>9, <2>1, Tailed, FrameCodes
<1> HIDE DEF s, f, p, p2, h
<1>11. p.ncli = 1 /\ ~p.flag
  BY <1>1, <1>2 DEF OnOK, Depth, Deep, Shallow, At
<1>12. OnOK(stack[u], p2)
  BY SMTT(60), <1>7, <1>9, <1>10, <1>11 DEF OnOK, At, Handles, Depth, Deep, Shallow, h
<1>13. Off(On(c), s)
  BY <1>1, <1>2, <1>3 DEF Off
<1>14. \A l \in SpinLock : (HeldBy(stack[u], l) <=> HeldBy(s, l)) /\ (OwnedBy(stack[u], l) <=> OwnedBy(s, l))
  BY <1>1, <1>2, <1>9, <1>10 DEF HeldBy, OwnedBy, Held, Owned, At, h
<1> QED
  BY <1>1, <1>5, <1>6, <1>7, <1>8, <1>12, <1>13, <1>14, SwitchStep DEF s

LEMMA SchedOutInv ==
  ASSUME SpinInv, NEW c \in Cpu, SchedOut(c)
  PROVE  SpinInv'
<1> DEFINE t == On(c)
           s == stack[t]
           f == Top(c)
           s2 == Advance(s)
           g == Head(s2)
           p == cpu[c]
           p2 == cpu'[c]
<1>0. Next1(c, "sched")
  BY DEF SchedOut
<1>1. /\ s # <<>> /\ f = Head(s) /\ f \in Frames /\ f.code \in Codes /\ f.k \in 1..24
      /\ t \in Thread /\ p \in Processor
      /\ StackOK(t, s) /\ OnOK(s, p) /\ (t \in Cpu <=> f.code \in {"pass", "tick"})
  BY SMTT(60), <1>0, Now
<1>2. At(f, "yield", 5, 5) \/ At(f, "sleep", 12, 12) \/ At(f, "tickproc", 19, 19)
  BY <1>0, <1>1, Now, Others
<1>3. t \notin Cpu /\ t \in Kproc
  BY SMTT(60), <1>1, <1>2 DEF At, Thread
<1>4. p.ncli = 1 /\ ~p.flag
  BY SMTT(60), <1>1, <1>2 DEF OnOK, Depth, Deep, Shallow, At
<1>5. ~SchedPanics(c)
  <2>1. Owned(f, "pt") /\ Held(f, "pt") /\ "pt" \in SpinLock
    BY <1>2 DEF Owned, Held, At, SpinLock
  <2>2. /\ lk["pt"].cpu = c <=> OwnedBy(s, "pt")
        /\ HeldBy(s, "pt") => lk["pt"].locked
    BY <2>1 DEF SpinInv, Locks
  <2> QED
    BY <1>1, <1>4, <2>1, <2>2 DEF SchedPanics, Holding, OwnedBy, HeldBy
<1>6. /\ saved' = [saved EXCEPT ![t] = p.intena] /\ cpu' = [cpu EXCEPT ![c].runs = c]
      /\ ready' = ready \cup {t} /\ stack' = [stack EXCEPT ![t] = s2] /\ UNCHANGED <<lk, died>>
  BY <1>5 DEF SchedOut, Step
<1>7. f.k < Len(Code[f.code])
  BY <1>1, <1>2, Ends DEF At
<1>8. StackOK(t, s2) /\ s2 # <<>> /\ g.code = f.code /\ g.k = f.k + 1
  BY <1>1, <1>7, Stepping
<1>9. /\ \A d \in Cpu : On(d) # c /\ (d # c => On(d) \notin ready')
      /\ ready' \subseteq Kproc /\ c \notin ready' /\ c \in Thread /\ c \in Kproc \cup {c} /\ c # t
      /\ cpu \in [Cpu -> Processor] /\ DOMAIN stack = Thread /\ saved \in [Thread -> BOOLEAN]
  <2>1. \A d \in Cpu : On(d) \in Kproc \cup {d} /\ On(d) \notin ready /\ (d # c => On(d) # t)
    BY DEF SpinInv, Placed
  <2>2. ready \subseteq Kproc /\ cpu \in [Cpu -> Processor] /\ DOMAIN stack = Thread /\ saved \in [Thread -> BOOLEAN]
    BY DEF SpinInv, Typed
  <2> HIDE DEF t, f
  <2>3. \A d \in Cpu : d # c => On(d) # c
    BY <2>1, SpinAssumption
  <2>4. On(c) # c
    BY <1>3 DEF t
  <2> QED
    BY <1>3, <1>6, <2>1, <2>2, <2>3, <2>4, SpinAssumption DEF Thread
<1>10. /\ p2 \in Processor /\ p2.runs = c /\ p2.ncli = p.ncli /\ p2.flag = p.flag
       /\ cpu' \in [Cpu -> Processor] /\ \A d \in Cpu : cpu'[d] = IF d = c THEN p2 ELSE cpu[d]
  <2> HIDE DEF t, f
  <2> QED
    BY SMTT(60), <1>1, <1>6, <1>9 DEF Processor
<1>11. DOMAIN stack' = Thread /\ \A u \in Thread : stack'[u] = IF u = t THEN s2 ELSE stack[u]
  BY <1>6, <1>9
<1>12. /\ saved' \in [Thread -> BOOLEAN] /\ saved'[t] = p.intena
       /\ \A u \in Thread : u # t => saved'[u] = saved[u]
  <2>1. p.intena \in BOOLEAN
    BY <1>1 DEF Processor
  <2> QED
    BY <1>1, <1>6, <1>9, <2>1
<1> DEFINE h == Head(stack[c])
<1>13. stack[c] # <<>> /\ At(h, "pass", 5, 5)
  BY SMTT(60), <1>9 DEF SpinInv, Threads, Off
<1> HIDE DEF s, f, s2, g, p, p2, h, t
<1>14. OnOK(stack[c], p2)
  BY <1>4, <1>10, <1>13 DEF OnOK, At, Handles, Depth, Deep, Shallow, h
<1>15. Off(t, s2)
  BY <1>2, <1>3, <1>8 DEF Off, At, g
<1>16. SavedOK(s2, saved'[t])
  BY <1>1, <1>2, <1>8, <1>12 DEF SavedOK, OnOK, At, g
<1>17. \A l \in SpinLock : (HeldBy(stack[c], l) <=> HeldBy(s, l)) /\ (OwnedBy(stack[c], l) <=> OwnedBy(s, l))
  BY <1>1, <1>2, <1>13 DEF HeldBy, OwnedBy, Held, Owned, At, h
<1> QED
  BY <1>6, <1>8, <1>9, <1>10, <1>11, <1>12, <1>14, <1>15, <1>16, <1>17, SwitchStep DEF t, s

-----------------------------------------------------------------------------
LEMMA InitInv == SpinInit => SpinInv
<1> SUFFICES ASSUME SpinInit PROVE SpinInv
  OBVIOUS
<1> DEFINE First(t) == IF t \in Cpu THEN CallFrame("pass", 9)
                       ELSE IF t \in Newborn THEN CallFrame("tickproc", 21) ELSE CallFrame("yield", 6)
<1>1. /\ lk = [l \in SpinLock |-> [locked |-> FALSE, cpu |-> None]]
      /\ cpu = [c \in Cpu |-> [runs |-> c, ncli |-> 0, intena |-> FALSE, flag |-> FALSE]]
      /\ saved = [t \in Thread |-> TRUE] /\ ready = Kproc /\ died = FALSE
      /\ DOMAIN stack = Thread /\ \A t \in Thread : stack[t] = <<First(t)>>
  BY DEF SpinInit
<1>2. \A t \in Thread : /\ First(t) \in Frames
                        /\ t \in Cpu => First(t).code = "pass" /\ First(t).k = 9
                        /\ t \notin Cpu => \/ First(t).code = "tickproc" /\ First(t).k = 21
                                           \/ First(t).code = "yield" /\ First(t).k = 6
  <2>1. CallFrame("pass", 9) \in Frames /\ CallFrame("pass", 9).code = "pass" /\ CallFrame("pass", 9).k = 9
    <3>1. "pass" \in Codes /\ 9 <= Len(Code["pass"]) /\ 9 \in Nat /\ 9 >= 1 /\ FALSE \in BOOLEAN
      BY CodeLengths DEF Codes
    <3>2. CallFrame("pass", 9) \in Frames
      BY <3>1, FrameIs, Zenon DEF CallFrame
    <3> QED
      BY <3>2 DEF CallFrame
  <2>2. CallFrame("tickproc", 21) \in Frames /\ CallFrame("tickproc", 21).code = "tickproc" /\ CallFrame("tickproc", 21).k = 21
    <3>1. "tickproc" \in Codes /\ 21 <= Len(Code["tickproc"]) /\ 21 \in Nat /\ 21 >= 1 /\ FALSE \in BOOLEAN
      BY CodeLengths DEF Codes
    <3>2. CallFrame("tickproc", 21) \in Frames
      BY <3>1, FrameIs, Zenon DEF CallFrame
    <3> QED
      BY <3>2 DEF CallFrame
  <2>3. CallFrame("yield", 6) \in Frames /\ CallFrame("yield", 6).code = "yield" /\ CallFrame("yield", 6).k = 6
    <3>1. "yield" \in Codes /\ 6 <= Len(Code["yield"]) /\ 6 \in Nat /\ 6 >= 1 /\ FALSE \in BOOLEAN
      BY CodeLengths DEF Codes
    <3>2. CallFrame("yield", 6) \in Frames
      BY <3>1, FrameIs, Zenon DEF CallFrame
    <3> QED
      BY <3>2 DEF CallFrame
  <2> QED
    BY <2>1, <2>2, <2>3
<1> HIDE DEF First
<1>3. \A t \in Thread : /\ stack[t] \in Seq(Frames) /\ Len(stack[t]) = 1 /\ stack[t] # <<>>
                        /\ Head(stack[t]) = First(t) /\ stack[t][1] = First(t)
  <2>1. \A x \in Frames : /\ <<x>> \in Seq(Frames) /\ Len(<<x>>) = 1 /\ <<x>> # <<>>
                          /\ Head(<<x>>) = x /\ <<x>>[1] = x
    OBVIOUS
  <2>2. ASSUME NEW t \in Thread PROVE First(t) \in Frames /\ stack[t] = <<First(t)>>
    BY <1>1, <1>2
  <2> QED
    BY ZenonT(90), <2>1, <2>2
<1>4. \A c \in Cpu : c \in Thread /\ On(c) = c /\ cpu[c].ncli = 0 /\ cpu[c].flag = FALSE /\ c \notin Kproc
  BY <1>1, SpinAssumption DEF On, Thread
<1>5. Typed
  BY <1>1 DEF Typed, Processor, Lock, Thread
<1>6. Threads
  <2> SUFFICES ASSUME NEW t \in Thread
               PROVE  /\ StackOK(t, stack[t]) /\ SavedOK(stack[t], saved[t])
                      /\ (\A c \in Cpu : On(c) # t) => Off(t, stack[t])
    BY DEF Threads
  <2>1. StackOK(t, stack[t])
    BY <1>2, <1>3 DEF StackOK
  <2>2. SavedOK(stack[t], saved[t])
    BY <1>1, <1>2, <1>3 DEF SavedOK, At
  <2>3. (\A c \in Cpu : On(c) # t) => t \notin Cpu
    BY <1>4
  <2>4. t \notin Cpu => Off(t, stack[t])
    BY <1>2, <1>3 DEF Off, At
  <2> QED
    BY <2>1, <2>2, <2>3, <2>4
<1>7. Placed
  BY SMTT(60), <1>1, <1>4 DEF Placed
<1>8. Processors
  BY <1>2, <1>3, <1>4 DEF Processors, OnOK, At, Handles, Depth, Deep, Shallow
<1>9. Locks
  <2>1. \A c \in Cpu, l \in SpinLock : ~HeldBy(stack[On(c)], l) /\ ~OwnedBy(stack[On(c)], l)
    BY <1>2, <1>3, <1>4 DEF HeldBy, OwnedBy, Held, Owned, At
  <2>2. \A l \in SpinLock : ~lk[l].locked /\ lk[l].cpu = None
    BY <1>1
  <2> QED
    BY <2>1, <2>2, SpinAssumption DEF Locks
<1> QED
  BY <1>5, <1>6, <1>7, <1>8, <1>9 DEF SpinInv

LEMMA NextInv == SpinInv /\ [SpinNext]_spinVars => SpinInv'
<1> SUFFICES ASSUME SpinInv, [SpinNext]_spinVars PROVE SpinInv'
  BY SMTT(60)
<1>1. CASE UNCHANGED spinVars
  BY <1>1 DEF spinVars, SpinInv, Typed, Threads, Placed, Processors, Locks, On, StackOK, SavedOK, OnOK, Off,
              HeldBy, OwnedBy
<1>2. ~died
  BY DEF SpinInv, Typed
<1>3. ASSUME NEW c \in Cpu,
             \/ Look(c) \/ Cli(c) \/ Xchg(c) \/ Own(c) \/ Disown(c) \/ FreeLock(c) \/ Popcli(c)
             \/ SchedOut(c) \/ SchedIn(c) \/ Run(c) \/ EndOfTable(c) \/ Sti(c)
             \/ Loop(c) \/ Interrupt(c) \/ Iret(c)
      PROVE  SpinInv'
  BY <1>3, LookInv, CliInv, XchgInv, OwnInv, DisownInv, FreeLockInv, PopcliInv, SchedOutInv, SchedInInv,
     RunInv, EndOfTableInv, StiInv, LoopInv, InterruptInv, IretInv
<1> QED
  BY <1>1, <1>2, <1>3 DEF SpinNext

LEMMA InvSound == SpinInv => SpinSound
<1> SUFFICES ASSUME SpinInv PROVE SpinSound
  OBVIOUS
<1>1. \A c \in Cpu, l \in SpinLock : Inside(c, l) <=> HeldBy(stack[On(c)], l)
  BY Running, InsideIs
<1>2. SpinTypeOK
  <2>1. \A c \in Cpu : cpu[c].ncli \in 0..3
    <3> SUFFICES ASSUME NEW c \in Cpu PROVE cpu[c].ncli \in 0..3
      OBVIOUS
    <3>1. cpu[c].ncli = 0 \/ cpu[c].ncli = Depth(Head(stack[On(c)]))
      BY Running DEF OnOK
    <3> QED
      BY <3>1 DEF Depth
  <2> QED
    BY <2>1 DEF SpinTypeOK, SpinInv, Typed, Placed, Lock, On
<1>3. OneInside
  <2> SUFFICES ASSUME NEW l \in SpinLock
               PROVE  /\ Cardinality({c \in Cpu : Inside(c, l)}) <= 1
                      /\ lk[l].locked <=> \E c \in Cpu : Inside(c, l)
    BY DEF OneInside
  <2> DEFINE S == {c \in Cpu : Inside(c, l)}
  <2>1. /\ lk[l].locked <=> \E c \in Cpu : Inside(c, l)
        /\ \A c, d \in S : c = d
    BY <1>1 DEF SpinInv, Locks
  <2>2. S = {} \/ \E c \in S : S = {c}
    BY <2>1
  <2> HIDE DEF S
  <2>3. Cardinality(S) = 0 \/ Cardinality(S) = 1
    BY ZenonT(90), <2>2, FS_EmptySet, FS_Singleton
  <2> QED
    BY <2>1, <2>3 DEF S
<1>4. QuietInside
  <2>1. \A c \in Cpu, l \in SpinLock : HeldBy(stack[On(c)], l) => ~cpu[c].flag
    BY SMTT(60), Running DEF HeldBy, OnOK, Held, Shallow, At
  <2> QED
    BY <1>1, <2>1 DEF QuietInside
<1>5. InterruptsBack
  BY Running DEF InterruptsBack, OnOK
<1>6. NeverDies
  BY DEF NeverDies, SpinInv, Typed
<1> QED
  BY <1>2, <1>3, <1>4, <1>5, <1>6 DEF SpinSound

(* For any number of processors and processes, whatever interrupts find them  *)
(* and wherever sched() puts them: two processors are never inside the same   *)
(* spinlock, a lock is taken exactly while one is, a processor inside a lock  *)
(* takes no interrupt, interrupts are on again after the last release() on    *)
(* whatever processor that is, and none of the panics of acquire(),           *)
(* release(), popcli() and sched() is reached.                                *)
THEOREM SpinlocksSound == SpinSpec => []SpinSound
<1>1. SpinInit => SpinInv
  BY InitInv
<1>2. SpinInv /\ [SpinNext]_spinVars => SpinInv'
  BY NextInv
<1>3. SpinInv => SpinSound
  BY InvSound
<1> QED
  BY <1>1, <1>2, <1>3, PTL DEF SpinSpec

-----------------------------------------------------------------------------
(* The pipe, under its lock.                                                  *)

(* p->lock is held exactly by the process that is between acquire and release. *)
LockInv ==
  \A p \in PipeProc : pc[p] \in {"io", "copy", "dozing"} <=> holder = p

(* A process with no descriptor left is out, or the last of its end and on    *)
(* its way into pipeclose().                                                  *)
OpenInv ==
  /\ \A p \in PipeProc : p \in open <=> pc[p] \notin {"out", "close"}
  /\ \A p \in PipeProc : pc[p] = "close" => \A q \in SameEnd(p) \ {p} : pc[q] = "out"

(* An end is open as long as one of its processes has not left it, and the    *)
(* page is free when no end is open.                                          *)
EndInv ==
  /\ readopen <=> \E r \in Reader : pc[r] # "out"
  /\ writeopen <=> \E w \in Writer : pc[w] # "out"
  /\ freed <=> ~readopen /\ ~writeopen

(* The variables the page depends on.                                         *)
PageType ==
  /\ holder \in PipeProc \cup {NoProc}
  /\ readopen \in BOOLEAN /\ writeopen \in BOOLEAN /\ freed \in BOOLEAN
  /\ open \in SUBSET PipeProc
  /\ pc \in [PipeProc -> Pc]

EndsInv == PageType /\ LockInv /\ OpenInv /\ EndInv

-----------------------------------------------------------------------------
(* Division with a remainder, by a modulus that is a constant of the model.   *)

LEMMA DivMod ==
  ASSUME NEW x \in Int, NEW m \in Nat \ {0}
  PROVE  \E q \in Int : x % m \in 0..(m - 1) /\ x = m * q + (x % m)
<1>1. x \div m \in Int /\ x % m \in 0..(m - 1) /\ x = m * (x \div m) + (x % m)
  OBVIOUS
<1> QED
  BY <1>1

LEMMA OneQuotient ==
  ASSUME NEW m \in Nat \ {0}, NEW q \in Int, NEW r \in 0..(m - 1),
         NEW k \in Int, NEW s \in 0..(m - 1), m * q + r = m * k + s
  PROVE  q = k /\ r = s
OBVIOUS

LEMMA ModIs ==
  ASSUME NEW m \in Nat \ {0}, NEW q \in Int, NEW r \in 0..(m - 1), NEW x, x = m * q + r
  PROVE  x % m = r
<1> DEFINE s == x % m
<1>0. x \in Int
  OBVIOUS
<1>1. PICK k \in Int : s \in 0..(m - 1) /\ x = m * k + s
  BY <1>0, DivMod
<1> HIDE DEF s
<1>2. s = r
  BY ZenonT(100), <1>1, OneQuotient
<1> QED
  BY <1>2 DEF s

(* Two numbers less than m apart with one remainder are the same.             *)
LEMMA ModEq ==
  ASSUME NEW m \in Nat \ {0}, NEW x \in Int, NEW y \in Int,
         x % m = y % m, 0 <= y - x, y - x < m
  PROVE  x = y
<1> DEFINE s == x % m
<1>1. PICK q \in Int : x = m * q + s
  BY DivMod
<1>2. PICK k \in Int : y = m * k + s
  BY DivMod
<1>3. s \in Int
  BY DivMod
<1> HIDE DEF s
<1>4. y - x \in 0..(m - 1) /\ 0 \in 0..(m - 1) /\ k - q \in Int
  OBVIOUS
<1>5. m * (k - q) + 0 = m * 0 + (y - x)
  BY <1>1, <1>2, <1>3
<1>6. y - x = 0
  BY <1>4, <1>5, OneQuotient
<1> QED
  BY <1>6

LEMMA ModShift ==
  ASSUME NEW m \in Nat \ {0}, NEW x \in Int, NEW k \in Int, NEW y, y = m * k + x
  PROVE  y % m = x % m
<1> DEFINE s == x % m
<1>1. PICK q \in Int : s \in 0..(m - 1) /\ x = m * q + s
  BY DivMod
<1> HIDE DEF s
<1>2. k + q \in Int /\ y = m * (k + q) + s
  BY <1>1
<1>3. y % m = s
  BY <1>1, <1>2, ModIs
<1> QED
  BY <1>3 DEF s

(* A counter that wraps at n counts like one that does not, modulo m.         *)
LEMMA ModWrap ==
  ASSUME NEW m \in Nat \ {0}, NEW n \in Nat \ {0}, n % m = 0,
         NEW x \in Int, NEW y \in Int
  PROVE  ((x % n) + y) % m = (x + y) % m
<1> DEFINE s == x % n
<1>1. PICK q \in Int : s \in 0..(n - 1) /\ x = n * q + s
  BY DivMod
<1>2. PICK k \in Int : n = m * k
  BY DivMod
<1> HIDE DEF s
<1>3. PICK j \in Int : n * q = m * j
  <2>1. n * q = m * (k * q) /\ k * q \in Int
    BY <1>2
  <2> QED
    BY <2>1
<1>4. s + y \in Int /\ x + y = m * j + (s + y)
  BY <1>1, <1>3
<1> DEFINE a == x + y
           b == s + y
<1>5. b \in Int /\ a = m * j + b
  BY <1>4
<1> HIDE DEF a, b
<1>6. a % m = b % m
  BY ONLY ZenonT(100), <1>5, ModShift
<1> QED
  BY <1>6 DEF a, b, s

LEMMA ModSelf == ASSUME NEW m \in Nat \ {0} PROVE m % m = 0
<1>1. 0 \in 0..(m - 1) /\ m = m * 1 + 0
  OBVIOUS
<1> QED
  BY <1>1, ModIs

-----------------------------------------------------------------------------
USE PipeAssumption DEF PipeAssumption, PipeProc, Pc, SameEnd

(* pipealloc() leaves both ends open.                                         *)
LEMMA InitEndsInv == PipeInit => EndsInv
BY ZenonT(100) DEF PipeInit, EndsInv, PageType, LockInv, OpenInv, EndInv

(* A step that keeps everybody on the same side of the page: in, out, or on   *)
(* the way out.                                                               *)
LEMMA StayStep ==
  ASSUME EndsInv, PageType', LockInv', UNCHANGED ends,
         \A p \in PipeProc : /\ pc'[p] = "out" <=> pc[p] = "out"
                             /\ pc'[p] = "close" <=> pc[p] = "close"
  PROVE  EndsInv'
BY DEF EndsInv, PageType, OpenInv, EndInv, ends

(* wakeup() only takes sleepers to acquire.                                   *)
LEMMA WakeupMoves ==
  ASSUME PageType, NEW S
  PROVE  /\ Wakeup(S) \in [PipeProc -> Pc]
         /\ \A p \in PipeProc : \/ Wakeup(S)[p] = pc[p]
                                \/ pc[p] = "asleep" /\ Wakeup(S)[p] = "acquire"
BY DEF Wakeup, PageType

(* The end of a call: the holder of the lock wakes S and gives the lock back. *)
LEMMA ReleaseStep ==
  ASSUME EndsInv, NEW p \in PipeProc, NEW S, Release(p, S, "user"),
         pc[p] \in {"io", "copy"}, UNCHANGED ends
  PROVE  EndsInv'
<1>1. holder = p /\ holder' = NoProc /\ pc' = [Wakeup(S) EXCEPT ![p] = "user"]
  BY DEF EndsInv, LockInv, Release
<1>2. /\ Wakeup(S) \in [PipeProc -> Pc]
      /\ \A q \in PipeProc : \/ Wakeup(S)[q] = pc[q]
                             \/ pc[q] = "asleep" /\ Wakeup(S)[q] = "acquire"
  BY WakeupMoves DEF EndsInv
<1>3. PageType'
  BY <1>1, <1>2 DEF EndsInv, PageType, ends
<1>4. LockInv'
  BY <1>1, <1>2 DEF EndsInv, PageType, LockInv
<1> QED
  BY <1>1, <1>2, <1>3, <1>4, StayStep

(* A step that moves one process between two places inside a call.            *)
LEMMA MoveStep ==
  ASSUME EndsInv, NEW p \in PipeProc, NEW to \in Pc, NEW l \in PipeProc \cup {NoProc},
         pc' = [pc EXCEPT ![p] = to], holder' = l, UNCHANGED ends,
         pc[p] \notin {"out", "close"}, to \notin {"out", "close"},
         to \in {"io", "copy", "dozing"} => l = p,
         to \notin {"io", "copy", "dozing"} => l # p,
         l # p => l = IF holder = p THEN NoProc ELSE holder,
         l = p => holder \in {p, NoProc}
  PROVE  EndsInv'
<1>1. PageType'
  BY DEF EndsInv, PageType, ends
<1>2. LockInv'
  BY DEF EndsInv, PageType, LockInv
<1>3. \A q \in PipeProc : /\ pc'[q] = "out" <=> pc[q] = "out"
                          /\ pc'[q] = "close" <=> pc[q] = "close"
  BY DEF EndsInv, PageType
<1> QED
  BY <1>1, <1>2, <1>3, StayStep

(* pipewrite(), one step per way through its loop.                            *)
LEMMA WriteStep ==
  ASSUME EndsInv, NEW w \in Writer, Write(w)
  PROVE  EndsInv'
<1>1. CASE WriteByte(w)
  BY <1>1 DEF WriteByte, EndsInv, PageType, LockInv, OpenInv, EndInv, ends
<1>2. CASE WriteFail(w)
  BY <1>2, ReleaseStep DEF WriteFail, Writing
<1>3. CASE WriteWait(w)
  <2>1. holder = w /\ holder' = w /\ pc' = [Wakeup(Reader) EXCEPT ![w] = "dozing"] /\ UNCHANGED ends
    BY <1>3 DEF WriteWait, Writing, EndsInv, LockInv
  <2>2. /\ Wakeup(Reader) \in [PipeProc -> Pc]
        /\ \A q \in PipeProc : \/ Wakeup(Reader)[q] = pc[q]
                               \/ pc[q] = "asleep" /\ Wakeup(Reader)[q] = "acquire"
    BY WakeupMoves DEF EndsInv
  <2>3. PageType' /\ LockInv'
    BY <2>1, <2>2 DEF EndsInv, PageType, LockInv, ends
  <2>4. pc[w] = "io"
    BY <1>3 DEF WriteWait, Writing
  <2> QED
    BY <2>1, <2>2, <2>3, <2>4, StayStep
<1>4. CASE WriteDone(w)
  BY <1>4, ReleaseStep DEF WriteDone
<1> QED
  BY <1>1, <1>2, <1>3, <1>4 DEF Write

(* piperead(), likewise.                                                      *)
LEMMA ReadStep ==
  ASSUME EndsInv, NEW r \in Reader, Read(r)
  PROVE  EndsInv'
<1>1. CASE ReadFail(r)
  BY <1>1, ReleaseStep DEF ReadFail, NothingYet
<1>2. CASE ReadWait(r)
  BY <1>2, MoveStep DEF ReadWait, NothingYet, EndsInv, PageType, LockInv
<1>3. CASE ReadByte(r)
  BY <1>3, MoveStep DEF ReadByte, EndsInv, PageType, LockInv
<1>4. CASE ReadDone(r)
  BY <1>4, ReleaseStep DEF ReadDone
<1> QED
  BY <1>1, <1>2, <1>3, <1>4 DEF Read

(* A call starts, waits for the lock, gets it, or sleeps.                     *)
LEMMA CallStep ==
  ASSUME EndsInv, NEW p \in PipeProc, Enter(p) \/ Acquire(p) \/ Sleep(p)
  PROVE  EndsInv'
<1>1. CASE Enter(p)
  BY <1>1, MoveStep DEF Enter, EndsInv, PageType, LockInv
<1>2. CASE Acquire(p)
  BY <1>2, MoveStep DEF Acquire, EndsInv, PageType, LockInv
<1>3. CASE Sleep(p)
  BY <1>3, MoveStep DEF Sleep, EndsInv, PageType, LockInv
<1> QED
  BY <1>1, <1>2, <1>3

(* kill() wakes its target and touches nothing else of the pipe.              *)
LEMMA KillStep ==
  ASSUME EndsInv, NEW p \in PipeProc, Kill(p)
  PROVE  EndsInv'
<1>1. pc' = [pc EXCEPT ![p] = IF pc[p] = "asleep" THEN "acquire" ELSE pc[p]]
      /\ holder' = holder /\ UNCHANGED ends
  BY DEF Kill, WokenByKill
<1>2. PageType' /\ LockInv'
  BY <1>1 DEF EndsInv, PageType, LockInv, ends
<1>3. \A q \in PipeProc : /\ pc'[q] = "out" <=> pc[q] = "out"
                          /\ pc'[q] = "close" <=> pc[q] = "close"
  BY <1>1 DEF EndsInv, PageType
<1> QED
  BY <1>1, <1>2, <1>3, StayStep

(* fork(): the child joins an end that its parent still has.                  *)
LEMMA InheritStep ==
  ASSUME EndsInv, NEW p \in PipeProc, NEW q \in PipeProc, Inherit(p, q)
  PROVE  EndsInv'
<1>1. /\ pc[p] = "user" /\ pc[q] = "out" /\ (p \in Reader <=> q \in Reader)
      /\ open' = open \cup {q} /\ pc' = [pc EXCEPT ![q] = "user"]
      /\ UNCHANGED <<holder, readopen, writeopen, freed>>
  BY DEF Inherit
<1>2. PageType' /\ LockInv'
  BY <1>1 DEF EndsInv, PageType, LockInv
<1>3. OpenInv'
  BY <1>1 DEF EndsInv, PageType, OpenInv
<1>4. EndInv'
  BY <1>1 DEF EndsInv, PageType, EndInv
<1> QED
  BY <1>2, <1>3, <1>4 DEF EndsInv

(* fileclose(): an end that loses its last descriptor stays open for          *)
(* pipeclose().                                                               *)
LEMMA CloseStep ==
  ASSUME EndsInv, NEW p \in PipeProc, Close(p)
  PROVE  EndsInv'
<1>1. /\ pc[p] = "user" /\ open' = open \ {p}
      /\ pc' = [pc EXCEPT ![p] = IF open' \cap SameEnd(p) = {} THEN "close" ELSE "out"]
      /\ UNCHANGED <<holder, readopen, writeopen, freed>>
  BY DEF Close
<1>2. PageType' /\ LockInv'
  BY <1>1 DEF EndsInv, PageType, LockInv
<1>3. \A q \in PipeProc \ {p} : pc'[q] = pc[q]
  BY <1>1 DEF EndsInv, PageType
<1>4. pc'[p] = IF open' \cap SameEnd(p) = {} THEN "close" ELSE "out"
  BY <1>1 DEF EndsInv, PageType
<1>5. \A q \in SameEnd(p) : pc[q] # "close"
  BY <1>1 DEF EndsInv, OpenInv
<1>6. OpenInv'
  BY <1>1, <1>3, <1>4, <1>5 DEF EndsInv, OpenInv
<1>7. EndInv'
  BY <1>1, <1>3, <1>4, <1>5 DEF EndsInv, OpenInv, EndInv
<1> QED
  BY <1>2, <1>6, <1>7 DEF EndsInv

(* pipeclose(): the last process of an end leaves it.                         *)
LEMMA PipeCloseStep ==
  ASSUME EndsInv, NEW p \in PipeProc, PipeClose(p)
  PROVE  EndsInv'
<1>1. /\ pc[p] = "close" /\ holder = NoProc /\ holder' = NoProc
      /\ readopen' = (readopen /\ p \notin Reader)
      /\ writeopen' = (writeopen /\ p \notin Writer)
      /\ freed' = IF p \in Reader THEN ~writeopen ELSE ~readopen
      /\ open' = open
      /\ pc' = [Wakeup(OtherEnd(p)) EXCEPT ![p] = "out"]
  BY DEF PipeClose, LastEnd
<1>2. /\ Wakeup(OtherEnd(p)) \in [PipeProc -> Pc]
      /\ \A q \in PipeProc : \/ Wakeup(OtherEnd(p))[q] = pc[q]
                             \/ pc[q] = "asleep" /\ Wakeup(OtherEnd(p))[q] = "acquire"
  BY WakeupMoves DEF EndsInv
<1>3. /\ pc'[p] = "out"
      /\ \A q \in PipeProc \ {p} : \/ pc'[q] = pc[q]
                                   \/ pc[q] = "asleep" /\ pc'[q] = "acquire"
  BY <1>1, <1>2
<1>4. PageType'
  BY <1>1, <1>2 DEF EndsInv, PageType
<1>5. LockInv'
  BY <1>1, <1>3 DEF EndsInv, LockInv
<1>6. OpenInv'
  BY <1>1, <1>3 DEF EndsInv, OpenInv
<1>7. EndInv'
  <2>1. \A q \in SameEnd(p) : pc'[q] = "out"
    BY <1>1, <1>3 DEF EndsInv, OpenInv
  <2>2. \A q \in PipeProc \ SameEnd(p) : pc'[q] = "out" <=> pc[q] = "out"
    BY <1>3
  <2>3. CASE p \in Reader
    BY <1>1, <2>1, <2>2, <2>3 DEF EndsInv, EndInv, PageType
  <2>4. CASE p \in Writer
    BY <1>1, <2>1, <2>2, <2>4 DEF EndsInv, EndInv, PageType
  <2> QED
    BY <2>3, <2>4
<1> QED
  BY <1>4, <1>5, <1>6, <1>7 DEF EndsInv

(* Every step of the pipe keeps the invariant.                                *)
LEMMA NextEndsInv == EndsInv /\ [PipeNext]_pipeVars => EndsInv'
<1> SUFFICES ASSUME EndsInv, [PipeNext]_pipeVars PROVE EndsInv'
  OBVIOUS
<1>1. ASSUME NEW p \in PipeProc, Locked(p) PROVE EndsInv'
  BY <1>1, WriteStep, ReadStep, CallStep DEF Locked
<1>2. CASE UNCHANGED pipeVars
  BY <1>2 DEF pipeVars, ends, ring, EndsInv, PageType, LockInv, OpenInv, EndInv
<1> QED
  BY <1>1, <1>2, CallStep, KillStep, InheritStep, CloseStep, PipeCloseStep DEF PipeNext, Finished

(* Nobody can reach a page that is free.                                      *)
LEMMA EndsInvFreed == EndsInv => FreedIsUnused
BY DEF EndsInv, PageType, LockInv, OpenInv, EndInv, FreedIsUnused

(* pipeclose() frees the page of a pipe only after the last process has left  *)
(* it, however many share its ends, and in whatever order they close them.    *)
THEOREM PageIsSafe == PipeSpec => []FreedIsUnused
BY InitEndsInv, NextEndsInv, EndsInvFreed, PTL DEF PipeSpec

-----------------------------------------------------------------------------
(* The bytes, and the processes that wait for them.                           *)

(* The counters are those of the bytes that went in and out, wrapped, and the *)
(* buffer has the bytes in between where the counters say.                    *)
RingInv ==
  /\ sent \in Nat /\ got \in Nat /\ got <= sent /\ sent - got <= PIPESIZE
  /\ nread = got % W /\ nwrite = sent % W
  /\ data \in [0..(PIPESIZE - 1) -> Nat]
  /\ \A k \in (got + 1)..sent : data[(k - 1) % PIPESIZE] = k

CallType ==
  /\ left \in [PipeProc -> 0..MaxIO] /\ killed \in [PipeProc -> BOOLEAN] /\ ncpu \in Cpus

(* Who sleeps is right to, or somebody under p->lock is about to wake him.    *)
ReaderSleepInv ==
  \A r \in Reader :
    /\ pc[r] = "dozing" => Empty /\ writeopen
    /\ pc[r] = "asleep" => \/ Empty /\ writeopen
                           \/ holder \in Writer /\ pc[holder] = "io"
                           \/ \E w \in Writer : killed[w]

WriterSleepInv ==
  \A w \in Writer :
    /\ pc[w] = "dozing" => Full /\ readopen
    /\ pc[w] = "asleep" => \/ Full /\ readopen
                           \/ holder \in Reader /\ pc[holder] = "copy"

(* On one processor kill() does not run between the test of p->killed and the *)
(* sleep.                                                                     *)
KillInv == ncpu = 1 => \A p \in PipeProc : killed[p] => pc[p] \notin {"dozing", "asleep"}

SInv == RingInv /\ CallType /\ ReaderSleepInv /\ WriterSleepInv /\ KillInv

LEMMA InitSInv == PipeInit => SInv
<1> SUFFICES ASSUME PipeInit PROVE SInv
  OBVIOUS
<1>1. 0 % W = 0
  <2>1. 0 \in 0..(W - 1) /\ 0 = W * 0 + 0
    OBVIOUS
  <2> QED
    BY <2>1, ModIs
<1>2. RingInv
  BY <1>1 DEF PipeInit, RingInv
<1>3. \A p \in PipeProc : pc[p] \in {"user", "out"} /\ ~killed[p]
  BY DEF PipeInit
<1>4. CallType
  BY DEF PipeInit, CallType
<1> QED
  BY <1>2, <1>3, <1>4 DEF SInv, ReaderSleepInv, WriterSleepInv, KillInv

LEMMA Moduli ==
  /\ W \in Nat \ {0} /\ PIPESIZE \in Nat \ {0}
  /\ W % PIPESIZE = 0 /\ W % W = 0
BY ModSelf

LEMMA WrapAtW == ASSUME NEW x \in Int, NEW y \in Int PROVE ((x % W) + y) % W = (x + y) % W
BY ONLY Moduli, ModWrap, ZenonT(100)

LEMMA WrapAtSize ==
  ASSUME NEW x \in Int, NEW y \in Int
  PROVE  ((x % W) + y) % PIPESIZE = (x + y) % PIPESIZE
BY ONLY Moduli, ModWrap, ZenonT(100)

LEMMA SameAtW ==
  ASSUME NEW x \in Int, NEW y \in Int, x % W = y % W, 0 <= y - x, y - x < W
  PROVE  x = y
BY Moduli, ModEq, Zenon

LEMMA SameAtSize ==
  ASSUME NEW x \in Int, NEW y \in Int,
         x % PIPESIZE = y % PIPESIZE, 0 <= y - x, y - x < PIPESIZE
  PROVE  x = y
BY Moduli, ModEq, Zenon

(* What the tests of pipewrite() and piperead() mean.                         *)
LEMMA FullMeans == ASSUME RingInv PROVE Full <=> sent = got + PIPESIZE
<1>1. (nread + PIPESIZE) % W = (got + PIPESIZE) % W
  BY WrapAtW DEF RingInv
<1>2. CASE Full
  <2>1. sent % W = (got + PIPESIZE) % W
    BY <1>1, <1>2 DEF Full, RingInv
  <2> DEFINE top == got + PIPESIZE
  <2>2. sent \in Int /\ top \in Int /\ 0 <= top - sent /\ top - sent < W
    BY DEF RingInv
  <2>3. sent % W = top % W
    BY <2>1
  <2> HIDE DEF top
  <2>4. sent = top
    BY <2>2, <2>3, SameAtW, Zenon
  <2> QED
    BY <1>2, <2>4 DEF top
<1>3. CASE ~Full
  BY <1>1, <1>3 DEF Full, RingInv
<1> QED
  BY <1>2, <1>3

LEMMA EmptyMeans == ASSUME RingInv PROVE Empty <=> sent = got
<1>1. got \in Int /\ sent \in Int /\ 0 <= sent - got /\ sent - got < W
  BY DEF RingInv
<1>2. got % W = sent % W => got = sent
  BY <1>1, SameAtW, Zenon
<1> QED
  BY <1>2 DEF RingInv, Empty

(* The place of a byte in the buffer.                                         *)
LEMMA PlaceOf ==
  ASSUME NEW n \in Nat
  PROVE  (n % W) % PIPESIZE = n % PIPESIZE /\ n % PIPESIZE \in 0..(PIPESIZE - 1)
<1>0. n \in Int /\ 0 \in Int
  OBVIOUS
<1>1. ((n % W) + 0) % PIPESIZE = (n + 0) % PIPESIZE
  BY <1>0, WrapAtSize, Zenon
<1>2. n % W \in Int /\ n % PIPESIZE \in 0..(PIPESIZE - 1)
  BY DivMod
<1> QED
  BY <1>1, <1>2

LEMMA BumpWraps == ASSUME NEW n \in Nat PROVE Bump(n % W) = (n + 1) % W
BY WrapAtW DEF Bump

(* A byte goes in.                                                            *)
LEMMA PutByte ==
  ASSUME RingInv, ~Full,
         data' = [data EXCEPT ![nwrite % PIPESIZE] = sent + 1],
         nwrite' = Bump(nwrite), sent' = sent + 1, UNCHANGED <<nread, got>>
  PROVE  RingInv'
<1>1. sent \in Nat /\ got \in Nat /\ got <= sent /\ sent - got < PIPESIZE
  BY FullMeans DEF RingInv
<1>2. nwrite % PIPESIZE = sent % PIPESIZE /\ sent % PIPESIZE \in 0..(PIPESIZE - 1)
  BY <1>1, PlaceOf DEF RingInv
<1>3. nwrite' = sent' % W
  BY <1>1, BumpWraps DEF RingInv
<1>4. data' \in [0..(PIPESIZE - 1) -> Nat]
  BY <1>1, <1>2 DEF RingInv
<1>5. ASSUME NEW k \in (got + 1)..sent
      PROVE  data'[(k - 1) % PIPESIZE] = k
  <2>1. k - 1 \in Nat /\ k - 1 \in Int /\ sent \in Int /\ 0 <= sent - (k - 1) /\ sent - (k - 1) < PIPESIZE
    BY <1>1
  <2>2. (k - 1) % PIPESIZE \in 0..(PIPESIZE - 1)
    BY <2>1, PlaceOf
  <2>3. k - 1 # sent
    BY <1>1
  <2>4. (k - 1) % PIPESIZE # sent % PIPESIZE
    BY <2>1, <2>3, SameAtSize, Zenon
  <2> QED
    BY <1>2, <2>2, <2>4 DEF RingInv
<1>6. data'[sent % PIPESIZE] = sent + 1
  BY <1>2 DEF RingInv
<1>7. \A k \in (got + 1)..(sent + 1) : data'[(k - 1) % PIPESIZE] = k
  <2> TAKE k \in (got + 1)..(sent + 1)
  <2>1. CASE k = sent + 1
    <3>1. k - 1 = sent
      BY <1>1, <2>1
    <3> QED
      BY <1>6, <2>1, <3>1
  <2>2. CASE k # sent + 1
    BY <1>1, <1>5, <2>2
  <2> QED
    BY <2>1, <2>2
<1> QED
  BY <1>1, <1>3, <1>4, <1>7 DEF RingInv

(* A byte comes out: the next one.                                            *)
LEMMA GetByte ==
  ASSUME RingInv, ~Empty, got' = data[nread % PIPESIZE],
         nread' = Bump(nread), UNCHANGED <<nwrite, data, sent>>
  PROVE  RingInv' /\ got' = got + 1
<1>1. sent \in Nat /\ got \in Nat /\ got < sent /\ sent - got <= PIPESIZE
  BY EmptyMeans DEF RingInv
<1>2. nread % PIPESIZE = got % PIPESIZE
  BY <1>1, PlaceOf DEF RingInv
<1>3. data[((got + 1) - 1) % PIPESIZE] = got + 1
  BY <1>1 DEF RingInv
<1>4. (got + 1) - 1 = got
  BY <1>1
<1>5. got' = got + 1
  BY <1>2, <1>3, <1>4
<1>6. nread' = got' % W
  BY <1>1, <1>5, BumpWraps DEF RingInv
<1> QED
  BY <1>1, <1>5, <1>6 DEF RingInv

LEMMA RingInOrder == ASSUME RingInv PROVE InOrder
<1>1. sent \in Nat /\ got \in Nat /\ sent - got \in 0..PIPESIZE /\ sent \in Int /\ got \in Int
  BY DEF RingInv
<1>2. Unread = sent - got
  <2> DEFINE d == sent - got
             a == sent % W
             b == got % W
  <2>1. PICK q \in Int : a \in 0..(W - 1) /\ sent = W * q + a
    BY <1>1, DivMod, Moduli, Zenon
  <2>2. PICK k \in Int : b \in 0..(W - 1) /\ got = W * k + b
    BY <1>1, DivMod, Moduli, Zenon
  <2>3. Unread = (a - b) % W
    BY DEF Unread, RingInv
  <2>4. d \in 0..(W - 1)
    BY <1>1
  <2> HIDE DEF a, b
  <2> DEFINE e == a - b
             j == q - k
  <2>5. j \in Int /\ e = W * (0 - j) + d /\ 0 - j \in Int
    BY <1>1, <2>1, <2>2
  <2> HIDE DEF d, e, j
  <2>6. e % W = d
    BY <2>4, <2>5, Moduli, ModIs
  <2> QED
    BY <2>3, <2>6 DEF d, e
<1>3. ASSUME NEW i \in 1..Unread
      PROVE  data[(nread + i - 1) % PIPESIZE] = got + i
  <2> DEFINE k == got + i
  <2>1. k \in (got + 1)..sent /\ k - 1 = got + (i - 1) /\ got \in Int /\ i - 1 \in Int
        /\ nread \in Int /\ nread + i - 1 = nread + (i - 1)
    BY <1>1, <1>2, DivMod, Moduli DEF RingInv
  <2>2. (nread + (i - 1)) % PIPESIZE = (got + (i - 1)) % PIPESIZE
    BY <2>1, WrapAtSize DEF RingInv
  <2>3. data[(k - 1) % PIPESIZE] = k
    BY <2>1 DEF RingInv
  <2> QED
    BY <2>1, <2>2, <2>3
<1> QED
  BY <1>1, <1>2, <1>3 DEF InOrder

(* Steps that leave the bytes alone.                                          *)
LEMMA RingKept ==
  ASSUME RingInv, UNCHANGED ring
  PROVE  RingInv' /\ Empty' = Empty /\ Full' = Full
BY DEF RingInv, ring, Empty, Full

LEMMA EnterSInv ==
  ASSUME EndsInv, SInv, NEW p \in PipeProc, Enter(p)
  PROVE  SInv'
<1>1. RingInv' /\ Empty' = Empty /\ Full' = Full
  BY RingKept DEF Enter, SInv
<1>2. pc' = [pc EXCEPT ![p] = "acquire"] /\ pc[p] = "user"
      /\ UNCHANGED <<holder, killed, ncpu, readopen, writeopen>>
  BY DEF Enter, ends
<1>3. CallType'
  BY <1>2 DEF Enter, SInv, CallType
<1>4. ReaderSleepInv' /\ WriterSleepInv'
  BY <1>1, <1>2 DEF EndsInv, PageType, LockInv, SInv, ReaderSleepInv, WriterSleepInv
<1>5. KillInv'
  BY <1>2 DEF EndsInv, PageType, SInv, KillInv
<1> QED
  BY <1>1, <1>3, <1>4, <1>5 DEF SInv

LEMMA InheritSInv ==
  ASSUME EndsInv, SInv, NEW p \in PipeProc, NEW q \in PipeProc, Inherit(p, q)
  PROVE  SInv'
<1>1. RingInv' /\ Empty' = Empty /\ Full' = Full
  BY RingKept DEF Inherit, SInv
<1>2. pc' = [pc EXCEPT ![q] = "user"] /\ pc[q] = "out"
      /\ UNCHANGED <<holder, left, killed, ncpu, readopen, writeopen>>
  BY DEF Inherit
<1>3. CallType'
  BY <1>2 DEF SInv, CallType
<1>4. ReaderSleepInv' /\ WriterSleepInv'
  BY <1>1, <1>2 DEF EndsInv, PageType, LockInv, SInv, ReaderSleepInv, WriterSleepInv
<1>5. KillInv'
  BY <1>2 DEF EndsInv, PageType, SInv, KillInv
<1> QED
  BY <1>1, <1>3, <1>4, <1>5 DEF SInv

LEMMA CloseSInv ==
  ASSUME EndsInv, SInv, NEW p \in PipeProc, Close(p)
  PROVE  SInv'
<1>1. RingInv' /\ Empty' = Empty /\ Full' = Full
  BY RingKept DEF Close, SInv
<1>2. PICK to \in {"close", "out"} : pc' = [pc EXCEPT ![p] = to]
  BY DEF Close
<1>3. pc[p] = "user" /\ UNCHANGED <<holder, left, killed, ncpu, readopen, writeopen>>
  BY DEF Close
<1>4. CallType'
  BY <1>3 DEF SInv, CallType
<1>5. ReaderSleepInv' /\ WriterSleepInv'
  BY <1>1, <1>2, <1>3 DEF EndsInv, PageType, LockInv, SInv, ReaderSleepInv, WriterSleepInv
<1>6. KillInv'
  BY <1>2, <1>3 DEF EndsInv, PageType, SInv, KillInv
<1> QED
  BY <1>1, <1>4, <1>5, <1>6 DEF SInv

(* On one processor nobody holds p->lock when kill() runs, so that nobody is  *)
(* about to sleep.                                                            *)
LEMMA KillSInv ==
  ASSUME EndsInv, SInv, NEW p \in PipeProc, Kill(p)
  PROVE  SInv'
<1>1. RingInv' /\ Empty' = Empty /\ Full' = Full
  BY RingKept DEF Kill, SInv
<1>2. /\ pc' = [pc EXCEPT ![p] = IF pc[p] = "asleep" THEN "acquire" ELSE pc[p]]
      /\ killed' = [killed EXCEPT ![p] = TRUE]
      /\ UNCHANGED <<holder, left, ncpu, readopen, writeopen>>
  BY DEF Kill, WokenByKill, ends
<1>3. CallType'
  BY <1>2 DEF SInv, CallType
<1>4. \A w \in Writer : killed[w] => killed'[w]
  BY <1>2 DEF SInv, CallType
<1>5. \A q \in PipeProc : /\ pc'[q] = "asleep" => pc[q] = "asleep" /\ q # p
                          /\ pc'[q] \in {"dozing", "io", "copy"} <=> pc[q] \in {"dozing", "io", "copy"}
                          /\ pc[q] \in {"dozing", "io", "copy"} => pc'[q] = pc[q]
  BY <1>2 DEF EndsInv, PageType
<1>6. ReaderSleepInv'
  BY <1>1, <1>2, <1>4, <1>5 DEF SInv, ReaderSleepInv
<1>7. WriterSleepInv'
  BY <1>1, <1>2, <1>5 DEF SInv, WriterSleepInv
<1>8. KillInv'
  <2> SUFFICES ASSUME ncpu = 1, NEW q \in PipeProc, killed'[q]
               PROVE  pc'[q] \notin {"dozing", "asleep"}
    BY <1>2 DEF KillInv
  <2>1. holder = NoProc
    BY DEF Kill
  <2>2. pc[q] # "dozing"
    BY <2>1 DEF EndsInv, LockInv
  <2>3. q # p => killed[q]
    BY <1>2 DEF SInv, CallType
  <2> QED
    BY <1>5, <2>2, <2>3 DEF SInv, KillInv
<1> QED
  BY <1>1, <1>3, <1>6, <1>7, <1>8 DEF SInv

LEMMA SleepSInv ==
  ASSUME EndsInv, SInv, NEW p \in PipeProc, Sleep(p)
  PROVE  SInv'
<1>1. RingInv' /\ Empty' = Empty /\ Full' = Full
  BY RingKept DEF Sleep, SInv
<1>2. pc' = [pc EXCEPT ![p] = "asleep"] /\ pc[p] = "dozing" /\ holder = p
      /\ UNCHANGED <<left, killed, ncpu, readopen, writeopen>>
  BY DEF Sleep, EndsInv, LockInv, ends
<1>3. CallType'
  BY <1>2 DEF SInv, CallType
<1>4. ReaderSleepInv' /\ WriterSleepInv'
  BY <1>1, <1>2 DEF EndsInv, PageType, SInv, ReaderSleepInv, WriterSleepInv
<1>5. KillInv'
  BY <1>2 DEF EndsInv, PageType, SInv, KillInv
<1> QED
  BY <1>1, <1>3, <1>4, <1>5 DEF SInv

LEMMA AcquireSInv ==
  ASSUME EndsInv, SInv, NEW p \in PipeProc, Acquire(p)
  PROVE  SInv'
<1>1. RingInv' /\ Empty' = Empty /\ Full' = Full
  BY RingKept DEF Acquire, SInv
<1>2. pc' = [pc EXCEPT ![p] = "io"] /\ pc[p] = "acquire" /\ holder = NoProc
      /\ UNCHANGED <<left, killed, ncpu, readopen, writeopen>>
  BY DEF Acquire, ends
<1>3. CallType'
  BY <1>2 DEF SInv, CallType
<1>4. ReaderSleepInv' /\ WriterSleepInv'
  BY <1>1, <1>2 DEF EndsInv, PageType, SInv, ReaderSleepInv, WriterSleepInv
<1>5. KillInv'
  BY <1>2 DEF EndsInv, PageType, SInv, KillInv
<1> QED
  BY <1>1, <1>3, <1>4, <1>5 DEF SInv

(* pipeclose() wakes whoever waits for the end that closes.                   *)
LEMMA PipeCloseSInv ==
  ASSUME EndsInv, SInv, NEW p \in PipeProc, PipeClose(p)
  PROVE  SInv'
<1>1. RingInv' /\ Empty' = Empty /\ Full' = Full
  BY RingKept DEF PipeClose, SInv
<1>2. /\ pc[p] = "close" /\ holder = NoProc /\ holder' = NoProc
      /\ readopen' = (readopen /\ p \notin Reader)
      /\ writeopen' = (writeopen /\ p \notin Writer)
      /\ pc' = [Wakeup(OtherEnd(p)) EXCEPT ![p] = "out"]
      /\ UNCHANGED <<left, killed, ncpu>>
  BY DEF PipeClose
<1>3. CallType'
  BY <1>2 DEF SInv, CallType
<1>4. \A q \in PipeProc : /\ pc'[q] \in {"asleep", "dozing"} => pc'[q] = pc[q]
                          /\ q \in OtherEnd(p) => pc'[q] # "asleep"
  BY <1>2 DEF Wakeup
<1>5. \A q \in PipeProc : pc[q] # "dozing"
  BY <1>2 DEF EndsInv, LockInv
<1>6. ReaderSleepInv'
  BY <1>1, <1>2, <1>4, <1>5 DEF SInv, ReaderSleepInv, OtherEnd, EndsInv, PageType
<1>7. WriterSleepInv'
  BY <1>1, <1>2, <1>4, <1>5 DEF SInv, WriterSleepInv, OtherEnd, EndsInv, PageType
<1>8. KillInv'
  BY <1>2, <1>4 DEF SInv, KillInv
<1> QED
  BY <1>1, <1>3, <1>6, <1>7, <1>8 DEF SInv

(* The holder of p->lock leaves, and wakes the processes of S.                *)
LEMMA ReleaseMoves ==
  ASSUME EndsInv, NEW p \in PipeProc, pc[p] \in {"io", "copy"}, NEW S, Release(p, S, "user")
  PROVE  /\ holder = p /\ holder' = NoProc
         /\ \A q \in PipeProc : /\ pc'[q] # "dozing"
                                /\ pc'[q] = "asleep" => pc[q] = "asleep" /\ q \notin S
<1>1. holder = p /\ holder' = NoProc /\ pc' = [Wakeup(S) EXCEPT ![p] = "user"]
  BY DEF Release, EndsInv, LockInv
<1>2. \A q \in PipeProc : q # p => pc[q] # "dozing"
  BY <1>1 DEF EndsInv, LockInv
<1>3. \A q \in PipeProc : pc'[q] = IF q = p THEN "user" ELSE Wakeup(S)[q]
  BY <1>1 DEF Wakeup
<1> QED
  BY <1>1, <1>2, <1>3 DEF Wakeup

(* pipewrite(): a writer that leaves readers asleep is a killed one.          *)
LEMMA WriteSInv ==
  ASSUME EndsInv, SInv, NEW w \in Writer, Write(w)
  PROVE  SInv'
<1> USE DEF Writing
<1>1. CASE WriteByte(w)
  <2>1. ~Full /\ pc' = pc /\ pc[w] = "io" /\ holder = w /\ left[w] > 0
        /\ left' = [left EXCEPT ![w] = @ - 1]
        /\ UNCHANGED <<holder, killed, ncpu, readopen, writeopen>>
    BY <1>1 DEF WriteByte, EndsInv, LockInv, ends
  <2>2. RingInv'
    BY <1>1, PutByte DEF WriteByte, SInv
  <2>3. CallType'
    BY <2>1 DEF SInv, CallType
  <2>4. ReaderSleepInv'
    BY <2>1 DEF EndsInv, LockInv, SInv, ReaderSleepInv
  <2>5. WriterSleepInv'
    BY <2>1 DEF EndsInv, LockInv, SInv, WriterSleepInv
  <2>6. KillInv'
    BY <2>1 DEF SInv, KillInv
  <2> QED
    BY <2>2, <2>3, <2>4, <2>5, <2>6 DEF SInv
<1>2. CASE WriteFail(w)
  <2>1. RingInv' /\ Empty' = Empty /\ Full' = Full
    BY <1>2, RingKept DEF WriteFail, SInv
  <2>2. pc[w] = "io" /\ Release(w, {}, "user") /\ (~readopen \/ killed[w])
        /\ left' = [left EXCEPT ![w] = 0] /\ UNCHANGED <<killed, ncpu, readopen, writeopen>>
    BY <1>2 DEF WriteFail, ends
  <2>3. /\ holder = w /\ holder' = NoProc
        /\ \A q \in PipeProc : pc'[q] # "dozing" /\ (pc'[q] = "asleep" => pc[q] = "asleep")
    BY <2>2, ReleaseMoves
  <2>4. CallType'
    BY <2>2 DEF SInv, CallType
  <2>5. ReaderSleepInv'
    <3>1. \A r \in Reader : pc[r] = "asleep" => readopen
      BY DEF EndsInv, EndInv
    <3> QED
      BY <2>1, <2>2, <2>3, <3>1 DEF SInv, ReaderSleepInv
  <2>6. WriterSleepInv'
    BY <2>1, <2>2, <2>3 DEF SInv, WriterSleepInv
  <2>7. KillInv'
    BY <2>2, <2>3 DEF SInv, KillInv
  <2> QED
    BY <2>1, <2>4, <2>5, <2>6, <2>7 DEF SInv
<1>3. CASE WriteWait(w)
  <2>1. RingInv' /\ Empty' = Empty /\ Full' = Full
    BY <1>3, RingKept DEF WriteWait, SInv
  <2>2. pc[w] = "io" /\ holder = w /\ Full /\ readopen /\ ~killed[w]
        /\ pc' = [Wakeup(Reader) EXCEPT ![w] = "dozing"]
        /\ UNCHANGED <<holder, left, killed, ncpu, readopen, writeopen>>
    BY <1>3 DEF WriteWait, EndsInv, LockInv, ends
  <2>3. \A q \in PipeProc : /\ pc'[q] = "dozing" => q = w
                            /\ pc'[q] = "asleep" => pc[q] = "asleep" /\ q \notin Reader
    BY <2>2 DEF Wakeup, EndsInv, LockInv
  <2>4. CallType'
    BY <2>2 DEF SInv, CallType
  <2>5. ReaderSleepInv' /\ WriterSleepInv'
    BY <2>1, <2>2, <2>3 DEF SInv, ReaderSleepInv, WriterSleepInv
  <2>6. KillInv'
    BY <2>2, <2>3 DEF SInv, KillInv
  <2> QED
    BY <2>1, <2>4, <2>5, <2>6 DEF SInv
<1>4. CASE WriteDone(w)
  <2>1. RingInv' /\ Empty' = Empty /\ Full' = Full
    BY <1>4, RingKept DEF WriteDone, SInv
  <2>2. pc[w] = "io" /\ Release(w, Reader, "user")
        /\ UNCHANGED <<left, killed, ncpu, readopen, writeopen>>
    BY <1>4 DEF WriteDone, ends
  <2>3. /\ holder = w /\ holder' = NoProc
        /\ \A q \in PipeProc : /\ pc'[q] # "dozing"
                               /\ pc'[q] = "asleep" => pc[q] = "asleep" /\ q \notin Reader
    BY <2>2, ReleaseMoves
  <2>4. CallType'
    BY <2>2 DEF SInv, CallType
  <2>5. ReaderSleepInv' /\ WriterSleepInv'
    BY <2>1, <2>2, <2>3 DEF SInv, ReaderSleepInv, WriterSleepInv
  <2>6. KillInv'
    BY <2>2, <2>3 DEF SInv, KillInv
  <2> QED
    BY <2>1, <2>4, <2>5, <2>6 DEF SInv
<1> QED
  BY <1>1, <1>2, <1>3, <1>4 DEF Write

(* piperead(): a reader that has taken bytes wakes the writers when it leaves. *)
LEMMA ReadSInv ==
  ASSUME EndsInv, SInv, NEW r \in Reader, Read(r)
  PROVE  SInv'
<1> USE DEF NothingYet
<1>1. CASE ReadFail(r)
  <2>1. RingInv' /\ Empty' = Empty /\ Full' = Full
    BY <1>1, RingKept DEF ReadFail, SInv
  <2>2. pc[r] = "io" /\ Release(r, {}, "user")
        /\ left' = [left EXCEPT ![r] = 0] /\ UNCHANGED <<killed, ncpu, readopen, writeopen>>
    BY <1>1 DEF ReadFail, ends
  <2>3. /\ holder = r /\ holder' = NoProc
        /\ \A q \in PipeProc : pc'[q] # "dozing" /\ (pc'[q] = "asleep" => pc[q] = "asleep")
    BY <2>2, ReleaseMoves
  <2>4. CallType'
    BY <2>2 DEF SInv, CallType
  <2>5. ReaderSleepInv' /\ WriterSleepInv'
    BY <2>1, <2>2, <2>3 DEF SInv, ReaderSleepInv, WriterSleepInv
  <2>6. KillInv'
    BY <2>2, <2>3 DEF SInv, KillInv
  <2> QED
    BY <2>1, <2>4, <2>5, <2>6 DEF SInv
<1>2. CASE ReadWait(r)
  <2>1. RingInv' /\ Empty' = Empty /\ Full' = Full
    BY <1>2, RingKept DEF ReadWait, SInv
  <2>2. pc[r] = "io" /\ holder = r /\ Empty /\ writeopen /\ ~killed[r]
        /\ pc' = [pc EXCEPT ![r] = "dozing"]
        /\ UNCHANGED <<holder, left, killed, ncpu, readopen, writeopen>>
    BY <1>2 DEF ReadWait, EndsInv, LockInv, ends
  <2>3. \A q \in PipeProc : /\ pc'[q] = "dozing" => q = r
                            /\ pc'[q] = "asleep" => pc[q] = "asleep"
    BY <2>2 DEF EndsInv, PageType, LockInv
  <2>4. CallType'
    BY <2>2 DEF SInv, CallType
  <2>5. ReaderSleepInv' /\ WriterSleepInv'
    BY <2>1, <2>2, <2>3 DEF SInv, ReaderSleepInv, WriterSleepInv
  <2>6. KillInv'
    BY <2>2, <2>3 DEF SInv, KillInv
  <2> QED
    BY <2>1, <2>4, <2>5, <2>6 DEF SInv
<1>3. CASE ReadByte(r)
  <2>1. ~Empty /\ pc' = [pc EXCEPT ![r] = "copy"] /\ holder = r /\ left[r] > 0
        /\ pc[r] \in {"io", "copy"}
        /\ left' = [left EXCEPT ![r] = @ - 1]
        /\ UNCHANGED <<holder, killed, ncpu, readopen, writeopen>>
    BY <1>3 DEF ReadByte, EndsInv, LockInv, ends
  <2>2. RingInv'
    BY <1>3, GetByte DEF ReadByte, SInv
  <2>3. CallType'
    BY <2>1 DEF SInv, CallType
  <2>4. pc'[r] = "copy" /\ \A q \in PipeProc : q # r => pc'[q] = pc[q] /\ pc[q] # "dozing"
    BY <2>1 DEF EndsInv, PageType, LockInv
  <2>5. ReaderSleepInv' /\ WriterSleepInv'
    BY <2>1, <2>4 DEF SInv, ReaderSleepInv, WriterSleepInv
  <2>6. KillInv'
    BY <2>1, <2>4 DEF SInv, KillInv
  <2> QED
    BY <2>2, <2>3, <2>5, <2>6 DEF SInv
<1>4. CASE ReadDone(r)
  <2>1. RingInv' /\ Empty' = Empty /\ Full' = Full
    BY <1>4, RingKept DEF ReadDone, SInv
  <2>2. pc[r] \in {"io", "copy"} /\ Release(r, Writer, "user")
        /\ left' = [left EXCEPT ![r] = 0] /\ UNCHANGED <<killed, ncpu, readopen, writeopen>>
    BY <1>4 DEF ReadDone, WokenByRead, ends
  <2>3. /\ holder = r /\ holder' = NoProc
        /\ \A q \in PipeProc : /\ pc'[q] # "dozing"
                               /\ pc'[q] = "asleep" => pc[q] = "asleep" /\ q \notin Writer
    BY <2>2, ReleaseMoves
  <2>4. CallType'
    BY <2>2 DEF SInv, CallType
  <2>5. ReaderSleepInv' /\ WriterSleepInv'
    BY <2>1, <2>2, <2>3 DEF SInv, ReaderSleepInv, WriterSleepInv
  <2>6. KillInv'
    BY <2>2, <2>3 DEF SInv, KillInv
  <2> QED
    BY <2>1, <2>4, <2>5, <2>6 DEF SInv
<1> QED
  BY <1>1, <1>2, <1>3, <1>4 DEF Read

LEMMA NextSInv == EndsInv /\ SInv /\ [PipeNext]_pipeVars => SInv'
<1> SUFFICES ASSUME EndsInv, SInv, [PipeNext]_pipeVars PROVE SInv'
  OBVIOUS
<1>1. CASE UNCHANGED pipeVars
  <2>1. RingInv' /\ Empty' = Empty /\ Full' = Full
    BY <1>1, RingKept DEF pipeVars, SInv
  <2>2. UNCHANGED <<holder, pc, left, killed, ncpu, readopen, writeopen>>
    BY <1>1 DEF pipeVars, ends
  <2> QED
    BY <2>1, <2>2 DEF SInv, CallType, ReaderSleepInv, WriterSleepInv, KillInv
<1>2. ASSUME NEW p \in PipeProc, Locked(p) PROVE SInv'
  BY <1>2, WriteSInv, ReadSInv, SleepSInv DEF Locked
<1> QED
  BY <1>1, <1>2, EnterSInv, AcquireSInv, KillSInv, InheritSInv, CloseSInv, PipeCloseSInv
     DEF PipeNext, Finished

(* For any number of readers and writers, sizes and processors: bytes come    *)
(* out in order and once, nobody sleeps who could go on, and on one processor *)
(* no killed process sleeps in the pipe (pipe.c).                             *)
THEOREM PipeIsSound == PipeSpec => []PipeSound
<1>1. PipeInit => EndsInv /\ SInv
  BY InitEndsInv, InitSInv
<1>2. EndsInv /\ SInv /\ [PipeNext]_pipeVars => (EndsInv /\ SInv)'
  BY NextEndsInv, NextSInv
<1>3. EndsInv /\ SInv => PipeSound
  <2> SUFFICES ASSUME EndsInv, SInv PROVE PipeSound
    OBVIOUS
  <2>1. nread \in 0..(W - 1) /\ nwrite \in 0..(W - 1)
    BY DivMod, Moduli DEF SInv, RingInv
  <2>2. PipeTypeOK
    BY <2>1 DEF PipeTypeOK, EndsInv, PageType, SInv, RingInv, CallType
  <2>3. InOrder
    BY RingInOrder DEF SInv
  <2>4. NoLostWakeup
    BY DEF NoLostWakeup, SInv, ReaderSleepInv, WriterSleepInv
  <2>5. KilledAwakeOnOne
    BY DEF KilledAwakeOnOne, KilledAwake, SInv, KillInv
  <2> QED
    BY <2>2, <2>3, <2>4, <2>5 DEF PipeSound
<1> QED
  BY <1>1, <1>2, <1>3, PTL DEF PipeSpec

=============================================================================
