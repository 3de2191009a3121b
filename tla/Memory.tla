------------------------------- MODULE Memory -------------------------------
(* Pages of physical memory: kalloc.c, vm.c, exec.c and growproc(), with what *)
(* fork() and wait() do about memory.  A call of a process takes a step per   *)
(* page, so that calls of different processes compete for the last pages; a   *)
(* page and the page-table page it needs are taken in one step, since only    *)
(* this process sees its page table.                                          *)
EXTENDS Integers, Sequences, FiniteSets, FiniteSetsExt, Functions

CONSTANTS NFRAME,    \* pages between the kernel's end and PHYSTOP
          MProc,     \* slots of the process table; FirstProc is init
          FirstProc,
          PGSIZE,
          TABPAGES,  \* entries of a page-table page
          KTABS,     \* page-table pages of the kernel's part of a page table
          KERNBASE,
          WORD,      \* a uint is below it: 2^32
          Files,     \* programs: [segs: sequence of [vaddr, memsz, filesz], entry]
          InitFile,  \* the program that initcode.S starts
          MaxSbrk,   \* bounds: the bytes of one sbrk(), of the arguments of
          MaxArgs,   \* exec(), and the calls made
          MaxMemCalls

ASSUME MemoryAssumption ==
  /\ {NFRAME, PGSIZE, TABPAGES, KERNBASE, WORD} \subseteq Nat \ {0} /\ KTABS \in Nat
  /\ TABPAGES > 1                          \* NPTENTRIES is 1024
  /\ NFRAME >= KTABS + 4                   \* else userinit() panics
  /\ MProc \subseteq Nat /\ FirstProc \in MProc
  /\ {MaxSbrk, MaxArgs} \subseteq Nat
  /\ KERNBASE + MaxSbrk <= WORD /\ KERNBASE + 3 * PGSIZE <= WORD    \* KERNBASE is 2^31
  /\ \A f \in Files : f.entry \in Nat /\ f.segs \in Seq([vaddr : Nat, memsz : Nat, filesz : Nat])

(* exec() fails for a file with filesz above memsz as it does for a segment   *)
(* that is not aligned.  What a program loads is linked below KERNBASE; where *)
(* its segments end is for exec() to check.                                   *)
ASSUME FilesAssumption ==
  \A f \in Files : \A n \in DOMAIN f.segs :
    /\ f.segs[n].filesz <= f.segs[n].memsz /\ f.segs[n].memsz < WORD
    /\ f.segs[n].vaddr + f.segs[n].filesz <= KERNBASE

VARIABLES
  kmem,   \* how many times a page is in kmem.freelist
  proc,   \* processes: [state, kstack, pd, sz, entry, ret, guard, do]; ret: what
          \* the last call returned, a slot for a pid; guard is history: the page below the stack
          \* that exec() made, 0 for none
  memCalls,
  panic   \* the kernel's last words, "" before

memVars == <<kmem, proc, memCalls, panic>>

Frame == 1..NFRAME
PageOf(a)   == a \div PGSIZE
RoundUp(a)  == (a + PGSIZE - 1) \div PGSIZE    \* in pages

-----------------------------------------------------------------------------
(* kalloc.c.  Which of the free pages kalloc() returns makes no difference.   *)
FreeFrames(k)  == {f \in Frame : k[f] > 0}
NoPage(k)      == FreeFrames(k) = {}
Kalloc(k)      == [k EXCEPT ![Min(FreeFrames(k))] = @ - 1]
Given(k)       == Min(FreeFrames(k))
Kfree(k, fs)   == [f \in Frame |-> IF f \in fs THEN k[f] + 1 ELSE k[f]]

(* A page table: its directory, the kernel's tables, the tables of the user   *)
(* part and the pages they map.                                               *)
NoDir == [dir |-> 0, ktabs |-> {}, tabs |-> <<>>, pages |-> <<>>]
Entry(f, u) == [frame |-> f, user |-> u]

PageFrames(pd) == {pd.pages[i].frame : i \in DOMAIN pd.pages}
FramesOf(pd)   == (({pd.dir} \cup pd.ktabs \cup Range(pd.tabs)) \ {0}) \cup PageFrames(pd)

(* setupkvm(): all of the kernel's part, or nothing.                          *)
CanSetup(k) == Cardinality(FreeFrames(k)) > KTABS
Setup(k) ==
  LET free == FreeFrames(k)
      fs   == {f \in free : Cardinality({g \in free : g < f}) <= KTABS}
  IN  [k  |-> [f \in Frame |-> IF f \in fs THEN k[f] - 1 ELSE k[f]],
       pd |-> [NoDir EXCEPT !.dir = Min(fs), !.ktabs = fs \ {Min(fs)}]]

(* mappages() of one page that is in frame f, with walkpgdir(); s = [k, pd].  *)
HasTable(pd, i) == i \div TABPAGES \in DOMAIN pd.tabs
CanMap(s, i)    == HasTable(s.pd, i) \/ FreeFrames(s.k) # {}
With(g, i, v)   == [x \in DOMAIN g \cup {i} |-> IF x = i THEN v ELSE g[x]]
MapPage(s, i, f, u) ==
  IF HasTable(s.pd, i) THEN [k |-> s.k, pd |-> [s.pd EXCEPT !.pages = With(@, i, Entry(f, u))]]
  ELSE [k  |-> Kalloc(s.k),
        pd |-> [s.pd EXCEPT !.tabs = With(@, i \div TABPAGES, Given(s.k)),
                            !.pages = With(@, i, Entry(f, u))]]

(* deallocuvm(): pages from the first one above size b to size a.             *)
Above(pd, a, b)   == {i \in DOMAIN pd.pages : i >= RoundUp(b) /\ i * PGSIZE < a}
Dealloc(s, a, b)  ==
  [k  |-> Kfree(s.k, {s.pd.pages[i].frame : i \in Above(s.pd, a, b)}),
   pd |-> [s.pd EXCEPT !.pages = Restrict(@, DOMAIN @ \ Above(s.pd, a, b))]]

FreevmPages(k, pd) == Kfree(k, PageFrames(pd))      \* mutant: the tables stay
Freevm(k, pd)      == Kfree(k, FramesOf(pd))

-----------------------------------------------------------------------------
(* Processes                                                                  *)

Nothing == [op |-> "none"]
Unborn  == [state |-> "unused", kstack |-> 0, pd |-> NoDir, sz |-> 0, entry |-> 0,
            ret |-> 0, guard |-> 0, do |-> Nothing]

(* userinit(): one page at address 0.                                         *)
MemInit ==
  LET s0 == Setup([f \in Frame |-> 1])
      f  == Given(s0.k)
      s1 == MapPage([k |-> Kalloc(s0.k), pd |-> s0.pd], 0, f, TRUE) IN
  /\ kmem = Kalloc(s1.k)
  /\ proc = [p \in MProc |-> IF p = FirstProc
               THEN [Unborn EXCEPT !.state = "user", !.kstack = Given(s1.k), !.pd = s1.pd, !.sz = PGSIZE]
               ELSE Unborn]
  /\ memCalls = 0
  /\ panic = ""

Panics(why) == panic' = why /\ UNCHANGED <<kmem, proc, memCalls>>

(* A process runs while the page of its next instruction is there.            *)
Runs(p) ==
  /\ proc[p].state = "user" /\ proc[p].entry \in DOMAIN proc[p].pd.pages
  /\ panic = ""
Calls(p) ==
  /\ Runs(p)
  /\ memCalls' = memCalls + 1
InitCode(p) == proc[p].entry = 0
In(p, op) == panic = "" /\ proc[p].state = "call" /\ proc[p].do.op = op
Begins(p, do) == proc' = [proc EXCEPT ![p].state = "call", ![p].do = do]
Back(x, r) == [x EXCEPT !.state = "user", !.ret = r, !.do = Nothing]
Fails(p)  == proc' = [proc EXCEPT ![p] = Back(@, -1)]

-----------------------------------------------------------------------------
(* sbrk(): growproc() with allocuvm() and deallocuvm().                       *)

FirstPage(sz) == RoundUp(sz)     \* that allocuvm() adds

SbrkGrow(p, n) ==
  /\ Calls(p) /\ ~InitCode(p) /\ n > 0
  /\ IF proc[p].sz + n >= KERNBASE THEN Fails(p)
     ELSE Begins(p, [op |-> "grow", a |-> FirstPage(proc[p].sz), to |-> proc[p].sz + n])
  /\ UNCHANGED <<kmem, panic>>

(* A size of 0 reads as an error, after the pages are gone; a size below 0    *)
(* is a large number, and nothing happens.                                    *)
SizeStays(p, n) == n = proc[p].sz

SbrkShrink(p, n) ==
  LET s == Dealloc([k |-> kmem, pd |-> proc[p].pd], proc[p].sz, proc[p].sz - n) IN
  /\ Calls(p) /\ ~InitCode(p) /\ n > 0
  /\ IF n > proc[p].sz THEN proc' = [proc EXCEPT ![p].ret = 0] /\ UNCHANGED kmem
     ELSE /\ kmem' = s.k
          /\ proc' = [proc EXCEPT ![p].pd = s.pd,
                                  ![p].sz = IF SizeStays(p, n) THEN @ ELSE @ - n,
                                  ![p].ret = IF SizeStays(p, n) THEN -1 ELSE 0,
                                  ![p].guard = IF @ \in DOMAIN s.pd.pages THEN @ ELSE 0]
  /\ UNCHANGED panic

(* allocuvm() of one page for the page table pd: the next state of [k, pd],   *)
(* with what it took given back if a page cannot be had or mapped.            *)
GivenBack(s, f)     == Kfree(s.k, {f})

Took(s)        == [k |-> Kalloc(s.k), pd |-> s.pd]
CanAlloc(s, i) == ~NoPage(s.k) /\ CanMap(Took(s), i)

AllocPage(s, i, newsz, oldsz) ==
  IF NoPage(s.k) THEN Dealloc(s, newsz, oldsz)
  ELSE IF CanMap(Took(s), i) THEN MapPage(Took(s), i, Given(s.k), TRUE)
  ELSE Dealloc([k |-> GivenBack(Took(s), Given(s.k)), pd |-> s.pd], newsz, oldsz)

GrowPage(p) ==
  LET d == proc[p].do
      s0 == [k |-> kmem, pd |-> proc[p].pd]
      s  == AllocPage(s0, d.a, d.to, proc[p].sz) IN
  /\ In(p, "grow") /\ d.a * PGSIZE < d.to
  /\ IF d.a \in DOMAIN proc[p].pd.pages THEN Panics("remap")
     ELSE /\ kmem' = s.k
          /\ proc' = IF CanAlloc(s0, d.a) THEN [proc EXCEPT ![p].pd = s.pd, ![p].do.a = @ + 1]
                     ELSE [proc EXCEPT ![p] = [Back(@, -1) EXCEPT !.pd = s.pd]]
          /\ UNCHANGED <<memCalls, panic>>

GrowDone(p) ==
  /\ In(p, "grow") /\ proc[p].do.a * PGSIZE >= proc[p].do.to
  /\ proc' = [proc EXCEPT ![p] = [Back(@, 0) EXCEPT !.sz = proc[p].do.to]]
  /\ UNCHANGED <<kmem, memCalls, panic>>

-----------------------------------------------------------------------------
(* fork(): allocproc(), then copyuvm() page by page from PGSIZE on.           *)

UnusedProc == {q \in MProc : proc[q].state = "unused"}

Fork(p) ==
  LET q == Min(UnusedProc)
      k == Kalloc(kmem) IN
  /\ Calls(p) /\ ~InitCode(p)
  /\ IF UnusedProc = {} \/ NoPage(kmem) \/ ~CanSetup(k) THEN Fails(p) /\ UNCHANGED kmem
     ELSE /\ kmem' = Setup(k).k
          /\ proc' = [proc EXCEPT ![p].state = "call", ![p].do = [op |-> "copy", q |-> q, a |-> 1],
                                  ![q].state = "embryo", ![q].kstack = Given(kmem),
                                  ![q].pd = Setup(k).pd]
  /\ UNCHANGED panic

FlagOf(e)        == e.user

MemFreed(f)    == {f}

CopyFails(p, q, k, fs) ==
  /\ kmem' = Kfree(Freevm(k, proc[q].pd), fs \cup {proc[q].kstack})
  /\ proc' = [proc EXCEPT ![p] = Back(@, -1), ![q] = Unborn]

CopyPage(p) ==
  LET d == proc[p].do
      q == d.q
      f == Given(kmem)
      t == [k |-> Kalloc(kmem), pd |-> proc[q].pd] IN
  /\ In(p, "copy") /\ d.a * PGSIZE < proc[p].sz
  /\ IF d.a \notin DOMAIN proc[p].pd.pages THEN Panics("copyuvm")
     ELSE /\ IF NoPage(kmem) THEN CopyFails(p, q, kmem, {})
             ELSE IF ~CanMap(t, d.a) THEN CopyFails(p, q, t.k, MemFreed(f))
             ELSE LET s == MapPage(t, d.a, f, FlagOf(proc[p].pd.pages[d.a])) IN
                  /\ kmem' = s.k
                  /\ proc' = [proc EXCEPT ![q].pd = s.pd, ![p].do.a = @ + 1]
          /\ UNCHANGED <<memCalls, panic>>

CopyDone(p) ==
  LET q == proc[p].do.q IN
  /\ In(p, "copy") /\ proc[p].do.a * PGSIZE >= proc[p].sz
  /\ proc' = [proc EXCEPT ![p] = Back(@, q),
                          ![q] = [Back(@, 0) EXCEPT !.sz = proc[p].sz, !.entry = proc[p].entry,
                                           !.guard = proc[p].guard]]
  /\ UNCHANGED <<kmem, memCalls, panic>>

-----------------------------------------------------------------------------
(* exec(): a new page table is filled, segment by segment, then the guard     *)
(* page and the stack; only then is the old one given up.                     *)

ExecFails(p, k, pd) ==
  /\ kmem' = Freevm(k, pd)
  /\ Fails(p)

(* The loop over the program headers starts at PGSIZE and adds to it.  The    *)
(* sum for a segment is a uint, of which only a part is checked for wrapping; *)
(* for a sum below the old size allocuvm() leaves that as it is.              *)
Loading(d) == d.seg <= Len(d.file.segs)
Segment(d) == d.file.segs[d.seg]
SegTop(d)  == Segment(d).vaddr + Segment(d).memsz
SegEnd(d)  == (d.sz + SegTop(d)) % WORD
NewSize(d) == IF Loading(d) THEN SegEnd(d) ELSE (RoundUp(d.sz) + 2) * PGSIZE
Wanted(d)  == IF NewSize(d) < d.sz THEN d.sz ELSE NewSize(d)

FitsStack(args) == args <= PGSIZE
TooLarge(d)     == (Loading(d) /\ SegTop(d) >= WORD) \/ NewSize(d) >= KERNBASE

Exec(p, file, args) ==
  /\ Calls(p) /\ (InitCode(p) => file = InitFile /\ FitsStack(args))
  /\ IF ~CanSetup(kmem) THEN Fails(p) /\ UNCHANGED kmem
     ELSE /\ kmem' = Setup(kmem).k
          /\ Begins(p, [op |-> "exec", file |-> file, args |-> args, seg |-> 1, sz |-> PGSIZE,
                        a |-> 1, pd |-> Setup(kmem).pd])
  /\ UNCHANGED panic

(* allocuvm(), for a segment or for the stack.                                *)
ExecPage(p) ==
  LET d == proc[p].do
      s0 == [k |-> kmem, pd |-> d.pd]
      s  == AllocPage(s0, d.a, Wanted(d), d.sz) IN
  /\ In(p, "exec") /\ ~TooLarge(d) /\ d.a * PGSIZE < Wanted(d)
  /\ IF d.a \in DOMAIN d.pd.pages THEN Panics("remap")
     ELSE /\ IF CanAlloc(s0, d.a)
             THEN kmem' = s.k /\ proc' = [proc EXCEPT ![p].do.pd = s.pd, ![p].do.a = @ + 1]
             ELSE ExecFails(p, s.k, s.pd)
          /\ UNCHANGED <<memCalls, panic>>

ExecTooLarge(p) ==
  /\ In(p, "exec") /\ TooLarge(proc[p].do)
  /\ ExecFails(p, kmem, proc[p].do.pd)
  /\ UNCHANGED <<memCalls, panic>>

(* loaduvm(): the table must be there; it does not look at the page.          *)
ExecLoad(p) ==
  LET d   == proc[p].do
      seg == Segment(d) IN
  /\ In(p, "exec") /\ ~TooLarge(d) /\ Loading(d) /\ d.a * PGSIZE >= Wanted(d)
  /\ IF seg.vaddr % PGSIZE # 0 THEN ExecFails(p, kmem, d.pd) /\ UNCHANGED <<memCalls, panic>>
     ELSE IF \E i \in PageOf(seg.vaddr)..(RoundUp(seg.vaddr + seg.filesz) - 1) : ~HasTable(d.pd, i)
     THEN Panics("loaduvm")
     ELSE /\ proc' = [proc EXCEPT ![p].do.sz = Wanted(d), ![p].do.seg = @ + 1,
                                  ![p].do.a = FirstPage(Wanted(d))]
          /\ UNCHANGED <<kmem, memCalls, panic>>

(* The arguments go on the stack; copyout() stops at the guard page.          *)
Clearpteu(pd, i) == [pd EXCEPT !.pages[i].user = FALSE]

ExecCommit(p) ==
  LET d  == proc[p].do
      sz == Wanted(d) IN
  /\ In(p, "exec") /\ ~TooLarge(d) /\ ~Loading(d) /\ d.a * PGSIZE >= sz
  /\ IF FitsStack(d.args)
     THEN /\ proc' = [proc EXCEPT ![p] =
               [Back(@, 0) EXCEPT !.pd = Clearpteu(d.pd, PageOf(sz) - 2), !.sz = sz,
                                  !.entry = d.file.entry,
                                  !.guard = PageOf(sz) - 2]]
          /\ kmem' = Freevm(kmem, proc[p].pd)
     ELSE ExecFails(p, kmem, d.pd)
  /\ UNCHANGED <<memCalls, panic>>

-----------------------------------------------------------------------------
(* The end of a process: by itself, or by the fault of its next instruction.  *)
Exits(p) ==
  /\ panic = "" /\ proc[p].state = "user" /\ p # FirstProc
  /\ proc' = [proc EXCEPT ![p].state = "zombie"]
  /\ UNCHANGED <<kmem, memCalls, panic>>

Reap(p, q) ==
  /\ Runs(p) /\ proc[q].state = "zombie"
  /\ kmem' = Kfree(Freevm(kmem, proc[q].pd), {proc[q].kstack})
  /\ proc' = [proc EXCEPT ![q] = Unborn]
  /\ UNCHANGED <<memCalls, panic>>

(* fetchint(), fetchstr(), argptr(): a pointer below sz is followed.          *)
Fetch(p, a) ==
  /\ Calls(p) /\ ~InitCode(p) /\ a < proc[p].sz
  /\ panic' = IF PageOf(a) \in DOMAIN proc[p].pd.pages THEN panic ELSE "trap"
  /\ UNCHANGED <<kmem, proc>>

-----------------------------------------------------------------------------

MemStep(p) ==
  \/ GrowPage(p) \/ GrowDone(p) \/ CopyPage(p) \/ CopyDone(p)
  \/ ExecPage(p) \/ ExecTooLarge(p) \/ ExecLoad(p) \/ ExecCommit(p)

MemCall(p) ==
  \/ Fork(p)
  \/ \E n \in {1, MaxSbrk} : SbrkGrow(p, n)
  \/ \E n \in {PGSIZE, proc[p].sz, proc[p].sz + 1} : SbrkShrink(p, n)
  \/ \E f \in Files, a \in {1, MaxArgs} : Exec(p, f, a)
  \/ \E a \in {0, proc[p].sz - 1} : Fetch(p, a)

MemNext ==
  \/ \E p \in MProc :
       \/ MemStep(p) \/ Exits(p)
       \/ memCalls < MaxMemCalls /\ MemCall(p)
       \/ \E q \in MProc : Reap(p, q)
  \/ (panic # "" \/ \A p \in MProc : ~In(p, proc[p].do.op)) /\ UNCHANGED memVars

MemSpec == MemInit /\ [][MemNext]_memVars

-----------------------------------------------------------------------------

InProgress(p) == IF proc[p].do.op = "exec" THEN proc[p].do.pd ELSE NoDir
HeldBy(p)     == ({proc[p].kstack} \ {0}) \cup FramesOf(proc[p].pd) \cup FramesOf(InProgress(p))
Entries(pd)   == (IF pd.dir = 0 THEN 0 ELSE 1)
                 + Cardinality(pd.ktabs) + Cardinality(DOMAIN pd.tabs) + Cardinality(DOMAIN pd.pages)

(* A page is in the free list once or in use once, whatever fails half way:   *)
(* none is lost, freed twice or shared.                                       *)
FramesAccounted ==
  LET held == [p \in MProc |-> HeldBy(p)] IN
  /\ \A f \in Frame : kmem[f] + Cardinality({p \in MProc : f \in held[p]}) = 1
  /\ \A p \in MProc :
       Cardinality(held[p]) = Entries(proc[p].pd) + Entries(InProgress(p))
                              + IF proc[p].kstack = 0 THEN 0 ELSE 1

(* A process that runs has the pages from PGSIZE to its size and no others,   *)
(* also after a call that failed; initcode has page 0.                        *)
PagesBelowSize ==
  \A p \in MProc : Runs(p) =>
    DOMAIN proc[p].pd.pages = IF InitCode(p) THEN {0} ELSE 1..(RoundUp(proc[p].sz) - 1)

(* The page below the stack stays inaccessible, in children too.              *)
GuardStays ==
  \A p \in MProc : Runs(p) /\ proc[p].guard # 0 => ~proc[p].pd.pages[proc[p].guard].user

(* The kernel's own checks hold: a page is never mapped twice, copyuvm()      *)
(* finds every page below the size, and loaduvm() the tables of a segment,    *)
(* unless the size that exec() computed for it wrapped (exec.c:52).           *)
Wrapped(d) == Loading(d) /\ d.sz + SegTop(d) >= WORD
LoadsSound == panic = "loaduvm" => \E p \in MProc : proc[p].do.op = "exec" /\ Wrapped(proc[p].do)
NeverRemaps == panic \notin {"remap", "copyuvm"} /\ LoadsSound

(* "Check that the pointer lies within the process address space": what it    *)
(* lets through is there (syscall.c:56-58, and validatetest of usertests.c).  *)
AcceptedIsMapped == panic # "trap"

(* Frames and page tables agree, after calls that ran out of pages too.       *)
MemorySound == FramesAccounted /\ PagesBelowSize /\ GuardStays /\ NeverRemaps

=============================================================================
