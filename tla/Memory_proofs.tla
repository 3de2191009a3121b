--------------------------- MODULE Memory_proofs ---------------------------
(* Pages of physical memory: for any number of processes and of pages, any    *)
(* programs that FilesAssumption allows and any sequence of calls, no page is *)
(* lost, freed twice or shared, and a process that runs has exactly the pages *)
(* below its size.                                                            *)
EXTENDS Memory, FiniteSetTheorems, WellFoundedInduction, TLAPS

(* A page table whose pages and tables are all different; every page is in a  *)
(* table.                                                                     *)
Maps  == UNION {[D -> Frame] : D \in SUBSET Nat}
Pages == UNION {[D -> [frame : Frame, user : BOOLEAN]] : D \in SUBSET Nat}
PageTable == [dir : Frame \cup {0}, ktabs : SUBSET Frame, tabs : Maps, pages : Pages]

Apart(pd) ==
  /\ \A i, j \in DOMAIN pd.tabs : pd.tabs[i] = pd.tabs[j] => i = j
  /\ \A i, j \in DOMAIN pd.pages : pd.pages[i].frame = pd.pages[j].frame => i = j
  /\ pd.dir \notin pd.ktabs \cup Range(pd.tabs) \cup PageFrames(pd)
  /\ pd.ktabs \cap (Range(pd.tabs) \cup PageFrames(pd)) = {}
  /\ Range(pd.tabs) \cap PageFrames(pd) = {}
Tabled(pd) == \A i \in DOMAIN pd.pages : HasTable(pd, i)
GoodTable(pd) == pd \in PageTable /\ Apart(pd) /\ Tabled(pd)

(* The pages 1 to n - 1 are mapped.                                           *)
UpTo(pd, n) == DOMAIN pd.pages = 1..(n - 1)

(* The memory of a process that is alive: initcode; what a process has that   *)
(* gave all of it back; and the pages from 1 up to its size, with the page    *)
(* below the stack inaccessible.                                              *)
Guarded(x) ==
  x.guard # 0 => x.guard \in 1..(RoundUp(x.sz) - 1) /\ ~x.pd.pages[x.guard].user
Boot(x)  == x.entry = 0 /\ DOMAIN x.pd.pages = {0} /\ x.guard = 0
Bare(x)  == DOMAIN x.pd.pages = {} /\ x.guard = 0
Whole(x) == UpTo(x.pd, RoundUp(x.sz)) /\ Guarded(x)
Tidy(x)  == x.sz > 0 /\ (Boot(x) \/ Bare(x) \/ Whole(x))

(* Calls in progress.                                                         *)
Grows  == [op : {"grow"}, a : Nat, to : Nat]
Copies == [op : {"copy"}, q : MProc, a : Nat]
Execs  == [op : {"exec"}, file : Files, args : Nat, seg : Nat, sz : Nat, a : Nat, pd : PageTable]

Growing(x) ==
  /\ x.do \in Grows
  /\ x.sz > 0 /\ x.do.to > x.sz
  /\ x.do.a \in RoundUp(x.sz)..RoundUp(x.do.to)
  /\ UpTo(x.pd, x.do.a) /\ Guarded(x)

Copying(x) ==
  /\ x.do \in Copies
  /\ x.sz > 0 /\ x.do.a \in 1..RoundUp(x.sz) /\ Whole(x)

Executing(x) ==
  /\ x.do \in Execs
  /\ Tidy(x)
  /\ x.do.seg \in 1..(Len(x.do.file.segs) + 1) /\ x.do.sz >= PGSIZE
  /\ x.do.a \in RoundUp(x.do.sz)..RoundUp(Wanted(x.do))
  /\ UpTo(x.do.pd, x.do.a)
  /\ Apart(x.do.pd) /\ Tabled(x.do.pd)

Process == [state : {"unused", "embryo", "user", "call", "zombie"}, kstack : Frame \cup {0},
            pd : PageTable, sz : Nat, entry : Nat, ret : MProc \cup {0, -1}, guard : Nat,
            do : {Nothing} \cup Grows \cup Copies \cup Execs]

(* The pages of a process: its kernel stack, its page table, and the one that *)
(* exec() is filling.                                                         *)
NewPd(x)  == IF x.do.op = "exec" THEN x.do.pd ELSE NoDir
Stack(x)  == {x.kstack} \ {0}
Held(x)   == Stack(x) \cup FramesOf(x.pd) \cup FramesOf(NewPd(x))
Parted(x) ==
  /\ Stack(x) \cap FramesOf(x.pd) = {} /\ Stack(x) \cap FramesOf(NewPd(x)) = {}
  /\ FramesOf(x.pd) \cap FramesOf(NewPd(x)) = {}

Shaped(x) ==
  /\ Apart(x.pd) /\ Tabled(x.pd) /\ Parted(x)
  /\ x.state # "call" => x.do = Nothing
  /\ x.state = "unused" => x = Unborn
  /\ x.state = "embryo" => x.guard = 0
  /\ x.state = "user" => Tidy(x)
  /\ x.state = "call" => Growing(x) \/ Copying(x) \/ Executing(x)

(* fork() copies into an embryo of its own.                                   *)
Copier(x) == x.state = "call" /\ x.do.op = "copy"
Copied(x, y) ==
  /\ y.state = "embryo" /\ UpTo(y.pd, x.do.a)
  /\ \A i \in 1..(x.do.a - 1) : y.pd.pages[i].user = x.pd.pages[i].user
Embryos(pr) ==
  /\ \A p \in MProc : Copier(pr[p]) => Copied(pr[p], pr[pr[p].do.q])
  /\ \A p, q \in MProc : Copier(pr[p]) /\ Copier(pr[q]) /\ pr[p].do.q = pr[q].do.q => p = q

(* Every page is free or one process has it.                                  *)
Divided(free, held) ==
  /\ \A p \in MProc : held[p] \subseteq Frame \ free
  /\ \A p, q \in MProc : p # q => held[p] \cap held[q] = {}
  /\ \A f \in Frame \ free : \E p \in MProc : f \in held[p]

Free01 == [Frame -> {0, 1}]
Sound(k, pr) ==
  /\ k \in Free01 /\ pr \in [MProc -> Process]
  /\ \A p \in MProc : Shaped(pr[p])
  /\ Embryos(pr)
  /\ Divided(FreeFrames(k), [p \in MProc |-> Held(pr[p])])

PanicFits == panic \in {"", "trap", "loaduvm"} /\ LoadsSound

MemInv == Sound(kmem, proc) /\ PanicFits

LEMMA Calm ==
  ASSUME panic' \in {"", "trap"} PROVE PanicFits'
BY DEF PanicFits, LoadsSound

-----------------------------------------------------------------------------
(* Arithmetic of pages.                                                       *)

LEMMA PageSize == PGSIZE \in Nat \ {0}
BY MemoryAssumption

LEMMA Multiples ==
  ASSUME NEW i \in Int, NEW j \in Int, NEW m \in Nat \ {0}
  PROVE  /\ i <= j => i * m <= j * m
         /\ i < j => i * m < j * m /\ i * m + m <= j * m
<1>1. i < j => \E d \in Nat \ {0} : j = i + d
  <2> SUFFICES ASSUME i < j PROVE \E d \in Nat \ {0} : j = i + d
    OBVIOUS
  <2>1. j - i \in Nat \ {0} /\ j = i + (j - i)
    OBVIOUS
  <2> QED
    BY ZenonT(60), <2>1
<1>2. ASSUME NEW d \in Nat \ {0}, j = i + d PROVE i * m + m <= j * m
  <2>1. j * m = i * m + d * m
    BY <1>2
  <2>2. d * m >= m
    OBVIOUS
  <2> QED
    BY <2>1, <2>2
<1>3. i < j => i * m + m <= j * m
  BY <1>1, <1>2
<1> QED
  BY <1>3

(* Page i begins below address a if and only if it is below RoundUp(a).       *)
LEMMA Rounds ==
  ASSUME NEW a \in Nat
  PROVE  /\ RoundUp(a) \in Nat
         /\ a <= RoundUp(a) * PGSIZE /\ RoundUp(a) * PGSIZE < a + PGSIZE
<1>1. ASSUME NEW m \in Nat \ {0}, NEW x \in Nat, x >= m - 1
      PROVE  x \div m \in Nat /\ (x \div m) * m <= x /\ x < (x \div m) * m + m
  OBVIOUS
<1> DEFINE x == a + PGSIZE - 1
<1>2. x \in Nat /\ x >= PGSIZE - 1
  BY PageSize
<1>3. x \div PGSIZE \in Nat /\ (x \div PGSIZE) * PGSIZE <= x /\ x < (x \div PGSIZE) * PGSIZE + PGSIZE
  BY <1>1, <1>2, PageSize
<1> DEFINE r == x \div PGSIZE
<1>4. RoundUp(a) = r
  BY DEF RoundUp
<1> DEFINE y == r * PGSIZE
<1>5. r \in Nat /\ y <= a + PGSIZE - 1 /\ a + PGSIZE - 1 < y + PGSIZE /\ y \in Int
  BY <1>3, PageSize
<1> HIDE DEF r, y
<1>6. a <= y /\ y < a + PGSIZE
  BY <1>5, PageSize
<1> QED
  BY <1>4, <1>5, <1>6 DEF y

LEMMA PagesBelow ==
  ASSUME NEW a \in Nat, NEW i \in Int
  PROVE  i < RoundUp(a) <=> i * PGSIZE < a
<1> DEFINE r == RoundUp(a)
           y == r * PGSIZE
           z == i * PGSIZE
<1>1. r \in Nat /\ a <= y /\ y < a + PGSIZE /\ y \in Int /\ z \in Int
  BY Rounds, PageSize
<1>2. /\ i < r => z + PGSIZE <= y
      /\ r <= i => y <= z
  <2>1. r \in Int
    BY <1>1
  <2> HIDE DEF r
  <2> QED
    BY <2>1, Multiples, PageSize
<1> HIDE DEF y, z, r
<1>3. i < r <=> z < a
  BY <1>1, <1>2, PageSize
<1> QED
  BY <1>3 DEF r, z

LEMMA RoundsUpTo ==
  ASSUME NEW a \in Nat, NEW b \in Nat, a <= b
  PROVE  RoundUp(a) <= RoundUp(b)
<1> DEFINE i == RoundUp(b)
<1>1. i \in Nat /\ RoundUp(a) \in Nat
  BY Rounds
<1>2. i < RoundUp(a) => i < i
  <2>1. i < RoundUp(a) <=> i * PGSIZE < a
    BY <1>1, PagesBelow
  <2>2. i < i <=> i * PGSIZE < b
    <3> HIDE DEF i
    <3>1. i < RoundUp(b) <=> i * PGSIZE < b
      BY <1>1, PagesBelow
    <3> QED
      BY <3>1 DEF i
  <2> DEFINE z == i * PGSIZE
  <2>3. z \in Int
    BY <1>1, PageSize
  <2> HIDE DEF z
  <2> QED
    BY <2>1, <2>2, <2>3 DEF z
<1> QED
  BY <1>1, <1>2

LEMMA RoundsPositive ==
  ASSUME NEW a \in Nat, a > 0
  PROVE  RoundUp(a) >= 1
<1>1. 0 < RoundUp(a) <=> 0 * PGSIZE < a
  BY PagesBelow
<1> QED
  BY <1>1, Rounds, PageSize

(* A whole number of pages.                                                   *)
LEMMA WholePages ==
  ASSUME NEW n \in Nat
  PROVE  n * PGSIZE \in Nat /\ RoundUp(n * PGSIZE) = n /\ PageOf(n * PGSIZE) = n
<1>1. ASSUME NEW m \in Nat \ {0} PROVE n * m \in Nat /\ (n * m) \div m = n
  OBVIOUS
<1>2. n * PGSIZE \in Nat /\ PageOf(n * PGSIZE) = n
  BY <1>1, PageSize DEF PageOf
<1> DEFINE y == n * PGSIZE
<1>3. ASSUME NEW i \in Int PROVE i < RoundUp(y) <=> i < n
  <2>1. i < RoundUp(y) <=> i * PGSIZE < y
    <3> HIDE DEF y
    <3> QED
      BY <1>2, PagesBelow DEF y
  <2>2. i * PGSIZE < y <=> i < n
    <3> DEFINE z == i * PGSIZE
    <3>1. /\ i < n => z + PGSIZE <= y
          /\ n <= i => y <= z
      BY Multiples, PageSize
    <3>2. z \in Int /\ y \in Int
      BY PageSize
    <3> HIDE DEF y, z
    <3>3. z < y <=> i < n
      BY <3>1, <3>2, PageSize
    <3> QED
      BY <3>3 DEF z
  <2> QED
    BY <2>1, <2>2
<1>4. RoundUp(y) = n
  <2>1. RoundUp(y) \in Nat
    BY <1>2, Rounds
  <2> DEFINE r == RoundUp(y)
  <2> HIDE DEF r, y
  <2>2. \A i \in Int : i < r <=> i < n
    BY <1>3 DEF r
  <2>3. r < r <=> r < n
    BY <2>1, <2>2 DEF r
  <2>4. n < r <=> n < n
    BY <2>1, <2>2 DEF r
  <2> QED
    BY <2>1, <2>3, <2>4 DEF r
<1> QED
  BY <1>2, <1>4

LEMMA Least ==
  ASSUME NEW T \in SUBSET Nat, T # {}
  PROVE  \E m \in T : \A n \in T : m <= n
<1> DEFINE Below == {0..n : n \in T}
<1>1. IsWellFoundedOn(StrictSubsetOrdering(Nat), FiniteSubsetsOf(Nat))
  BY FS_StrictSubsetOrderingWellFounded
<1>2. Below \subseteq FiniteSubsetsOf(Nat)
  <2>1. ASSUME NEW n \in T PROVE 0..n \in FiniteSubsetsOf(Nat)
    <3>1. IsFiniteSet(0..n)
      BY FS_Interval
    <3>2. 0..n \subseteq Nat
      OBVIOUS
    <3> QED
      BY <3>1, <3>2 DEF FiniteSubsetsOf
  <2> QED
    BY <2>1
<1>3. Below # {}
  BY ZenonT(90)
<1>4. PICK s \in Below : \A r \in Below : ~ (<<r, s>> \in StrictSubsetOrdering(Nat))
  <2> HIDE DEF Below
  <2> QED
  BY <1>1, <1>2, <1>3, WFMin
<1>5. PICK m \in T : s = 0..m
  OBVIOUS
<1>6. ASSUME NEW n \in T PROVE m <= n
  <2>1. ~ (<<0..n, 0..m>> \in StrictSubsetOrdering(Nat))
    BY ZenonT(90), <1>4, <1>5
  <2>2. ~(0..n \subseteq 0..m /\ 0..n # 0..m)
    <3>1. 0..n \in SUBSET Nat /\ 0..m \in SUBSET Nat
      OBVIOUS
    <3> QED
    BY <2>1, <3>1 DEF StrictSubsetOrdering
  <2>3. CASE n < m
    <3>1. 0..n \subseteq 0..m
      BY <2>3
    <3>2. m \in 0..m /\ m \notin 0..n
      BY <2>3
    <3> QED
      BY <3>1, <3>2, <2>2
  <2> QED
    BY <2>3
<1> QED
  BY <1>6


-----------------------------------------------------------------------------
(* The free list.                                                             *)

LEMMA MinIs ==
  ASSUME NEW T \in SUBSET Nat, T # {}
  PROVE  Min(T) \in T /\ \A n \in T : Min(T) <= n
<1>1. \E m \in T : \A n \in T : m <= n
  BY Least
<1> QED
  BY ZenonT(90), <1>1 DEF Min

LEMMA GivenIs ==
  ASSUME NEW k, FreeFrames(k) # {}
  PROVE  Given(k) \in FreeFrames(k) /\ \A f \in FreeFrames(k) : Given(k) <= f
<1>1. FreeFrames(k) \in SUBSET Nat
  BY SMTT(60), MemoryAssumption DEF FreeFrames, Frame
<1> QED
  BY <1>1, MinIs DEF Given

LEMMA FreeIs ==
  ASSUME NEW k \in Free01, NEW f \in Frame
  PROVE  /\ k[f] \in {0, 1}
         /\ f \in FreeFrames(k) <=> k[f] = 1
BY DEF Free01, FreeFrames

(* kalloc() takes one page.                                                   *)
LEMMA Allocates ==
  ASSUME NEW k \in Free01, FreeFrames(k) # {}
  PROVE  /\ Kalloc(k) \in Free01
         /\ Given(k) \in FreeFrames(k)
         /\ FreeFrames(Kalloc(k)) = FreeFrames(k) \ {Given(k)}
<1> DEFINE g == Given(k)
<1>1. g \in Frame /\ g \in FreeFrames(k)
  BY GivenIs DEF FreeFrames
<1>2. Kalloc(k) = [k EXCEPT ![g] = k[g] - 1]
  BY DEF Kalloc, Given
<1>3. k[g] = 1
  BY <1>1, FreeIs
<1> HIDE DEF g
<1>4. Kalloc(k) = [k EXCEPT ![g] = 0]
  BY <1>2, <1>3
<1>5. Kalloc(k) \in Free01
  BY <1>1, <1>4 DEF Free01
<1>6. \A f \in Frame : Kalloc(k)[f] = IF f = g THEN 0 ELSE k[f]
  BY <1>1, <1>4 DEF Free01
<1>7. FreeFrames(Kalloc(k)) = FreeFrames(k) \ {g}
  BY <1>6 DEF FreeFrames
<1> QED
  BY <1>1, <1>5, <1>7 DEF g

(* kfree() gives pages back that are in use.                                  *)
LEMMA GivesBack ==
  ASSUME NEW k \in Free01, NEW S \in SUBSET Frame, S \cap FreeFrames(k) = {}
  PROVE  /\ Kfree(k, S) \in Free01
         /\ FreeFrames(Kfree(k, S)) = FreeFrames(k) \cup S
<1>1. \A f \in S : k[f] = 0
  BY FreeIs
<1>2. \A f \in Frame : Kfree(k, S)[f] = IF f \in S THEN 1 ELSE k[f]
  BY <1>1 DEF Kfree
<1>3. Kfree(k, S) \in Free01
  <2>1. \A f \in Frame : Kfree(k, S)[f] \in {0, 1}
    BY <1>2, FreeIs
  <2> QED
    BY <2>1 DEF Kfree, Free01
<1>4. FreeFrames(Kfree(k, S)) = FreeFrames(k) \cup S
  BY <1>2 DEF FreeFrames
<1> QED
  BY <1>3, <1>4

-----------------------------------------------------------------------------
(* Page tables.                                                               *)

LEMMA NoDirIs ==
  /\ GoodTable(NoDir)
  /\ FramesOf(NoDir) = {} /\ DOMAIN NoDir.pages = {} /\ DOMAIN NoDir.tabs = {}
  /\ NoDir.dir = 0 /\ NoDir.ktabs = {}
<1>1. DOMAIN <<>> = {}
  OBVIOUS
<1>2. /\ NoDir.dir = 0 /\ NoDir.ktabs = {} /\ NoDir.tabs = <<>> /\ NoDir.pages = <<>>
  BY DEF NoDir
<1>3. Range(NoDir.tabs) = {} /\ PageFrames(NoDir) = {}
  BY <1>1, <1>2 DEF Range, PageFrames
<1>4. <<>> \in Maps /\ <<>> \in Pages
  <2>1. <<>> \in [{} -> Frame] /\ <<>> \in [{} -> [frame : Frame, user : BOOLEAN]]
    <3>1. <<>> = [i \in {} |-> i]
      BY <1>1
    <3>2. /\ [i \in {} |-> i] \in [{} -> Frame]
          /\ [i \in {} |-> i] \in [{} -> [frame : Frame, user : BOOLEAN]]
      OBVIOUS
    <3> QED
      BY <3>1, <3>2
  <2> QED
    BY ZenonT(90), <2>1 DEF Maps, Pages
<1>5. NoDir \in PageTable
  BY <1>4 DEF NoDir, PageTable
<1>6. FramesOf(NoDir) = {}
  BY <1>2, <1>3 DEF FramesOf
<1>7. Apart(NoDir) /\ Tabled(NoDir)
  BY <1>1, <1>2, <1>3 DEF Apart, Tabled
<1> QED
  BY <1>1, <1>2, <1>5, <1>6, <1>7 DEF GoodTable

LEMMA MapsAre ==
  ASSUME NEW g
  PROVE  /\ g \in Maps =>
              /\ DOMAIN g \subseteq Nat /\ g = [i \in DOMAIN g |-> g[i]]
              /\ \A i \in DOMAIN g : g[i] \in Frame
         /\ g \in Pages =>
              /\ DOMAIN g \subseteq Nat /\ g = [i \in DOMAIN g |-> g[i]]
              /\ \A i \in DOMAIN g : g[i] \in [frame : Frame, user : BOOLEAN]
<1>1. ASSUME g \in Maps PROVE \E D \in SUBSET Nat : g \in [D -> Frame]
  BY <1>1 DEF Maps
<1>2. ASSUME g \in Pages PROVE \E D \in SUBSET Nat : g \in [D -> [frame : Frame, user : BOOLEAN]]
  BY <1>2 DEF Pages
<1> QED
  BY <1>1, <1>2

LEMMA MapsMade ==
  ASSUME NEW D \in SUBSET Nat, NEW g, g = [i \in D |-> g[i]]
  PROVE  /\ (\A i \in D : g[i] \in Frame) => g \in Maps
         /\ (\A i \in D : g[i] \in [frame : Frame, user : BOOLEAN]) => g \in Pages
<1>1. ASSUME \A i \in D : g[i] \in Frame PROVE g \in Maps
  <2>1. g \in [D -> Frame]
    BY <1>1
  <2> QED
    BY <2>1 DEF Maps
<1>2. ASSUME \A i \in D : g[i] \in [frame : Frame, user : BOOLEAN] PROVE g \in Pages
  <2>1. g \in [D -> [frame : Frame, user : BOOLEAN]]
    BY <1>2
  <2> QED
    BY <2>1 DEF Pages
<1> QED
  BY <1>1, <1>2

LEMMA WithIs ==
  ASSUME NEW g, NEW i, NEW v
  PROVE  /\ DOMAIN With(g, i, v) = DOMAIN g \cup {i}
         /\ With(g, i, v)[i] = v
         /\ \A j \in DOMAIN g : j # i => With(g, i, v)[j] = g[j]
BY DEF With

LEMMA WithMaps ==
  ASSUME NEW g, NEW i \in Nat
  PROVE  /\ \A f \in Frame : g \in Maps => With(g, i, f) \in Maps
         /\ \A f \in Frame, u \in BOOLEAN : g \in Pages => With(g, i, Entry(f, u)) \in Pages
<1>1. \A v : With(g, i, v) = [j \in DOMAIN g \cup {i} |-> With(g, i, v)[j]]
  BY DEF With
<1>2. ASSUME NEW f \in Frame, g \in Maps PROVE With(g, i, f) \in Maps
  <2> DEFINE D == DOMAIN g \cup {i}
             h == With(g, i, f)
  <2>1. D \in SUBSET Nat /\ \A j \in D : h[j] \in Frame
    <3>1. DOMAIN g \subseteq Nat /\ \A j \in DOMAIN g : g[j] \in Frame
      BY <1>2, MapsAre
    <3>2. h[i] = f /\ \A j \in DOMAIN g : j # i => h[j] = g[j]
      BY DEF With
    <3> HIDE DEF h
    <3> QED
      BY <3>1, <3>2
  <2>2. h = [j \in D |-> h[j]]
    BY <1>1
  <2> HIDE DEF D, h
  <2>3. h \in Maps
    BY <2>1, <2>2, MapsMade
  <2> QED
    BY <2>3 DEF h
<1>3. ASSUME NEW f \in Frame, NEW u \in BOOLEAN, g \in Pages PROVE With(g, i, Entry(f, u)) \in Pages
  <2> DEFINE D == DOMAIN g \cup {i}
             h == With(g, i, Entry(f, u))
  <2>1. D \in SUBSET Nat /\ \A j \in D : h[j] \in [frame : Frame, user : BOOLEAN]
    <3>1. Entry(f, u) \in [frame : Frame, user : BOOLEAN]
      BY DEF Entry
    <3>2. DOMAIN g \subseteq Nat /\ \A j \in DOMAIN g : g[j] \in [frame : Frame, user : BOOLEAN]
      BY <1>3, MapsAre
    <3>3. h[i] = Entry(f, u) /\ \A j \in DOMAIN g : j # i => h[j] = g[j]
      BY DEF With
    <3> HIDE DEF h
    <3> QED
      BY <3>1, <3>2, <3>3
  <2>2. h = [j \in D |-> h[j]]
    BY <1>1
  <2> HIDE DEF D, h
  <2>3. h \in Pages
    BY <2>1, <2>2, MapsMade
  <2> QED
    BY <2>3 DEF h
<1> QED
  BY <1>2, <1>3

(* What a page table says, as sets.                                           *)
LEMMA TableIs ==
  ASSUME NEW pd, GoodTable(pd)
  PROVE  /\ pd.dir \in Frame \cup {0} /\ pd.ktabs \subseteq Frame
         /\ pd.tabs \in Maps /\ pd.pages \in Pages
         /\ PageFrames(pd) \subseteq Frame /\ Range(pd.tabs) \subseteq Frame
         /\ FramesOf(pd) \subseteq Frame
         /\ FramesOf(pd) = ({pd.dir} \ {0}) \cup pd.ktabs \cup Range(pd.tabs) \cup PageFrames(pd)
<1>1. /\ pd.dir \in Frame \cup {0} /\ pd.ktabs \subseteq Frame
      /\ pd.tabs \in Maps /\ pd.pages \in Pages
  BY DEF GoodTable, PageTable
<1>2. PageFrames(pd) \subseteq Frame /\ Range(pd.tabs) \subseteq Frame
  BY <1>1, MapsAre DEF PageFrames, Range
<1>3. 0 \notin Frame
  BY DEF Frame
<1> QED
  BY <1>1, <1>2, <1>3 DEF FramesOf

AddTable(pd, j, f)   == [pd EXCEPT !.tabs = With(pd.tabs, j, f)]
AddPage(pd, i, f, u) == [pd EXCEPT !.pages = With(pd.pages, i, Entry(f, u))]
Leave(pd, S)         == [pd EXCEPT !.pages = Restrict(pd.pages, S)]

LEMMA PageOfTable ==
  ASSUME NEW i \in Nat
  PROVE  i \div TABPAGES \in Nat
BY SMTT(60), MemoryAssumption

(* walkpgdir() adds a page-table page.                                        *)
LEMMA TableAdded ==
  ASSUME NEW pd, GoodTable(pd), NEW j \in Nat, j \notin DOMAIN pd.tabs,
         NEW f \in Frame, f \notin FramesOf(pd)
  PROVE  /\ GoodTable(AddTable(pd, j, f)) /\ FramesOf(AddTable(pd, j, f)) = FramesOf(pd) \cup {f}
         /\ AddTable(pd, j, f).pages = pd.pages /\ DOMAIN AddTable(pd, j, f).tabs = DOMAIN pd.tabs \cup {j}
<1> DEFINE new == AddTable(pd, j, f)
           t == With(pd.tabs, j, f)
<1>1. /\ pd \in PageTable
      /\ new.dir = pd.dir /\ new.ktabs = pd.ktabs /\ new.pages = pd.pages /\ new.tabs = t
  BY DEF GoodTable, PageTable, AddTable
<1>2. DOMAIN t = DOMAIN pd.tabs \cup {j} /\ t[j] = f /\ \A i \in DOMAIN pd.tabs : t[i] = pd.tabs[i]
  BY DEF With
<1>3. t \in Maps
  BY TableIs, WithMaps
<1> HIDE DEF t, new
<1>4. new \in PageTable
  BY <1>1, <1>3 DEF PageTable, new, t, AddTable
<1>5. Range(t) = Range(pd.tabs) \cup {f}
  BY <1>2 DEF Range
<1>6. PageFrames(new) = PageFrames(pd)
  BY <1>1 DEF PageFrames
<1>7. /\ f \notin ({pd.dir} \ {0}) /\ f \notin pd.ktabs /\ f \notin Range(pd.tabs) /\ f \notin PageFrames(pd)
      /\ f # 0 /\ 0 \notin Frame
  BY TableIs DEF Frame
<1>8. f # pd.dir
  BY <1>7
<1>9. Apart(new)
  <2>1. \A i, h \in DOMAIN t : t[i] = t[h] => i = h
    <3>1. \A i \in DOMAIN pd.tabs : pd.tabs[i] # f
      BY <1>7 DEF Range
    <3>2. \A i, h \in DOMAIN pd.tabs : pd.tabs[i] = pd.tabs[h] => i = h
      BY DEF GoodTable, Apart
    <3> QED
      BY <1>2, <3>1, <3>2
  <2>2. \A i, h \in DOMAIN new.pages : new.pages[i].frame = new.pages[h].frame => i = h
    BY <1>1 DEF GoodTable, Apart
  <2>3. /\ pd.dir \notin pd.ktabs \cup Range(pd.tabs) \cup PageFrames(pd)
        /\ pd.ktabs \cap (Range(pd.tabs) \cup PageFrames(pd)) = {}
        /\ Range(pd.tabs) \cap PageFrames(pd) = {}
    BY DEF GoodTable, Apart
  <2> QED
    BY <1>1, <1>5, <1>6, <1>7, <1>8, <2>1, <2>2, <2>3 DEF Apart
<1>10. Tabled(new)
  BY <1>1, <1>2 DEF GoodTable, Tabled, HasTable
<1>11. FramesOf(new) = FramesOf(pd) \cup {f}
  BY <1>1, <1>5, <1>6, <1>7 DEF FramesOf
<1> QED
  BY <1>1, <1>2, <1>4, <1>9, <1>10, <1>11 DEF GoodTable, new

(* mappages() adds a page, where there is a table for it.                     *)
LEMMA PageAdded ==
  ASSUME NEW pd, GoodTable(pd), NEW i \in Nat, i \notin DOMAIN pd.pages, HasTable(pd, i),
         NEW f \in Frame, f \notin FramesOf(pd), NEW u \in BOOLEAN
  PROVE  /\ GoodTable(AddPage(pd, i, f, u)) /\ FramesOf(AddPage(pd, i, f, u)) = FramesOf(pd) \cup {f}
         /\ DOMAIN AddPage(pd, i, f, u).pages = DOMAIN pd.pages \cup {i}
         /\ AddPage(pd, i, f, u).pages[i].user <=> u
         /\ \A j \in DOMAIN pd.pages : AddPage(pd, i, f, u).pages[j] = pd.pages[j]
<1> DEFINE new == AddPage(pd, i, f, u)
           t == With(pd.pages, i, Entry(f, u))
<1>1. /\ pd \in PageTable
      /\ new.dir = pd.dir /\ new.ktabs = pd.ktabs /\ new.tabs = pd.tabs /\ new.pages = t
  BY DEF GoodTable, PageTable, AddPage
<1>2. DOMAIN t = DOMAIN pd.pages \cup {i} /\ t[i] = Entry(f, u) /\ \A j \in DOMAIN pd.pages : t[j] = pd.pages[j]
  BY DEF With
<1>3. t \in Pages
  BY ZenonT(90), TableIs, WithMaps
<1>e. Entry(f, u).frame = f /\ (Entry(f, u).user <=> u)
  BY DEF Entry
<1> HIDE DEF t, new
<1>4. new \in PageTable
  BY <1>1, <1>3 DEF PageTable, new, t, AddPage
<1>5. PageFrames(new) = PageFrames(pd) \cup {f}
  <2>1. PageFrames(new) = {t[j].frame : j \in DOMAIN t}
    BY <1>1 DEF PageFrames
  <2>2. ASSUME NEW j \in DOMAIN t PROVE t[j].frame \in PageFrames(pd) \cup {f}
    BY <1>2, <1>e DEF PageFrames
  <2>3. ASSUME NEW j \in DOMAIN pd.pages PROVE pd.pages[j].frame \in PageFrames(new)
    BY <1>2, <2>1
  <2>4. t[i].frame = f /\ i \in DOMAIN t
    BY <1>2, <1>e
  <2>5. f \in PageFrames(new)
    BY <2>1, <2>4
  <2>6. PageFrames(new) \subseteq PageFrames(pd) \cup {f}
    BY <2>1, <2>2
  <2>7. PageFrames(pd) \subseteq PageFrames(new)
    BY <2>3 DEF PageFrames
  <2> QED
    BY <2>5, <2>6, <2>7
<1>7. /\ f \notin ({pd.dir} \ {0}) /\ f \notin pd.ktabs /\ f \notin Range(pd.tabs) /\ f \notin PageFrames(pd)
      /\ f # 0 /\ 0 \notin Frame
  BY TableIs DEF Frame
<1>8. f # pd.dir
  BY <1>7
<1>9. Apart(new)
  <2>1. \A j, h \in DOMAIN t : t[j].frame = t[h].frame => j = h
    <3>1. \A j \in DOMAIN pd.pages : pd.pages[j].frame # f
      BY <1>7 DEF PageFrames
    <3>2. \A j, h \in DOMAIN pd.pages : pd.pages[j].frame = pd.pages[h].frame => j = h
      BY DEF GoodTable, Apart
    <3> QED
      BY <1>2, <1>e, <3>1, <3>2
  <2>2. \A j, h \in DOMAIN new.tabs : new.tabs[j] = new.tabs[h] => j = h
    BY <1>1 DEF GoodTable, Apart
  <2>3. /\ pd.dir \notin pd.ktabs \cup Range(pd.tabs) \cup PageFrames(pd)
        /\ pd.ktabs \cap (Range(pd.tabs) \cup PageFrames(pd)) = {}
        /\ Range(pd.tabs) \cap PageFrames(pd) = {}
    BY DEF GoodTable, Apart
  <2> QED
    BY <1>1, <1>5, <1>7, <1>8, <2>1, <2>2, <2>3 DEF Apart
<1>10. Tabled(new)
  BY <1>1, <1>2 DEF GoodTable, Tabled, HasTable
<1>11. FramesOf(new) = FramesOf(pd) \cup {f}
  BY <1>1, <1>5, <1>7 DEF FramesOf
<1> QED
  BY <1>1, <1>2, <1>e, <1>4, <1>9, <1>10, <1>11 DEF GoodTable, new

(* Only the pages of S are left: deallocuvm().                                *)
LEMMA PagesLeft ==
  ASSUME NEW pd, GoodTable(pd), NEW S \in SUBSET DOMAIN pd.pages
  PROVE  /\ GoodTable(Leave(pd, S)) /\ DOMAIN Leave(pd, S).pages = S
         /\ \A j \in S : Leave(pd, S).pages[j] = pd.pages[j]
         /\ FramesOf(Leave(pd, S)) = FramesOf(pd) \ {pd.pages[j].frame : j \in DOMAIN pd.pages \ S}
<1> DEFINE new == Leave(pd, S)
           t == Restrict(pd.pages, S)
<1>1. /\ pd \in PageTable
      /\ new.dir = pd.dir /\ new.ktabs = pd.ktabs /\ new.tabs = pd.tabs /\ new.pages = t
  BY DEF GoodTable, PageTable, Leave
<1>2. DOMAIN t = S /\ t = [j \in S |-> t[j]] /\ \A j \in S : t[j] = pd.pages[j]
  BY DEF Restrict
<1> HIDE DEF t, new
<1>3. t \in Pages
  <2>1. DOMAIN pd.pages \subseteq Nat /\ \A j \in DOMAIN pd.pages : pd.pages[j] \in [frame : Frame, user : BOOLEAN]
    BY TableIs, MapsAre
  <2>2. S \in SUBSET Nat /\ \A j \in S : t[j] \in [frame : Frame, user : BOOLEAN]
    BY <1>2, <2>1
  <2> QED
    BY <1>2, <2>2, MapsMade
<1>4. new \in PageTable
  BY <1>1, <1>3 DEF PageTable, new, t, Leave
<1> DEFINE Gone == {pd.pages[j].frame : j \in DOMAIN pd.pages \ S}
<1>5. PageFrames(new) = {t[j].frame : j \in S}
  BY <1>1, <1>2 DEF PageFrames
<1>6. \A j, h \in DOMAIN pd.pages : pd.pages[j].frame = pd.pages[h].frame => j = h
  BY DEF GoodTable, Apart
<1>7. PageFrames(new) = PageFrames(pd) \ Gone
  <2>1. ASSUME NEW j \in S PROVE t[j].frame \in PageFrames(pd) /\ t[j].frame \notin Gone
    <3>1. t[j] = pd.pages[j] /\ j \in DOMAIN pd.pages
      BY <1>2
    <3> HIDE DEF Gone
    <3>2. pd.pages[j].frame \notin Gone
      BY <1>6 DEF Gone
    <3> QED
      BY <3>1, <3>2 DEF PageFrames
  <2>2. ASSUME NEW j \in DOMAIN pd.pages, pd.pages[j].frame \notin Gone
        PROVE  pd.pages[j].frame \in PageFrames(new)
    <3>1. j \in S
      BY <2>2
    <3> QED
      BY <1>2, <1>5, <3>1
  <2> HIDE DEF Gone
  <2>3. PageFrames(new) \subseteq PageFrames(pd) \ Gone
    BY <1>5, <2>1
  <2>4. PageFrames(pd) \ Gone \subseteq PageFrames(new)
    BY <2>2 DEF PageFrames
  <2> QED
    BY <2>3, <2>4
<1>8. Gone \subseteq PageFrames(pd)
  BY DEF PageFrames
<1> HIDE DEF Gone
<1>9. /\ pd.dir \notin pd.ktabs \cup Range(pd.tabs) \cup PageFrames(pd)
      /\ pd.ktabs \cap (Range(pd.tabs) \cup PageFrames(pd)) = {}
      /\ Range(pd.tabs) \cap PageFrames(pd) = {}
  BY DEF GoodTable, Apart
<1>10. Apart(new)
  <2>1. \A j, h \in DOMAIN t : t[j].frame = t[h].frame => j = h
    BY <1>2, <1>6
  <2>2. \A j, h \in DOMAIN new.tabs : new.tabs[j] = new.tabs[h] => j = h
    BY <1>1 DEF GoodTable, Apart
  <2> QED
    BY <1>1, <1>7, <1>9, <2>1, <2>2 DEF Apart
<1>11. Tabled(new)
  BY <1>1, <1>2 DEF GoodTable, Tabled, HasTable
<1>12. FramesOf(new) = FramesOf(pd) \ Gone
  BY <1>1, <1>7, <1>8, <1>9 DEF FramesOf
<1> QED
  BY <1>1, <1>2, <1>4, <1>10, <1>11, <1>12 DEF GoodTable, Gone, new

(* clearpteu() changes the right to a page.                                   *)
LEMMA RightCleared ==
  ASSUME NEW pd, GoodTable(pd), NEW i \in DOMAIN pd.pages
  PROVE  /\ GoodTable(Clearpteu(pd, i)) /\ FramesOf(Clearpteu(pd, i)) = FramesOf(pd)
         /\ DOMAIN Clearpteu(pd, i).pages = DOMAIN pd.pages
         /\ ~Clearpteu(pd, i).pages[i].user
<1> DEFINE new == Clearpteu(pd, i)
           t == [pd.pages EXCEPT ![i].user = FALSE]
<1>1. /\ pd \in PageTable
      /\ new.dir = pd.dir /\ new.ktabs = pd.ktabs /\ new.tabs = pd.tabs /\ new.pages = t
  BY DEF GoodTable, PageTable, Clearpteu
<1>2. pd.pages = [j \in DOMAIN pd.pages |-> pd.pages[j]] /\ DOMAIN pd.pages \subseteq Nat
      /\ \A j \in DOMAIN pd.pages : pd.pages[j] \in [frame : Frame, user : BOOLEAN]
  BY TableIs, MapsAre
<1>3. /\ DOMAIN t = DOMAIN pd.pages /\ t = [j \in DOMAIN pd.pages |-> t[j]]
      /\ \A j \in DOMAIN pd.pages : t[j] \in [frame : Frame, user : BOOLEAN] /\ t[j].frame = pd.pages[j].frame
      /\ ~t[i].user
  BY ZenonT(90), <1>2
<1>4. new \in [dir : Frame \cup {0}, ktabs : SUBSET Frame, tabs : Maps, pages : {t}]
  BY ZenonT(90), <1>1 DEF PageTable, Clearpteu
<1> HIDE DEF new, t
<1>5. t \in Pages
  BY ZenonT(90), <1>2, <1>3, MapsMade
<1>6. new \in PageTable
  BY <1>4, <1>5 DEF PageTable
<1>7. PageFrames(new) = PageFrames(pd)
  BY SMTT(60), <1>1, <1>3 DEF PageFrames
<1>8. Apart(new)
  <2>1. \A j, h \in DOMAIN t : t[j].frame = t[h].frame => j = h
    BY ZenonT(90), <1>3 DEF GoodTable, Apart
  <2> QED
    BY <1>1, <1>7, <2>1 DEF GoodTable, Apart
<1>9. Tabled(new)
  BY <1>1, <1>3 DEF GoodTable, Tabled, HasTable
<1>10. FramesOf(new) = FramesOf(pd)
  BY <1>1, <1>7 DEF FramesOf
<1> QED
  BY <1>1, <1>3, <1>6, <1>8, <1>9, <1>10 DEF GoodTable, new

-----------------------------------------------------------------------------
(* What the kernel does to a page table: the pages that are free or in the    *)
(* table stay the same, whether it succeeds or not.                           *)

Conserves(k, pd, k2, pd2) ==
  /\ k2 \in Free01 /\ GoodTable(pd2)
  /\ FreeFrames(k2) \cup FramesOf(pd2) = FreeFrames(k) \cup FramesOf(pd)
  /\ FreeFrames(k2) \cap FramesOf(pd2) = {}

Mapped(k, pd, i, u)        == MapPage([k |-> Kalloc(k), pd |-> pd], i, Given(k), u)
CanTake(k, pd, i)          == CanMap([k |-> Kalloc(k), pd |-> pd], i)
Dropped(k, pd, a, b)       == Dealloc([k |-> k, pd |-> pd], a, b)
Alloced(k, pd, i, to, sz)  == AllocPage([k |-> k, pd |-> pd], i, to, sz)
Allocs(k, pd, i)           == CanAlloc([k |-> k, pd |-> pd], i)

LEMMA SetupIs ==
  ASSUME NEW k \in Free01, CanSetup(k)
  PROVE  /\ Conserves(k, NoDir, Setup(k).k, Setup(k).pd)
         /\ DOMAIN Setup(k).pd.pages = {} /\ DOMAIN Setup(k).pd.tabs = {}
<1> DEFINE free == FreeFrames(k)
           fs   == {f \in free : Cardinality({g \in free : g < f}) <= KTABS}
           k2   == [f \in Frame |-> IF f \in fs THEN k[f] - 1 ELSE k[f]]
           pd   == [NoDir EXCEPT !.dir = Min(fs), !.ktabs = fs \ {Min(fs)}]
<1>1. Setup(k).k = k2 /\ Setup(k).pd = pd
  BY DEF Setup
<1>2. free \subseteq Frame /\ free \subseteq Nat /\ IsFiniteSet(free)
  <2>1. IsFiniteSet(Frame)
    BY FS_Interval, MemoryAssumption DEF Frame
  <2> QED
    BY SMTT(60), <2>1, FS_Subset, MemoryAssumption DEF FreeFrames, Frame
<1>3. free # {}
  <2>1. Cardinality(free) > KTABS /\ Cardinality(free) \in Nat
    BY <1>2, FS_CardinalityType DEF CanSetup
  <2>2. KTABS \in Nat
    BY MemoryAssumption
  <2>3. Cardinality(free) # 0
    BY <2>1, <2>2
  <2> QED
    BY <2>3, FS_EmptySet
<1>4. Min(free) \in fs
  <2>1. Min(free) \in free /\ \A n \in free : Min(free) <= n
    BY <1>2, <1>3, MinIs
  <2>2. {g \in free : g < Min(free)} = {}
    BY <1>2, <2>1
  <2>3. Cardinality({g \in free : g < Min(free)}) = 0
    BY <2>2, FS_EmptySet
  <2> QED
    BY <2>1, <2>3, MemoryAssumption
<1>5. fs \subseteq free /\ fs # {}
  BY ZenonT(90), <1>4
<1> HIDE DEF fs
<1>6. Min(fs) \in fs
  BY <1>2, <1>5, MinIs
<1>7. \A f \in free : k[f] = 1
  BY <1>2, FreeIs
<1>8. \A f \in Frame : k2[f] = IF f \in fs THEN 0 ELSE k[f]
  BY <1>5, <1>7
<1>9. k2 \in Free01
  <2>1. \A f \in Frame : k2[f] \in {0, 1}
    BY <1>8, FreeIs
  <2> QED
    BY <2>1 DEF Free01
<1>10. FreeFrames(k2) = free \ fs
  <2> HIDE DEF k2
  <2>1. \A f \in Frame : f \in FreeFrames(k2) <=> k2[f] > 0
    BY DEF FreeFrames
  <2>2. \A f \in Frame : f \in free <=> k[f] > 0
    BY DEF FreeFrames
  <2>3. FreeFrames(k2) \subseteq Frame
    BY DEF FreeFrames
  <2> HIDE DEF free
  <2>4. \A f \in Frame : f \in FreeFrames(k2) <=> f \in free \ fs
    BY <1>8, <2>1, <2>2
  <2> QED
    BY ZenonT(90), <1>2, <2>3, <2>4
<1>11. /\ pd.dir = Min(fs) /\ pd.ktabs = fs \ {Min(fs)}
       /\ pd.tabs = <<>> /\ pd.pages = <<>>
       /\ pd \in [dir : {Min(fs)}, ktabs : {fs \ {Min(fs)}}, tabs : {NoDir.tabs}, pages : {NoDir.pages}]
  BY ZenonT(90) DEF NoDir
<1>12. NoDir.tabs = <<>> /\ NoDir.pages = <<>> /\ NoDir.tabs \in Maps /\ NoDir.pages \in Pages
       /\ DOMAIN NoDir.pages = {} /\ DOMAIN NoDir.tabs = {}
  <2>1. GoodTable(NoDir) /\ DOMAIN NoDir.pages = {} /\ DOMAIN NoDir.tabs = {}
    BY NoDirIs
  <2> QED
    BY <2>1, TableIs DEF NoDir
<1>13. DOMAIN pd.pages = {} /\ DOMAIN pd.tabs = {}
  BY <1>11, <1>12
<1> HIDE DEF pd, k2
<1>14. pd \in PageTable
  BY <1>2, <1>5, <1>6, <1>11, <1>12 DEF PageTable
<1>15. Range(pd.tabs) = {} /\ PageFrames(pd) = {}
  BY <1>13 DEF Range, PageFrames
<1>16. Apart(pd) /\ Tabled(pd)
  BY <1>11, <1>13, <1>15 DEF Apart, Tabled
<1>17. FramesOf(pd) = fs
  <2>1. 0 \notin fs
    BY <1>2, <1>5 DEF Frame
  <2> QED
    BY <1>6, <1>11, <1>15, <2>1 DEF FramesOf
<1>18. FramesOf(NoDir) = {}
  BY NoDirIs
<1> QED
  BY <1>1, <1>5, <1>9, <1>10, <1>13, <1>14, <1>16, <1>17, <1>18 DEF Conserves, GoodTable

(* kalloc(), then mappages().                                                 *)
LEMMA MapIs ==
  ASSUME NEW k \in Free01, NEW pd, GoodTable(pd), FreeFrames(k) \cap FramesOf(pd) = {},
         NEW i \in Nat, i \notin DOMAIN pd.pages, NEW u \in BOOLEAN,
         FreeFrames(k) # {}, CanTake(k, pd, i)
  PROVE  /\ Conserves(k, pd, Mapped(k, pd, i, u).k, Mapped(k, pd, i, u).pd)
         /\ DOMAIN Mapped(k, pd, i, u).pd.pages = DOMAIN pd.pages \cup {i}
         /\ Mapped(k, pd, i, u).pd.pages[i].user <=> u
         /\ \A j \in DOMAIN pd.pages : Mapped(k, pd, i, u).pd.pages[j] = pd.pages[j]
<1> DEFINE f == Given(k)
           k1 == Kalloc(k)
           t == [k |-> k1, pd |-> pd]
           s == Mapped(k, pd, i, u)
<1>1. /\ k1 \in Free01 /\ f \in FreeFrames(k) /\ FreeFrames(k1) = FreeFrames(k) \ {f}
      /\ f \in Frame /\ f \notin FramesOf(pd)
  <2>1. k1 \in Free01 /\ f \in FreeFrames(k) /\ FreeFrames(k1) = FreeFrames(k) \ {f}
    BY Allocates
  <2> QED
    BY <2>1 DEF FreeFrames
<1>2. t.k = k1 /\ t.pd = pd
  OBVIOUS
<1>3. s = MapPage(t, i, f, u) /\ CanMap(t, i)
  BY DEF Mapped, CanTake
<1> HIDE DEF f, k1, t, s
<1>4. CASE HasTable(pd, i)
  <2> DEFINE new == AddPage(pd, i, f, u)
  <2>1. s.k = k1 /\ s.pd = new
    BY <1>2, <1>3, <1>4 DEF MapPage, AddPage
  <2>2. /\ GoodTable(new) /\ FramesOf(new) = FramesOf(pd) \cup {f}
        /\ DOMAIN new.pages = DOMAIN pd.pages \cup {i}
        /\ new.pages[i].user <=> u
        /\ \A j \in DOMAIN pd.pages : new.pages[j] = pd.pages[j]
    BY <1>1, <1>4, PageAdded
  <2> HIDE DEF new
  <2> QED
    BY <1>1, <2>1, <2>2 DEF Conserves, s, k1
<1>5. CASE ~HasTable(pd, i)
  <2> DEFINE h == i \div TABPAGES
             g == Given(k1)
             mid == AddTable(pd, h, g)
             new == AddPage(mid, i, f, u)
             k2 == Kalloc(k1)
  <2>1. FreeFrames(k1) # {}
    BY <1>2, <1>3, <1>5 DEF CanMap
  <2>2. /\ k2 \in Free01 /\ g \in FreeFrames(k1) /\ FreeFrames(k2) = FreeFrames(k1) \ {g}
        /\ g \in Frame /\ g \notin FramesOf(pd)
    <3>1. k2 \in Free01 /\ g \in FreeFrames(k1) /\ FreeFrames(k2) = FreeFrames(k1) \ {g}
      BY <1>1, <2>1, Allocates
    <3> QED
      BY <1>1, <3>1 DEF FreeFrames
  <2>3. h \in Nat /\ h \notin DOMAIN pd.tabs
    BY <1>5, PageOfTable DEF HasTable
  <2>4. s.k = k2 /\ s.pd = new
    <3>1. s.k = k2 /\ s.pd = [pd EXCEPT !.tabs = With(pd.tabs, h, g), !.pages = With(pd.pages, i, Entry(f, u))]
      BY <1>2, <1>3, <1>5 DEF MapPage
    <3>2. [pd EXCEPT !.tabs = With(pd.tabs, h, g), !.pages = With(pd.pages, i, Entry(f, u))] = new
      BY DEF GoodTable, PageTable, AddTable, AddPage
    <3> QED
      BY <3>1, <3>2
  <2> HIDE DEF h, g, k2
  <2>5. /\ GoodTable(mid) /\ FramesOf(mid) = FramesOf(pd) \cup {g}
        /\ mid.pages = pd.pages /\ DOMAIN mid.tabs = DOMAIN pd.tabs \cup {h}
    BY <2>2, <2>3, TableAdded
  <2> HIDE DEF mid
  <2>6. f \notin FramesOf(mid) /\ HasTable(mid, i) /\ i \notin DOMAIN mid.pages
    BY <1>1, <2>2, <2>5 DEF HasTable, h
  <2>7. /\ GoodTable(new) /\ FramesOf(new) = FramesOf(mid) \cup {f}
        /\ DOMAIN new.pages = DOMAIN mid.pages \cup {i}
        /\ new.pages[i].user <=> u
        /\ \A j \in DOMAIN mid.pages : new.pages[j] = mid.pages[j]
    BY <1>1, <2>5, <2>6, PageAdded
  <2> HIDE DEF new
  <2> QED
    BY <1>1, <2>2, <2>4, <2>5, <2>7 DEF Conserves, s
<1> QED
  BY <1>4, <1>5

(* deallocuvm().                                                              *)
LEMMA DeallocIs ==
  ASSUME NEW k \in Free01, NEW pd, GoodTable(pd), FreeFrames(k) \cap FramesOf(pd) = {},
         NEW a, NEW b
  PROVE  /\ Conserves(k, pd, Dropped(k, pd, a, b).k, Dropped(k, pd, a, b).pd)
         /\ DOMAIN Dropped(k, pd, a, b).pd.pages = DOMAIN pd.pages \ Above(pd, a, b)
         /\ \A j \in DOMAIN Dropped(k, pd, a, b).pd.pages :
              Dropped(k, pd, a, b).pd.pages[j] = pd.pages[j]
<1> DEFINE s == Dropped(k, pd, a, b)
           U == Above(pd, a, b)
           S == DOMAIN pd.pages \ U
           G == {pd.pages[i].frame : i \in U}
           new == Leave(pd, S)
<1>1. s.k = Kfree(k, G) /\ s.pd = new
  BY DEF Dealloc, Dropped, Leave
<1>2. U \subseteq DOMAIN pd.pages
  BY DEF Above
<1> HIDE DEF U
<1>3. G = {pd.pages[i].frame : i \in DOMAIN pd.pages \ S} /\ S \subseteq DOMAIN pd.pages
  <2>1. DOMAIN pd.pages \ S = U
    BY <1>2
  <2> HIDE DEF S
  <2>2. G = {pd.pages[i].frame : i \in DOMAIN pd.pages \ S}
    BY <2>1
  <2> QED
    BY <2>2 DEF S
<1>4. G \subseteq PageFrames(pd)
  BY <1>2 DEF PageFrames
<1>5. G \subseteq FramesOf(pd) /\ G \subseteq Frame
  BY <1>4, TableIs
<1> HIDE DEF S
<1>6. /\ GoodTable(new) /\ DOMAIN new.pages = S
      /\ \A j \in S : new.pages[j] = pd.pages[j]
      /\ FramesOf(new) = FramesOf(pd) \ G
  <2> HIDE DEF G
  <2>1. /\ GoodTable(new) /\ DOMAIN new.pages = S
        /\ \A j \in S : new.pages[j] = pd.pages[j]
        /\ FramesOf(new) = FramesOf(pd) \ {pd.pages[i].frame : i \in DOMAIN pd.pages \ S}
    BY <1>3, PagesLeft
  <2> QED
    BY <1>3, <2>1
<1> HIDE DEF G, new, s
<1>7. Kfree(k, G) \in Free01 /\ FreeFrames(Kfree(k, G)) = FreeFrames(k) \cup G
  BY <1>5, GivesBack
<1>8. Conserves(k, pd, s.k, s.pd)
  BY <1>1, <1>5, <1>6, <1>7 DEF Conserves
<1> QED
  BY <1>1, <1>6, <1>8 DEF S, U, s

(* allocuvm() of one page.                                                    *)
LEMMA AllocIs ==
  ASSUME NEW k \in Free01, NEW pd, GoodTable(pd), FreeFrames(k) \cap FramesOf(pd) = {},
         NEW i \in Nat, i \notin DOMAIN pd.pages, NEW to, NEW sz
  PROVE  /\ Conserves(k, pd, Alloced(k, pd, i, to, sz).k, Alloced(k, pd, i, to, sz).pd)
         /\ Allocs(k, pd, i) => DOMAIN Alloced(k, pd, i, to, sz).pd.pages = DOMAIN pd.pages \cup {i}
         /\ ~Allocs(k, pd, i) => DOMAIN Alloced(k, pd, i, to, sz).pd.pages = DOMAIN pd.pages \ Above(pd, to, sz)
         /\ \A j \in DOMAIN pd.pages \cap DOMAIN Alloced(k, pd, i, to, sz).pd.pages : Alloced(k, pd, i, to, sz).pd.pages[j] = pd.pages[j]
<1> DEFINE s0 == [k |-> k, pd |-> pd]
           s == Alloced(k, pd, i, to, sz)
<1>0. s = AllocPage(s0, i, to, sz) /\ (Allocs(k, pd, i) <=> CanAlloc(s0, i))
  BY DEF Alloced, Allocs
<1>1. s0.k = k /\ s0.pd = pd
  OBVIOUS
<1> HIDE DEF s0, s
<1>2. CASE NoPage(k)
  <2>1. ~CanAlloc(s0, i) /\ s = Dropped(k, pd, to, sz)
    BY <1>0, <1>1, <1>2 DEF CanAlloc, AllocPage, Dropped, s0
  <2>2. /\ Conserves(k, pd, s.k, s.pd)
        /\ DOMAIN s.pd.pages = DOMAIN pd.pages \ Above(pd, to, sz)
        /\ \A j \in DOMAIN s.pd.pages : s.pd.pages[j] = pd.pages[j]
    BY <2>1, DeallocIs
  <2> QED
    BY <1>0, <2>1, <2>2 DEF s
<1> DEFINE t == Took(s0)
<1>3. CASE ~NoPage(k) /\ CanMap(t, i)
  <2>1. CanAlloc(s0, i) /\ s = MapPage(t, i, Given(k), TRUE) /\ FreeFrames(k) # {}
    BY <1>0, <1>1, <1>3 DEF CanAlloc, AllocPage, NoPage
  <2>a. PICK u \in BOOLEAN : u = TRUE
    BY ZenonT(90)
  <2>2. s = Mapped(k, pd, i, u) /\ CanTake(k, pd, i)
    <3>1. t = [k |-> Kalloc(k), pd |-> pd]
      BY <1>1 DEF Took
    <3> QED
      BY <1>3, <2>a, <2>1, <3>1 DEF Mapped, CanTake
  <2> HIDE DEF t
  <2>3. /\ Conserves(k, pd, s.k, s.pd)
        /\ DOMAIN s.pd.pages = DOMAIN pd.pages \cup {i}
        /\ \A j \in DOMAIN pd.pages : s.pd.pages[j] = pd.pages[j]
    <3> DEFINE m == Mapped(k, pd, i, u)
    <3>1. /\ Conserves(k, pd, m.k, m.pd)
          /\ DOMAIN m.pd.pages = DOMAIN pd.pages \cup {i}
          /\ \A j \in DOMAIN pd.pages : m.pd.pages[j] = pd.pages[j]
      BY <2>1, <2>2, MapIs
    <3> QED
      BY <2>2, <3>1
  <2> QED
    BY ZenonT(90), <1>0, <2>1, <2>3 DEF s
<1>4. CASE ~NoPage(k) /\ ~CanMap(t, i)
  <2> DEFINE k2 == GivenBack(t, Given(k))
  <2>1. ~CanAlloc(s0, i) /\ s = Dropped(k2, pd, to, sz)
    BY <1>0, <1>1, <1>4 DEF CanAlloc, AllocPage, Dropped, Took
  <2>2. k2 = Kfree(Kalloc(k), {Given(k)})
    BY <1>1 DEF GivenBack, Took
  <2>3. k2 \in Free01 /\ FreeFrames(k2) = FreeFrames(k)
    <3>1. /\ Kalloc(k) \in Free01 /\ Given(k) \in FreeFrames(k)
          /\ FreeFrames(Kalloc(k)) = FreeFrames(k) \ {Given(k)}
      BY <1>4, Allocates DEF NoPage
    <3>2. {Given(k)} \in SUBSET Frame /\ {Given(k)} \cap FreeFrames(Kalloc(k)) = {}
      BY <3>1 DEF FreeFrames
    <3>3. /\ Kfree(Kalloc(k), {Given(k)}) \in Free01
          /\ FreeFrames(Kfree(Kalloc(k), {Given(k)})) = FreeFrames(Kalloc(k)) \cup {Given(k)}
      BY <3>1, <3>2, GivesBack
    <3> QED
      BY <2>2, <3>1, <3>3
  <2> HIDE DEF k2
  <2>4. /\ Conserves(k2, pd, s.k, s.pd)
        /\ DOMAIN s.pd.pages = DOMAIN pd.pages \ Above(pd, to, sz)
        /\ \A j \in DOMAIN s.pd.pages : s.pd.pages[j] = pd.pages[j]
    BY <2>1, <2>3, DeallocIs
  <2> QED
    BY <1>0, <2>1, <2>3, <2>4 DEF Conserves, s
<1> QED
  BY <1>0, <1>2, <1>3, <1>4 DEF s

-----------------------------------------------------------------------------
(* Processes.                                                                 *)

LEMMA DoIs ==
  ASSUME NEW d
  PROVE  /\ d \in Grows => d.op = "grow" /\ d.a \in Nat /\ d.to \in Nat
         /\ d \in Copies => d.op = "copy" /\ d.q \in MProc /\ d.a \in Nat
         /\ d \in Execs =>
              /\ d.op = "exec" /\ d.file \in Files /\ d.args \in Nat /\ d.seg \in Nat
              /\ d.sz \in Nat /\ d.a \in Nat /\ d.pd \in PageTable
         /\ d = Nothing => d.op = "none"
BY DEF Grows, Copies, Execs, Nothing

LEMMA OpIs ==
  ASSUME NEW x \in Process, Shaped(x)
  PROVE  /\ x.do.op # "none" => x.state = "call"
         /\ x.do.op = "grow" => Growing(x)
         /\ x.do.op = "copy" => Copying(x)
         /\ x.do.op = "exec" => Executing(x)
         /\ x.state = "call" => x.do.op \in {"grow", "copy", "exec"}
<1>1. x.state # "call" => x.do.op = "none"
  BY DoIs DEF Shaped
<1>2. /\ Growing(x) => x.do.op = "grow"
      /\ Copying(x) => x.do.op = "copy"
      /\ Executing(x) => x.do.op = "exec"
  BY DoIs DEF Growing, Copying, Executing
<1>3. x.state = "call" => Growing(x) \/ Copying(x) \/ Executing(x)
  BY DEF Shaped
<1> QED
  BY <1>1, <1>2, <1>3

LEMMA HeldIs ==
  ASSUME NEW x \in Process, Shaped(x)
  PROVE  /\ GoodTable(x.pd) /\ GoodTable(NewPd(x))
         /\ Stack(x) \subseteq Frame /\ Held(x) \subseteq Frame
<1>1. GoodTable(x.pd) /\ Stack(x) \subseteq Frame
  BY DEF Process, Shaped, GoodTable, Stack
<1>2. GoodTable(NewPd(x))
  <2>1. CASE x.do.op = "exec"
    <3>1. Executing(x)
      BY <2>1, OpIs
    <3>2. x.do.pd \in PageTable /\ Apart(x.do.pd) /\ Tabled(x.do.pd)
      BY <3>1, DoIs DEF Executing
    <3> QED
      BY <2>1, <3>2 DEF NewPd, GoodTable
  <2>2. CASE x.do.op # "exec"
    BY <2>2, NoDirIs DEF NewPd
  <2> QED
    BY <2>1, <2>2
<1>3. FramesOf(x.pd) \subseteq Frame /\ FramesOf(NewPd(x)) \subseteq Frame
  BY <1>1, <1>2, TableIs
<1> QED
  BY <1>1, <1>2, <1>3 DEF Held

LEMMA SoundIs ==
  ASSUME NEW k, NEW pr, Sound(k, pr), NEW p \in MProc
  PROVE  /\ k \in Free01 /\ pr[p] \in Process /\ Shaped(pr[p])
         /\ GoodTable(pr[p].pd) /\ GoodTable(NewPd(pr[p]))
         /\ Stack(pr[p]) \subseteq Frame /\ Held(pr[p]) \subseteq Frame
         /\ FreeFrames(k) \subseteq Frame /\ FreeFrames(k) \cap Held(pr[p]) = {}
         /\ Parted(pr[p])
<1>1. k \in Free01 /\ pr[p] \in Process /\ Shaped(pr[p])
  BY DEF Sound
<1>2. FreeFrames(k) \subseteq Frame
  BY DEF FreeFrames
<1>3. FreeFrames(k) \cap Held(pr[p]) = {}
  BY DEF Sound, Divided
<1>4. Parted(pr[p])
  BY <1>1 DEF Shaped
<1> QED
  BY <1>1, <1>2, <1>3, <1>4, HeldIs

(* Pages move between the free list and one process.                          *)
LEMMA Moves ==
  ASSUME NEW F, NEW H, Divided(F, H), NEW q \in MProc, NEW G \in SUBSET Frame, NEW H2,
         H2[q] \subseteq Frame, G \cup H2[q] = F \cup H[q], G \cap H2[q] = {},
         F \subseteq Frame, \A r \in MProc : r # q => H2[r] = H[r]
  PROVE  Divided(G, H2)
<1>1. ASSUME NEW r \in MProc PROVE H2[r] \subseteq Frame \ G
  BY DEF Divided
<1>2. ASSUME NEW r \in MProc, NEW s \in MProc, r # s PROVE H2[r] \cap H2[s] = {}
  BY <1>2 DEF Divided
<1>3. ASSUME NEW f \in Frame \ G PROVE \E r \in MProc : f \in H2[r]
  <2>1. CASE f \in F \cup H[q]
    BY <2>1
  <2>2. CASE f \notin F \cup H[q]
    <3>1. PICK r \in MProc : f \in H[r]
      BY <2>2 DEF Divided
    <3> QED
      BY <2>2, <3>1
  <2> QED
    BY <2>1, <2>2
<1> QED
  BY <1>1, <1>2, <1>3 DEF Divided

(* A step of one process, or of a process and the one it makes with fork().   *)
LEMMA TwoStep ==
  ASSUME NEW k, NEW pr, Sound(k, pr),
         NEW p \in MProc, NEW q \in MProc, p # q, NEW y \in Process, NEW z \in Process,
         Shaped(y), Shaped(z), NEW k2 \in Free01, Held(y) = Held(pr[p]),
         FreeFrames(k2) \cup Held(z) = FreeFrames(k) \cup Held(pr[q]),
         FreeFrames(k2) \cap Held(z) = {},
         pr[p].state # "embryo", ~Copier(z),
         \A r \in MProc : Copier(pr[r]) /\ pr[r].do.q = q => r = p,
         Copier(y) => y.do.q = q /\ Copied(y, z)
  PROVE  Sound(k2, [pr EXCEPT ![p] = y, ![q] = z])
<1> DEFINE new == [pr EXCEPT ![p] = y, ![q] = z]
<1>1. /\ new \in [MProc -> Process] /\ new[p] = y /\ new[q] = z
      /\ \A r \in MProc : r \notin {p, q} => new[r] = pr[r]
  BY DEF Sound
<1> HIDE DEF new
<1>2. \A r \in MProc : Shaped(new[r])
  BY <1>1 DEF Sound
<1>3. Divided(FreeFrames(k2), [r \in MProc |-> Held(new[r])])
  <2> DEFINE H == [r \in MProc |-> Held(pr[r])]
             H2 == [r \in MProc |-> Held(new[r])]
             F == FreeFrames(k)
             G == FreeFrames(k2)
  <2>1. Divided(F, H) /\ F \subseteq Frame /\ G \in SUBSET Frame
    BY DEF Sound, FreeFrames
  <2>2. \A r \in MProc : r # q => H2[r] = H[r]
    BY <1>1
  <2>3. H2[q] \subseteq Frame /\ G \cup H2[q] = F \cup H[q] /\ G \cap H2[q] = {}
    BY <1>1, HeldIs
  <2> HIDE DEF H, H2, F, G
  <2>4. Divided(G, H2)
    BY <2>1, <2>2, <2>3, Moves
  <2> QED
    BY <2>4 DEF G, H2
<1>4. Embryos(new)
  <2>1. ASSUME NEW r \in MProc, Copier(new[r])
        PROVE  IF r = p THEN new[r].do.q = q /\ Copied(new[r], new[q])
               ELSE /\ r # q /\ new[r] = pr[r] /\ Copier(pr[r])
                    /\ pr[r].do.q \notin {p, q} /\ pr[r].do.q \in MProc
                    /\ Copied(pr[r], pr[pr[r].do.q])
    <3>1. CASE r = p
      BY <1>1, <2>1, <3>1
    <3>2. CASE r # p
      <4>1. r # q /\ new[r] = pr[r] /\ Copier(pr[r])
        BY <1>1, <2>1, <3>2
      <4>2. pr[r].do.q \in MProc
        <5>1. pr[r] \in Process /\ Shaped(pr[r]) /\ pr[r].do.op = "copy"
          BY <4>1 DEF Sound, Copier
        <5>2. Copying(pr[r])
          BY <5>1, OpIs
        <5> QED
          BY <5>2, DoIs DEF Copying
      <4>3. Copied(pr[r], pr[pr[r].do.q])
        BY SMTT(60), <4>1 DEF Sound, Embryos
      <4>4. pr[r].do.q # p
        BY <4>3 DEF Copied
      <4>5. pr[r].do.q # q
        BY <3>2, <4>1
      <4> QED
        BY <3>2, <4>1, <4>2, <4>3, <4>4, <4>5
    <3> QED
      BY <3>1, <3>2
  <2>2. ASSUME NEW r \in MProc, Copier(new[r]) PROVE Copied(new[r], new[new[r].do.q])
    BY <1>1, <2>1, <2>2
  <2>3. ASSUME NEW r \in MProc, NEW s \in MProc, Copier(new[r]), Copier(new[s]), new[r].do.q = new[s].do.q
        PROVE  r = s
    <3>1. CASE r = p \/ s = p
      BY <2>1, <2>3, <3>1
    <3>2. CASE r # p /\ s # p
      <4>1. Copier(pr[r]) /\ Copier(pr[s]) /\ pr[r].do.q = pr[s].do.q
        BY <2>1, <2>3, <3>2
      <4> QED
        BY <4>1 DEF Sound, Embryos
    <3> QED
      BY <3>1, <3>2
  <2> QED
    BY <2>2, <2>3 DEF Embryos
<1>5. Sound(k2, new)
  BY <1>1, <1>2, <1>3, <1>4 DEF Sound
<1> QED
  BY <1>5 DEF new

LEMMA OneStep ==
  ASSUME NEW k, NEW pr, Sound(k, pr), NEW p \in MProc, NEW y \in Process, Shaped(y), NEW k2 \in Free01,
         FreeFrames(k2) \cup Held(y) = FreeFrames(k) \cup Held(pr[p]),
         FreeFrames(k2) \cap Held(y) = {},
         pr[p].state # "embryo", ~Copier(y)
  PROVE  Sound(k2, [pr EXCEPT ![p] = y])
<1> DEFINE new == [pr EXCEPT ![p] = y]
<1>1. /\ new \in [MProc -> Process] /\ new[p] = y
      /\ \A r \in MProc : r # p => new[r] = pr[r]
  BY DEF Sound
<1> HIDE DEF new
<1>2. \A r \in MProc : Shaped(new[r])
  BY <1>1 DEF Sound
<1>3. Divided(FreeFrames(k2), [r \in MProc |-> Held(new[r])])
  <2> DEFINE H == [r \in MProc |-> Held(pr[r])]
             H2 == [r \in MProc |-> Held(new[r])]
             F == FreeFrames(k)
             G == FreeFrames(k2)
  <2>1. Divided(F, H) /\ F \subseteq Frame /\ G \in SUBSET Frame
    BY DEF Sound, FreeFrames
  <2>2. \A r \in MProc : r # p => H2[r] = H[r]
    BY <1>1
  <2>3. H2[p] \subseteq Frame /\ G \cup H2[p] = F \cup H[p] /\ G \cap H2[p] = {}
    BY <1>1, HeldIs
  <2> HIDE DEF H, H2, F, G
  <2>4. Divided(G, H2)
    BY <2>1, <2>2, <2>3, Moves
  <2> QED
    BY <2>4 DEF G, H2
<1>4. Embryos(new)
  <2>1. ASSUME NEW r \in MProc, Copier(new[r])
        PROVE  /\ new[r] = pr[r] /\ Copier(pr[r])
               /\ pr[r].do.q # p /\ pr[r].do.q \in MProc
               /\ Copied(pr[r], pr[pr[r].do.q])
    <3>1. r # p /\ new[r] = pr[r] /\ Copier(pr[r])
      BY <1>1, <2>1
    <3>2. pr[r].do.q \in MProc
      <4>1. pr[r] \in Process /\ Shaped(pr[r]) /\ pr[r].do.op = "copy"
        BY <3>1 DEF Sound, Copier
      <4>2. Copying(pr[r])
        BY <4>1, OpIs
      <4> QED
        BY <4>2, DoIs DEF Copying
    <3>3. Copied(pr[r], pr[pr[r].do.q])
      BY SMTT(60), <3>1 DEF Sound, Embryos
    <3>4. pr[r].do.q # p
      BY <3>3 DEF Copied
    <3> QED
      BY <3>1, <3>2, <3>3, <3>4
  <2>2. ASSUME NEW r \in MProc, Copier(new[r]) PROVE Copied(new[r], new[new[r].do.q])
    BY <1>1, <2>1, <2>2
  <2>3. ASSUME NEW r \in MProc, NEW s \in MProc, Copier(new[r]), Copier(new[s]), new[r].do.q = new[s].do.q
        PROVE  r = s
    <3>1. Copier(pr[r]) /\ Copier(pr[s]) /\ pr[r].do.q = pr[s].do.q
      BY <2>1, <2>3
    <3> QED
      BY <3>1 DEF Sound, Embryos
  <2> QED
    BY <2>2, <2>3 DEF Embryos
<1>5. Sound(k2, new)
  BY <1>1, <1>2, <1>3, <1>4 DEF Sound
<1> QED
  BY <1>5 DEF new

LEMMA SameConserves ==
  ASSUME NEW k \in Free01, NEW pd, GoodTable(pd), FreeFrames(k) \cap FramesOf(pd) = {}
  PROVE  Conserves(k, pd, k, pd)
BY DEF Conserves

LEMMA ConservesOn ==
  ASSUME NEW k, NEW pd, NEW k1, NEW pd1, NEW k2, NEW pd2,
         Conserves(k, pd, k1, pd1), Conserves(k1, pd1, k2, pd2)
  PROVE  Conserves(k, pd, k2, pd2)
BY DEF Conserves

(* 0 is no page.                                                              *)
LEMMA NoFrame ==
  ASSUME NEW k, NEW S
  PROVE  Kfree(k, S) = Kfree(k, S \ {0})
<1>1. 0 \notin Frame
  BY DEF Frame
<1>2. \A f \in Frame : f \in S <=> f \in S \ {0}
  BY <1>1
<1> QED
  BY <1>2 DEF Kfree

(* freevm() gives back all of a page table.                                   *)
LEMMA FreevmIs ==
  ASSUME NEW k \in Free01, NEW pd, GoodTable(pd), FreeFrames(k) \cap FramesOf(pd) = {}
  PROVE  /\ Conserves(k, pd, Freevm(k, pd), NoDir)
         /\ Freevm(k, pd) \in Free01 /\ FreeFrames(Freevm(k, pd)) = FreeFrames(k) \cup FramesOf(pd)
<1>1. FramesOf(pd) \in SUBSET Frame
  BY TableIs
<1>2. Freevm(k, pd) \in Free01 /\ FreeFrames(Freevm(k, pd)) = FreeFrames(k) \cup FramesOf(pd)
  BY <1>1, GivesBack DEF Freevm
<1>3. GoodTable(NoDir) /\ FramesOf(NoDir) = {}
  BY NoDirIs
<1> QED
  BY <1>2, <1>3 DEF Conserves

(* The pages of a process when its page table changes, or the one that exec() *)
(* is filling.                                                                *)
LEMMA PdMoves ==
  ASSUME NEW k, NEW x, NEW y, NEW k2, Parted(x), FreeFrames(k) \cap Held(x) = {},
         Conserves(k, x.pd, k2, y.pd), y.kstack = x.kstack, NewPd(y) = NewPd(x)
  PROVE  /\ FreeFrames(k2) \cup Held(y) = FreeFrames(k) \cup Held(x)
         /\ FreeFrames(k2) \cap Held(y) = {} /\ Parted(y)
<1>1. Stack(y) = Stack(x)
  BY DEF Stack
<1> QED
  BY <1>1 DEF Parted, Held, Conserves

LEMMA NewMoves ==
  ASSUME NEW k, NEW x, NEW y, NEW k2, Parted(x), FreeFrames(k) \cap Held(x) = {},
         Conserves(k, NewPd(x), k2, NewPd(y)), y.kstack = x.kstack, y.pd = x.pd
  PROVE  /\ FreeFrames(k2) \cup Held(y) = FreeFrames(k) \cup Held(x)
         /\ FreeFrames(k2) \cap Held(y) = {} /\ Parted(y)
<1>1. Stack(y) = Stack(x)
  BY DEF Stack
<1> QED
  BY <1>1 DEF Parted, Held, Conserves

LEMMA SameHeld ==
  ASSUME NEW x, NEW y, Parted(x), y.kstack = x.kstack, y.pd = x.pd, NewPd(y) = NewPd(x)
  PROVE  Held(y) = Held(x) /\ Parted(y)
<1>1. Stack(y) = Stack(x)
  BY DEF Stack
<1> QED
  BY <1>1 DEF Held, Parted

-----------------------------------------------------------------------------
(* The end of a call.                                                         *)

LEMMA BackIs ==
  ASSUME NEW x \in Process, NEW r \in MProc \cup {0, -1}
  PROVE  /\ Back(x, r) \in Process
         /\ Back(x, r).state = "user" /\ Back(x, r).do = Nothing /\ Back(x, r).kstack = x.kstack
         /\ Back(x, r).pd = x.pd /\ Back(x, r).sz = x.sz /\ Back(x, r).entry = x.entry
         /\ Back(x, r).guard = x.guard
         /\ NewPd(Back(x, r)) = NoDir /\ ~Copier(Back(x, r))
<1> DEFINE y == Back(x, r)
<1>1. /\ y \in Process
      /\ y.state = "user" /\ y.do = Nothing /\ y.kstack = x.kstack
      /\ y.pd = x.pd /\ y.sz = x.sz /\ y.entry = x.entry /\ y.guard = x.guard
  BY ZenonT(90) DEF Process, Back
<1> HIDE DEF y
<1>2. NewPd(y) = NoDir /\ ~Copier(y)
  BY <1>1, DoIs DEF NewPd, Copier
<1> QED
  BY <1>1, <1>2 DEF y

(* What a process has is tidy, whatever its state.                            *)
LEMMA TidyIs ==
  ASSUME NEW x, NEW y, Tidy(x), y.sz = x.sz, y.entry = x.entry, y.guard = x.guard, y.pd = x.pd
  PROVE  Tidy(y)
BY DEF Tidy, Boot, Bare, Whole, Guarded, UpTo

LEMMA Idle ==
  ASSUME NEW y, GoodTable(y.pd), Parted(y), y.state = "user", y.do = Nothing, Tidy(y)
  PROVE  Shaped(y)
BY DEF Shaped, GoodTable

LEMMA Returns ==
  ASSUME NEW k, NEW pr, Sound(k, pr), NEW p \in MProc, Tidy(pr[p]), pr[p].state # "embryo",
         NEW k2, Conserves(k, NewPd(pr[p]), k2, NoDir), NEW r \in MProc \cup {0, -1}
  PROVE  Sound(k2, [pr EXCEPT ![p] = Back(pr[p], r)])
<1> DEFINE x == pr[p]
           y == Back(x, r)
<1>1. /\ x \in Process /\ GoodTable(x.pd) /\ Parted(x) /\ FreeFrames(k) \cap Held(x) = {}
      /\ k2 \in Free01
  BY SoundIs DEF Conserves
<1> HIDE DEF x
<1>2. /\ y \in Process
      /\ y.state = "user" /\ y.do = Nothing /\ y.kstack = x.kstack
      /\ y.pd = x.pd /\ y.sz = x.sz /\ y.entry = x.entry /\ y.guard = x.guard
      /\ NewPd(y) = NoDir /\ ~Copier(y)
  BY <1>1, BackIs
<1> HIDE DEF y
<1>3. /\ FreeFrames(k2) \cup Held(y) = FreeFrames(k) \cup Held(x)
      /\ FreeFrames(k2) \cap Held(y) = {} /\ Parted(y)
  <2>1. Conserves(k, NewPd(x), k2, NewPd(y))
    BY <1>2 DEF x
  <2> QED
    BY <1>1, <1>2, <2>1, NewMoves
<1>4. Tidy(x)
  BY DEF x
<1>5. Tidy(y)
  BY <1>2, <1>4, TidyIs
<1>6. GoodTable(y.pd)
  BY <1>1, <1>2
<1>7. Shaped(y)
  BY <1>2, <1>3, <1>5, <1>6, Idle
<1>8. x.state # "embryo"
  BY DEF x
<1>9. Sound(k2, [pr EXCEPT ![p] = y])
  <2>1. /\ FreeFrames(k2) \cup Held(y) = FreeFrames(k) \cup Held(pr[p])
        /\ pr[p].state # "embryo"
    BY <1>3 DEF x
  <2> QED
    BY <1>1, <1>2, <1>3, <1>7, <2>1, OneStep
<1> QED
  BY <1>9 DEF x, y

(* A call that ends with an error, and nothing to give back.                  *)
LEMMA JustFails ==
  ASSUME Sound(kmem, proc), NEW p \in MProc, Tidy(proc[p]), proc[p].state # "embryo",
         NewPd(proc[p]) = NoDir, Fails(p), kmem' = kmem
  PROVE  Sound(kmem', proc')
<1>1. kmem \in Free01 /\ GoodTable(NoDir) /\ FramesOf(NoDir) = {}
  BY SoundIs, NoDirIs
<1>2. Conserves(kmem, NewPd(proc[p]), kmem, NoDir)
  BY <1>1, SameConserves
<1>3. -1 \in MProc \cup {0, -1}
  OBVIOUS
<1>4. Sound(kmem, [proc EXCEPT ![p] = Back(proc[p], -1)])
  BY <1>2, <1>3, Returns
<1> QED
  BY <1>4 DEF Fails

(* A process that runs what exec() loaded has the pages below its size.       *)
LEMMA RunsWhole ==
  ASSUME NEW x, Shaped(x), x.state = "user", x.entry \in DOMAIN x.pd.pages
  PROVE  /\ Tidy(x) /\ x.do = Nothing /\ NewPd(x) = NoDir
         /\ x.entry # 0 => Whole(x)
<1>1. Tidy(x) /\ x.do = Nothing
  BY DEF Shaped
<1>2. NewPd(x) = NoDir
  BY <1>1, DoIs DEF NewPd
<1>3. x.entry # 0 => Whole(x)
  BY <1>1 DEF Tidy, Boot, Bare
<1> QED
  BY <1>1, <1>2, <1>3

-----------------------------------------------------------------------------
(* sbrk().                                                                    *)

LEMMA GrowBegins ==
  ASSUME Sound(kmem, proc), NEW p \in MProc, NEW n \in Nat, SbrkGrow(p, n)
  PROVE  Sound(kmem', proc')
<1> DEFINE x == proc[p]
<1>1. /\ x \in Process /\ Shaped(x) /\ Parted(x) /\ GoodTable(x.pd) /\ kmem \in Free01
      /\ FreeFrames(kmem) \cap Held(x) = {}
  BY SoundIs
<1>2. /\ x.state = "user" /\ x.entry # 0 /\ x.entry \in DOMAIN x.pd.pages /\ n > 0 /\ kmem' = kmem
  BY ZenonT(90) DEF SbrkGrow, Calls, Runs, InitCode
<1> HIDE DEF x
<1>3. Tidy(x) /\ x.do = Nothing /\ NewPd(x) = NoDir /\ Whole(x)
  BY <1>1, <1>2, RunsWhole
<1>4. CASE x.sz + n >= KERNBASE
  <2>1. Fails(p)
    BY <1>4 DEF SbrkGrow, x
  <2> QED
    BY <1>2, <1>3, <2>1, JustFails DEF x
<1>5. CASE ~(x.sz + n >= KERNBASE)
  <2> DEFINE d == [op |-> "grow", a |-> RoundUp(x.sz), to |-> x.sz + n]
             y == [x EXCEPT !.state = "call", !.do = d]
  <2>1. proc' = [proc EXCEPT ![p].state = "call", ![p].do = d]
    BY <1>5 DEF SbrkGrow, Begins, FirstPage, x
  <2>2. proc' = [proc EXCEPT ![p] = y]
    BY ZenonT(90), <2>1 DEF x, Sound
  <2>3. x.sz \in Nat /\ x.sz > 0 /\ x.sz + n \in Nat /\ x.sz <= x.sz + n
    BY <1>1, <1>2, <1>3 DEF Process, Tidy
  <2>4. RoundUp(x.sz) \in Nat /\ RoundUp(x.sz + n) \in Nat /\ RoundUp(x.sz) <= RoundUp(x.sz + n)
    BY <2>3, Rounds, RoundsUpTo
  <2>5. d \in Grows /\ d.op = "grow" /\ d.a = RoundUp(x.sz) /\ d.to = x.sz + n
    BY <2>3, <2>4 DEF Grows
  <2> HIDE DEF d
  <2>6. /\ y \in Process
        /\ y.state = "call" /\ y.do = d /\ y.kstack = x.kstack
        /\ y.pd = x.pd /\ y.sz = x.sz /\ y.entry = x.entry /\ y.guard = x.guard
    BY ZenonT(90), <1>1, <2>5 DEF Process
  <2> HIDE DEF y
  <2>7. NewPd(y) = NoDir /\ ~Copier(y)
    BY <2>5, <2>6 DEF NewPd, Copier
  <2>8. Held(y) = Held(x) /\ Parted(y)
    BY <1>1, <1>3, <2>6, <2>7, SameHeld
  <2>9. Growing(y)
    <3>1. y.do.a \in RoundUp(y.sz)..RoundUp(y.do.to)
      BY <2>4, <2>5, <2>6
    <3>2. UpTo(y.pd, y.do.a) /\ Guarded(y)
      BY <1>3, <2>5, <2>6 DEF Whole, Guarded
    <3>3. y.do.to > y.sz /\ y.sz > 0 /\ y.do \in Grows
      BY <1>2, <2>3, <2>5, <2>6
    <3> QED
      BY <3>1, <3>2, <3>3 DEF Growing
  <2>10. Shaped(y)
    BY <1>1, <2>6, <2>8, <2>9 DEF Shaped, GoodTable
  <2>11. Sound(kmem, [proc EXCEPT ![p] = y])
    <3>1. /\ FreeFrames(kmem) \cup Held(y) = FreeFrames(kmem) \cup Held(proc[p])
          /\ FreeFrames(kmem) \cap Held(y) = {} /\ proc[p].state # "embryo"
      BY <1>1, <1>2, <2>8 DEF x
    <3> QED
      BY <1>1, <2>6, <2>7, <2>10, <3>1, OneStep
  <2> QED
    BY <1>2, <2>2, <2>11
<1> QED
  BY <1>4, <1>5

LEMMA Growed ==
  ASSUME Sound(kmem, proc), NEW p \in MProc, GrowDone(p)
  PROVE  Sound(kmem', proc')
<1> DEFINE x == proc[p]
<1>1. /\ x \in Process /\ Shaped(x) /\ Parted(x) /\ GoodTable(x.pd) /\ kmem \in Free01
      /\ FreeFrames(kmem) \cap Held(x) = {}
  BY SoundIs
<1>2. /\ x.state = "call" /\ x.do.op = "grow" /\ x.do.a * PGSIZE >= x.do.to /\ kmem' = kmem
      /\ proc' = [proc EXCEPT ![p] = [Back(x, 0) EXCEPT !.sz = x.do.to]]
  BY ZenonT(90) DEF GrowDone, In
<1> HIDE DEF x
<1>3. Growing(x)
  BY <1>1, <1>2, OpIs
<1> DEFINE z == Back(x, 0)
           to == x.do.to
           y == [z EXCEPT !.sz = to]
<1>4. /\ z \in Process
      /\ z.state = "user" /\ z.do = Nothing /\ z.kstack = x.kstack
      /\ z.pd = x.pd /\ z.sz = x.sz /\ z.entry = x.entry /\ z.guard = x.guard
      /\ NewPd(z) = NoDir /\ ~Copier(z)
  <2>1. 0 \in MProc \cup {0, -1}
    OBVIOUS
  <2> QED
    BY <1>1, <2>1, BackIs
<1>5. to \in Nat /\ x.do.a \in Nat /\ x.sz \in Nat /\ to > x.sz /\ x.sz > 0
  BY <1>1, <1>3, DoIs DEF Growing, Process
<1> HIDE DEF z
<1>6. /\ y \in Process
      /\ y.state = "user" /\ y.do = Nothing /\ y.kstack = x.kstack
      /\ y.pd = x.pd /\ y.sz = to /\ y.entry = x.entry /\ y.guard = x.guard
  BY <1>4, <1>5 DEF Process
<1> HIDE DEF y, to
<1>7. NewPd(y) = NoDir /\ ~Copier(y)
  BY <1>6, DoIs DEF NewPd, Copier
<1>8. NewPd(x) = NoDir
  BY <1>2 DEF NewPd
<1>9. Held(y) = Held(x) /\ Parted(y)
  BY <1>1, <1>6, <1>7, <1>8, SameHeld
<1>10. x.do.a = RoundUp(to) /\ RoundUp(x.sz) <= RoundUp(to) /\ RoundUp(to) \in Nat /\ RoundUp(x.sz) \in Nat
  <2>1. x.do.a < RoundUp(to) <=> x.do.a * PGSIZE < to
    BY <1>5, PagesBelow
  <2> DEFINE v == x.do.a * PGSIZE
  <2>2. v \in Int /\ v >= to
    BY <1>2, <1>5, PageSize DEF to
  <2> HIDE DEF v
  <2>3. ~(x.do.a < RoundUp(to))
    BY <1>5, <2>1, <2>2 DEF v
  <2>4. RoundUp(x.sz) \in Nat /\ RoundUp(to) \in Nat
    BY <1>5, Rounds
  <2> QED
    BY <1>3, <1>5, <2>3, <2>4 DEF Growing, to
<1>11. Tidy(y)
  <2>1. UpTo(y.pd, RoundUp(y.sz))
    BY <1>3, <1>6, <1>10 DEF Growing, UpTo
  <2>2. Guarded(y)
    BY <1>3, <1>6, <1>10 DEF Growing, Guarded
  <2> QED
    BY <1>5, <1>6, <2>1, <2>2 DEF Tidy, Whole
<1>12. GoodTable(y.pd)
  BY <1>1, <1>6
<1>13. Shaped(y)
  BY <1>6, <1>9, <1>11, <1>12, Idle
<1>14. Sound(kmem, [proc EXCEPT ![p] = y])
  <2>1. /\ FreeFrames(kmem) \cup Held(y) = FreeFrames(kmem) \cup Held(proc[p])
        /\ FreeFrames(kmem) \cap Held(y) = {} /\ proc[p].state # "embryo"
    BY <1>1, <1>2, <1>9 DEF x
  <2> QED
    BY <1>1, <1>6, <1>7, <1>13, <2>1, OneStep
<1> QED
  BY <1>2, <1>14 DEF y, z, to

LEMMA GrowsPage ==
  ASSUME Sound(kmem, proc), NEW p \in MProc, GrowPage(p)
  PROVE  Sound(kmem', proc') /\ panic' = panic
<1> DEFINE x == proc[p]
           d == x.do
           s == Alloced(kmem, x.pd, d.a, d.to, x.sz)
<1>1. /\ x \in Process /\ Shaped(x) /\ Parted(x) /\ GoodTable(x.pd) /\ kmem \in Free01
      /\ FreeFrames(kmem) \cap Held(x) = {}
  BY SoundIs
<1>2. x.state = "call" /\ d.op = "grow" /\ d.a * PGSIZE < d.to
  BY ZenonT(90) DEF GrowPage, In
<1>3. IF d.a \in DOMAIN x.pd.pages THEN Panics("remap")
      ELSE /\ kmem' = s.k
           /\ proc' = IF Allocs(kmem, x.pd, d.a) THEN [proc EXCEPT ![p].pd = s.pd, ![p].do.a = @ + 1]
                      ELSE [proc EXCEPT ![p] = [Back(@, -1) EXCEPT !.pd = s.pd]]
           /\ panic' = panic
  BY DEF GrowPage, Alloced, Allocs
<1> HIDE DEF x
<1>4. Growing(x)
  BY <1>1, <1>2, OpIs
<1>5. d.to \in Nat /\ d.a \in Nat /\ x.sz \in Nat /\ d.to > x.sz /\ x.sz > 0
  BY <1>1, <1>4, DoIs DEF Growing, Process
<1>6. d.a \notin DOMAIN x.pd.pages /\ DOMAIN x.pd.pages = 1..(d.a - 1)
  BY <1>4, <1>5 DEF Growing, UpTo
<1>7. RoundUp(x.sz) \in Nat /\ RoundUp(d.to) \in Nat /\ d.a < RoundUp(d.to) /\ RoundUp(x.sz) <= d.a
  <2>1. d.a < RoundUp(d.to) <=> d.a * PGSIZE < d.to
    BY <1>5, PagesBelow
  <2> QED
    BY <1>2, <1>4, <1>5, <2>1, Rounds DEF Growing
<1>8. FreeFrames(kmem) \cap FramesOf(x.pd) = {}
  BY <1>1 DEF Held
<1>9. /\ Conserves(kmem, x.pd, s.k, s.pd)
      /\ Allocs(kmem, x.pd, d.a) => DOMAIN s.pd.pages = DOMAIN x.pd.pages \cup {d.a}
      /\ ~Allocs(kmem, x.pd, d.a) => DOMAIN s.pd.pages = DOMAIN x.pd.pages \ Above(x.pd, d.to, x.sz)
      /\ \A j \in DOMAIN x.pd.pages \cap DOMAIN s.pd.pages : s.pd.pages[j] = x.pd.pages[j]
  BY SMTT(60), <1>1, <1>5, <1>6, <1>8, AllocIs
<1> HIDE DEF s
<1>10. s.k \in Free01 /\ GoodTable(s.pd)
  BY <1>9 DEF Conserves
<1>11. NewPd(x) = NoDir
  BY <1>2 DEF NewPd
<1>12. CASE Allocs(kmem, x.pd, d.a)
  <2> DEFINE e == [d EXCEPT !.a = d.a + 1]
             y == [x EXCEPT !.pd = s.pd, !.do = e]
  <2>1. proc' = [proc EXCEPT ![p] = y]
    <3>1. proc' = [proc EXCEPT ![p].pd = s.pd, ![p].do.a = x.do.a + 1]
      BY <1>3, <1>6, <1>12 DEF x, Sound
    <3> QED
      BY ZenonT(90), <3>1 DEF x, Sound
  <2>2. e \in Grows /\ e.op = "grow" /\ e.a = d.a + 1 /\ e.to = d.to
    BY <1>4, <1>5 DEF Growing, Grows
  <2> HIDE DEF e
  <2>3. /\ y \in Process
        /\ y.state = "call" /\ y.do = e /\ y.kstack = x.kstack
        /\ y.pd = s.pd /\ y.sz = x.sz /\ y.entry = x.entry /\ y.guard = x.guard
    BY ZenonT(90), <1>1, <1>2, <1>10, <2>2 DEF Process, GoodTable
  <2> HIDE DEF y
  <2>4. NewPd(y) = NoDir /\ ~Copier(y)
    BY <2>2, <2>3 DEF NewPd, Copier
  <2>5. /\ FreeFrames(s.k) \cup Held(y) = FreeFrames(kmem) \cup Held(x)
        /\ FreeFrames(s.k) \cap Held(y) = {} /\ Parted(y)
    BY <1>1, <1>9, <1>11, <2>3, <2>4, PdMoves
  <2>6. Growing(y)
    <3>1. y.do.a \in RoundUp(y.sz)..RoundUp(y.do.to)
      BY <1>5, <1>7, <2>2, <2>3
    <3>2. UpTo(y.pd, y.do.a)
      <4>1. DOMAIN s.pd.pages = 1..d.a
        <5>1. d.a >= 1
          BY <1>5, <1>7, RoundsPositive
        <5>2. \A n \in Nat : n >= 1 => 1..(n - 1) \cup {n} = 1..n
          OBVIOUS
        <5> QED
          BY ZenonT(90), <1>5, <1>6, <1>9, <1>12, <5>1, <5>2
      <4> QED
        BY <1>5, <2>2, <2>3, <4>1 DEF UpTo
    <3>3. Guarded(y)
      BY SMTT(60), <1>4, <1>5, <1>6, <1>7, <1>9, <1>12, <2>3 DEF Growing, Guarded
    <3>4. y.do.to > y.sz /\ y.sz > 0 /\ y.do \in Grows
      BY <1>5, <2>2, <2>3
    <3> QED
      BY <3>1, <3>2, <3>3, <3>4 DEF Growing
  <2>7. Shaped(y)
    BY <1>10, <2>3, <2>5, <2>6 DEF Shaped, GoodTable
  <2>8. Sound(s.k, [proc EXCEPT ![p] = y])
    <3>1. /\ FreeFrames(s.k) \cup Held(y) = FreeFrames(kmem) \cup Held(proc[p])
          /\ proc[p].state # "embryo"
      BY <1>2, <2>5 DEF x
    <3> QED
      BY <1>10, <2>3, <2>4, <2>5, <2>7, <3>1, OneStep
  <2> QED
    BY <1>3, <1>6, <2>1, <2>8
<1>13. CASE ~Allocs(kmem, x.pd, d.a)
  <2> DEFINE z == Back(x, -1)
             y == [z EXCEPT !.pd = s.pd]
  <2>1. proc' = [proc EXCEPT ![p] = y]
    BY <1>3, <1>6, <1>13 DEF x
  <2>2. /\ z \in Process
        /\ z.state = "user" /\ z.do = Nothing /\ z.kstack = x.kstack
        /\ z.pd = x.pd /\ z.sz = x.sz /\ z.entry = x.entry /\ z.guard = x.guard
    <3>1. -1 \in MProc \cup {0, -1}
      OBVIOUS
    <3> QED
      BY <1>1, <3>1, BackIs
  <2> HIDE DEF z
  <2>3. /\ y \in Process
        /\ y.state = "user" /\ y.do = Nothing /\ y.kstack = x.kstack
        /\ y.pd = s.pd /\ y.sz = x.sz /\ y.entry = x.entry /\ y.guard = x.guard
    BY <1>10, <2>2 DEF Process, GoodTable
  <2> HIDE DEF y
  <2>4. NewPd(y) = NoDir /\ ~Copier(y)
    BY <2>3, DoIs DEF NewPd, Copier
  <2>5. /\ FreeFrames(s.k) \cup Held(y) = FreeFrames(kmem) \cup Held(x)
        /\ FreeFrames(s.k) \cap Held(y) = {} /\ Parted(y)
    BY <1>1, <1>9, <1>11, <2>3, <2>4, PdMoves
  <2>6. DOMAIN s.pd.pages = 1..(RoundUp(x.sz) - 1)
    <3>1. ASSUME NEW i \in 1..(d.a - 1) PROVE i \in Above(x.pd, d.to, x.sz) <=> i >= RoundUp(x.sz)
      <4>1. i < RoundUp(d.to) <=> i * PGSIZE < d.to
        BY <1>5, PagesBelow
      <4> QED
        BY <1>5, <1>6, <1>7, <4>1 DEF Above
    <3>2. DOMAIN s.pd.pages = 1..(d.a - 1) \ Above(x.pd, d.to, x.sz)
      BY <1>6, <1>9, <1>13
    <3> QED
      BY <1>5, <1>7, <3>1, <3>2
  <2>7. Guarded(y)
    BY SMTT(60), <1>4, <1>5, <1>6, <1>7, <1>9, <2>3, <2>6 DEF Growing, Guarded
  <2>8. Tidy(y)
    BY <1>5, <2>3, <2>6, <2>7 DEF Tidy, Whole, UpTo
  <2>9. GoodTable(y.pd)
    BY <1>10, <2>3
  <2>10. Shaped(y)
    BY <2>3, <2>5, <2>8, <2>9, Idle
  <2>11. Sound(s.k, [proc EXCEPT ![p] = y])
    <3>1. /\ FreeFrames(s.k) \cup Held(y) = FreeFrames(kmem) \cup Held(proc[p])
          /\ proc[p].state # "embryo"
      BY <1>2, <2>5 DEF x
    <3> QED
      BY <1>10, <2>3, <2>4, <2>5, <2>10, <3>1, OneStep
  <2> QED
    BY <1>3, <1>6, <2>1, <2>11
<1> QED
  BY <1>12, <1>13

(* What sbrk() with a negative number does to the pages: from RoundUp(b) on   *)
(* they are gone.                                                             *)
LEMMA DroppedAre ==
  ASSUME NEW k \in Free01, NEW pd, GoodTable(pd), FreeFrames(k) \cap FramesOf(pd) = {},
         NEW a \in Nat, NEW b \in Nat, b <= a, UpTo(pd, RoundUp(a))
  PROVE  DOMAIN Dropped(k, pd, a, b).pd.pages = {i \in 1..(RoundUp(a) - 1) : i < RoundUp(b)}
<1>1. RoundUp(a) \in Nat /\ RoundUp(b) \in Nat
  BY Rounds
<1>2. DOMAIN pd.pages = 1..(RoundUp(a) - 1)
  BY DEF UpTo
<1>3. ASSUME NEW i \in 1..(RoundUp(a) - 1) PROVE i \in Above(pd, a, b) <=> i >= RoundUp(b)
  <2>1. i < RoundUp(a) <=> i * PGSIZE < a
    BY PagesBelow
  <2> QED
    BY <1>1, <1>2, <2>1 DEF Above
<1>4. DOMAIN Dropped(k, pd, a, b).pd.pages = DOMAIN pd.pages \ Above(pd, a, b)
  BY DeallocIs
<1> QED
  BY <1>1, <1>2, <1>3, <1>4

LEMMA Shrinks ==
  ASSUME Sound(kmem, proc), NEW p \in MProc, NEW n \in Nat, SbrkShrink(p, n)
  PROVE  Sound(kmem', proc')
<1> DEFINE x == proc[p]
<1>1. /\ x \in Process /\ Shaped(x) /\ Parted(x) /\ GoodTable(x.pd) /\ kmem \in Free01
      /\ FreeFrames(kmem) \cap Held(x) = {}
  BY SoundIs
<1>2. /\ x.state = "user" /\ x.entry # 0 /\ x.entry \in DOMAIN x.pd.pages /\ n > 0
  BY ZenonT(90) DEF SbrkShrink, Calls, Runs, InitCode
<1> HIDE DEF x
<1>3. Tidy(x) /\ x.do = Nothing /\ NewPd(x) = NoDir /\ Whole(x)
  BY <1>1, <1>2, RunsWhole
<1>4. x.sz \in Nat /\ x.sz > 0
  BY <1>1, <1>3 DEF Process, Tidy
<1>5. CASE n > x.sz
  <2> DEFINE y == [x EXCEPT !.ret = 0]
  <2>1. proc' = [proc EXCEPT ![p] = y] /\ kmem' = kmem
    BY <1>5 DEF SbrkShrink, x, Sound
  <2>2. /\ y \in Process
        /\ y.state = x.state /\ y.do = x.do /\ y.kstack = x.kstack
        /\ y.pd = x.pd /\ y.sz = x.sz /\ y.entry = x.entry /\ y.guard = x.guard
    BY <1>1 DEF Process
  <2> HIDE DEF y
  <2>3. NewPd(y) = NewPd(x) /\ ~Copier(y)
    BY <1>2, <2>2 DEF NewPd, Copier
  <2>4. Held(y) = Held(x) /\ Parted(y)
    BY <1>1, <2>2, <2>3, SameHeld
  <2>5. Tidy(y)
    BY <1>3, <2>2, TidyIs
  <2>6. Shaped(y)
    BY <1>1, <1>2, <1>3, <2>2, <2>4, <2>5, Idle
  <2>7. Sound(kmem, [proc EXCEPT ![p] = y])
    <3>1. /\ FreeFrames(kmem) \cup Held(y) = FreeFrames(kmem) \cup Held(proc[p])
          /\ FreeFrames(kmem) \cap Held(y) = {} /\ proc[p].state # "embryo"
      BY <1>1, <1>2, <2>4 DEF x
    <3> QED
      BY <1>1, <2>2, <2>3, <2>6, <3>1, OneStep
  <2> QED
    BY <2>1, <2>7
<1>6. CASE ~(n > x.sz)
  <2> DEFINE b == x.sz - n
             s == Dropped(kmem, x.pd, x.sz, b)
             sz == IF n = x.sz THEN x.sz ELSE b
             r  == IF n = x.sz THEN -1 ELSE 0
             g  == IF x.guard \in DOMAIN s.pd.pages THEN x.guard ELSE 0
             y == [x EXCEPT !.pd = s.pd, !.sz = sz, !.ret = r, !.guard = g]
  <2>1. proc' = [proc EXCEPT ![p] = y] /\ kmem' = s.k
    <3>1. /\ kmem' = s.k
          /\ proc' = [proc EXCEPT ![p].pd = s.pd,
                                  ![p].sz = IF SizeStays(p, n) THEN @ ELSE @ - n,
                                  ![p].ret = IF SizeStays(p, n) THEN -1 ELSE 0,
                                  ![p].guard = IF @ \in DOMAIN s.pd.pages THEN @ ELSE 0]
      BY <1>6 DEF SbrkShrink, Dropped, x
    <3> HIDE DEF s
    <3>2. SizeStays(p, n) <=> n = x.sz
      BY DEF SizeStays, x
    <3>3. proc' = [proc EXCEPT ![p].pd = s.pd, ![p].sz = sz, ![p].ret = r, ![p].guard = g]
      BY ZenonT(90), <3>1, <3>2 DEF x, Sound
    <3> HIDE DEF sz, r, g
    <3> QED
      BY ZenonT(90), <3>1, <3>3 DEF x, Sound
  <2>2. b \in Nat /\ b <= x.sz
    BY <1>4, <1>6
  <2> HIDE DEF b
  <2>3. FreeFrames(kmem) \cap FramesOf(x.pd) = {}
    BY <1>1 DEF Held
  <2>4. /\ Conserves(kmem, x.pd, s.k, s.pd)
        /\ \A j \in DOMAIN s.pd.pages : s.pd.pages[j] = x.pd.pages[j]
    BY <1>1, <2>3, DeallocIs
  <2>5. DOMAIN s.pd.pages = {i \in 1..(RoundUp(x.sz) - 1) : i < RoundUp(b)}
    BY <1>1, <1>3, <1>4, <2>2, <2>3, DroppedAre DEF Whole
  <2> HIDE DEF s
  <2>6. /\ sz \in Nat /\ sz > 0 /\ r \in MProc \cup {0, -1} /\ g \in Nat
    BY <1>1, <1>4, <1>6, <2>2 DEF Process, b
  <2>7. s.k \in Free01 /\ GoodTable(s.pd)
    BY <2>4 DEF Conserves
  <2> HIDE DEF sz, r, g
  <2>8. /\ y \in Process
        /\ y.state = x.state /\ y.do = x.do /\ y.kstack = x.kstack
        /\ y.pd = s.pd /\ y.sz = sz /\ y.entry = x.entry /\ y.guard = g
    BY ZenonT(90), <1>1, <2>6, <2>7 DEF Process, GoodTable
  <2> HIDE DEF y
  <2>9. NewPd(y) = NewPd(x) /\ ~Copier(y)
    BY <1>2, <2>8 DEF NewPd, Copier
  <2>10. /\ FreeFrames(s.k) \cup Held(y) = FreeFrames(kmem) \cup Held(x)
         /\ FreeFrames(s.k) \cap Held(y) = {} /\ Parted(y)
    BY <1>1, <2>4, <2>8, <2>9, PdMoves
  <2>11. Tidy(y)
    <3>1. CASE n = x.sz
      <4>1. RoundUp(b) = 0
        <5>1. 0 < RoundUp(b) <=> 0 * PGSIZE < b
          BY <2>2, PagesBelow
        <5> QED
          BY <1>4, <2>2, <3>1, <5>1, Rounds, PageSize DEF b
      <4>2. DOMAIN s.pd.pages = {}
        BY <2>5, <4>1
      <4>3. g = 0
        BY <4>2 DEF g
      <4> QED
        BY <2>6, <2>8, <4>2, <4>3 DEF Tidy, Bare
    <3>2. CASE n # x.sz
      <4>1. sz = b
        BY <3>2 DEF sz
      <4>2. RoundUp(b) <= RoundUp(x.sz) /\ RoundUp(b) \in Nat /\ RoundUp(x.sz) \in Nat
        BY <1>4, <2>2, Rounds, RoundsUpTo
      <4>3. DOMAIN s.pd.pages = 1..(RoundUp(b) - 1)
        BY <2>5, <4>2
      <4>4. Guarded(y)
        <5>1. CASE g = 0
          BY <2>8, <5>1 DEF Guarded
        <5>2. CASE g # 0
          <6>1. g = x.guard /\ g \in DOMAIN s.pd.pages
            BY <5>2 DEF g
          <6>2. s.pd.pages[g] = x.pd.pages[g] /\ ~x.pd.pages[g].user
            BY <1>3, <2>4, <5>2, <6>1 DEF Whole, Guarded
          <6> QED
            BY <2>8, <4>1, <4>3, <6>1, <6>2 DEF Guarded
        <5> QED
          BY <5>1, <5>2
      <4> QED
        BY <2>6, <2>8, <4>1, <4>3, <4>4 DEF Tidy, Whole, UpTo
    <3> QED
      BY <3>1, <3>2
  <2>12. GoodTable(y.pd) /\ y.state = "user" /\ y.do = Nothing
    BY <1>2, <1>3, <2>7, <2>8
  <2>13. Shaped(y)
    BY <2>10, <2>11, <2>12, Idle
  <2>14. Sound(s.k, [proc EXCEPT ![p] = y])
    <3>1. /\ FreeFrames(s.k) \cup Held(y) = FreeFrames(kmem) \cup Held(proc[p])
          /\ proc[p].state # "embryo"
      BY <1>2, <2>10 DEF x
    <3> QED
      BY <2>7, <2>8, <2>9, <2>10, <2>13, <3>1, OneStep
  <2> QED
    BY <2>1, <2>14
<1> QED
  BY <1>5, <1>6

-----------------------------------------------------------------------------
(* fork().                                                                    *)

LEMMA UnbornIs ==
  /\ Unborn \in Process /\ Shaped(Unborn) /\ Held(Unborn) = {} /\ ~Copier(Unborn)
  /\ Unborn.state = "unused" /\ Unborn.do = Nothing /\ Unborn.pd = NoDir /\ Unborn.guard = 0
<1>1. /\ Unborn.state = "unused" /\ Unborn.do = Nothing /\ Unborn.pd = NoDir /\ Unborn.guard = 0
      /\ Unborn.kstack = 0
  BY DEF Unborn
<1>2. GoodTable(NoDir) /\ FramesOf(NoDir) = {}
  BY NoDirIs
<1>3. Unborn \in Process
  BY <1>2 DEF Unborn, Process, GoodTable
<1>4. NewPd(Unborn) = NoDir /\ ~Copier(Unborn)
  BY <1>1, DoIs DEF NewPd, Copier
<1>5. Stack(Unborn) = {}
  BY <1>1 DEF Stack
<1>6. Held(Unborn) = {} /\ Parted(Unborn)
  BY <1>1, <1>2, <1>4, <1>5 DEF Held, Parted
<1>7. Shaped(Unborn)
  BY <1>1, <1>2, <1>6 DEF Shaped, GoodTable
<1> QED
  BY <1>1, <1>3, <1>4, <1>6, <1>7

LEMMA Forks ==
  ASSUME Sound(kmem, proc), NEW p \in MProc, Fork(p)
  PROVE  Sound(kmem', proc')
<1> DEFINE x == proc[p]
           q == Min(UnusedProc)
           k == Kalloc(kmem)
           f == Given(kmem)
           fails == UnusedProc = {} \/ NoPage(kmem) \/ ~CanSetup(k)
<1>1. /\ x \in Process /\ Shaped(x) /\ Parted(x) /\ GoodTable(x.pd) /\ kmem \in Free01
      /\ FreeFrames(kmem) \cap Held(x) = {}
  BY SoundIs
<1>2. /\ x.state = "user" /\ x.entry # 0 /\ x.entry \in DOMAIN x.pd.pages
  BY ZenonT(90) DEF Fork, Calls, Runs, InitCode
<1> HIDE DEF x
<1>3. Tidy(x) /\ x.do = Nothing /\ NewPd(x) = NoDir /\ Whole(x)
  BY <1>1, <1>2, RunsWhole
<1>4. CASE fails
  <2>1. Fails(p) /\ kmem' = kmem
    BY SMTT(60), <1>4 DEF Fork
  <2> QED
    BY SMTT(60), <1>2, <1>3, <2>1, JustFails DEF x
<1>5. CASE ~fails
  <2> DEFINE k2 == Setup(k).k
             pd == Setup(k).pd
             d == [op |-> "copy", q |-> q, a |-> 1]
             y == [x EXCEPT !.state = "call", !.do = d]
             z == [Unborn EXCEPT !.state = "embryo", !.kstack = f, !.pd = pd]
  <2>1. /\ kmem' = k2
        /\ proc' = [proc EXCEPT ![p].state = "call", ![p].do = d,
                                ![q].state = "embryo", ![q].kstack = f, ![q].pd = pd]
    BY ZenonT(90), <1>5 DEF Fork
  <2>2. q \in UnusedProc
    <3>1. UnusedProc \in SUBSET Nat
      BY ZenonT(90), MemoryAssumption DEF UnusedProc
    <3> QED
      BY <1>5, <3>1, MinIs
  <2> HIDE DEF q
  <2>3. q \in MProc /\ proc[q] = Unborn /\ p # q
    <3>1. q \in MProc /\ proc[q].state = "unused"
      BY <2>2 DEF UnusedProc
    <3> QED
      BY <1>2, <3>1 DEF Sound, Shaped, x
  <2>4. k \in Free01 /\ f \in FreeFrames(kmem) /\ FreeFrames(k) = FreeFrames(kmem) \ {f} /\ f \in Frame
    <3>1. k \in Free01 /\ f \in FreeFrames(kmem) /\ FreeFrames(k) = FreeFrames(kmem) \ {f}
      BY <1>1, <1>5, Allocates DEF NoPage
    <3> QED
      BY <3>1 DEF FreeFrames
  <2>5. Conserves(k, NoDir, k2, pd) /\ DOMAIN pd.pages = {}
    BY <1>5, <2>4, SetupIs
  <2> HIDE DEF k, k2, pd, f
  <2>6. k2 \in Free01 /\ GoodTable(pd) /\ FreeFrames(k2) \cup FramesOf(pd) = FreeFrames(k)
        /\ FreeFrames(k2) \cap FramesOf(pd) = {}
    BY <2>5, NoDirIs DEF Conserves
  <2>7. d \in Copies /\ d.op = "copy" /\ d.q = q /\ d.a = 1
    BY SMTT(60), <2>3 DEF Copies
  <2> HIDE DEF d
  <2>8. proc' = [proc EXCEPT ![p] = y, ![q] = z]
    <3>1. [proc EXCEPT ![p].state = "call", ![p].do = d,
                       ![q].state = "embryo", ![q].kstack = f, ![q].pd = pd]
          = [proc EXCEPT ![p] = [proc[p] EXCEPT !.state = "call", !.do = d],
                         ![q] = [proc[q] EXCEPT !.state = "embryo", !.kstack = f, !.pd = pd]]
      BY ZenonT(90), <2>3 DEF Sound
    <3> QED
      BY <2>1, <2>3, <3>1 DEF x
  <2>9. /\ y \in Process
        /\ y.state = "call" /\ y.do = d /\ y.kstack = x.kstack
        /\ y.pd = x.pd /\ y.sz = x.sz /\ y.entry = x.entry /\ y.guard = x.guard
    BY ZenonT(90), <1>1, <2>7 DEF Process
  <2>10. /\ z \in Process
         /\ z.state = "embryo" /\ z.do = Nothing /\ z.kstack = f /\ z.pd = pd /\ z.guard = 0
    BY ZenonT(90), <2>4, <2>6, UnbornIs DEF Process, GoodTable
  <2> HIDE DEF y, z
  <2>11. NewPd(y) = NoDir /\ NewPd(z) = NoDir /\ ~Copier(z)
    BY <2>7, <2>9, <2>10, DoIs DEF NewPd, Copier
  <2>12. Held(y) = Held(x) /\ Parted(y)
    BY <1>1, <1>3, <2>9, <2>11, SameHeld
  <2>13. Copying(y)
    <3>1. RoundUp(x.sz) \in Nat /\ RoundUp(x.sz) >= 1 /\ x.sz > 0
      BY <1>1, <1>3, Rounds, RoundsPositive DEF Process, Tidy
    <3>2. Whole(y)
      BY <1>3, <2>9 DEF Whole, Guarded
    <3> QED
      BY <2>7, <2>9, <3>1, <3>2 DEF Copying
  <2>14. Shaped(y)
    BY <1>1, <2>9, <2>12, <2>13 DEF Shaped, GoodTable
  <2>15. /\ Held(z) = {f} \cup FramesOf(pd) /\ Parted(z)
    <3>1. Stack(z) = {f}
      BY <2>4, <2>10 DEF Stack, Frame
    <3>2. FramesOf(NewPd(z)) = {}
      BY <2>11, NoDirIs
    <3>3. f \notin FramesOf(pd)
      BY <2>4, <2>6
    <3> QED
      BY <2>10, <3>1, <3>2, <3>3 DEF Held, Parted
  <2>16. Shaped(z)
    BY <2>6, <2>10, <2>15 DEF Shaped, GoodTable
  <2>17. FreeFrames(k2) \cup Held(z) = FreeFrames(kmem) \cup Held(proc[q]) /\ FreeFrames(k2) \cap Held(z) = {}
    BY <2>3, <2>4, <2>6, <2>15, UnbornIs
  <2>18. ASSUME NEW r \in MProc, Copier(proc[r]), proc[r].do.q = q PROVE FALSE
    <3>1. proc[q].state = "embryo"
      BY <2>18 DEF Sound, Embryos, Copied
    <3> QED
      BY SMTT(60), <2>3, <3>1, UnbornIs
  <2>19. y.do.q = q /\ Copied(y, z)
    <3>1. UpTo(z.pd, y.do.a) /\ 1..(y.do.a - 1) = {}
      <4>1. y.do.a = 1 /\ DOMAIN z.pd.pages = {}
        BY <2>5, <2>7, <2>9, <2>10
      <4>2. 1..(y.do.a - 1) = {}
        <5>1. y.do.a - 1 = 0
          BY <4>1
        <5>2. 1..0 = {}
          OBVIOUS
        <5> QED
          BY <5>1, <5>2
      <4> QED
        BY <4>1, <4>2 DEF UpTo
    <3> QED
      BY <2>7, <2>9, <2>10, <3>1 DEF Copied
  <2>20. Sound(k2, [proc EXCEPT ![p] = y, ![q] = z])
    <3>1. Held(y) = Held(proc[p]) /\ proc[p].state # "embryo"
      BY <1>2, <2>12 DEF x
    <3> QED
      BY <2>3, <2>6, <2>9, <2>10, <2>11, <2>14, <2>16, <2>17, <2>18, <2>19, <3>1, TwoStep
  <2> QED
    BY ZenonT(90), <2>1, <2>8, <2>20
<1> QED
  BY <1>4, <1>5

(* What is known of fork() and the process it makes.                          *)
LEMMA CopyingIs ==
  ASSUME Sound(kmem, proc), NEW p \in MProc, In(p, "copy"),
         NEW x, x = proc[p], NEW q, q = x.do.q, NEW w, w = proc[q]
  PROVE  /\ Copying(x) /\ x.state = "call" /\ x.do.op = "copy" /\ NewPd(x) = NoDir /\ Tidy(x)
         /\ q \in MProc /\ p # q /\ w \in Process /\ Shaped(w) /\ Copied(x, w)
         /\ w.state = "embryo" /\ w.do = Nothing /\ w.guard = 0 /\ NewPd(w) = NoDir
         /\ x.do.a \in Nat /\ x.sz \in Nat /\ x.sz > 0
         /\ \A r \in MProc : Copier(proc[r]) /\ proc[r].do.q = q => r = p
<1>1. x \in Process /\ Shaped(x) /\ x.state = "call" /\ x.do.op = "copy"
  BY ZenonT(90), SoundIs DEF In
<1>2. Copying(x)
  BY <1>1, OpIs
<1>3. q \in MProc /\ x.do.a \in Nat /\ x.sz \in Nat /\ x.sz > 0 /\ Tidy(x)
  BY <1>1, <1>2, DoIs DEF Copying, Process, Tidy
<1>4. w \in Process /\ Shaped(w)
  BY <1>3, SoundIs
<1>5. Copied(x, w)
  <2>1. Embryos(proc)
    BY DEF Sound
  <2>2. Copier(proc[p])
    BY ZenonT(150), <1>1 DEF Copier
  <2> QED
    BY <2>1, <2>2 DEF Embryos
<1>6. w.state = "embryo" /\ w.do = Nothing /\ w.guard = 0
  BY <1>4, <1>5 DEF Copied, Shaped
<1>7. NewPd(x) = NoDir /\ NewPd(w) = NoDir
  BY <1>1, <1>6, DoIs DEF NewPd
<1>8. p # q
  BY <1>1, <1>6
<1>9. \A r \in MProc : Copier(proc[r]) /\ proc[r].do.q = q => r = p
  BY <1>1 DEF Sound, Embryos, Copier
<1> QED
  BY <1>1, <1>2, <1>3, <1>4, <1>5, <1>6, <1>7, <1>8, <1>9

(* copyuvm() fails: what it made is given back.                               *)
LEMMA CopyBack ==
  ASSUME Sound(kmem, proc), NEW p \in MProc, In(p, "copy"), NEW k \in Free01, NEW fs \in SUBSET Frame,
         FreeFrames(k) \cup fs = FreeFrames(kmem), FreeFrames(k) \cap fs = {},
         CopyFails(p, proc[p].do.q, k, fs)
  PROVE  Sound(kmem', proc')
<1> DEFINE x == proc[p]
           q == x.do.q
           w == proc[q]
           y == Back(x, -1)
           S == fs \cup {w.kstack}
           k1 == Freevm(k, w.pd)
           k2 == Kfree(k1, S)
<1>1. /\ Copying(x) /\ x.state = "call" /\ NewPd(x) = NoDir /\ Tidy(x)
      /\ q \in MProc /\ p # q /\ NewPd(w) = NoDir
      /\ \A r \in MProc : Copier(proc[r]) /\ proc[r].do.q = q => r = p
  BY CopyingIs
<1>2. kmem' = k2 /\ proc' = [proc EXCEPT ![p] = y, ![q] = Unborn]
  BY <1>1 DEF CopyFails, Sound
<1>3. /\ x \in Process /\ Parted(x) /\ GoodTable(x.pd) /\ kmem \in Free01
      /\ FreeFrames(kmem) \cap Held(x) = {}
  BY SoundIs
<1> HIDE DEF q
<1>4. /\ w \in Process /\ Parted(w) /\ GoodTable(w.pd) /\ FreeFrames(kmem) \cap Held(w) = {}
      /\ Stack(w) \subseteq Frame
  BY <1>1, SoundIs
<1>5. Held(w) = Stack(w) \cup FramesOf(w.pd)
  BY <1>1, NoDirIs DEF Held
<1>6. Stack(w) \cap FramesOf(w.pd) = {}
  BY <1>4 DEF Parted
<1>7. k1 \in Free01 /\ FreeFrames(k1) = FreeFrames(k) \cup FramesOf(w.pd)
  <2>1. FreeFrames(k) \cap FramesOf(w.pd) = {}
    BY <1>4, <1>5
  <2> QED
    BY <1>4, <2>1, FreevmIs
<1>8. k2 = Kfree(k1, fs \cup Stack(w))
  <2>1. S \ {0} = fs \cup Stack(w)
    BY DEF Stack, Frame
  <2> QED
    BY <2>1, NoFrame
<1> HIDE DEF k1, k2, x, w, y
<1>9. k2 \in Free01 /\ FreeFrames(k2) = FreeFrames(kmem) \cup Held(w)
  <2>1. (fs \cup Stack(w)) \cap FreeFrames(k1) = {} /\ fs \cup Stack(w) \in SUBSET Frame
    BY <1>4, <1>5, <1>6, <1>7
  <2> QED
    BY <1>5, <1>7, <1>8, <2>1, GivesBack
<1>10. /\ y \in Process
       /\ y.state = "user" /\ y.do = Nothing /\ y.kstack = x.kstack
       /\ y.pd = x.pd /\ y.sz = x.sz /\ y.entry = x.entry /\ y.guard = x.guard
       /\ NewPd(y) = NoDir /\ ~Copier(y)
  <2>1. -1 \in MProc \cup {0, -1}
    OBVIOUS
  <2> QED
    BY <1>3, <2>1, BackIs DEF y
<1>11. Held(y) = Held(x) /\ Parted(y)
  BY <1>1, <1>3, <1>10, SameHeld
<1>12. Shaped(y)
  <2>1. Tidy(y) /\ GoodTable(y.pd)
    BY <1>1, <1>3, <1>10, TidyIs
  <2> QED
    BY <1>10, <1>11, <2>1, Idle
<1>13. Sound(k2, [proc EXCEPT ![p] = y, ![q] = Unborn])
  <2>1. Held(y) = Held(proc[p]) /\ proc[p].state # "embryo"
    BY <1>1, <1>11 DEF x
  <2>2. /\ FreeFrames(k2) \cup Held(Unborn) = FreeFrames(kmem) \cup Held(proc[q])
        /\ FreeFrames(k2) \cap Held(Unborn) = {}
    BY <1>9, UnbornIs DEF w
  <2> QED
    BY <1>1, <1>9, <1>10, <1>12, <2>1, <2>2, UnbornIs, TwoStep
<1> QED
  BY <1>2, <1>13

LEMMA CopiesPage ==
  ASSUME Sound(kmem, proc), NEW p \in MProc, CopyPage(p)
  PROVE  Sound(kmem', proc') /\ panic' = panic
<1> DEFINE x == proc[p]
           d == x.do
           q == d.q
           w == proc[q]
           f == Given(kmem)
           u == FlagOf(x.pd.pages[d.a])
           s == Mapped(kmem, w.pd, d.a, u)
<1>1. In(p, "copy") /\ d.a * PGSIZE < x.sz
  BY ZenonT(150) DEF CopyPage
<1>2. IF d.a \notin DOMAIN x.pd.pages THEN Panics("copyuvm")
      ELSE /\ IF NoPage(kmem) THEN CopyFails(p, q, kmem, {})
              ELSE IF ~CanTake(kmem, w.pd, d.a) THEN CopyFails(p, q, Kalloc(kmem), {f})
              ELSE kmem' = s.k /\ proc' = [proc EXCEPT ![q].pd = s.pd, ![p].do.a = @ + 1]
           /\ panic' = panic
  BY DEF CopyPage, MemFreed, CanTake, Mapped
<1>3. /\ Copying(x) /\ x.state = "call" /\ d.op = "copy" /\ NewPd(x) = NoDir /\ Tidy(x)
      /\ q \in MProc /\ p # q /\ w \in Process /\ Shaped(w) /\ Copied(x, w)
      /\ w.state = "embryo" /\ w.do = Nothing /\ w.guard = 0 /\ NewPd(w) = NoDir
      /\ d.a \in Nat /\ x.sz \in Nat /\ x.sz > 0
      /\ \A r \in MProc : Copier(proc[r]) /\ proc[r].do.q = q => r = p
  BY <1>1, CopyingIs
<1>4. /\ x \in Process /\ Shaped(x) /\ Parted(x) /\ GoodTable(x.pd) /\ kmem \in Free01
      /\ FreeFrames(kmem) \cap Held(x) = {}
  BY SoundIs
<1> HIDE DEF q
<1>5. /\ Parted(w) /\ GoodTable(w.pd) /\ FreeFrames(kmem) \cap Held(w) = {}
  BY <1>3, SoundIs
<1> HIDE DEF x, w
<1>6. d.a < RoundUp(x.sz) /\ RoundUp(x.sz) \in Nat /\ d.a >= 1
  <2>1. d.a < RoundUp(x.sz) <=> d.a * PGSIZE < x.sz
    BY <1>3, PagesBelow
  <2> QED
    BY <1>1, <1>3, <2>1, Rounds DEF x, Copying
<1>7. d.a \in DOMAIN x.pd.pages
  BY <1>3, <1>6 DEF Copying, Whole, UpTo
<1>8. CASE NoPage(kmem)
  <2>1. CopyFails(p, q, kmem, {}) /\ panic' = panic
    BY <1>2, <1>7, <1>8
  <2>2. Sound(kmem', proc')
    <3> DEFINE fs == {}
    <3>1. fs \in SUBSET Frame /\ FreeFrames(kmem) \cup fs = FreeFrames(kmem) /\ FreeFrames(kmem) \cap fs = {}
          /\ CopyFails(p, proc[p].do.q, kmem, fs)
      BY <2>1 DEF q, x
    <3> HIDE DEF fs
    <3> QED
      BY <1>1, <1>4, <3>1, CopyBack
  <2> QED
    BY <2>1, <2>2
<1>9. CASE ~NoPage(kmem) /\ ~CanTake(kmem, w.pd, d.a)
  <2>1. CopyFails(p, q, Kalloc(kmem), {f}) /\ panic' = panic
    BY <1>2, <1>7, <1>9
  <2>2. /\ Kalloc(kmem) \in Free01 /\ f \in FreeFrames(kmem)
        /\ FreeFrames(Kalloc(kmem)) = FreeFrames(kmem) \ {f}
    BY <1>4, <1>9, Allocates DEF NoPage
  <2>3. Sound(kmem', proc')
    <3> DEFINE fs == {f}
               k == Kalloc(kmem)
    <3>1. fs \in SUBSET Frame /\ FreeFrames(k) \cup fs = FreeFrames(kmem) /\ FreeFrames(k) \cap fs = {}
          /\ CopyFails(p, proc[p].do.q, k, fs) /\ k \in Free01
      BY <2>1, <2>2 DEF q, x, FreeFrames
    <3> HIDE DEF fs, k
    <3> QED
      BY <1>1, <1>4, <3>1, CopyBack
  <2> QED
    BY <2>1, <2>3
<1>10. CASE ~NoPage(kmem) /\ CanTake(kmem, w.pd, d.a)
  <2> DEFINE e == [d EXCEPT !.a = d.a + 1]
             y == [x EXCEPT !.do = e]
             z == [w EXCEPT !.pd = s.pd]
  <2>1. kmem' = s.k /\ panic' = panic /\ proc' = [proc EXCEPT ![q].pd = s.pd, ![p].do.a = @ + 1]
    BY <1>2, <1>7, <1>10
  <2>2. DOMAIN w.pd.pages = 1..(d.a - 1) /\ d.a \notin DOMAIN w.pd.pages
    BY <1>3 DEF Copied, UpTo
  <2>3. u \in BOOLEAN /\ (u <=> x.pd.pages[d.a].user)
    <3>1. x.pd.pages[d.a] \in [frame : Frame, user : BOOLEAN]
      BY <1>4, <1>7, TableIs, MapsAre
    <3> QED
      BY <3>1 DEF FlagOf
  <2> HIDE DEF u
  <2>4. FreeFrames(kmem) \cap FramesOf(w.pd) = {} /\ FreeFrames(kmem) # {}
    BY SMTT(60), <1>5, <1>10 DEF Held, NoPage
  <2>5. /\ Conserves(kmem, w.pd, s.k, s.pd)
        /\ DOMAIN s.pd.pages = DOMAIN w.pd.pages \cup {d.a}
        /\ s.pd.pages[d.a].user <=> u
        /\ \A j \in DOMAIN w.pd.pages : s.pd.pages[j] = w.pd.pages[j]
    BY SMTT(60), <1>3, <1>4, <1>5, <1>10, <2>2, <2>3, <2>4, MapIs
  <2> HIDE DEF s
  <2>6. s.k \in Free01 /\ GoodTable(s.pd)
    BY <2>5 DEF Conserves
  <2>7. proc' = [proc EXCEPT ![p] = y, ![q] = z]
    <3>1. proc' = [proc EXCEPT ![q].pd = s.pd, ![p].do.a = x.do.a + 1]
      BY <1>3, <2>1 DEF x, Sound
    <3>2. [proc EXCEPT ![q].pd = s.pd, ![p].do.a = x.do.a + 1]
          = [proc EXCEPT ![p] = [proc[p] EXCEPT !.do = [proc[p].do EXCEPT !.a = x.do.a + 1]],
                         ![q] = [proc[q] EXCEPT !.pd = s.pd]]
      BY ZenonT(90), <1>3 DEF Sound
    <3> QED
      BY <3>1, <3>2 DEF x, w
  <2>8. e \in Copies /\ e.op = "copy" /\ e.q = q /\ e.a = d.a + 1
    BY <1>3 DEF Copying, Copies, q
  <2> HIDE DEF e
  <2>9. /\ y \in Process
        /\ y.state = "call" /\ y.do = e /\ y.kstack = x.kstack
        /\ y.pd = x.pd /\ y.sz = x.sz /\ y.entry = x.entry /\ y.guard = x.guard
    BY <1>3, <1>4, <2>8 DEF Process
  <2>10. /\ z \in Process
         /\ z.state = "embryo" /\ z.do = Nothing /\ z.kstack = w.kstack /\ z.pd = s.pd /\ z.guard = 0
    BY <1>3, <2>6 DEF Process, GoodTable
  <2> HIDE DEF y, z
  <2>11. NewPd(y) = NewPd(x) /\ NewPd(z) = NewPd(w) /\ ~Copier(z)
    BY <1>3, <2>8, <2>9, <2>10, DoIs DEF NewPd, Copier
  <2>12. Held(y) = Held(x) /\ Parted(y)
    BY <1>4, <2>9, <2>11, SameHeld
  <2>13. Copying(y)
    <3>1. Whole(y)
      BY <1>3, <2>9 DEF Copying, Whole, Guarded
    <3> QED
      BY <1>3, <1>6, <2>8, <2>9, <3>1 DEF Copying
  <2>14. Shaped(y)
    BY <1>4, <2>9, <2>12, <2>13 DEF Shaped, GoodTable
  <2>15. /\ FreeFrames(s.k) \cup Held(z) = FreeFrames(kmem) \cup Held(w)
         /\ FreeFrames(s.k) \cap Held(z) = {} /\ Parted(z)
    BY ZenonT(90), <1>5, <2>5, <2>10, <2>11, PdMoves
  <2>16. Shaped(z)
    BY <2>6, <2>10, <2>15 DEF Shaped, GoodTable
  <2>17. Copied(y, z)
    <3>1. DOMAIN s.pd.pages = 1..d.a
      <4>1. \A n \in Nat : n >= 1 => 1..(n - 1) \cup {n} = 1..n
        OBVIOUS
      <4> QED
        BY <1>3, <1>6, <2>2, <2>5, <4>1
    <3>2. \A i \in 1..(d.a - 1) : w.pd.pages[i].user = x.pd.pages[i].user
      BY <1>3 DEF Copied
    <3>3. ASSUME NEW i \in 1..d.a PROVE s.pd.pages[i].user = x.pd.pages[i].user
      <4>1. CASE i = d.a
        <5>1. s.pd.pages[i] \in [frame : Frame, user : BOOLEAN] /\ x.pd.pages[i] \in [frame : Frame, user : BOOLEAN]
          BY <1>4, <1>7, <2>6, <3>1, <4>1, TableIs, MapsAre
        <5>2. s.pd.pages[i].user \in BOOLEAN /\ x.pd.pages[i].user \in BOOLEAN
          BY <5>1
        <5>3. s.pd.pages[i].user <=> x.pd.pages[i].user
          BY <2>3, <2>5, <4>1
        <5> QED
          BY ZenonT(60), <5>2, <5>3
      <4>2. CASE i # d.a
        <5>1. i \in 1..(d.a - 1)
          BY <1>3, <4>2
        <5>2. s.pd.pages[i] = w.pd.pages[i] /\ w.pd.pages[i].user = x.pd.pages[i].user
          BY <2>2, <2>5, <3>2, <5>1
        <5> QED
          BY ZenonT(60), <5>2
      <4> QED
        BY <4>1, <4>2
    <3>4. y.do.a - 1 = d.a
      BY <1>3, <2>8, <2>9
    <3>5. UpTo(z.pd, y.do.a)
      BY <2>10, <3>1, <3>4 DEF UpTo
    <3>6. \A i \in 1..(y.do.a - 1) : z.pd.pages[i].user = y.pd.pages[i].user
      BY ZenonT(60), <2>9, <2>10, <3>3, <3>4
    <3> QED
      BY <2>10, <3>5, <3>6 DEF Copied
  <2>18. Sound(s.k, [proc EXCEPT ![p] = y, ![q] = z])
    <3>1. Held(y) = Held(proc[p]) /\ proc[p].state # "embryo"
      BY <1>3, <2>12 DEF x
    <3>2. FreeFrames(s.k) \cup Held(z) = FreeFrames(kmem) \cup Held(proc[q])
      BY <2>15 DEF w
    <3>3. y.do.q = q
      BY <2>8, <2>9
    <3> QED
      BY <1>3, <2>6, <2>9, <2>10, <2>11, <2>14, <2>15, <2>16, <2>17, <3>1, <3>2, <3>3, TwoStep
  <2> QED
    BY ZenonT(90), <2>1, <2>7, <2>18
<1> HIDE DEF x, d, q, w, f, u, s
<1> QED
  BY <1>8, <1>9, <1>10

LEMMA CopyEnds ==
  ASSUME Sound(kmem, proc), NEW p \in MProc, CopyDone(p)
  PROVE  Sound(kmem', proc')
<1> DEFINE x == proc[p]
           q == x.do.q
           w == proc[q]
           y == Back(x, q)
           v == Back(w, 0)
           z == [v EXCEPT !.sz = x.sz, !.entry = x.entry, !.guard = x.guard]
<1>1. In(p, "copy") /\ x.do.a * PGSIZE >= x.sz /\ kmem' = kmem
  BY DEF CopyDone
<1>2. /\ Copying(x) /\ x.state = "call" /\ NewPd(x) = NoDir /\ Tidy(x)
      /\ q \in MProc /\ p # q /\ w \in Process /\ Shaped(w) /\ Copied(x, w)
      /\ w.state = "embryo" /\ w.do = Nothing /\ NewPd(w) = NoDir
      /\ x.do.a \in Nat /\ x.sz \in Nat /\ x.sz > 0
      /\ \A r \in MProc : Copier(proc[r]) /\ proc[r].do.q = q => r = p
  BY <1>1, CopyingIs
<1>3. proc' = [proc EXCEPT ![p] = y, ![q] = z]
  <2>1. proc' = [proc EXCEPT ![p] = Back(@, q),
                          ![q] = [Back(@, 0) EXCEPT !.sz = x.sz, !.entry = x.entry, !.guard = x.guard]]
    BY DEF CopyDone
  <2> QED
    BY <1>2, <2>1 DEF Sound
<1>4. /\ x \in Process /\ Shaped(x) /\ Parted(x) /\ GoodTable(x.pd) /\ kmem \in Free01
      /\ FreeFrames(kmem) \cap Held(x) = {}
  BY SoundIs
<1> HIDE DEF q
<1>5. Parted(w) /\ GoodTable(w.pd) /\ FreeFrames(kmem) \cap Held(w) = {}
  BY <1>2, SoundIs
<1> HIDE DEF x, w
<1>6. /\ y \in Process
      /\ y.state = "user" /\ y.do = Nothing /\ y.kstack = x.kstack
      /\ y.pd = x.pd /\ y.sz = x.sz /\ y.entry = x.entry /\ y.guard = x.guard
      /\ NewPd(y) = NoDir /\ ~Copier(y)
  <2>1. q \in MProc \cup {0, -1}
    BY <1>2
  <2> QED
    BY <1>4, <2>1, BackIs
<1>7. /\ v \in Process
      /\ v.state = "user" /\ v.do = Nothing /\ v.kstack = w.kstack /\ v.pd = w.pd
  <2>1. 0 \in MProc \cup {0, -1}
    OBVIOUS
  <2> QED
    BY <1>2, <2>1, BackIs
<1> HIDE DEF y, v
<1>8. /\ z \in Process
      /\ z.state = "user" /\ z.do = Nothing /\ z.kstack = w.kstack
      /\ z.pd = w.pd /\ z.sz = x.sz /\ z.entry = x.entry /\ z.guard = x.guard
  BY ZenonT(90), <1>4, <1>7 DEF Process
<1> HIDE DEF z
<1>9. NewPd(z) = NoDir /\ ~Copier(z)
  BY <1>8, DoIs DEF NewPd, Copier
<1>10. Held(y) = Held(x) /\ Parted(y) /\ Held(z) = Held(w) /\ Parted(z)
  BY <1>2, <1>4, <1>5, <1>6, <1>8, <1>9, SameHeld
<1>11. Tidy(y)
  BY <1>2, <1>6, TidyIs
<1>12. x.do.a = RoundUp(x.sz)
  <2>1. x.do.a < RoundUp(x.sz) <=> x.do.a * PGSIZE < x.sz
    BY <1>2, PagesBelow
  <2> DEFINE n == x.do.a * PGSIZE
  <2>2. n \in Int /\ n >= x.sz
    BY <1>1, <1>2, PageSize
  <2> HIDE DEF n
  <2>3. ~(x.do.a < RoundUp(x.sz))
    BY <1>2, <2>1, <2>2 DEF n
  <2> QED
    BY <1>2, <2>3, Rounds DEF Copying
<1>13. Tidy(z)
  <2>1. UpTo(z.pd, RoundUp(z.sz))
    BY <1>2, <1>8, <1>12 DEF Copied
  <2>2. Guarded(z)
    <3> SUFFICES ASSUME x.guard # 0
                 PROVE  x.guard \in 1..(RoundUp(x.sz) - 1) /\ ~w.pd.pages[x.guard].user
      BY <1>8 DEF Guarded
    <3>1. x.guard \in 1..(RoundUp(x.sz) - 1) /\ ~x.pd.pages[x.guard].user
      BY <1>2 DEF Copying, Whole, Guarded
    <3>2. w.pd.pages[x.guard].user = x.pd.pages[x.guard].user
      BY <1>2, <1>12, <3>1 DEF Copied
    <3> QED
      BY <3>1, <3>2
  <2> QED
    BY <1>2, <1>8, <2>1, <2>2 DEF Tidy, Whole
<1>14. Shaped(y) /\ Shaped(z)
  <2>1. GoodTable(y.pd) /\ GoodTable(z.pd)
    BY <1>4, <1>5, <1>6, <1>8
  <2> QED
    BY <1>6, <1>8, <1>10, <1>11, <1>13, <2>1, Idle
<1>15. Sound(kmem, [proc EXCEPT ![p] = y, ![q] = z])
  <2>1. Held(y) = Held(proc[p]) /\ proc[p].state # "embryo"
    BY <1>2, <1>10 DEF x
  <2>2. /\ FreeFrames(kmem) \cup Held(z) = FreeFrames(kmem) \cup Held(proc[q])
        /\ FreeFrames(kmem) \cap Held(z) = {}
    BY <1>5, <1>10 DEF w
  <2> QED
    BY <1>2, <1>4, <1>6, <1>8, <1>9, <1>14, <2>1, <2>2, TwoStep
<1> QED
  BY <1>1, <1>3, <1>15

-----------------------------------------------------------------------------
(* The end of a process.                                                      *)

LEMMA ExitsSound ==
  ASSUME Sound(kmem, proc), NEW p \in MProc, Exits(p)
  PROVE  Sound(kmem', proc')
<1> DEFINE x == proc[p]
           y == [x EXCEPT !.state = "zombie"]
<1>1. x.state = "user" /\ kmem' = kmem /\ proc' = [proc EXCEPT ![p] = y]
  BY ZenonT(90) DEF Exits, Sound
<1>2. /\ x \in Process /\ Shaped(x) /\ Parted(x) /\ GoodTable(x.pd) /\ kmem \in Free01
      /\ FreeFrames(kmem) \cap Held(x) = {}
  BY SoundIs
<1> HIDE DEF x
<1>3. /\ y \in Process
      /\ y.state = "zombie" /\ y.do = x.do /\ y.kstack = x.kstack /\ y.pd = x.pd
  BY <1>2 DEF Process
<1> HIDE DEF y
<1>4. NewPd(y) = NewPd(x) /\ ~Copier(y)
  BY <1>3 DEF NewPd, Copier
<1>5. Held(y) = Held(x) /\ Parted(y)
  BY <1>2, <1>3, <1>4, SameHeld
<1>6. Shaped(y)
  BY <1>1, <1>2, <1>3, <1>5 DEF Shaped, GoodTable
<1>7. Sound(kmem, [proc EXCEPT ![p] = y])
  <2>1. /\ FreeFrames(kmem) \cup Held(y) = FreeFrames(kmem) \cup Held(proc[p])
        /\ FreeFrames(kmem) \cap Held(y) = {} /\ proc[p].state # "embryo"
    BY <1>1, <1>2, <1>5 DEF x
  <2> QED
    BY <1>2, <1>3, <1>4, <1>6, <2>1, OneStep
<1> QED
  BY <1>1, <1>7

LEMMA Reaps ==
  ASSUME Sound(kmem, proc), NEW p \in MProc, NEW q \in MProc, Reap(p, q)
  PROVE  Sound(kmem', proc')
<1> DEFINE w == proc[q]
           k1 == Freevm(kmem, w.pd)
           k2 == Kfree(k1, {w.kstack})
<1>1. w.state = "zombie" /\ kmem' = k2 /\ proc' = [proc EXCEPT ![q] = Unborn]
  BY DEF Reap
<1>2. /\ w \in Process /\ Shaped(w) /\ Parted(w) /\ GoodTable(w.pd) /\ kmem \in Free01
      /\ FreeFrames(kmem) \cap Held(w) = {} /\ Stack(w) \subseteq Frame
  BY SoundIs
<1>3. k2 = Kfree(k1, Stack(w))
  BY NoFrame DEF Stack
<1> HIDE DEF w
<1>4. NewPd(w) = NoDir
  BY <1>1, <1>2, DoIs DEF NewPd, Shaped
<1>5. Held(w) = Stack(w) \cup FramesOf(w.pd) /\ Stack(w) \cap FramesOf(w.pd) = {}
  BY <1>2, <1>4, NoDirIs DEF Held, Parted
<1>6. k1 \in Free01 /\ FreeFrames(k1) = FreeFrames(kmem) \cup FramesOf(w.pd)
  <2>1. FreeFrames(kmem) \cap FramesOf(w.pd) = {}
    BY <1>2, <1>5
  <2> QED
    BY <1>2, <2>1, FreevmIs
<1> HIDE DEF k1, k2
<1>7. k2 \in Free01 /\ FreeFrames(k2) = FreeFrames(kmem) \cup Held(w)
  <2>1. Stack(w) \cap FreeFrames(k1) = {} /\ Stack(w) \in SUBSET Frame
    BY <1>2, <1>5, <1>6
  <2> QED
    BY <1>3, <1>5, <1>6, <2>1, GivesBack
<1>8. Sound(k2, [proc EXCEPT ![q] = Unborn])
  <2>1. /\ FreeFrames(k2) \cup Held(Unborn) = FreeFrames(kmem) \cup Held(proc[q])
        /\ FreeFrames(k2) \cap Held(Unborn) = {} /\ proc[q].state # "embryo"
    BY <1>1, <1>7, UnbornIs DEF w
  <2> QED
    BY <1>7, <2>1, UnbornIs, OneStep
<1> QED
  BY <1>1, <1>8

-----------------------------------------------------------------------------
(* exec().                                                                    *)

LEMMA SegsAre ==
  ASSUME NEW d \in Execs, d.seg \in 1..(Len(d.file.segs) + 1)
  PROVE  /\ Len(d.file.segs) \in Nat
         /\ Loading(d) => /\ d.seg \in 1..Len(d.file.segs) /\ d.file.segs[d.seg].vaddr \in Nat
                          /\ d.file.segs[d.seg].memsz \in Nat /\ d.file.segs[d.seg].filesz \in Nat
                          /\ d.file.segs[d.seg].filesz <= d.file.segs[d.seg].memsz
<1> DEFINE s == d.file.segs
<1>1. s \in Seq([vaddr : Nat, memsz : Nat, filesz : Nat])
  BY DoIs, MemoryAssumption
<1>2. Len(s) \in Nat /\ DOMAIN s = 1..Len(s)
  <2>1. \A T : \A t \in Seq(T) : Len(t) \in Nat /\ DOMAIN t = 1..Len(t)
    OBVIOUS
  <2> HIDE DEF s
  <2> QED
    BY ZenonT(60), <1>1, <2>1
<1>3. ASSUME Loading(d) PROVE d.seg \in DOMAIN s
  BY <1>2, <1>3 DEF Loading
<1>4. ASSUME NEW n \in DOMAIN s PROVE s[n] \in [vaddr : Nat, memsz : Nat, filesz : Nat] /\ s[n].filesz <= s[n].memsz
  <2>1. s[n] \in [vaddr : Nat, memsz : Nat, filesz : Nat]
    <3>1. \A T : \A t \in Seq(T) : \A i \in DOMAIN t : t[i] \in T
      OBVIOUS
    <3> HIDE DEF s
    <3> QED
      BY ZenonT(60), <1>1, <3>1
  <2>2. s[n].filesz <= s[n].memsz
    BY DoIs, FilesAssumption
  <2> QED
    BY <2>1, <2>2
<1> HIDE DEF s
<1>5. /\ Len(s) \in Nat
      /\ Loading(d) => /\ d.seg \in 1..Len(s) /\ s[d.seg].vaddr \in Nat
                       /\ s[d.seg].memsz \in Nat /\ s[d.seg].filesz \in Nat
                       /\ s[d.seg].filesz <= s[d.seg].memsz
  BY <1>2, <1>3, <1>4
<1> QED
  BY <1>5 DEF s

LEMMA Remainder == \A n \in Nat : n % WORD \in Nat /\ (n < WORD => n % WORD = n)
<1>1. WORD \in Nat \ {0}
  BY MemoryAssumption
<1>2. \A n \in Nat, w \in Nat \ {0} : n % w \in Nat /\ (n < w => n % w = n)
  OBVIOUS
<1> QED
  BY <1>1, <1>2

(* The size that exec() is allocating for.                                    *)
LEMMA WantedIs ==
  ASSUME NEW d \in Execs, d.seg \in 1..(Len(d.file.segs) + 1)
  PROVE  /\ Wanted(d) \in Nat /\ d.sz <= Wanted(d) /\ RoundUp(d.sz) <= RoundUp(Wanted(d))
         /\ RoundUp(d.sz) \in Nat /\ RoundUp(Wanted(d)) \in Nat
         /\ ~Loading(d) => RoundUp(Wanted(d)) = RoundUp(d.sz) + 2 /\ PageOf(Wanted(d)) = RoundUp(d.sz) + 2
<1>0. d.sz \in Nat
  BY DoIs
<1>1. RoundUp(d.sz) \in Nat /\ d.sz <= RoundUp(d.sz) * PGSIZE
  BY ZenonT(90), <1>0, Rounds
<1>2. CASE Loading(d)
  <2>1. SegEnd(d) \in Nat
    <3>1. d.sz + SegTop(d) \in Nat
      <4> DEFINE v == d.file.segs[d.seg].vaddr
                 m == d.file.segs[d.seg].memsz
      <4>1. v \in Nat /\ m \in Nat
        BY <1>2, SegsAre
      <4>2. SegTop(d) = v + m
        BY DEF SegTop, Segment
      <4> HIDE DEF v, m
      <4> QED
        BY <1>0, <4>1, <4>2
    <3> QED
      BY <3>1, Remainder DEF SegEnd
  <2>2. NewSize(d) = SegEnd(d)
    BY <1>2 DEF NewSize
  <2>3. Wanted(d) \in Nat /\ d.sz <= Wanted(d)
    BY <1>0, <2>1, <2>2 DEF Wanted
  <2> QED
    BY ZenonT(90), <1>0, <1>1, <1>2, <2>3, Rounds, RoundsUpTo
<1>3. CASE ~Loading(d)
  <2> DEFINE r == RoundUp(d.sz)
             n == r + 2
  <2>1. NewSize(d) = n * PGSIZE
    BY <1>3 DEF NewSize
  <2>2. n \in Nat /\ r \in Nat /\ r <= n
    BY <1>1
  <2> DEFINE lo == r * PGSIZE
             hi == n * PGSIZE
  <2>3. lo <= hi /\ lo \in Int
    <3>1. r * PGSIZE <= n * PGSIZE
      <4> HIDE DEF r, n
      <4> QED
        BY <2>2, Multiples, PageSize
    <3> QED
      BY <2>2, <3>1, PageSize
  <2>4. hi \in Nat /\ RoundUp(hi) = n /\ PageOf(hi) = n
    <3> HIDE DEF r, n
    <3> QED
      BY ZenonT(90), <2>2, WholePages
  <2>5. d.sz <= lo
    BY <1>1
  <2> HIDE DEF lo, hi
  <2>6. d.sz <= hi /\ hi = Wanted(d)
    <3>1. hi = NewSize(d)
      BY <2>1 DEF hi
    <3>2. d.sz <= hi
      BY <1>0, <2>3, <2>4, <2>5
    <3> QED
      BY <1>0, <2>4, <3>1, <3>2 DEF Wanted
  <2> QED
    BY SMTT(60), <1>0, <1>1, <1>3, <2>4, <2>6
<1> QED
  BY <1>2, <1>3

LEMMA ExecBegins ==
  ASSUME Sound(kmem, proc), NEW p \in MProc, NEW file \in Files, NEW args \in Nat, Exec(p, file, args)
  PROVE  Sound(kmem', proc')
<1> DEFINE x == proc[p]
<1>1. /\ x \in Process /\ Shaped(x) /\ Parted(x) /\ GoodTable(x.pd) /\ kmem \in Free01
      /\ FreeFrames(kmem) \cap Held(x) = {}
  BY SoundIs
<1>2. /\ x.state = "user" /\ x.entry \in DOMAIN x.pd.pages
  BY ZenonT(90) DEF Exec, Calls, Runs
<1> HIDE DEF x
<1>3. Tidy(x) /\ x.do = Nothing /\ NewPd(x) = NoDir
  BY <1>1, <1>2, RunsWhole
<1>4. CASE ~CanSetup(kmem)
  <2>1. Fails(p) /\ kmem' = kmem
    BY <1>4 DEF Exec
  <2> QED
    BY <1>2, <1>3, <2>1, JustFails DEF x
<1>5. CASE CanSetup(kmem)
  <2> DEFINE k2 == Setup(kmem).k
             pd == Setup(kmem).pd
             d == [op |-> "exec", file |-> file, args |-> args, seg |-> 1, sz |-> PGSIZE,
                   a |-> 1, pd |-> pd]
             y == [x EXCEPT !.state = "call", !.do = d]
  <2>1. kmem' = k2 /\ proc' = [proc EXCEPT ![p].state = "call", ![p].do = d]
    BY <1>5 DEF Exec, Begins
  <2>2. Conserves(kmem, NoDir, k2, pd) /\ DOMAIN pd.pages = {}
    BY <1>1, <1>5, SetupIs
  <2> HIDE DEF k2, pd
  <2>3. k2 \in Free01 /\ GoodTable(pd)
    BY <2>2 DEF Conserves
  <2>4. /\ d \in Execs /\ d.op = "exec" /\ d.file = file /\ d.seg = 1 /\ d.sz = PGSIZE
        /\ d.a = 1 /\ d.pd = pd
    BY <2>3, PageSize DEF Execs, GoodTable
  <2> HIDE DEF d
  <2>5. proc' = [proc EXCEPT ![p] = y]
    BY ZenonT(90), <2>1 DEF x, Sound
  <2>6. /\ y \in Process
        /\ y.state = "call" /\ y.do = d /\ y.kstack = x.kstack
        /\ y.pd = x.pd /\ y.sz = x.sz /\ y.entry = x.entry /\ y.guard = x.guard
    BY ZenonT(90), <1>1, <2>4 DEF Process
  <2> HIDE DEF y
  <2>7. NewPd(y) = pd /\ ~Copier(y)
    BY <2>4, <2>6 DEF NewPd, Copier
  <2>8. /\ FreeFrames(k2) \cup Held(y) = FreeFrames(kmem) \cup Held(x)
        /\ FreeFrames(k2) \cap Held(y) = {} /\ Parted(y)
    BY <1>1, <1>3, <2>2, <2>6, <2>7, NewMoves
  <2>9. Executing(y)
    <3>1. Tidy(y)
      BY <1>3, <2>6, TidyIs
    <3>2. Len(d.file.segs) \in Nat
      <4>1. d.file.segs \in Seq([vaddr : Nat, memsz : Nat, filesz : Nat])
        BY <2>4, MemoryAssumption
      <4> QED
        BY <4>1
    <3>3. d.seg \in 1..(Len(d.file.segs) + 1)
      BY <2>4, <3>2
    <3>4. RoundUp(d.sz) = 1
      <4>1. RoundUp(1 * PGSIZE) = 1
        BY WholePages
      <4>2. 1 * PGSIZE = PGSIZE
        BY PageSize
      <4> QED
        BY <2>4, <4>1, <4>2
    <3>5. d.a \in RoundUp(d.sz)..RoundUp(Wanted(d))
      BY <2>4, <3>3, <3>4, WantedIs
    <3>6. UpTo(d.pd, d.a)
      <4>1. d.a - 1 = 0
        BY <2>4
      <4>2. 1..0 = {}
        OBVIOUS
      <4> QED
        BY <2>2, <2>4, <4>1, <4>2 DEF UpTo
    <3>7. d.sz >= PGSIZE
      BY <2>4, PageSize
    <3> QED
      BY <2>3, <2>4, <2>6, <3>1, <3>3, <3>5, <3>6, <3>7 DEF Executing, GoodTable
  <2>10. Shaped(y)
    BY <1>1, <2>6, <2>8, <2>9 DEF Shaped, GoodTable
  <2>11. Sound(k2, [proc EXCEPT ![p] = y])
    <3>1. /\ FreeFrames(k2) \cup Held(y) = FreeFrames(kmem) \cup Held(proc[p])
          /\ proc[p].state # "embryo"
      BY <1>2, <2>8 DEF x
    <3> QED
      BY <2>3, <2>6, <2>7, <2>8, <2>10, <3>1, OneStep
  <2> QED
    BY ZenonT(90), <2>1, <2>5, <2>11
<1> QED
  BY <1>4, <1>5

LEMMA ExecutingIs ==
  ASSUME Sound(kmem, proc), NEW p \in MProc, In(p, "exec"), NEW x, x = proc[p]
  PROVE  /\ x \in Process /\ Shaped(x) /\ Parted(x) /\ GoodTable(x.pd) /\ kmem \in Free01
         /\ FreeFrames(kmem) \cap Held(x) = {}
         /\ x.state = "call" /\ x.do.op = "exec" /\ Executing(x) /\ Tidy(x)
         /\ x.do \in Execs /\ x.do.seg \in 1..(Len(x.do.file.segs) + 1)
         /\ x.do.a \in Nat /\ x.do.sz \in Nat /\ x.do.sz >= PGSIZE
         /\ x.do.a \in RoundUp(x.do.sz)..RoundUp(Wanted(x.do))
         /\ NewPd(x) = x.do.pd /\ GoodTable(x.do.pd) /\ DOMAIN x.do.pd.pages = 1..(x.do.a - 1)
         /\ FreeFrames(kmem) \cap FramesOf(x.do.pd) = {}
<1>1. /\ x \in Process /\ Shaped(x) /\ Parted(x) /\ GoodTable(x.pd) /\ kmem \in Free01
      /\ FreeFrames(kmem) \cap Held(x) = {} /\ GoodTable(NewPd(x))
      /\ x.state = "call" /\ x.do.op = "exec"
  BY ZenonT(90), SoundIs DEF In
<1>2. Executing(x)
  BY <1>1, OpIs
<1>3. NewPd(x) = x.do.pd
  BY <1>1 DEF NewPd
<1>4. FreeFrames(kmem) \cap FramesOf(x.do.pd) = {}
  BY <1>1, <1>3 DEF Held
<1>5. /\ Tidy(x) /\ x.do \in Execs /\ x.do.seg \in 1..(Len(x.do.file.segs) + 1)
      /\ x.do.sz >= PGSIZE /\ x.do.a \in RoundUp(x.do.sz)..RoundUp(Wanted(x.do))
      /\ DOMAIN x.do.pd.pages = 1..(x.do.a - 1)
  BY <1>2 DEF Executing, UpTo
<1>6. x.do.a \in Nat /\ x.do.sz \in Nat
  BY <1>5, DoIs
<1> QED
  BY <1>1, <1>2, <1>3, <1>4, <1>5, <1>6

(* exec() fails: what it was filling is given back.                           *)
LEMMA ExecBack ==
  ASSUME Sound(kmem, proc), NEW p \in MProc, In(p, "exec"), NEW k, NEW pd,
         Conserves(kmem, proc[p].do.pd, k, pd), ExecFails(p, k, pd)
  PROVE  Sound(kmem', proc')
<1> DEFINE x == proc[p]
<1>1. x.state = "call" /\ Tidy(x) /\ NewPd(x) = x.do.pd
  BY ExecutingIs
<1>2. k \in Free01 /\ GoodTable(pd) /\ FreeFrames(k) \cap FramesOf(pd) = {}
  BY DEF Conserves
<1>3. Conserves(k, pd, Freevm(k, pd), NoDir)
  BY <1>2, FreevmIs
<1>4. Conserves(kmem, NewPd(x), Freevm(k, pd), NoDir)
  BY <1>1, <1>3, ConservesOn
<1>5. -1 \in MProc \cup {0, -1} /\ x.state # "embryo"
  BY <1>1
<1>6. Sound(Freevm(k, pd), [proc EXCEPT ![p] = Back(proc[p], -1)])
  BY SMTT(60), <1>1, <1>4, <1>5, Returns
<1> QED
  BY <1>6 DEF ExecFails, Fails

LEMMA ExecsPage ==
  ASSUME Sound(kmem, proc), NEW p \in MProc, ExecPage(p)
  PROVE  Sound(kmem', proc') /\ panic' = panic
<1> DEFINE x == proc[p]
           d == x.do
           s == Alloced(kmem, d.pd, d.a, Wanted(d), d.sz)
<1>1. In(p, "exec") /\ d.a * PGSIZE < Wanted(d)
  BY SMTT(60) DEF ExecPage
<1>2. IF d.a \in DOMAIN d.pd.pages THEN Panics("remap")
      ELSE /\ IF Allocs(kmem, d.pd, d.a)
              THEN kmem' = s.k /\ proc' = [proc EXCEPT ![p].do.pd = s.pd, ![p].do.a = @ + 1]
              ELSE ExecFails(p, s.k, s.pd)
           /\ panic' = panic
  BY DEF ExecPage, Alloced, Allocs
<1>3. /\ x \in Process /\ Shaped(x) /\ Parted(x) /\ GoodTable(x.pd) /\ kmem \in Free01
      /\ FreeFrames(kmem) \cap Held(x) = {}
      /\ x.state = "call" /\ d.op = "exec" /\ Executing(x) /\ Tidy(x)
      /\ d \in Execs /\ d.seg \in 1..(Len(d.file.segs) + 1)
      /\ d.a \in Nat /\ d.sz \in Nat /\ d.sz >= PGSIZE
      /\ d.a \in RoundUp(d.sz)..RoundUp(Wanted(d))
      /\ NewPd(x) = d.pd /\ GoodTable(d.pd) /\ DOMAIN d.pd.pages = 1..(d.a - 1)
      /\ FreeFrames(kmem) \cap FramesOf(d.pd) = {}
  BY ZenonT(60), <1>1, ExecutingIs
<1>4. d.a \notin DOMAIN d.pd.pages
  BY <1>3
<1>5. /\ Conserves(kmem, d.pd, s.k, s.pd)
      /\ Allocs(kmem, d.pd, d.a) => DOMAIN s.pd.pages = DOMAIN d.pd.pages \cup {d.a}
      /\ \A j \in DOMAIN d.pd.pages \cap DOMAIN s.pd.pages : s.pd.pages[j] = d.pd.pages[j]
  <2> DEFINE pd == d.pd
             a == d.a
             z == Wanted(d)
             y == d.sz
  <2>1. /\ kmem \in Free01 /\ GoodTable(pd) /\ FreeFrames(kmem) \cap FramesOf(pd) = {}
        /\ a \in Nat /\ a \notin DOMAIN pd.pages
    BY <1>3, <1>4
  <2> HIDE DEF pd, a, z, y
  <2>2. /\ Conserves(kmem, pd, Alloced(kmem, pd, a, z, y).k, Alloced(kmem, pd, a, z, y).pd)
        /\ Allocs(kmem, pd, a) => DOMAIN Alloced(kmem, pd, a, z, y).pd.pages = DOMAIN pd.pages \cup {a}
        /\ \A j \in DOMAIN pd.pages \cap DOMAIN Alloced(kmem, pd, a, z, y).pd.pages :
             Alloced(kmem, pd, a, z, y).pd.pages[j] = pd.pages[j]
    BY <2>1, AllocIs
  <2> QED
    BY ZenonT(60), <2>2 DEF pd, a, z, y
<1>7. CASE ~Allocs(kmem, d.pd, d.a)
  <2>1. ExecFails(p, s.k, s.pd) /\ panic' = panic
    BY <1>2, <1>4, <1>7
  <2> QED
    BY ZenonT(60), <1>1, <1>5, <2>1, ExecBack
<1>8. CASE Allocs(kmem, d.pd, d.a)
  <2> DEFINE e == [d EXCEPT !.pd = s.pd, !.a = d.a + 1]
             y == [x EXCEPT !.do = e]
  <2> HIDE DEF s
  <2>1. kmem' = s.k /\ panic' = panic /\ proc' = [proc EXCEPT ![p].do.pd = s.pd, ![p].do.a = d.a + 1]
    BY <1>2, <1>4, <1>8 DEF Sound
  <2>2. proc' = [proc EXCEPT ![p] = y]
    BY ZenonT(90), <2>1 DEF Sound
  <2>3. s.k \in Free01 /\ GoodTable(s.pd)
    BY <1>5 DEF Conserves
  <2>4. /\ e \in Execs /\ e.op = "exec" /\ e.file = d.file /\ e.seg = d.seg /\ e.sz = d.sz
        /\ e.a = d.a + 1 /\ e.pd = s.pd
    <3>1. s.pd \in PageTable /\ d.a + 1 \in Nat
      BY <1>3, <2>3 DEF GoodTable
    <3>2. d \in Execs /\ d.op = "exec"
      BY <1>3
    <3> HIDE DEF d
    <3> QED
      BY ZenonT(90), <3>1, <3>2 DEF Execs
  <2> HIDE DEF e, x
  <2>5. /\ y \in Process
        /\ y.state = "call" /\ y.do = e /\ y.kstack = x.kstack
        /\ y.pd = x.pd /\ y.sz = x.sz /\ y.entry = x.entry /\ y.guard = x.guard
    BY ZenonT(90), <1>3, <2>4 DEF Process
  <2> HIDE DEF y
  <2>6. NewPd(y) = s.pd /\ ~Copier(y)
    BY <2>4, <2>5 DEF NewPd, Copier
  <2>7. /\ FreeFrames(s.k) \cup Held(y) = FreeFrames(kmem) \cup Held(x)
        /\ FreeFrames(s.k) \cap Held(y) = {} /\ Parted(y)
    BY <1>3, <1>5, <2>5, <2>6, NewMoves
  <2>8. Executing(y)
    <3>1. Tidy(y)
      BY <1>3, <2>5, TidyIs
    <3>2. Wanted(e) = Wanted(d)
      BY <2>4 DEF Wanted, NewSize, Loading, SegEnd, SegTop, Segment
    <3>3. d.a < RoundUp(Wanted(d)) /\ RoundUp(Wanted(d)) \in Nat /\ RoundUp(d.sz) \in Nat /\ RoundUp(d.sz) >= 1
      <4>1. Wanted(d) \in Nat /\ RoundUp(Wanted(d)) \in Nat /\ RoundUp(d.sz) \in Nat
        BY ZenonT(90), <1>3, WantedIs
      <4>2. d.a < RoundUp(Wanted(d)) <=> d.a * PGSIZE < Wanted(d)
        BY <1>3, <4>1, PagesBelow
      <4>3. d.sz > 0
        BY <1>3, PageSize
      <4>4. RoundUp(d.sz) >= 1
        BY <1>3, <4>3, RoundsPositive
      <4> QED
        BY <1>1, <4>1, <4>2, <4>4 DEF x
    <3>4. e.a \in RoundUp(e.sz)..RoundUp(Wanted(e))
      BY SMTT(60), <1>3, <2>4, <3>2, <3>3
    <3>5. UpTo(e.pd, e.a)
      <4>1. \A n \in Nat : n >= 1 => 1..(n - 1) \cup {n} = 1..n
        OBVIOUS
      <4>2. d.a >= 1
        BY <1>3, <3>3
      <4>3. DOMAIN s.pd.pages = 1..d.a
        BY ZenonT(90), <1>3, <1>5, <1>8, <4>1, <4>2
      <4>4. e.a - 1 = d.a
        BY <1>3, <2>4
      <4> QED
        BY <2>4, <4>3, <4>4 DEF UpTo
    <3> QED
      BY ZenonT(90), <1>3, <2>3, <2>4, <2>5, <3>1, <3>4, <3>5 DEF Executing, GoodTable
  <2>9. Shaped(y)
    BY <1>3, <2>5, <2>7, <2>8 DEF Shaped, GoodTable
  <2>10. Sound(s.k, [proc EXCEPT ![p] = y])
    <3>1. /\ FreeFrames(s.k) \cup Held(y) = FreeFrames(kmem) \cup Held(proc[p])
          /\ proc[p].state # "embryo"
      BY <1>3, <2>7 DEF x
    <3> QED
      BY <2>3, <2>5, <2>6, <2>7, <2>9, <3>1, OneStep
  <2> QED
    BY ZenonT(90), <2>1, <2>2, <2>10
<1> QED
  BY <1>7, <1>8

LEMMA ExecsTooLarge ==
  ASSUME Sound(kmem, proc), NEW p \in MProc, ExecTooLarge(p)
  PROVE  Sound(kmem', proc') /\ panic' = panic
<1>1. In(p, "exec") /\ ExecFails(p, kmem, proc[p].do.pd) /\ panic' = panic
  BY DEF ExecTooLarge
<1>2. Conserves(kmem, proc[p].do.pd, kmem, proc[p].do.pd)
  BY <1>1, ExecutingIs, SameConserves
<1> QED
  BY <1>1, <1>2, ExecBack


(* loaduvm() finds the tables: the pages of a segment are below what was      *)
(* allocated for it, if the sum did not wrap.                                 *)
LEMMA SegmentTabled ==
  ASSUME NEW d \in Execs, d.seg \in 1..(Len(d.file.segs) + 1), Loading(d), ~Wrapped(d), GoodTable(d.pd),
         d.a = RoundUp(Wanted(d)), DOMAIN d.pd.pages = 1..(d.a - 1), d.sz >= PGSIZE,
         NEW i \in PageOf(d.file.segs[d.seg].vaddr)..
                   (RoundUp(d.file.segs[d.seg].vaddr + d.file.segs[d.seg].filesz) - 1)
  PROVE  HasTable(d.pd, i)
<1> DEFINE v == d.file.segs[d.seg].vaddr
           m == d.file.segs[d.seg].memsz
           z == d.file.segs[d.seg].filesz
<1>1. v \in Nat /\ m \in Nat /\ z \in Nat /\ z <= m /\ d.sz \in Nat
  BY SMTT(60), SegsAre, DoIs
<1>2. Wanted(d) = d.sz + v + m
  <2>1. v + m = SegTop(d)
    BY DEF SegTop, Segment
  <2> HIDE DEF v, m
  <2>2. SegTop(d) \in Nat /\ WORD \in Nat
    <3>1. WORD \in Nat
      BY MemoryAssumption
    <3> QED
      BY <1>1, <2>1, <3>1
  <2>3. d.sz + SegTop(d) < WORD
    BY <1>1, <2>2 DEF Wrapped
  <2>4. SegEnd(d) = d.sz + SegTop(d)
    BY <1>1, <2>2, <2>3, Remainder DEF SegEnd
  <2>5. NewSize(d) = d.sz + SegTop(d)
    BY <2>4 DEF NewSize
  <2>6. NewSize(d) >= d.sz
    BY <1>1, <2>2, <2>5
  <2>7. Wanted(d) = d.sz + SegTop(d)
    BY <1>1, <2>2, <2>5, <2>6 DEF Wanted
  <2> QED
    BY <1>1, <2>1, <2>7
<1>3. i \in PageOf(v)..(RoundUp(v + z) - 1)
  OBVIOUS
<1> HIDE DEF v, m, z
<1>4. i \in Nat /\ i < RoundUp(v + z) /\ RoundUp(v + z) \in Nat
  <2>1. v + z \in Nat
    BY <1>1
  <2>2. RoundUp(v + z) \in Nat
    BY <2>1, Rounds
  <2>3. PageOf(v) \in Nat
    <3>1. \A a \in Nat, b \in Nat \ {0} : a \div b \in Nat
      OBVIOUS
    <3> QED
      BY <1>1, <3>1, PageSize DEF PageOf
  <2> QED
    BY <1>3, <2>2, <2>3
<1>5. i + 1 < d.a
  <2> DEFINE lo == i * PGSIZE
             hi == (i + 1) * PGSIZE
             j == i + 1
  <2>1. lo < v + z
    <3>1. i < RoundUp(v + z) <=> i * PGSIZE < v + z
      BY <1>1, <1>4, PagesBelow
    <3> QED
      BY <1>4, <3>1
  <2>2. hi = lo + PGSIZE /\ lo \in Int
    BY <1>4, PageSize
  <2> HIDE DEF lo, hi
  <2>3. hi < Wanted(d) /\ Wanted(d) \in Nat
    BY SMTT(60), <1>1, <1>2, <2>1, <2>2, PageSize
  <2>4. j \in Int
    BY <1>4
  <2> HIDE DEF j
  <2>5. j < RoundUp(Wanted(d)) <=> j * PGSIZE < Wanted(d)
    BY <2>3, <2>4, PagesBelow
  <2>6. j * PGSIZE = hi
    BY DEF j, hi
  <2>7. j < d.a
    BY <2>3, <2>5, <2>6
  <2> QED
    BY <2>7 DEF j
<1>6. d.a \in Nat
  BY DoIs
<1>7. \A h \in 1..(d.a - 1) : h \div TABPAGES \in DOMAIN d.pd.tabs
  BY DEF GoodTable, Tabled, HasTable
<1>8. CASE i >= 1
  <2>1. i \in 1..(d.a - 1)
    BY <1>4, <1>5, <1>6, <1>8
  <2> QED
    BY <1>7, <2>1 DEF HasTable
<1>9. CASE i = 0
  <2>1. 1 \in 1..(d.a - 1)
    BY <1>5, <1>6, <1>9
  <2>2. 1 \div TABPAGES = 0 /\ 0 \div TABPAGES = 0
    <3>1. \A t \in Nat : t > 1 => 1 \div t = 0 /\ 0 \div t = 0
      OBVIOUS
    <3> QED
      BY ZenonT(90), <3>1, MemoryAssumption
  <2>3. 1 \div TABPAGES \in DOMAIN d.pd.tabs
    BY <1>7, <2>1
  <2> QED
    BY <1>9, <2>2, <2>3 DEF HasTable
<1> QED
  BY SMTT(60), <1>4, <1>8, <1>9

(* The end of allocuvm(): the next page is the first above the size wanted.   *)
LEMMA AllAllocated ==
  ASSUME NEW d \in Execs, d.seg \in 1..(Len(d.file.segs) + 1), d.a * PGSIZE >= Wanted(d),
         d.a \in RoundUp(d.sz)..RoundUp(Wanted(d))
  PROVE  d.a = RoundUp(Wanted(d))
<1>1. d.a \in Nat /\ Wanted(d) \in Nat /\ RoundUp(Wanted(d)) \in Nat
  BY DoIs, WantedIs
<1>2. d.a < RoundUp(Wanted(d)) <=> d.a * PGSIZE < Wanted(d)
  BY <1>1, PagesBelow
<1> DEFINE n == d.a * PGSIZE
<1>3. n \in Int /\ n >= Wanted(d)
  BY <1>1, PageSize
<1> HIDE DEF n
<1>4. ~(d.a < RoundUp(Wanted(d)))
  BY <1>1, <1>2, <1>3 DEF n
<1>5. d.a <= RoundUp(Wanted(d))
  BY <1>1, WantedIs
<1> QED
  BY <1>1, <1>4, <1>5

LEMMA ExecLoads ==
  ASSUME Sound(kmem, proc), NEW p \in MProc, ExecLoad(p)
  PROVE  /\ Sound(kmem', proc')
         /\ \/ panic' = panic
            \/ /\ panic' = "loaduvm" /\ proc' = proc
               /\ proc[p].do.op = "exec" /\ Wrapped(proc[p].do)
<1> DEFINE x == proc[p]
           d == x.do
           seg == d.file.segs[d.seg]
           missing == \E i \in PageOf(seg.vaddr)..(RoundUp(seg.vaddr + seg.filesz) - 1) : ~HasTable(d.pd, i)
<1>1. In(p, "exec") /\ Loading(d) /\ d.a * PGSIZE >= Wanted(d)
  BY ZenonT(60) DEF ExecLoad
<1>2. IF seg.vaddr % PGSIZE # 0 THEN ExecFails(p, kmem, d.pd) /\ panic' = panic
      ELSE IF missing THEN Panics("loaduvm")
      ELSE /\ proc' = [proc EXCEPT ![p].do.sz = Wanted(d), ![p].do.seg = @ + 1,
                                   ![p].do.a = FirstPage(Wanted(d))]
           /\ kmem' = kmem /\ panic' = panic
  BY ZenonT(60) DEF ExecLoad, Segment
<1>3. /\ x \in Process /\ Shaped(x) /\ Parted(x) /\ GoodTable(x.pd) /\ kmem \in Free01
      /\ FreeFrames(kmem) \cap Held(x) = {}
      /\ x.state = "call" /\ d.op = "exec" /\ Executing(x) /\ Tidy(x)
      /\ d \in Execs /\ d.seg \in 1..(Len(d.file.segs) + 1)
      /\ d.a \in Nat /\ d.sz \in Nat /\ d.sz >= PGSIZE
      /\ d.a \in RoundUp(d.sz)..RoundUp(Wanted(d))
      /\ NewPd(x) = d.pd /\ GoodTable(d.pd) /\ DOMAIN d.pd.pages = 1..(d.a - 1)
      /\ FreeFrames(kmem) \cap FramesOf(d.pd) = {}
  BY ZenonT(60), <1>1, ExecutingIs
<1>4. d.a = RoundUp(Wanted(d))
  <2> HIDE DEF d
  <2> QED
    BY SMTT(60), <1>1, <1>3, AllAllocated
<1>5. missing => Wrapped(d)
  BY ZenonT(90), <1>1, <1>3, <1>4, SegmentTabled
<1> HIDE DEF missing
<1>8. CASE seg.vaddr % PGSIZE = 0 /\ missing
  <2>1. panic' = "loaduvm" /\ kmem' = kmem /\ proc' = proc
    BY <1>2, <1>8 DEF Panics
  <2>2. d.op = "exec" /\ Wrapped(d)
    BY <1>3, <1>5, <1>8
  <2> QED
    BY <2>1, <2>2
<1>6. CASE seg.vaddr % PGSIZE # 0
  <2>1. ExecFails(p, kmem, d.pd) /\ panic' = panic
    BY <1>2, <1>6
  <2>2. Conserves(kmem, d.pd, kmem, d.pd)
    BY <1>3, SameConserves
  <2> QED
    BY <1>1, <2>1, <2>2, ExecBack
<1>7. CASE seg.vaddr % PGSIZE = 0 /\ ~missing
  <2> DEFINE n == Wanted(d)
             e == [d EXCEPT !.sz = n, !.seg = d.seg + 1, !.a = RoundUp(n)]
             y == [x EXCEPT !.do = e]
  <2>1. kmem' = kmem /\ panic' = panic
        /\ proc' = [proc EXCEPT ![p].do.sz = n, ![p].do.seg = d.seg + 1, ![p].do.a = RoundUp(n)]
    <3>1. proc' = [proc EXCEPT ![p].do.sz = n, ![p].do.seg = @ + 1, ![p].do.a = FirstPage(n)]
      BY <1>2, <1>7
    <3> HIDE DEF n, seg
    <3> QED
      BY SMTT(60), <1>2, <1>7, <3>1 DEF FirstPage, Sound
  <2>2. n \in Nat /\ RoundUp(n) \in Nat /\ d.sz <= n
    BY <1>3, WantedIs
  <2> HIDE DEF n
  <2>3. proc' = [proc EXCEPT ![p] = y]
    BY ZenonT(90), <2>1 DEF Sound
  <2>4. /\ e \in Execs /\ e.op = "exec" /\ e.file = d.file /\ e.seg = d.seg + 1 /\ e.sz = n
        /\ e.a = RoundUp(n) /\ e.pd = d.pd
    <3>1. d \in Execs /\ d.op = "exec" /\ d.seg + 1 \in Nat
      BY SMTT(60), <1>3, DoIs
    <3> HIDE DEF d
    <3> QED
      BY ZenonT(90), <2>2, <3>1 DEF Execs
  <2>5. d.seg \in 1..Len(d.file.segs) /\ Len(d.file.segs) \in Nat
    BY SMTT(60), <1>1, <1>3, SegsAre
  <2> HIDE DEF e, x
  <2>6. /\ y \in Process
        /\ y.state = "call" /\ y.do = e /\ y.kstack = x.kstack
        /\ y.pd = x.pd /\ y.sz = x.sz /\ y.entry = x.entry /\ y.guard = x.guard
    BY ZenonT(90), <1>3, <2>4 DEF Process
  <2> HIDE DEF y
  <2>7. NewPd(y) = d.pd /\ ~Copier(y)
    BY <2>4, <2>6 DEF NewPd, Copier
  <2>8. Held(y) = Held(x) /\ Parted(y)
    BY <1>3, <2>6, <2>7, SameHeld
  <2>9. Executing(y)
    <3>1. Tidy(y)
      BY <1>3, <2>6, TidyIs
    <3>2. e.seg \in 1..(Len(e.file.segs) + 1)
      BY <2>4, <2>5
    <3>3. e.a \in RoundUp(e.sz)..RoundUp(Wanted(e))
      BY SMTT(60), <2>2, <2>4, <3>2, WantedIs
    <3>4. UpTo(e.pd, e.a) /\ Apart(e.pd) /\ Tabled(e.pd)
      BY <1>3, <1>4, <2>4 DEF UpTo, n, GoodTable
    <3>5. e.sz >= PGSIZE
      BY <1>3, <2>2, <2>4, PageSize
    <3> QED
      BY <2>4, <2>6, <3>1, <3>2, <3>3, <3>4, <3>5 DEF Executing
  <2>10. Shaped(y)
    BY <1>3, <2>6, <2>8, <2>9 DEF Shaped, GoodTable
  <2>11. Sound(kmem, [proc EXCEPT ![p] = y])
    <3>1. /\ FreeFrames(kmem) \cup Held(y) = FreeFrames(kmem) \cup Held(proc[p])
          /\ FreeFrames(kmem) \cap Held(y) = {} /\ proc[p].state # "embryo"
      BY <1>3, <2>8 DEF x
    <3> QED
      BY SMTT(60), <1>3, <2>6, <2>7, <2>10, <3>1, OneStep
  <2> QED
    BY ZenonT(90), <2>1, <2>3, <2>11
<1> HIDE DEF x, d, seg, missing
<1> QED
  BY <1>6, <1>7, <1>8

LEMMA ExecCommits ==
  ASSUME Sound(kmem, proc), NEW p \in MProc, ExecCommit(p)
  PROVE  Sound(kmem', proc')
<1> DEFINE x == proc[p]
           d == x.do
           n == Wanted(d)
           g == PageOf(n) - 2
           pd == Clearpteu(d.pd, g)
           k2 == Freevm(kmem, x.pd)
<1>1. In(p, "exec") /\ ~Loading(d) /\ d.a * PGSIZE >= n
  BY DEF ExecCommit
<1>2. IF FitsStack(d.args)
      THEN /\ proc' = [proc EXCEPT ![p] =
                [Back(x, 0) EXCEPT !.pd = pd, !.sz = n, !.entry = d.file.entry, !.guard = g]]
           /\ kmem' = k2
      ELSE ExecFails(p, kmem, d.pd)
  BY DEF ExecCommit
<1>3. /\ x \in Process /\ Shaped(x) /\ Parted(x) /\ GoodTable(x.pd) /\ kmem \in Free01
      /\ FreeFrames(kmem) \cap Held(x) = {}
      /\ x.state = "call" /\ d.op = "exec" /\ Executing(x) /\ Tidy(x)
      /\ d \in Execs /\ d.seg \in 1..(Len(d.file.segs) + 1)
      /\ d.a \in Nat /\ d.sz \in Nat /\ d.sz >= PGSIZE
      /\ d.a \in RoundUp(d.sz)..RoundUp(Wanted(d))
      /\ NewPd(x) = d.pd /\ GoodTable(d.pd) /\ DOMAIN d.pd.pages = 1..(d.a - 1)
      /\ FreeFrames(kmem) \cap FramesOf(d.pd) = {}
  BY ZenonT(90), <1>1, ExecutingIs
<1>4. CASE ~FitsStack(d.args)
  <2>1. ExecFails(p, kmem, d.pd)
    BY <1>2, <1>4
  <2>2. Conserves(kmem, d.pd, kmem, d.pd)
    BY <1>3, SameConserves
  <2> QED
    BY <1>1, <2>1, <2>2, ExecBack
<1>5. CASE FitsStack(d.args)
  <2>1. d.a = RoundUp(n)
    BY ZenonT(90), <1>1, <1>3, AllAllocated
  <2>2. /\ n \in Nat /\ n >= PGSIZE /\ RoundUp(n) = RoundUp(d.sz) + 2 /\ g = RoundUp(d.sz)
        /\ RoundUp(d.sz) \in Nat /\ RoundUp(d.sz) >= 1
    <3>1. n \in Nat /\ d.sz <= n /\ RoundUp(n) = RoundUp(d.sz) + 2 /\ PageOf(n) = RoundUp(d.sz) + 2
          /\ RoundUp(d.sz) \in Nat
      BY ZenonT(90), <1>1, <1>3, WantedIs
    <3>2. d.sz > 0
      BY <1>3, PageSize
    <3>3. RoundUp(d.sz) >= 1
      BY <1>3, <3>2, RoundsPositive
    <3> HIDE DEF n
    <3> QED
      BY SMTT(60), <1>3, <3>1, <3>3, PageSize
  <2>3. g \in 1..(RoundUp(n) - 1) /\ g \in DOMAIN d.pd.pages
    <3> HIDE DEF n, g
    <3> QED
      BY <1>3, <2>1, <2>2
  <2>4. d.file.entry \in Nat
    BY ZenonT(90), <1>3, DoIs, MemoryAssumption
  <2> HIDE DEF n, g
  <2>5. /\ GoodTable(pd) /\ FramesOf(pd) = FramesOf(d.pd)
        /\ DOMAIN pd.pages = DOMAIN d.pd.pages /\ ~pd.pages[g].user
    BY ZenonT(90), <1>3, <2>3, RightCleared
  <2>6. k2 \in Free01 /\ FreeFrames(k2) = FreeFrames(kmem) \cup FramesOf(x.pd)
    <3>1. FreeFrames(kmem) \cap FramesOf(x.pd) = {}
      BY <1>3 DEF Held
    <3> QED
      BY <1>3, <3>1, FreevmIs
  <2> DEFINE z == Back(x, 0)
             en == d.file.entry
             y == [z EXCEPT !.pd = pd, !.sz = n, !.entry = en, !.guard = g]
  <2> HIDE DEF pd, k2
  <2>7. z \in Process /\ z.state = "user" /\ z.do = Nothing /\ z.kstack = x.kstack
    <3>1. 0 \in MProc \cup {0, -1}
      OBVIOUS
    <3> QED
      BY <1>3, <3>1, BackIs
  <2>8. kmem' = k2 /\ proc' = [proc EXCEPT ![p] = y]
    BY <1>2, <1>5
  <2> HIDE DEF z, en
  <2>9. /\ y \in Process
        /\ y.state = "user" /\ y.do = Nothing /\ y.kstack = x.kstack
        /\ y.pd = pd /\ y.sz = n /\ y.entry = en /\ y.guard = g
    <3>1. g \in Nat /\ en \in Nat /\ pd \in PageTable /\ n \in Nat
      BY <2>2, <2>4, <2>5 DEF en, GoodTable
    <3> HIDE DEF x
    <3> QED
      BY ZenonT(90), <2>7, <3>1 DEF Process
  <2> HIDE DEF y, x
  <2>10. NewPd(y) = NoDir /\ ~Copier(y)
    BY <2>9, DoIs DEF NewPd, Copier
  <2>11. /\ FreeFrames(k2) \cup Held(y) = FreeFrames(kmem) \cup Held(x)
         /\ FreeFrames(k2) \cap Held(y) = {} /\ Parted(y)
    <3>1. Stack(y) = Stack(x)
      BY <2>9 DEF Stack
    <3>2. FramesOf(NewPd(y)) = {} /\ FramesOf(y.pd) = FramesOf(NewPd(x))
      BY <1>3, <2>5, <2>9, <2>10, NoDirIs
    <3> QED
      BY <1>3, <2>6, <3>1, <3>2 DEF Held, Parted
  <2>12. Tidy(y)
    <3>1. n > 0
      BY <2>2, PageSize
    <3>2. UpTo(y.pd, RoundUp(y.sz))
      BY <1>3, <2>1, <2>5, <2>9 DEF UpTo
    <3>3. Guarded(y)
      BY <2>3, <2>5, <2>9 DEF Guarded
    <3> QED
      BY <2>9, <3>1, <3>2, <3>3 DEF Tidy, Whole
  <2>13. GoodTable(y.pd)
    BY <2>5, <2>9
  <2>14. Shaped(y)
    BY <2>9, <2>11, <2>12, <2>13, Idle
  <2>15. Sound(k2, [proc EXCEPT ![p] = y])
    <3>1. /\ FreeFrames(k2) \cup Held(y) = FreeFrames(kmem) \cup Held(proc[p])
          /\ proc[p].state # "embryo"
      BY <1>3, <2>11 DEF x
    <3> QED
      BY <2>6, <2>9, <2>10, <2>11, <2>14, <3>1, OneStep
  <2> QED
    BY <2>8, <2>15
<1> QED
  BY <1>4, <1>5

-----------------------------------------------------------------------------
(* The invariant.                                                             *)

LEMMA MemStepSound ==
  ASSUME MemInv, NEW p \in MProc, MemStep(p)
  PROVE  MemInv'
<1>1. Sound(kmem, proc)
  BY ZenonT(90) DEF MemInv
<1>2. panic = ""
  BY ZenonT(60) DEF MemStep, In, GrowPage, GrowDone, CopyPage, CopyDone, ExecPage, ExecTooLarge,
                    ExecLoad, ExecCommit
<1>3. ASSUME Sound(kmem', proc'), panic' = panic PROVE MemInv'
  BY <1>2, <1>3, Calm DEF MemInv
<1>4. CASE GrowPage(p)
  BY ZenonT(90), <1>1, <1>3, <1>4, GrowsPage
<1>5. CASE GrowDone(p)
  BY ZenonT(90), <1>1, <1>3, <1>5, Growed DEF GrowDone
<1>6. CASE CopyPage(p)
  BY <1>1, <1>3, <1>6, CopiesPage
<1>7. CASE CopyDone(p)
  BY ZenonT(90), <1>1, <1>3, <1>7, CopyEnds DEF CopyDone
<1>8. CASE ExecPage(p)
  BY <1>1, <1>3, <1>8, ExecsPage
<1>9. CASE ExecLoad(p)
  <2>1. CASE panic' = panic
    BY <1>1, <1>3, <1>9, <2>1, ExecLoads
  <2>2. CASE panic' # panic
    <3>1. /\ Sound(kmem', proc') /\ panic' = "loaduvm" /\ proc' = proc
          /\ proc[p].do.op = "exec" /\ Wrapped(proc[p].do)
      BY ZenonT(60), <1>1, <1>9, <2>2, ExecLoads
    <3>2. LoadsSound'
      BY ZenonT(60), <3>1 DEF LoadsSound, Wrapped, Loading, SegTop, Segment
    <3> QED
      BY <3>1, <3>2 DEF MemInv, PanicFits
  <2> QED
    BY <2>1, <2>2
<1>10. CASE ExecCommit(p)
  BY ZenonT(90), <1>1, <1>3, <1>10, ExecCommits DEF ExecCommit
<1>11. CASE ExecTooLarge(p)
  BY <1>1, <1>3, <1>11, ExecsTooLarge
<1> QED
  BY <1>4, <1>5, <1>6, <1>7, <1>8, <1>9, <1>10, <1>11 DEF MemStep

LEMMA MemCallSound ==
  ASSUME MemInv, NEW p \in MProc, MemCall(p)
  PROVE  MemInv'
<1>1. Sound(kmem, proc)
  BY ZenonT(60) DEF MemInv
<1>0. panic = ""
  BY ZenonT(60) DEF MemCall, Calls, Runs, Fork, SbrkGrow, SbrkShrink, Exec, Fetch
<1>8. ASSUME Sound(kmem', proc'), panic' \in {panic, "trap"} PROVE MemInv'
  BY <1>0, <1>8, Calm DEF MemInv
<1>2. proc[p].sz \in Nat /\ PGSIZE \in Nat /\ MaxSbrk \in Nat /\ MaxArgs \in Nat
  BY ZenonT(90), <1>1, SoundIs, MemoryAssumption DEF Process
<1>3. CASE Fork(p)
  BY ZenonT(90), <1>1, <1>3, <1>8, Forks DEF Fork
<1>4. ASSUME NEW n \in {1, MaxSbrk}, SbrkGrow(p, n) PROVE MemInv'
  <2>2. n \in Nat
    BY <1>2
  <2> QED
    BY ZenonT(90), <1>1, <1>4, <1>8, <2>2, GrowBegins DEF SbrkGrow
<1>5. ASSUME NEW n \in {PGSIZE, proc[p].sz, proc[p].sz + 1}, SbrkShrink(p, n) PROVE MemInv'
  <2>1. \A z \in Nat, g \in Nat : \A i \in {g, z, z + 1} : i \in Nat
    OBVIOUS
  <2>2. n \in Nat
    BY ZenonT(60), <1>2, <2>1
  <2>3. panic' = panic
    BY ZenonT(60), <1>5 DEF SbrkShrink
  <2>4. Sound(kmem', proc')
    BY ZenonT(90), <1>1, <1>5, <2>2, Shrinks
  <2> QED
    BY ZenonT(90), <1>8, <2>3, <2>4
<1>6. ASSUME NEW f \in Files, NEW a \in {1, MaxArgs}, Exec(p, f, a) PROVE MemInv'
  <2>1. a \in Nat
    BY <1>2
  <2> QED
    BY ZenonT(90), <1>1, <1>6, <1>8, <2>1, ExecBegins DEF Exec
<1>7. ASSUME NEW a, Fetch(p, a) PROVE MemInv'
  BY ZenonT(90), <1>1, <1>7, <1>8 DEF Fetch
<1> QED
  BY <1>3, <1>4, <1>5, <1>6, <1>7 DEF MemCall

LEMMA MemNextSound ==
  ASSUME MemInv, [MemNext]_memVars
  PROVE  MemInv'
<1>1. CASE UNCHANGED memVars
  BY ZenonT(90), <1>1 DEF memVars, MemInv, PanicFits, LoadsSound
<1>2. ASSUME NEW p \in MProc, MemStep(p) PROVE MemInv'
  BY <1>2, MemStepSound
<1>3. ASSUME NEW p \in MProc, Exits(p) PROVE MemInv'
  <2>1. panic' \in {"", "trap"} /\ Sound(kmem', proc')
    BY ZenonT(90), <1>3, ExitsSound DEF MemInv, Exits
  <2> QED
    BY <2>1, Calm DEF MemInv
<1>4. ASSUME NEW p \in MProc, MemCall(p) PROVE MemInv'
  BY <1>4, MemCallSound
<1>5. ASSUME NEW p \in MProc, NEW q \in MProc, Reap(p, q) PROVE MemInv'
  <2>1. panic' \in {"", "trap"} /\ Sound(kmem', proc')
    BY ZenonT(90), <1>5, Reaps DEF MemInv, Reap, Runs
  <2> QED
    BY <2>1, Calm DEF MemInv
<1> QED
  BY ZenonT(90), <1>1, <1>2, <1>3, <1>4, <1>5 DEF MemNext

-----------------------------------------------------------------------------
(* The first process.                                                         *)

(* The pages above n are free.                                                *)
LEMMA LowestGiven ==
  ASSUME NEW k \in Free01, NEW n \in Nat, n < NFRAME, FreeFrames(k) = (n + 1)..NFRAME
  PROVE  /\ Kalloc(k) \in Free01 /\ Given(k) = n + 1 /\ FreeFrames(k) # {}
         /\ FreeFrames(Kalloc(k)) = (n + 2)..NFRAME
<1>1. n + 1 \in FreeFrames(k) /\ NFRAME \in Nat
  BY SMTT(60), MemoryAssumption
<1>2. /\ Kalloc(k) \in Free01
      /\ Given(k) \in FreeFrames(k)
      /\ FreeFrames(Kalloc(k)) = FreeFrames(k) \ {Given(k)}
  BY ZenonT(90), <1>1, Allocates
<1>3. \A f \in FreeFrames(k) : Given(k) <= f
  BY ZenonT(90), <1>1, GivenIs
<1>4. Given(k) = n + 1
  <2> DEFINE g == Given(k)
  <2>1. g \in (n + 1)..NFRAME /\ g <= n + 1
    BY <1>1, <1>2, <1>3
  <2> HIDE DEF g
  <2> QED
    BY <1>1, <2>1 DEF g
<1>5. (n + 1)..NFRAME \ {n + 1} = (n + 2)..NFRAME
  BY <1>1
<1> QED
  BY <1>1, <1>2, <1>4, <1>5

LEMMA FirstSetup ==
  ASSUME NEW k, k = [f \in Frame |-> 1]
  PROVE  /\ k \in Free01 /\ CanSetup(k) /\ FreeFrames(k) = Frame
         /\ FreeFrames(Setup(k).k) = (KTABS + 2)..NFRAME
<1>1. k \in Free01 /\ FreeFrames(k) = Frame
  BY DEF Free01, FreeFrames
<1>2. NFRAME \in Nat /\ KTABS \in Nat /\ NFRAME >= KTABS + 4
  BY MemoryAssumption
<1>3. CanSetup(k)
  <2>1. Cardinality(Frame) = NFRAME
    BY <1>2, FS_Interval DEF Frame
  <2> QED
    BY <1>1, <1>2, <2>1 DEF CanSetup
<1> DEFINE free == FreeFrames(k)
           fs   == {f \in free : Cardinality({g \in free : g < f}) <= KTABS}
           k2   == [f \in Frame |-> IF f \in fs THEN k[f] - 1 ELSE k[f]]
<1>4. Setup(k).k = k2
  BY DEF Setup
<1>5. ASSUME NEW f \in Frame PROVE f \in fs <=> f <= KTABS + 1
  <2>1. f \in Nat /\ f >= 1 /\ f <= NFRAME
    BY <1>2 DEF Frame
  <2>2. {g \in free : g < f} = 1..(f - 1)
    BY <1>1, <1>2, <2>1 DEF Frame
  <2>3. Cardinality(1..(f - 1)) = f - 1
    <3> DEFINE m == f - 1
    <3>1. m \in Nat
      BY <2>1
    <3> HIDE DEF m
    <3>2. Cardinality(1..m) = IF 1 > m THEN 0 ELSE m - 1 + 1
      BY <3>1, FS_Interval
    <3>3. Cardinality(1..m) = m
      BY <3>1, <3>2
    <3> QED
      BY <3>3 DEF m
  <2>4. f \in free
    BY <1>1
  <2> HIDE DEF free
  <2>5. f \in fs <=> f - 1 <= KTABS
    BY ZenonT(90), <2>2, <2>3, <2>4
  <2> QED
    BY <1>2, <2>1, <2>5
<1> HIDE DEF fs
<1>6. \A f \in Frame : k2[f] = IF f <= KTABS + 1 THEN 0 ELSE 1
  BY <1>5
<1> HIDE DEF k2
<1>7. FreeFrames(k2) = (KTABS + 2)..NFRAME
  <2>1. ASSUME NEW f \in Frame PROVE k2[f] > 0 <=> f >= KTABS + 2
    <3>1. f \in Nat
      BY <1>2 DEF Frame
    <3> QED
      BY <1>2, <1>6, <3>1
  <2>2. FreeFrames(k2) = {f \in Frame : f >= KTABS + 2}
    BY <2>1 DEF FreeFrames
  <2> QED
    BY <1>2, <2>2 DEF Frame
<1> QED
  BY <1>1, <1>3, <1>4, <1>7

LEMMA MemInitSound == MemInit => MemInv
<1> SUFFICES ASSUME MemInit PROVE MemInv
  OBVIOUS
<1> DEFINE k0 == [f \in Frame |-> 1]
           s0 == Setup(k0)
           k1 == s0.k
           k2 == Kalloc(k1)
           s1 == Mapped(k1, s0.pd, 0, TRUE)
           k3 == s1.k
           k4 == Kalloc(k3)
           y  == [Unborn EXCEPT !.state = "user", !.kstack = Given(k3), !.pd = s1.pd, !.sz = PGSIZE]
<1>1. /\ kmem = k4
      /\ proc = [p \in MProc |-> IF p = FirstProc THEN y ELSE Unborn]
      /\ panic = ""
  BY ZenonT(90) DEF MemInit, Mapped
<1>2. /\ k0 \in Free01 /\ CanSetup(k0) /\ FreeFrames(k0) = Frame
      /\ FreeFrames(k1) = (KTABS + 2)..NFRAME
  BY FirstSetup
<1>3. Conserves(k0, NoDir, k1, s0.pd) /\ DOMAIN s0.pd.pages = {} /\ DOMAIN s0.pd.tabs = {}
  BY <1>2, SetupIs
<1> DEFINE pd0 == s0.pd
<1>4. /\ k1 \in Free01 /\ GoodTable(pd0) /\ FreeFrames(k1) \cap FramesOf(pd0) = {}
      /\ FreeFrames(k1) \cup FramesOf(pd0) = Frame
  BY <1>2, <1>3, NoDirIs DEF Conserves
<1> HIDE DEF pd0, s0, k1
<1>5. NFRAME \in Nat /\ KTABS \in Nat /\ NFRAME >= KTABS + 4
  BY MemoryAssumption
<1>6. k2 \in Free01 /\ FreeFrames(k1) # {} /\ FreeFrames(k2) = (KTABS + 3)..NFRAME
  <2> DEFINE n == KTABS + 1
  <2>1. n \in Nat /\ n < NFRAME /\ n + 1 = KTABS + 2 /\ n + 2 = KTABS + 3
    BY <1>5
  <2> HIDE DEF n
  <2>2. FreeFrames(k1) = (n + 1)..NFRAME
    BY <1>2, <2>1
  <2>3. k2 \in Free01 /\ FreeFrames(k1) # {} /\ FreeFrames(k2) = (n + 2)..NFRAME
    BY ZenonT(90), <1>4, <2>1, <2>2, LowestGiven
  <2> QED
    BY <2>1, <2>3
<1>7. ~HasTable(pd0, 0) /\ FreeFrames(k2) # {}
  <2>1. KTABS + 3 \in FreeFrames(k2)
    BY <1>5, <1>6
  <2> QED
    BY <1>3, <2>1 DEF HasTable, pd0
<1>8. CanTake(k1, pd0, 0)
  BY <1>7 DEF CanTake, CanMap
<1>9. /\ Conserves(k1, pd0, k3, s1.pd)
      /\ DOMAIN s1.pd.pages = DOMAIN pd0.pages \cup {0}
  <2>1. PICK u \in BOOLEAN : u = TRUE
    BY ZenonT(90)
  <2> DEFINE m == Mapped(k1, pd0, 0, u)
  <2>2. 0 \in Nat /\ 0 \notin DOMAIN pd0.pages
    BY <1>3 DEF pd0
  <2>3. Conserves(k1, pd0, m.k, m.pd) /\ DOMAIN m.pd.pages = DOMAIN pd0.pages \cup {0}
    BY <1>4, <1>6, <1>8, <2>2, MapIs
  <2>4. s1 = m
    BY <2>1 DEF pd0
  <2> QED
    BY ZenonT(90), <2>3, <2>4
<1>10. FreeFrames(k3) = (KTABS + 4)..NFRAME
  <2>1. k3 = Kalloc(k2)
    BY <1>7 DEF Mapped, MapPage, pd0
  <2> DEFINE n == KTABS + 2
  <2>2. n \in Nat /\ n < NFRAME /\ n + 1 = KTABS + 3 /\ n + 2 = KTABS + 4
    BY <1>5
  <2> HIDE DEF n, k2
  <2>3. FreeFrames(k2) = (n + 1)..NFRAME
    BY <1>6, <2>2
  <2>4. FreeFrames(Kalloc(k2)) = (n + 2)..NFRAME
    BY <1>6, <2>2, <2>3, LowestGiven
  <2> QED
    BY ZenonT(90), <2>1, <2>2, <2>4
<1> DEFINE pd1 == s1.pd
           f == Given(k3)
<1>11. /\ k3 \in Free01 /\ GoodTable(pd1) /\ FreeFrames(k3) \cap FramesOf(pd1) = {}
       /\ FreeFrames(k3) \cup FramesOf(pd1) = Frame /\ DOMAIN pd1.pages = {0}
  BY ZenonT(90), <1>3, <1>4, <1>9 DEF Conserves, pd0
<1> HIDE DEF pd1, s1, k3
<1>12. k4 \in Free01 /\ f \in FreeFrames(k3) /\ FreeFrames(k4) = FreeFrames(k3) \ {f} /\ f \in Frame
  <2>1. KTABS + 4 \in FreeFrames(k3)
    BY <1>5, <1>10
  <2>2. k4 \in Free01 /\ f \in FreeFrames(k3) /\ FreeFrames(k4) = FreeFrames(k3) \ {f}
    BY <1>11, <2>1, Allocates
  <2> QED
    BY <2>2 DEF FreeFrames
<1> HIDE DEF f, k4
<1>13. /\ y \in Process /\ y.state = "user" /\ y.do = Nothing /\ y.kstack = f /\ y.pd = pd1
       /\ y.sz = PGSIZE /\ y.entry = 0 /\ y.guard = 0
  <2>1. y = [Unborn EXCEPT !.state = "user", !.kstack = f, !.pd = pd1, !.sz = PGSIZE]
    BY DEF f, pd1
  <2>2. Unborn \in Process /\ Unborn.do = Nothing /\ Unborn.entry = 0 /\ Unborn.guard = 0
    BY UnbornIs DEF Unborn
  <2> HIDE DEF y
  <2> QED
    BY ZenonT(90), <1>11, <1>12, <2>1, <2>2, PageSize DEF Process, GoodTable
<1> HIDE DEF y
<1>14. NewPd(y) = NoDir /\ ~Copier(y)
  BY <1>13, DoIs DEF NewPd, Copier
<1>15. Held(y) = {f} \cup FramesOf(pd1) /\ Parted(y)
  <2>1. Stack(y) = {f}
    BY <1>12, <1>13 DEF Stack, Frame
  <2>2. FramesOf(NewPd(y)) = {} /\ f \notin FramesOf(pd1)
    BY <1>11, <1>12, <1>14, NoDirIs
  <2> QED
    BY <1>13, <2>1, <2>2 DEF Held, Parted
<1>16. Shaped(y)
  <2>1. Tidy(y)
    BY <1>11, <1>13, PageSize DEF Tidy, Boot
  <2> QED
    BY <1>11, <1>13, <1>15, <2>1, Idle
<1>17. FreeFrames(kmem) \cup Held(y) = Frame /\ FreeFrames(kmem) \cap Held(y) = {}
  BY ZenonT(90), <1>1, <1>11, <1>12, <1>15
<1>18. FirstProc \in MProc
  BY MemoryAssumption
<1>19. proc \in [MProc -> Process] /\ \A p \in MProc : Shaped(proc[p]) /\ ~Copier(proc[p])
  BY ZenonT(90), <1>1, <1>13, <1>14, <1>16, UnbornIs
<1>20. Divided(FreeFrames(kmem), [p \in MProc |-> Held(proc[p])])
  <2> DEFINE H == [p \in MProc |-> Held(proc[p])]
  <2>1. H[FirstProc] = Held(y) /\ \A p \in MProc : p # FirstProc => H[p] = {}
    BY ZenonT(90), <1>1, <1>18, UnbornIs
  <2>2. DOMAIN H = MProc
    OBVIOUS
  <2> HIDE DEF H
  <2>3. FreeFrames(kmem) \subseteq Frame
    BY DEF FreeFrames
  <2>4. \A p \in MProc : H[p] \subseteq Frame \ FreeFrames(kmem)
    BY <1>17, <2>1
  <2>5. \A p, q \in MProc : p # q => H[p] \cap H[q] = {}
    BY <2>1
  <2>6. \A g \in Frame \ FreeFrames(kmem) : \E p \in MProc : g \in H[p]
    BY <1>17, <1>18, <2>1
  <2>7. Divided(FreeFrames(kmem), H)
    BY <2>4, <2>5, <2>6 DEF Divided
  <2> QED
    BY <2>7 DEF H
<1>21. Embryos(proc)
  BY <1>19 DEF Embryos
<1> QED
  BY ZenonT(90), <1>1, <1>12, <1>19, <1>20, <1>21 DEF MemInv, Sound, PanicFits, LoadsSound

(* At every step of every call of kalloc.c, vm.c, exec.c and proc.c that takes *)
(* pages: every page is free or one process has it, the page tables of a      *)
(* process, of its exec() and of the child it copies into are apart, and each *)
(* has the pages that the call has reached.                                   *)
THEOREM MemoryAlways == MemSpec => []MemInv
<1>1. MemInv /\ [MemNext]_memVars => MemInv'
  BY MemNextSound
<1> QED
  BY <1>1, MemInitSound, PTL DEF MemSpec

-----------------------------------------------------------------------------
(* What the invariant says of pages.                                          *)

(* A table with as many pages as entries.                                     *)
LEMMA Images ==
  ASSUME NEW g, NEW S, IsFiniteSet(S), NEW R, R = {g[i] : i \in DOMAIN g}, R \subseteq S,
         \A i, j \in DOMAIN g : g[i] = g[j] => i = j
  PROVE  IsFiniteSet(R) /\ Cardinality(R) = Cardinality(DOMAIN g) /\ IsFiniteSet(DOMAIN g)
<1> DEFINE h == [i \in DOMAIN g |-> g[i]]
<1>1. h \in Injection(DOMAIN g, S)
  <2>1. h \in [DOMAIN g -> S]
    OBVIOUS
  <2>2. IsInjective(h)
    BY DEF IsInjective
  <2> QED
    BY <2>1, <2>2 DEF Injection
<1>2. IsFiniteSet(DOMAIN g)
  BY <1>1, FS_Injection
<1>3. h \in Bijection(DOMAIN g, R)
  <2>1. h \in [DOMAIN g -> R]
    OBVIOUS
  <2>2. IsInjective(h)
    BY DEF IsInjective
  <2>3. \A t \in R : \E s \in DOMAIN g : h[s] = t
    OBVIOUS
  <2> QED
    BY <2>1, <2>2, <2>3 DEF Bijection, Injection, Surjection
<1>4. ExistsBijection(DOMAIN g, R)
  BY <1>3 DEF ExistsBijection
<1> QED
  BY <1>2, <1>4, FS_Bijection

LEMMA FramesFinite ==
  ASSUME NEW S \in SUBSET Frame
  PROVE  IsFiniteSet(S) /\ Cardinality(S) \in Nat
<1>1. IsFiniteSet(Frame)
  BY FS_Interval, MemoryAssumption DEF Frame
<1> QED
  BY <1>1, FS_Subset, FS_CardinalityType

LEMMA DisjointCount ==
  ASSUME NEW S \in SUBSET Frame, NEW T \in SUBSET Frame, S \cap T = {}
  PROVE  Cardinality(S \cup T) = Cardinality(S) + Cardinality(T)
<1>1. IsFiniteSet(S) /\ IsFiniteSet(T) /\ Cardinality(S) \in Nat /\ Cardinality(T) \in Nat
  BY FramesFinite
<1>2. Cardinality(S \cup T) = Cardinality(S) + Cardinality(T) - Cardinality(S \cap T)
  BY <1>1, FS_Union
<1>3. Cardinality(S \cap T) = 0
  BY FS_EmptySet
<1> QED
  BY <1>1, <1>2, <1>3

LEMMA EntriesCounted ==
  ASSUME NEW pd, GoodTable(pd)
  PROVE  Cardinality(FramesOf(pd)) = Entries(pd) /\ Entries(pd) \in Nat
<1> DEFINE A == {pd.dir} \ {0}
           B == pd.ktabs
           C == Range(pd.tabs)
           D == PageFrames(pd)
<1>1. /\ A \subseteq Frame /\ B \subseteq Frame /\ C \subseteq Frame /\ D \subseteq Frame
      /\ FramesOf(pd) = A \cup B \cup C \cup D
  BY TableIs
<1>2. /\ A \cap (B \cup C \cup D) = {} /\ B \cap (C \cup D) = {} /\ C \cap D = {}
  BY DEF GoodTable, Apart
<1>3. Cardinality(A) = IF pd.dir = 0 THEN 0 ELSE 1
  <2>1. CASE pd.dir = 0
    <3>1. A = {}
      BY <2>1
    <3> QED
      BY <2>1, <3>1, FS_EmptySet
  <2>2. CASE pd.dir # 0
    <3>1. A = {pd.dir}
      BY <2>2
    <3> QED
      BY <2>2, <3>1, FS_Singleton
  <2> QED
    BY <2>1, <2>2
<1>4. Cardinality(C) = Cardinality(DOMAIN pd.tabs)
  <2>1. C = {pd.tabs[i] : i \in DOMAIN pd.tabs}
    BY DEF Range
  <2>2. \A i, j \in DOMAIN pd.tabs : pd.tabs[i] = pd.tabs[j] => i = j
    BY DEF GoodTable, Apart
  <2>3. IsFiniteSet(Frame)
    BY FramesFinite
  <2> HIDE DEF C
  <2> QED
    BY <1>1, <2>1, <2>2, <2>3, Images
<1>5. Cardinality(D) = Cardinality(DOMAIN pd.pages)
  <2> DEFINE g == [i \in DOMAIN pd.pages |-> pd.pages[i].frame]
  <2>1. D = {g[i] : i \in DOMAIN g} /\ DOMAIN g = DOMAIN pd.pages
    BY ZenonT(90) DEF PageFrames
  <2>2. \A i, j \in DOMAIN g : g[i] = g[j] => i = j
    BY DEF GoodTable, Apart
  <2>3. IsFiniteSet(Frame)
    BY FramesFinite
  <2> HIDE DEF D, g
  <2> QED
    BY <1>1, <2>1, <2>2, <2>3, Images
<1> HIDE DEF A, B, C, D
<1>6. Cardinality(A) \in Nat /\ Cardinality(B) \in Nat /\ Cardinality(C) \in Nat /\ Cardinality(D) \in Nat
  BY <1>1, FramesFinite
<1>7. Cardinality(C \cup D) = Cardinality(C) + Cardinality(D)
  BY <1>1, <1>2, DisjointCount
<1>8. Cardinality(B \cup (C \cup D)) = Cardinality(B) + Cardinality(C \cup D)
  <2>1. C \cup D \in SUBSET Frame
    BY <1>1
  <2> QED
    BY <1>1, <1>2, <2>1, DisjointCount
<1>9. Cardinality(A \cup (B \cup (C \cup D))) = Cardinality(A) + Cardinality(B \cup (C \cup D))
  <2> DEFINE E == B \cup (C \cup D)
  <2>1. E \in SUBSET Frame /\ A \cap E = {}
    BY <1>1, <1>2
  <2> HIDE DEF E
  <2>2. Cardinality(A \cup E) = Cardinality(A) + Cardinality(E)
    BY <1>1, <2>1, DisjointCount
  <2> QED
    BY <2>2 DEF E
<1>10. FramesOf(pd) = A \cup (B \cup (C \cup D))
  BY <1>1
<1>11. Cardinality(FramesOf(pd)) = Cardinality(A) + (Cardinality(B) + (Cardinality(C) + Cardinality(D)))
  BY <1>7, <1>8, <1>9, <1>10
<1>12. Entries(pd) = Cardinality(A) + Cardinality(B) + Cardinality(C) + Cardinality(D)
  BY <1>3, <1>4, <1>5 DEF Entries, B
<1> DEFINE a == Cardinality(A)
           b == Cardinality(B)
           c == Cardinality(C)
           e == Cardinality(D)
<1>13. a \in Nat /\ b \in Nat /\ c \in Nat /\ e \in Nat
       /\ Cardinality(FramesOf(pd)) = a + (b + (c + e)) /\ Entries(pd) = a + b + c + e
  BY <1>6, <1>11, <1>12
<1> HIDE DEF a, b, c, e
<1> QED
  BY <1>13

LEMMA Accounted == MemInv => FramesAccounted
<1> SUFFICES ASSUME MemInv PROVE FramesAccounted
  OBVIOUS
<1>1. Sound(kmem, proc)
  BY ZenonT(90) DEF MemInv
<1> DEFINE held == [p \in MProc |-> HeldBy(p)]
           H == [p \in MProc |-> Held(proc[p])]
<1>2. \A p \in MProc : HeldBy(p) = Held(proc[p]) /\ InProgress(p) = NewPd(proc[p])
  BY DEF HeldBy, Held, Stack, InProgress, NewPd
<1>3. held = H
  BY <1>2
<1>4. ASSUME NEW f \in Frame PROVE kmem[f] + Cardinality({p \in MProc : f \in held[p]}) = 1
  <2> DEFINE P == {p \in MProc : f \in H[p]}
  <2>1. Divided(FreeFrames(kmem), H) /\ kmem \in Free01
    BY <1>1 DEF Sound
  <2> HIDE DEF H, held
  <2>2. kmem[f] \in {0, 1} /\ (f \in FreeFrames(kmem) <=> kmem[f] = 1)
    BY <2>1, FreeIs
  <2>3. CASE f \in FreeFrames(kmem)
    <3>1. P = {}
      BY <2>1, <2>3 DEF Divided
    <3>2. Cardinality(P) = 0
      BY <3>1, FS_EmptySet
    <3> HIDE DEF P
    <3>3. kmem[f] + Cardinality(P) = 1
      BY <2>2, <2>3, <3>2
    <3> QED
      BY <1>3, <3>3 DEF P
  <2>4. CASE f \notin FreeFrames(kmem)
    <3>1. PICK p \in MProc : f \in H[p]
      BY <2>1, <2>4 DEF Divided
    <3>2. P = {p}
      BY <2>1, <3>1 DEF Divided
    <3>3. Cardinality(P) = 1
      BY ZenonT(90), <3>2, FS_Singleton
    <3> HIDE DEF P
    <3>4. kmem[f] + Cardinality(P) = 1
      BY <2>2, <2>4, <3>3
    <3> QED
      BY <1>3, <3>4 DEF P
  <2> QED
    BY <2>3, <2>4
<1>5. ASSUME NEW p \in MProc
      PROVE  Cardinality(held[p]) = Entries(proc[p].pd) + Entries(InProgress(p))
                                    + IF proc[p].kstack = 0 THEN 0 ELSE 1
  <2> DEFINE x == proc[p]
             A == Stack(x)
             B == FramesOf(x.pd)
             C == FramesOf(NewPd(x))
  <2>1. GoodTable(x.pd) /\ GoodTable(NewPd(x)) /\ Parted(x) /\ A \subseteq Frame
    BY <1>1, SoundIs
  <2>2. held[p] = A \cup B \cup C /\ InProgress(p) = NewPd(x)
    BY <1>2 DEF Held
  <2>3. B \subseteq Frame /\ C \subseteq Frame
    BY <2>1, TableIs
  <2>4. A \cap B = {} /\ (A \cup B) \cap C = {}
    BY <2>1 DEF Parted
  <2>5. Cardinality(A) = IF x.kstack = 0 THEN 0 ELSE 1
    <3>1. CASE x.kstack = 0
      <4>1. A = {}
        BY <3>1 DEF Stack
      <4> QED
        BY <3>1, <4>1, FS_EmptySet
    <3>2. CASE x.kstack # 0
      <4>1. A = {x.kstack}
        BY <3>2 DEF Stack
      <4> QED
        BY ZenonT(90), <3>2, <4>1, FS_Singleton
    <3> QED
      BY <3>1, <3>2
  <2>6. /\ Cardinality(B) = Entries(x.pd) /\ Entries(x.pd) \in Nat
        /\ Cardinality(C) = Entries(NewPd(x)) /\ Entries(NewPd(x)) \in Nat
    BY <2>1, EntriesCounted
  <2> HIDE DEF A, B, C, x, held
  <2>7. Cardinality(A \cup B) = Cardinality(A) + Cardinality(B)
    BY <2>1, <2>3, <2>4, DisjointCount
  <2>8. Cardinality(A \cup B \cup C) = Cardinality(A \cup B) + Cardinality(C)
    <3> DEFINE S == A \cup B
    <3>1. S \in SUBSET Frame /\ S \cap C = {}
      BY <2>1, <2>3, <2>4
    <3> HIDE DEF S
    <3>2. Cardinality(S \cup C) = Cardinality(S) + Cardinality(C)
      BY <2>3, <3>1, DisjointCount
    <3> QED
      BY <3>2 DEF S
  <2> DEFINE n == IF x.kstack = 0 THEN 0 ELSE 1
             a == Entries(x.pd)
             b == Entries(InProgress(p))
  <2>9. Cardinality(held[p]) = n + a + b /\ n \in Nat /\ a \in Nat /\ b \in Nat
    BY <2>2, <2>5, <2>6, <2>7, <2>8
  <2> HIDE DEF n, a, b
  <2>10. Cardinality(held[p]) = a + b + n
    BY <2>9
  <2> QED
    BY <2>10 DEF n, a, b, x
<1> HIDE DEF held
<1>6. /\ \A f \in Frame : kmem[f] + Cardinality({p \in MProc : f \in held[p]}) = 1
      /\ \A p \in MProc :
           Cardinality(held[p]) = Entries(proc[p].pd) + Entries(InProgress(p))
                                  + IF proc[p].kstack = 0 THEN 0 ELSE 1
  BY <1>4, <1>5
<1> QED
  BY <1>6 DEF FramesAccounted, held

LEMMA RunsMapped == MemInv => PagesBelowSize /\ GuardStays /\ NeverRemaps
<1> SUFFICES ASSUME MemInv PROVE PagesBelowSize /\ GuardStays /\ NeverRemaps
  OBVIOUS
<1>1. Sound(kmem, proc) /\ NeverRemaps
  BY ZenonT(90) DEF MemInv, NeverRemaps, PanicFits
<1>2. ASSUME NEW p \in MProc, Runs(p)
      PROVE  /\ DOMAIN proc[p].pd.pages = IF InitCode(p) THEN {0} ELSE 1..(RoundUp(proc[p].sz) - 1)
             /\ proc[p].guard # 0 => ~proc[p].pd.pages[proc[p].guard].user
  <2>1. Shaped(proc[p]) /\ proc[p].state = "user" /\ proc[p].entry \in DOMAIN proc[p].pd.pages
    BY ZenonT(90), <1>1, <1>2, SoundIs DEF Runs
  <2>2. CASE InitCode(p)
    <3>1. Tidy(proc[p]) /\ proc[p].entry = 0
      BY <2>1, <2>2, RunsWhole DEF InitCode
    <3>2. ~Whole(proc[p]) /\ ~Bare(proc[p])
      <4>1. RoundUp(proc[p].sz) \in Nat
        BY <1>1, SoundIs, Rounds DEF Process
      <4> QED
        BY <2>1, <3>1, <4>1 DEF Whole, UpTo, Bare
    <3>3. Boot(proc[p])
      BY <3>1, <3>2 DEF Tidy
    <3> QED
      BY <2>2, <3>3 DEF Boot
  <2>3. CASE ~InitCode(p)
    <3>1. Whole(proc[p])
      BY <2>1, <2>3, RunsWhole DEF InitCode
    <3> QED
      BY <2>3, <3>1 DEF Whole, UpTo, Guarded
  <2> QED
    BY <2>2, <2>3
<1> QED
  BY <1>1, <1>2 DEF PagesBelowSize, GuardStays

(* No page is lost, freed twice or shared, whatever fails half way: kalloc(), *)
(* kfree(), the functions of vm.c, growproc(), fork(), exec() and wait().  A  *)
(* process that runs has exactly the pages below its size, the page below its *)
(* stack stays inaccessible.  The panics of mappages() and copyuvm() never    *)
(* happen, and that of loaduvm() only for a program whose segment makes the   *)
(* uint sum of exec.c:52 wrap.                                                *)
THEOREM MemoryIsSound == MemSpec => []MemorySound
<1>1. MemInv => MemorySound
  BY Accounted, RunsMapped DEF MemorySound
<1> QED
  BY <1>1, MemoryAlways, PTL

=============================================================================
