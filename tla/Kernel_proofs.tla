---------------------------- MODULE Kernel_proofs ----------------------------
(* Small parts of the kernel, which share no state: the counter of reads and  *)
(* writes, the input of the console, the shares of the scheduler and the keys *)
(* of the keyboard.                                                           *)
EXTENDS IoCounter, ConsoleInput, TicketSched, Keyboard, Integers,
        FiniteSetTheorems, SequenceTheorems, WellFoundedInduction, TLAPS

(* getiocount() counts exactly, for any set of processes, any width of the    *)
(* counter and any tests.  Inductive are the lock, which the process inside   *)
(* a call holds, and the value it loaded, which stays the value of iocount.   *)

IoInv ==
  /\ iocount \in 0..(UINT - 1) /\ iocount = ioCalls
  /\ ioAt \in [IoProc -> Counting \cup {"unborn", "user", "zombie"}]
  /\ ioTmp \in [IoProc -> 0..(UINT - 1)]
  /\ \A p \in IoProc : ioAt[p] \in Counting <=> iocounterlock = p
  /\ \A p \in IoProc : ioAt[p] = "loaded" => ioTmp[p] = iocount

LEMMA IoInitInv == IoInit => IoInv
BY IoAssumption DEF IoInit, IoInv, Counting

(* A call outside the counter moves one process, which is not counting either *)
(* before or after.                                                           *)
LEMMA OutsideKeeps ==
  ASSUME IoInv, NEW p \in IoProc, NEW at \in {"unborn", "user", "zombie"},
         ioAt[p] \notin Counting, IoGoes(p, at),
         UNCHANGED <<iocount, iocounterlock, ioTmp, ioCalls>>
  PROVE  IoInv'
BY DEF IoInv, IoGoes, Counting

LEMMA IoStepInv ==
  ASSUME IoInv, NEW p \in IoProc, IoStep(p)
  PROVE  IoInv'
<1>1. CASE Acquires(p)
  BY <1>1, IoAssumption DEF Acquires, Asks, LockFree, IoGoes, IoInv, Counting
<1>2. CASE Loads(p)
  BY <1>2 DEF Loads, IoGoes, IoInv, Counting
<1>3. CASE Stores(p)
  <2>1. iocount' = ioCalls' /\ iocount' \in 0..(UINT - 1)
    <3>1. ioTmp[p] = iocount /\ iocount = ioCalls
      BY <1>3 DEF Stores, IoInv
    <3>2. \A n \in Nat : Inc(n) \in 0..(UINT - 1)
      BY IoAssumption DEF Inc
    <3> QED  BY <1>3, <3>1, <3>2 DEF Stores, Inc, IoInv
  <2>2. \A q \in IoProc : ioAt'[q] = "loaded" => FALSE
    BY <1>3 DEF Stores, IoGoes, IoInv, Counting
  <2> QED  BY <1>3, <2>1, <2>2 DEF Stores, IoGoes, IoInv, Counting
<1>4. CASE IoReturns(p) \/ Getiocount(p)
  <2>1. ioAt[p] \in Counting /\ iocounterlock' = NoHolder /\ IoGoes(p, "user")
        /\ UNCHANGED <<iocount, ioTmp, ioCalls>>
    BY <1>4 DEF IoReturns, Getiocount, Returns, Counting
  <2> QED  BY <2>1, IoAssumption DEF IoGoes, IoInv, Counting
<1>5. CASE IoFork(p)
  <2>1. PICK q \in IoProc : ioAt[q] = "unborn" /\ IoGoes(q, "user")
    BY <1>5 DEF IoFork
  <2> QED  BY <1>5, <2>1, OutsideKeeps DEF IoFork, Counting
<1>6. CASE IoWait(p)
  <2>1. PICK q \in IoProc : ioAt[q] = "zombie" /\ IoGoes(q, "unborn")
    BY <1>6 DEF IoWait
  <2> QED  BY <1>6, <2>1, OutsideKeeps DEF IoWait, Counting
<1>7. CASE IoExit(p)
  BY <1>7, OutsideKeeps DEF IoExit, Asks, Counting
<1> QED  BY <1>1, <1>2, <1>3, <1>4, <1>5, <1>6, <1>7 DEF IoStep

(* The lock is held by the process inside a call, and what it has loaded is   *)
(* still the counter (sysfile.c, sysproc.c).                                  *)
THEOREM IoAlways == IoSpec => []IoInv
<1>1. IoInv /\ [IoNext]_ioVars => IoInv'
  <2> SUFFICES ASSUME IoInv, [IoNext]_ioVars PROVE IoInv'
    OBVIOUS
  <2>1. CASE IoNext
    BY <2>1, IoStepInv DEF IoNext
  <2>2. CASE UNCHANGED ioVars
    BY <2>2 DEF ioVars, IoInv
  <2> QED  BY <2>1, <2>2
<1> QED  BY <1>1, IoInitInv, PTL DEF IoSpec

(* The lock is held exactly by the process inside a call, and the counter     *)
(* stays an unsigned int (acquire() and release() in sysfile.c, sysproc.c).   *)
THEOREM IoCounterTypes == IoSpec => []IoTypeOK
<1>1. IoInv => IoTypeOK
  BY DEF IoInv, IoTypeOK
<1> QED  BY <1>1, IoAlways, PTL

(* No call of read() or write() is lost (iocount++ in sysfile.c).             *)
THEOREM IoCounterCounts == IoSpec => []NoneLost
<1>1. IoInv => NoneLost
  BY DEF IoInv, NoneLost
<1> QED  BY <1>1, IoAlways, PTL

(* What getiocount() returns is the number of calls at the moment it returns  *)
(* (sys_getiocount() in sysproc.c): other processors cannot move the counter  *)
(* between the copy and the release.                                          *)
THEOREM GetiocountIsExact ==
  IoSpec => [][\A p \in IoProc : Getiocount(p) => ioTmp[p] = ioCalls]_ioVars
<1>1. IoInv => \A p \in IoProc : Getiocount(p) => ioTmp[p] = ioCalls
  BY DEF IoInv, Getiocount
<1> QED  BY <1>1, IoAlways, PTL

-----------------------------------------------------------------------------
(* The console: lines, ends of file and sleepers, for any readers, any size   *)
(* of the buffer, any width of the indices and any number of keys.            *)

Index == 0..(WRAP - 1)
Buffer == [0..(INPUT_BUF - 1) -> Key]
ReaderState == [at : {"out", "ready", "asleep"}, n : Int, target : Int, killed : BOOLEAN]

Typed ==
  /\ input \in [buf : Buffer, r : Index, w : Index, e : Index]
  /\ rd \in [ConsReader -> ReaderState]
  /\ \A p \in ConsReader : rd[p].n <= rd[p].target
  /\ committed \in Seq(Key) /\ taken \in Seq(Key) /\ zeros \in Nat

ConsInv == Typed /\ ConsoleSound

-----------------------------------------------------------------------------
(* Arithmetic: division with a remainder, by a constant of the model.         *)

LEMMA DivMod ==
  ASSUME NEW x \in Int, NEW m \in Nat \ {0}
  PROVE  \E h \in Int : x % m \in 0..(m - 1) /\ x = m * h + (x % m)
<1>1. x \div m \in Int /\ x % m \in 0..(m - 1) /\ x = m * (x \div m) + (x % m)
  OBVIOUS
<1> QED
  BY ZenonT(90), <1>1

LEMMA OneQuotient ==
  ASSUME NEW m \in Nat \ {0}, NEW h \in Int, NEW r \in 0..(m - 1),
         NEW k \in Int, NEW s \in 0..(m - 1), m * h + r = m * k + s
  PROVE  h = k /\ r = s
OBVIOUS

LEMMA ModIs ==
  ASSUME NEW m \in Nat \ {0}, NEW h \in Int, NEW r \in 0..(m - 1), NEW x, x = m * h + r
  PROVE  x % m = r
<1> DEFINE s == x % m
<1>0. x \in Int
  OBVIOUS
<1>1. PICK k \in Int : s \in 0..(m - 1) /\ x = m * k + s
  BY ZenonT(90), <1>0, DivMod
<1> HIDE DEF s
<1>2. s = r
  <2>1. m * k + s = m * h + r
    BY <1>1
  <2> QED
    BY ZenonT(90), <1>1, <2>1, OneQuotient
<1> QED
  BY <1>2 DEF s

(* Two numbers less than m apart with one remainder are the same.             *)
LEMMA ModEq ==
  ASSUME NEW m \in Nat \ {0}, NEW x \in Int, NEW y \in Int,
         x % m = y % m, 0 <= y - x, y - x < m
  PROVE  x = y
<1> DEFINE s == x % m
<1>1. PICK h \in Int : x = m * h + s
  BY ZenonT(90), DivMod
<1>2. PICK k \in Int : y = m * k + s
  BY ZenonT(90), DivMod
<1>3. s \in Int
  BY DivMod
<1> HIDE DEF s
<1>4. y - x \in 0..(m - 1) /\ 0 \in 0..(m - 1) /\ k - h \in Int
  OBVIOUS
<1>5. m * (k - h) + 0 = m * 0 + (y - x)
  BY <1>1, <1>2, <1>3
<1>6. y - x = 0
  BY <1>4, <1>5, OneQuotient
<1> QED
  BY <1>6

LEMMA ModShift ==
  ASSUME NEW m \in Nat \ {0}, NEW x \in Int, NEW k \in Int, NEW y, y = m * k + x
  PROVE  y % m = x % m
<1> DEFINE s == x % m
<1>1. PICK h \in Int : s \in 0..(m - 1) /\ x = m * h + s
  BY ZenonT(90), DivMod
<1> HIDE DEF s
<1> DEFINE j == k + h
<1>2. j \in Int /\ y = m * j + s /\ y \in Int
  BY <1>1
<1> HIDE DEF j
<1> DEFINE r == y % m
<1>3. PICK i \in Int : r \in 0..(m - 1) /\ y = m * i + r
  BY ZenonT(90), <1>2, DivMod
<1> HIDE DEF r
<1>4. m * j + s = m * i + r
  BY <1>2, <1>3
<1>5. s = r
  BY ZenonT(90), <1>1, <1>2, <1>3, <1>4, OneQuotient
<1> QED
  BY <1>5 DEF s, r

(* Induction on the natural numbers: what is not empty has a least element.   *)
LEMMA Least ==
  ASSUME NEW T \in SUBSET Nat, T # {}
  PROVE  \E m \in T : \A n \in T : m <= n
<1> DEFINE Below == {0..n : n \in T}
<1>1. IsWellFoundedOn(StrictSubsetOrdering(Nat), FiniteSubsetsOf(Nat))
  BY FS_StrictSubsetOrderingWellFounded
<1>2. Below \subseteq FiniteSubsetsOf(Nat)
  <2>1. ASSUME NEW n \in T PROVE 0..n \in FiniteSubsetsOf(Nat)
    <3>1. IsFiniteSet(0..n)
      BY FS_Interval
    <3>2. 0..n \subseteq Nat
      OBVIOUS
    <3> QED
      BY <3>1, <3>2 DEF FiniteSubsetsOf
  <2> QED
    BY <2>1
<1>3. Below # {}
  BY ZenonT(90)
<1>4. PICK s \in Below : \A r \in Below : ~ (<<r, s>> \in StrictSubsetOrdering(Nat))
  <2> HIDE DEF Below
  <2> QED
  BY <1>1, <1>2, <1>3, WFMin
<1>5. PICK m \in T : s = 0..m
  OBVIOUS
<1>6. ASSUME NEW n \in T PROVE m <= n
  <2>1. ~ (<<0..n, 0..m>> \in StrictSubsetOrdering(Nat))
    BY ZenonT(90), <1>4, <1>5
  <2>2. ~(0..n \subseteq 0..m /\ 0..n # 0..m)
    <3>1. 0..n \in SUBSET Nat /\ 0..m \in SUBSET Nat
      OBVIOUS
    <3> QED
    BY <2>1, <3>1 DEF StrictSubsetOrdering
  <2>3. CASE n < m
    <3>1. 0..n \subseteq 0..m
      BY <2>3
    <3>2. m \in 0..m /\ m \notin 0..n
      BY <2>3
    <3> QED
      BY <3>1, <3>2, <2>2
  <2> QED
    BY <2>3
<1> QED
  BY <1>6

LEMMA ModAgain ==
  ASSUME NEW m \in Nat \ {0}, NEW x \in Int, NEW y \in Int
  PROVE  ((x % m) + y) % m = (x + y) % m
<1> DEFINE s == x % m
<1>1. PICK k \in Int : s \in 0..(m - 1) /\ x = m * k + s
  BY ZenonT(90), DivMod
<1> HIDE DEF s
<1> DEFINE a == x + y
           b == s + y
<1>2. b \in Int /\ a = m * k + b
  BY <1>1
<1> HIDE DEF a, b
<1>3. a % m = b % m
  BY ZenonT(120), <1>1, <1>2, ModShift
<1> QED
  BY <1>3 DEF a, b, s


(* A counter that wraps at n counts like one that does not, modulo m.         *)
LEMMA ModWrap ==
  ASSUME NEW m \in Nat \ {0}, NEW n \in Nat \ {0}, n % m = 0,
         NEW x \in Int, NEW y \in Int
  PROVE  ((x % n) + y) % m = (x + y) % m
<1> DEFINE s == x % n
<1>1. PICK q \in Int : s \in 0..(n - 1) /\ x = n * q + s
  BY ZenonT(90), DivMod
<1>2. PICK k \in Int : n = m * k
  BY DivMod
<1> HIDE DEF s
<1>3. PICK j \in Int : n * q = m * j
  <2>1. n * q = m * (k * q) /\ k * q \in Int
    BY <1>2
  <2> QED
    BY ZenonT(90), <2>1
<1>4. s + y \in Int /\ x + y = m * j + (s + y)
  BY <1>1, <1>3
<1> DEFINE a == x + y
           b == s + y
<1>5. b \in Int /\ a = m * j + b
  BY <1>4
<1> HIDE DEF a, b
<1>6. a % m = b % m
  BY ZenonT(150), <1>5, ModShift
<1> QED
  BY <1>6 DEF a, b, s

-----------------------------------------------------------------------------
(* Indices that wrap.  Everything is counted from one of them.                *)

LEMMA Sizes ==
  /\ WRAP \in Nat \ {0} /\ INPUT_BUF \in Nat \ {0} /\ INPUT_BUF < WRAP /\ WRAP % INPUT_BUF = 0
  /\ 0 \notin ConsReader
BY ConsoleAssumption DEF ConsoleAssumption

LEMMA PlusIs ==
  ASSUME NEW r \in Index, NEW i \in Nat
  PROVE  Plus(r, i) \in Index
<1> DEFINE x == r + i
<1>1. x \in Int
  BY Sizes DEF Index
<1> HIDE DEF x
<1>2. x % WRAP \in Index
  BY <1>1, Sizes DEF Index
<1> QED
  BY <1>2 DEF x, Plus

LEMMA PlusZero == ASSUME NEW r \in Index PROVE Plus(r, 0) = r
<1>1. r % WRAP = r /\ r + 0 = r
  BY Sizes DEF Index
<1> QED
  BY <1>1 DEF Plus

LEMMA PlusPlus ==
  ASSUME NEW r \in Index, NEW i \in Nat, NEW j \in Nat
  PROVE  Plus(Plus(r, i), j) = Plus(r, i + j)
<1> DEFINE x == r + i
<1>1. x \in Int /\ j \in Int /\ WRAP \in Nat \ {0} /\ x + j = r + (i + j)
  BY Sizes DEF Index
<1> HIDE DEF x
<1>2. ((x % WRAP) + j) % WRAP = (x + j) % WRAP
  BY ZenonT(90), <1>1, ModAgain
<1>3. (x + j) % WRAP = Plus(r, i + j)
  BY <1>1 DEF Plus
<1> QED
  BY <1>2, <1>3 DEF x, Plus

LEMMA OnceAround ==
  ASSUME NEW r \in Index, NEW i \in Nat
  PROVE  Plus(r, i + WRAP) = Plus(r, i)
<1> DEFINE x == r + i
           y == r + (i + WRAP)
<1>1. x \in Int /\ 1 \in Int /\ WRAP \in Nat \ {0} /\ y = WRAP * 1 + x
  BY Sizes DEF Index
<1> HIDE DEF x, y
<1>2. y % WRAP = x % WRAP
  BY ZenonT(90), <1>1, ModShift
<1> QED
  BY <1>2 DEF x, y, Plus

LEMMA Between ==
  ASSUME NEW r \in Index, NEW i \in Nat, NEW j \in Nat, i <= j, j - i < WRAP
  PROVE  Dist(Plus(r, i), Plus(r, j)) = j - i
<1> DEFINE x == r + i
           y == r + j
           d == j - i
<1>1. x \in Int /\ y \in Int /\ WRAP \in Nat \ {0} /\ y - x = d /\ d \in 0..(WRAP - 1)
  BY Sizes DEF Index
<1> HIDE DEF x, y, d
<1> DEFINE a == x % WRAP
           b == y % WRAP
<1>2. PICK q \in Int : a \in 0..(WRAP - 1) /\ x = WRAP * q + a
  BY ZenonT(90), <1>1, DivMod
<1>3. PICK k \in Int : b \in 0..(WRAP - 1) /\ y = WRAP * k + b
  BY ZenonT(90), <1>1, DivMod
<1> HIDE DEF a, b
<1> DEFINE z == b - a
           u == q - k
<1>4. u \in Int /\ z = WRAP * u + d
  BY <1>1, <1>2, <1>3
<1> HIDE DEF z, u
<1>5. z % WRAP = d
  BY <1>1, <1>4, ModIs
<1> QED
  BY <1>5 DEF z, a, b, d, x, y, Plus, Dist

LEMMA From ==
  ASSUME NEW r \in Index, NEW j \in Nat, j < WRAP
  PROVE  Dist(r, Plus(r, j)) = j
<1>1. 0 \in Nat /\ 0 <= j /\ j - 0 < WRAP /\ j - 0 = j
  OBVIOUS
<1>2. Dist(Plus(r, 0), Plus(r, j)) = j - 0
  BY ZenonT(90), <1>1, Between
<1> QED
  BY <1>1, <1>2, PlusZero

LEMMA Reach ==
  ASSUME NEW i \in Index, NEW j \in Index
  PROVE  Dist(i, j) \in Index /\ Dist(i, j) \in Nat /\ Plus(i, Dist(i, j)) = j
<1> DEFINE x == j - i
<1>1. x \in Int /\ i \in Int /\ x + i = j /\ j % WRAP = j /\ WRAP \in Nat \ {0}
  BY Sizes DEF Index
<1> HIDE DEF x
<1> DEFINE d == x % WRAP
<1>2. d \in Index /\ d \in Nat
  BY <1>1 DEF Index
<1>3. (d + i) % WRAP = (x + i) % WRAP
  BY ZenonT(90), <1>1, ModAgain
<1> HIDE DEF d
<1>4. d + i = i + d
  BY <1>1, <1>2
<1>5. Dist(i, j) = d
  BY DEF d, x, Dist
<1> QED
  BY <1>1, <1>2, <1>3, <1>4, <1>5 DEF Plus

LEMMA SlotOf ==
  ASSUME NEW r \in Index, NEW i \in Nat
  PROVE  Slot(Plus(r, i)) = (r + i) % INPUT_BUF /\ Slot(Plus(r, i)) \in 0..(INPUT_BUF - 1)
<1> DEFINE x == r + i
<1>1. x \in Int /\ 0 \in Int /\ x + 0 = x
  BY Sizes DEF Index
<1> HIDE DEF x
<1>2. ((x % WRAP) + 0) % INPUT_BUF = (x + 0) % INPUT_BUF
  BY ZenonT(90), <1>1, Sizes, ModWrap
<1>3. (x % WRAP) + 0 = x % WRAP
  BY <1>1, Sizes
<1>4. x % INPUT_BUF \in 0..(INPUT_BUF - 1)
  BY <1>1, Sizes
<1> QED
  BY <1>1, <1>2, <1>3, <1>4 DEF x, Slot, Plus

(* Bytes less than a bufferful apart are in different slots.                  *)
LEMMA SlotsDiffer ==
  ASSUME NEW r \in Index, NEW i \in Nat, NEW j \in Nat, i < j, j - i < INPUT_BUF
  PROVE  Slot(Plus(r, i)) # Slot(Plus(r, j))
<1> DEFINE x == r + i
           y == r + j
<1>1. x \in Int /\ y \in Int /\ 0 <= y - x /\ y - x < INPUT_BUF /\ x # y /\ INPUT_BUF \in Nat \ {0}
  BY Sizes DEF Index
<1>2. Slot(Plus(r, i)) = x % INPUT_BUF /\ Slot(Plus(r, j)) = y % INPUT_BUF
  BY SlotOf
<1> HIDE DEF x, y
<1>3. x % INPUT_BUF # y % INPUT_BUF
  BY ZenonT(90), <1>1, ModEq
<1> QED
  BY <1>2, <1>3

-----------------------------------------------------------------------------
(* Spans: the bytes from one index to another. *)

LEMMA ConcatIs ==
  ASSUME NEW S, NEW s \in Seq(S), NEW t \in Seq(S), NEW u \in Seq(S), Len(u) = Len(s) + Len(t),
         \A k \in 1..Len(s) : u[k] = s[k], \A k \in 1..Len(t) : u[Len(s) + k] = t[k]
  PROVE  s \o t = u
<1>1. s \o t \in Seq(S) /\ Len(s \o t) = Len(s) + Len(t) /\ Len(s) \in Nat /\ Len(t) \in Nat
  OBVIOUS
<1>2. ASSUME NEW k \in 1..Len(u) PROVE (s \o t)[k] = u[k]
  <2>1. CASE k <= Len(s)
    BY <1>1, <2>1
  <2>2. CASE k > Len(s)
    <3>1. k - Len(s) \in 1..Len(t) /\ Len(s) + (k - Len(s)) = k
      BY <1>1, <2>2
    <3>2. u[Len(s) + (k - Len(s))] = t[k - Len(s)]
      BY <3>1
    <3>3. (s \o t)[k] = t[k - Len(s)]
      BY <1>1, <2>2
    <3> QED
      BY <3>1, <3>2, <3>3
  <2> QED
    BY <1>1, <2>1, <2>2
<1> QED
  BY <1>1, <1>2, SeqEqual

LEMMA SpanIs ==
  ASSUME NEW i \in Index, NEW j \in Index, NEW b \in Buffer, NEW n, Dist(i, j) = n
  PROVE  /\ Span(i, j, b) \in Seq(Key) /\ Len(Span(i, j, b)) = n
         /\ \A k \in 1..n : Span(i, j, b)[k] = b[Slot(Plus(i, k - 1))]
<1>1. Dist(i, j) \in Nat
  BY Reach
<1>2. ASSUME NEW k \in 1..Dist(i, j) PROVE b[Slot(Plus(i, k - 1))] \in Key
  <2>1. k - 1 \in Nat
    BY <1>1
  <2>2. Slot(Plus(i, k - 1)) \in 0..(INPUT_BUF - 1)
    BY ZenonT(90), <2>1, SlotOf
  <2> QED
    BY <2>2 DEF Buffer
<1> DEFINE f == [k \in 1..Dist(i, j) |-> b[Slot(Plus(i, k - 1))]]
<1>3. f \in [1..Dist(i, j) -> Key]
  BY <1>2
<1>4. f \in Seq(Key) /\ Len(f) = Dist(i, j)
  <2> HIDE DEF f
  <2> QED
    BY <1>1, <1>3
<1> QED
  BY ZenonT(90), <1>4 DEF Span

LEMMA Joined ==
  ASSUME NEW b \in Buffer, NEW r \in Index,
         NEW a \in Nat, NEW n \in Nat, a <= n, n < WRAP
  PROVE  Span(r, Plus(r, a), b) \o Span(Plus(r, a), Plus(r, n), b) = Span(r, Plus(r, n), b)
<1> DEFINE x == Plus(r, a)
           y == Plus(r, n)
           s == Span(r, x, b)
           t == Span(x, y, b)
           u == Span(r, y, b)
<1>1. x \in Index /\ y \in Index
  BY PlusIs
<1>2. a < WRAP /\ n - a < WRAP /\ n - a \in Nat
  BY Sizes
<1>3. Dist(r, x) = a /\ Dist(r, y) = n
  BY <1>2, From
<1>4. Dist(x, y) = n - a
  BY <1>2, Between
<1>8. ASSUME NEW k \in 1..(n - a) PROVE b[Slot(Plus(r, (a + k) - 1))] = b[Slot(Plus(x, k - 1))]
  <2>1. k - 1 \in Nat /\ (a + k) - 1 = a + (k - 1)
    BY <1>2
  <2>2. Plus(Plus(r, a), k - 1) = Plus(r, a + (k - 1))
    BY <2>1, PlusPlus
  <2> QED
    BY <2>1, <2>2
<1> HIDE DEF x, y
<1>5. /\ s \in Seq(Key) /\ Len(s) = a
      /\ \A k \in 1..a : s[k] = b[Slot(Plus(r, k - 1))]
  BY ZenonT(90), <1>1, <1>3, SpanIs
<1>6. /\ u \in Seq(Key) /\ Len(u) = n
      /\ \A k \in 1..n : u[k] = b[Slot(Plus(r, k - 1))]
  BY ZenonT(90), <1>1, <1>3, SpanIs
<1>7. /\ t \in Seq(Key) /\ Len(t) = n - a
      /\ \A k \in 1..(n - a) : t[k] = b[Slot(Plus(x, k - 1))]
  BY ZenonT(90), <1>1, <1>4, SpanIs
<1> HIDE DEF s, t, u
<1>9. Len(u) = Len(s) + Len(t) /\ \A k \in 1..Len(s) : u[k] = s[k]
  BY SMTT(60), <1>2, <1>5, <1>6, <1>7
<1>10. \A k \in 1..Len(t) : u[Len(s) + k] = t[k]
  <2> TAKE k \in 1..Len(t)
  <2>1. k \in 1..(n - a) /\ a + k \in 1..n
    BY <1>2, <1>7
  <2>2. u[a + k] = b[Slot(Plus(r, (a + k) - 1))]
    BY ZenonT(90), <1>6, <2>1
  <2>3. t[k] = b[Slot(Plus(x, k - 1))]
    BY ZenonT(90), <1>7, <2>1
  <2>4. u[a + k] = t[k]
    BY ZenonT(90), <1>8, <2>1, <2>2, <2>3
  <2> QED
    BY <1>5, <2>4
<1>11. s \o t = u
  BY ZenonT(90), <1>5, <1>6, <1>7, <1>9, <1>10, ConcatIs
<1> QED
  BY <1>11 DEF s, t, u, x, y

(* A byte stored behind a span leaves it alone. *)
LEMMA SpanStays ==
  ASSUME NEW b \in Buffer, NEW r \in Index, NEW c \in Key,
         NEW a \in Nat, NEW n \in Nat, a <= n, n < INPUT_BUF
  PROVE  Span(r, Plus(r, a), [b EXCEPT ![Slot(Plus(r, n))] = c]) = Span(r, Plus(r, a), b)
<1> DEFINE d == [b EXCEPT ![Slot(Plus(r, n))] = c]
<1>1. Plus(r, a) \in Index /\ Dist(r, Plus(r, a)) = a
  BY PlusIs, From, Sizes
<1>2. d \in Buffer
  BY ZenonT(90) DEF Buffer
<1>3. ASSUME NEW k \in 1..a PROVE d[Slot(Plus(r, k - 1))] = b[Slot(Plus(r, k - 1))]
  <2>1. k - 1 \in Nat /\ k - 1 < n /\ n - (k - 1) < INPUT_BUF
    BY Sizes
  <2>2. Slot(Plus(r, k - 1)) # Slot(Plus(r, n))
    BY <2>1, SlotsDiffer
  <2>3. Slot(Plus(r, k - 1)) \in 0..(INPUT_BUF - 1)
    BY ZenonT(90), <2>1, SlotOf
  <2> QED
    BY <2>2, <2>3
<1> HIDE DEF d
<1>4. Span(r, Plus(r, a), d) = Span(r, Plus(r, a), b)
  BY <1>1, <1>3 DEF Span
<1> QED
  BY <1>4 DEF d

LEMMA Associates ==
  ASSUME NEW s \in Seq(Key), NEW t \in Seq(Key), NEW u \in Seq(Key)
  PROVE  (s \o t) \o u = s \o (t \o u)
BY SMTT(60), ConcatAssociative

LEMMA OneByte ==
  ASSUME NEW b \in Buffer, NEW r \in Index, NEW s \in Seq(Key)
  PROVE  Append(s, b[Slot(r)]) = s \o Span(r, Plus(r, 1), b)
<1> DEFINE c == b[Slot(r)]
           x == Plus(r, 1)
           t == Span(r, x, b)
<1>1. x \in Index /\ Dist(r, x) = 1
  BY PlusIs, From, Sizes
<1> HIDE DEF x
<1>2. t \in Seq(Key) /\ Len(t) = 1 /\ t[1] = b[Slot(Plus(r, 1 - 1))]
  <2>1. t \in Seq(Key) /\ Len(t) = 1 /\ \A k \in 1..1 : t[k] = b[Slot(Plus(r, k - 1))]
    BY ZenonT(90), <1>1, SpanIs
  <2>2. 1 \in 1..1
    OBVIOUS
  <2> QED
    BY <2>1, <2>2
<1>3. t[1] = c /\ c \in Key
  <2>1. 1 - 1 = 0
    OBVIOUS
  <2>2. Plus(r, 1 - 1) = r
    BY <2>1, PlusZero
  <2>3. Slot(Plus(r, 0)) \in 0..(INPUT_BUF - 1)
    BY SlotOf
  <2> QED
    BY <1>2, <2>1, <2>2, <2>3 DEF Buffer
<1> HIDE DEF c, t
<1> DEFINE u == Append(s, c)
<1>4. u \in Seq(Key) /\ Len(u) = Len(s) + Len(t) /\ Len(s) \in Nat
  BY <1>2, <1>3
<1>5. \A k \in 1..Len(s) : u[k] = s[k]
  BY <1>3
<1>6. \A k \in 1..Len(t) : u[Len(s) + k] = t[k]
  BY <1>2, <1>3
<1> HIDE DEF u
<1>7. s \o t = u
  BY ZenonT(90), <1>2, <1>4, <1>5, <1>6, ConcatIs
<1> QED
  BY <1>7 DEF u, c, t, x

-----------------------------------------------------------------------------
(* Where the indices are, and what typing and erasing does to them.           *)

LEMMA Begins == ConsInit => ConsInv
<1> SUFFICES ASSUME ConsInit PROVE ConsInv
  OBVIOUS
<1>1. 0 \in Index
  BY Sizes DEF Index
<1>2. [k \in 0..(INPUT_BUF - 1) |-> "a"] \in Buffer
  BY DEF Key, Buffer
<1>3. Typed
  BY <1>1, <1>2 DEF ConsInit, Typed, ReaderState
<1>4. Dist(0, 0) = 0
  BY Sizes DEF Dist
<1>5. Span(input.r, input.w, input.buf) = <<>>
  <2>1. Dist(input.r, input.w) = 0
    BY <1>4 DEF ConsInit
  <2>2. Span(input.r, input.w, input.buf) \in Seq(Key) /\ Len(Span(input.r, input.w, input.buf)) = 0
    BY <1>3, <2>1, SpanIs DEF Typed
  <2> HIDE DEF Span
  <2> QED
    BY <2>2
<1>6. LinesInOrder
  BY <1>5 DEF ConsInit, LinesInOrder
<1>7. ConsTypeOK /\ FullIsReady /\ NobodySleepsOnInput
  BY <1>1, <1>4, Sizes DEF ConsInit, ConsTypeOK, FullIsReady, NobodySleepsOnInput, Index
<1>8. EofIsZero
  <2>1. {i \in 1..Len(taken) : taken[i] = "eof"} = {}
    BY DEF ConsInit
  <2> QED
    BY <2>1, FS_EmptySet DEF ConsInit, EofIsZero
<1> QED
  BY <1>3, <1>6, <1>7, <1>8 DEF ConsInv, ConsoleSound

LEMMA Places ==
  ASSUME ConsInv
  PROVE  /\ input.r \in Index /\ input.w \in Index /\ input.e \in Index
         /\ Dist(input.r, input.w) \in Nat /\ Dist(input.r, input.e) \in Nat
         /\ Dist(input.r, input.w) <= Dist(input.r, input.e)
         /\ Dist(input.r, input.e) <= INPUT_BUF /\ Dist(input.r, input.e) < WRAP
         /\ input.w = Plus(input.r, Dist(input.r, input.w))
         /\ input.e = Plus(input.r, Dist(input.r, input.e))
         /\ Dist(input.w, input.e) = Dist(input.r, input.e) - Dist(input.r, input.w)
         /\ input.buf \in Buffer
<1>1. input.r \in Index /\ input.w \in Index /\ input.e \in Index
      /\ input.buf \in Buffer
  BY DEF ConsInv, Typed
<1> DEFINE r == input.r
           a == Dist(input.r, input.w)
           b == Dist(input.r, input.e)
<1>2. a \in Nat /\ b \in Nat /\ input.w = Plus(r, a) /\ input.e = Plus(r, b)
  BY <1>1, Reach
<1>3. a <= b /\ b <= INPUT_BUF
  BY DEF ConsInv, ConsoleSound, ConsTypeOK
<1> HIDE DEF a, b, r
<1>4. b < WRAP /\ b - a < WRAP
  BY <1>2, <1>3, Sizes
<1>5. Dist(Plus(r, a), Plus(r, b)) = b - a
  <2>1. r \in Index
    BY <1>1 DEF r
  <2> QED
    BY <1>2, <1>3, <1>4, <2>1, Between
<1> QED
  BY <1>1, <1>2, <1>3, <1>4, <1>5 DEF a, b, r

(* A step that moves neither r nor w nor what lies between them. *)
LEMMA InputKept ==
  ASSUME ConsInv, UNCHANGED <<input, committed, taken, zeros>>,
         rd' \in [ConsReader -> ReaderState],
         \A p \in ConsReader : rd'[p].n <= rd'[p].target,
         lock' \in ConsReader \cup {0},
         (\E p \in ConsReader : rd'[p].at = "asleep") => input.r = input.w
  PROVE  ConsInv'
<1>1. Typed'
  BY DEF ConsInv, Typed
<1>2. ConsTypeOK' /\ LinesInOrder' /\ FullIsReady' /\ NobodySleepsOnInput' /\ EofIsZero'
  BY DEF ConsInv, ConsoleSound, ConsTypeOK, LinesInOrder, FullIsReady, NobodySleepsOnInput, EofIsZero
<1> QED
  BY <1>1, <1>2 DEF ConsInv, ConsoleSound

LEMMA Back ==
  ASSUME NEW r \in Index, NEW b \in Nat, NEW d \in Nat, d <= b, d < WRAP
  PROVE  Plus(Plus(r, b), WRAP - d) = Plus(r, b - d)
<1>1. WRAP - d \in Nat /\ b - d \in Nat /\ b + (WRAP - d) = (b - d) + WRAP
  BY Sizes
<1>2. Plus(Plus(r, b), WRAP - d) = Plus(r, b + (WRAP - d))
  BY <1>1, PlusPlus
<1>3. Plus(r, (b - d) + WRAP) = Plus(r, b - d)
  BY <1>1, OnceAround
<1> QED
  BY <1>1, <1>2, <1>3

(* The last bytes before the committed ones are erased. *)
LEMMA ErasesTo ==
  ASSUME ConsInv, NEW d \in Nat, d <= Dist(input.w, input.e),
         input' = [input EXCEPT !.e = Plus(input.e, WRAP - d)],
         UNCHANGED <<lock, rd, committed, taken, zeros>>
  PROVE  ConsInv'
<1> DEFINE r == input.r
           a == Dist(input.r, input.w)
           b == Dist(input.r, input.e)
           n == b - d
<1>1. /\ r \in Index /\ a \in Nat /\ b \in Nat /\ a <= b /\ b <= INPUT_BUF /\ b < WRAP
      /\ input.w = Plus(r, a) /\ input.e = Plus(r, b) /\ d <= b - a
  BY Places
<1> HIDE DEF r, a, b
<1>2. n \in Nat /\ d <= b /\ d < WRAP /\ n < WRAP /\ a <= n /\ n <= b
  BY <1>1, Sizes
<1>3. Plus(Plus(r, b), WRAP - d) = Plus(r, n)
  BY <1>1, <1>2, Back
<1> HIDE DEF n
<1>4. Plus(r, n) \in Index /\ Dist(r, Plus(r, n)) = n
  BY <1>1, <1>2, PlusIs, From
<1>5. /\ input'.e = Plus(r, n) /\ input'.r = r /\ input'.w = input.w /\ input'.buf = input.buf
      /\ input' \in [buf : Buffer, r : Index, w : Index, e : Index]
  BY ZenonT(90), <1>1, <1>3, <1>4 DEF ConsInv, Typed, r
<1>6. Typed'
  BY ZenonT(90), <1>5 DEF ConsInv, Typed
<1>7. ConsTypeOK'
  <2>1. {r, input.w, Plus(r, n)} \subseteq Index /\ lock \in ConsReader \cup {0}
    BY <1>4, Places DEF r, ConsInv, ConsoleSound, ConsTypeOK
  <2>2. Dist(r, input.w) = a /\ Dist(r, Plus(r, n)) = n /\ n <= INPUT_BUF
    BY <1>1, <1>2, <1>4, Sizes DEF a, r
  <2> QED
    BY <1>2, <1>5, <2>1, <2>2 DEF ConsTypeOK, Index
<1>8. FullIsReady'
  <2> SUFFICES ASSUME n = INPUT_BUF PROVE input.w = Plus(r, n)
    BY <1>4, <1>5 DEF FullIsReady
  <2>1. b = INPUT_BUF /\ n = b
    BY <1>1, <1>2
  <2>2. input.w = input.e
    BY <2>1 DEF ConsInv, ConsoleSound, FullIsReady, b
  <2> QED
    BY <1>1, <2>1, <2>2
<1>9. LinesInOrder' /\ NobodySleepsOnInput' /\ EofIsZero'
  BY <1>5 DEF ConsInv, ConsoleSound, LinesInOrder, NobodySleepsOnInput, EofIsZero, r
<1> QED
  BY <1>6, <1>7, <1>8, <1>9 DEF ConsInv, ConsoleSound

LEMMA KillToIs ==
  ASSUME ConsInv
  PROVE  \E d \in Nat : d <= Dist(input.w, input.e) /\ KillTo = Plus(input.e, WRAP - d)
<1> DEFINE m == Dist(input.w, input.e)
           stops == {d \in 0..m : d = m \/ input.buf[Slot(Plus(input.e, WRAP - d - 1))] = "newline"}
           d0 == CHOOSE d \in stops : \A x \in stops : d <= x
<1>1. m \in Nat
  BY Places
<1>2. m \in stops /\ stops \in SUBSET Nat
  BY <1>1
<1>3. KillTo = Plus(input.e, WRAP - d0)
  BY DEF KillTo
<1> HIDE DEF stops
<1>4. \E d \in stops : \A x \in stops : d <= x
  BY <1>2, Least
<1>5. d0 \in stops
  BY <1>4
<1> HIDE DEF d0
<1>6. d0 \in Nat /\ d0 <= m
  BY <1>1, <1>5 DEF stops
<1> QED
  BY <1>3, <1>6

LEMMA EraseStep ==
  ASSUME ConsInv, NEW c \in Key, Erase(c)
  PROVE  ConsInv'
<1>1. UNCHANGED <<lock, rd, committed, taken, zeros>>
  BY DEF Erase
<1>2. CASE c = "killline"
  <2>1. PICK d \in Nat : d <= Dist(input.w, input.e) /\ KillTo = Plus(input.e, WRAP - d)
    BY KillToIs
  <2>2. input' = [input EXCEPT !.e = Plus(input.e, WRAP - d)]
    BY <1>2, <2>1 DEF Erase
  <2> QED
    BY <1>1, <2>1, <2>2, ErasesTo
<1>3. CASE c # "killline" /\ Erasable
  <2>1. 1 \in Nat /\ 1 <= Dist(input.w, input.e)
    <3>1. Dist(input.r, input.w) # Dist(input.r, input.e)
      BY <1>3, Places DEF Erasable
    <3> QED
      BY <3>1, Places
  <2>2. input' = [input EXCEPT !.e = Plus(input.e, WRAP - 1)]
    BY <1>3 DEF Erase
  <2> QED
    BY <1>1, <2>1, <2>2, ErasesTo
<1>4. CASE c # "killline" /\ ~Erasable
  <2>1. input' = input
    BY <1>4 DEF Erase, ConsInv, Typed
  <2> QED
    BY <1>1, <2>1, InputKept DEF ConsInv, Typed, ConsoleSound, NobodySleepsOnInput, ConsTypeOK
<1> QED
  BY <1>2, <1>3, <1>4

-----------------------------------------------------------------------------
(* A byte typed. *)

LEMMA TypeStep ==
  ASSUME ConsInv, NEW c \in Key, TypeChar(c)
  PROVE  ConsInv'
<1> DEFINE r == input.r
           a == Dist(input.r, input.w)
           n == Dist(input.r, input.e)
           e1 == Plus(input.e, 1)
           d == [input.buf EXCEPT ![Slot(input.e)] = c]
<1>1. /\ r \in Index /\ a \in Nat /\ n \in Nat /\ a <= n /\ n < WRAP
      /\ input.w = Plus(r, a) /\ input.e = Plus(r, n)
      /\ input.buf \in Buffer /\ input.w \in Index
  BY Places
<1>2. UNCHANGED <<lock, taken, zeros>>
  BY DEF TypeChar
<1>3. CASE ~Room
  <2>1. UNCHANGED <<input, rd, committed>>
    BY <1>3 DEF TypeChar
  <2> QED
    BY <1>2, <2>1, InputKept DEF ConsInv, Typed, ConsoleSound, NobodySleepsOnInput, ConsTypeOK
<1>4. CASE Room
  <2>1. n < INPUT_BUF
    BY <1>4 DEF Room
  <2> HIDE DEF r, a, n
  <2>2. n + 1 \in Nat /\ n + 1 < WRAP /\ n + 1 <= INPUT_BUF /\ a <= n + 1 /\ a < WRAP
    BY <1>1, <2>1, Sizes
  <2>3. e1 = Plus(r, n + 1)
    BY <1>1, PlusPlus
  <2>4. e1 \in Index /\ Dist(r, e1) = n + 1 /\ Dist(r, input.w) = a
    BY <1>1, <2>2, <2>3, PlusIs, From
  <2>5. d \in Buffer /\ d = [input.buf EXCEPT ![Slot(Plus(r, n))] = c]
    BY ZenonT(90), <1>1 DEF Buffer
  <2>6. Span(r, input.w, d) = Span(r, input.w, input.buf)
    BY SMTT(60), <1>1, <2>1, <2>5, SpanStays
  <2>7. committed = taken \o Span(r, input.w, d) /\ committed \in Seq(Key) /\ taken \in Seq(Key)
    BY ZenonT(90), <2>6 DEF r, ConsInv, ConsoleSound, LinesInOrder, Typed
  <2> HIDE DEF d, e1
  <2>8. CASE EndsLine(c, e1)
    <3>1. /\ input' = [input EXCEPT !.buf = d, !.e = e1, !.w = e1]
          /\ committed' = committed \o Span(input.w, e1, d)
          /\ WakeReaders
      BY ZenonT(90), <1>4, <2>8 DEF TypeChar, d, e1
    <3>2. /\ input'.r = r /\ input'.w = e1 /\ input'.e = e1 /\ input'.buf = d
          /\ input' \in [buf : Buffer, r : Index, w : Index, e : Index]
      BY ZenonT(90), <2>4, <2>5, <3>1 DEF r, ConsInv, Typed
    <3>3. Span(r, input.w, d) \o Span(input.w, e1, d) = Span(r, e1, d)
      <4> DEFINE m == n + 1
      <4>1. m \in Nat /\ a <= m /\ m < WRAP /\ e1 = Plus(r, m)
        BY <1>1, <2>2, <2>3
      <4> HIDE DEF m
      <4>2. Span(r, Plus(r, a), d) \o Span(Plus(r, a), Plus(r, m), d) = Span(r, Plus(r, m), d)
        BY ZenonT(90), <1>1, <2>5, <4>1, Joined
      <4> QED
        BY <1>1, <4>1, <4>2
    <3>4. /\ Span(r, input.w, d) \in Seq(Key) /\ Span(input.w, e1, d) \in Seq(Key)
          /\ Span(r, e1, d) \in Seq(Key)
      BY ZenonT(90), <1>1, <2>4, <2>5, SpanIs
    <3>5. committed' = taken \o Span(r, e1, d)
      <4> DEFINE x == Span(r, input.w, d)
                 y == Span(input.w, e1, d)
      <4>1. committed = taken \o x /\ committed' = committed \o y /\ x \in Seq(Key) /\ y \in Seq(Key) /\ taken \in Seq(Key)
        BY <2>7, <3>1, <3>4
      <4> HIDE DEF x, y
      <4>2. (taken \o x) \o y = taken \o (x \o y)
        BY ZenonT(90), <4>1, Associates
      <4> QED
        BY <3>3, <4>1, <4>2 DEF x, y
    <3>6. committed' \in Seq(Key)
      BY <2>7, <3>4, <3>5
    <3>7. /\ rd' \in [ConsReader -> ReaderState]
          /\ \A p \in ConsReader : rd'[p].n <= rd'[p].target /\ rd'[p].at # "asleep"
      BY ZenonT(90), <3>1 DEF WakeReaders, ConsInv, Typed, ReaderState
    <3>8. Typed'
      BY <1>2, <3>2, <3>6, <3>7 DEF ConsInv, Typed
    <3>9. ConsTypeOK'
      <4>1. lock \in ConsReader \cup {0}
        BY DEF ConsInv, ConsoleSound, ConsTypeOK
      <4> QED
        BY <1>1, <1>2, <2>2, <2>4, <3>2, <4>1 DEF ConsTypeOK, Index
    <3>10. LinesInOrder' /\ FullIsReady' /\ NobodySleepsOnInput'
      BY <1>2, <3>2, <3>5, <3>7 DEF LinesInOrder, FullIsReady, NobodySleepsOnInput
    <3>11. EofIsZero'
      BY <1>2 DEF ConsInv, ConsoleSound, EofIsZero
    <3> QED
      BY <3>8, <3>9, <3>10, <3>11 DEF ConsInv, ConsoleSound
  <2>9. CASE ~EndsLine(c, e1)
    <3>1. /\ input' = [input EXCEPT !.buf = d, !.e = e1]
          /\ UNCHANGED <<rd, committed>>
      BY <1>4, <2>9 DEF TypeChar, d, e1
    <3>2. /\ input'.r = r /\ input'.w = input.w /\ input'.e = e1 /\ input'.buf = d
          /\ input' \in [buf : Buffer, r : Index, w : Index, e : Index]
      BY ZenonT(90), <2>4, <2>5, <3>1 DEF r, ConsInv, Typed
    <3>3. Typed'
      BY <1>2, <3>1, <3>2 DEF ConsInv, Typed
    <3>4. ConsTypeOK'
      <4>1. lock \in ConsReader \cup {0}
        BY DEF ConsInv, ConsoleSound, ConsTypeOK
      <4> QED
        BY <1>1, <1>2, <2>2, <2>4, <3>2, <4>1 DEF ConsTypeOK, Index
    <3>5. LinesInOrder'
      BY ZenonT(90), <1>2, <2>7, <3>1, <3>2 DEF LinesInOrder
    <3>6. FullIsReady'
      <4>1. e1 # Plus(r, INPUT_BUF)
        BY <2>9 DEF EndsLine, r
      <4>2. n + 1 # INPUT_BUF
        BY <2>3, <4>1
      <4> QED
        BY <2>4, <3>2, <4>2 DEF FullIsReady
    <3>7. NobodySleepsOnInput' /\ EofIsZero'
      BY <1>2, <3>1, <3>2 DEF r, ConsInv, ConsoleSound, NobodySleepsOnInput, EofIsZero
    <3> QED
      BY <3>3, <3>4, <3>5, <3>6, <3>7 DEF ConsInv, ConsoleSound
  <2> QED
    BY <2>8, <2>9
<1> QED
  BY <1>3, <1>4

-----------------------------------------------------------------------------
(* Readers. *)

LEMMA EofAppended ==
  ASSUME NEW s \in Seq(Key), NEW c \in Key
  PROVE  Cardinality({i \in 1..Len(Append(s, c)) : Append(s, c)[i] = "eof"}) =
         Cardinality({i \in 1..Len(s) : s[i] = "eof"}) + (IF c = "eof" THEN 1 ELSE 0)
<1> DEFINE S == {i \in 1..Len(s) : s[i] = "eof"}
           T == {i \in 1..Len(Append(s, c)) : Append(s, c)[i] = "eof"}
           n == Len(s) + 1
<1>1. IsFiniteSet(S) /\ Cardinality(S) \in Nat
  <2>1. IsFiniteSet(1..Len(s))
    BY FS_Interval
  <2>2. S \subseteq 1..Len(s)
    OBVIOUS
  <2> HIDE DEF S
  <2> QED
    BY ZenonT(90), <2>1, <2>2, FS_Subset, FS_CardinalityType
<1>2. n \notin S
  OBVIOUS
<1>3. T = IF c = "eof" THEN S \cup {n} ELSE S
  <2>1. Len(Append(s, c)) = n /\ Append(s, c)[n] = c
    OBVIOUS
  <2>2. \A i \in 1..Len(s) : Append(s, c)[i] = s[i]
    OBVIOUS
  <2>3. 1..n = (1..Len(s)) \cup {n}
    OBVIOUS
  <2> QED
    BY <2>1, <2>2, <2>3
<1> HIDE DEF S, T, n
<1>4. Cardinality(S \cup {n}) = Cardinality(S) + 1
  BY ZenonT(90), <1>1, <1>2, FS_AddElement
<1>5. Cardinality(T) = Cardinality(S) + (IF c = "eof" THEN 1 ELSE 0)
  BY <1>1, <1>3, <1>4
<1> QED
  BY ZenonT(90), <1>5 DEF S, T

(* The oldest byte is taken. *)
LEMMA TakeByte ==
  ASSUME ConsInv, input.r # input.w,
         input' = [input EXCEPT !.r = Plus(@, 1)],
         taken' = Append(taken, input.buf[Slot(input.r)]),
         UNCHANGED committed
  PROVE  /\ input' \in [buf : Buffer, r : Index, w : Index, e : Index]
         /\ taken' \in Seq(Key) /\ input.buf[Slot(input.r)] \in Key
         /\ Dist(input'.r, input'.w) <= Dist(input'.r, input'.e)
         /\ Dist(input'.r, input'.e) < INPUT_BUF
         /\ LinesInOrder'
<1> DEFINE r == input.r
           a == Dist(input.r, input.w)
           n == Dist(input.r, input.e)
           r1 == Plus(r, 1)
           c == input.buf[Slot(r)]
           b == input.buf
<1>1. /\ r \in Index /\ a \in Nat /\ n \in Nat /\ a <= n /\ n <= INPUT_BUF /\ n < WRAP
      /\ input.w = Plus(r, a) /\ input.e = Plus(r, n)
      /\ b \in Buffer /\ input.w \in Index
  BY Places
<1>2. c \in Key
  <2>1. Slot(Plus(r, 0)) \in 0..(INPUT_BUF - 1) /\ Plus(r, 0) = r
    BY ZenonT(90), <1>1, SlotOf, PlusZero
  <2> QED
    BY ZenonT(90), <1>1, <2>1 DEF Buffer
<1>3. r1 \in Index
  BY <1>1, PlusIs
<1>4. /\ input'.r = r1 /\ input'.w = input.w /\ input'.e = input.e /\ input'.buf = b
      /\ input' \in [buf : Buffer, r : Index, w : Index, e : Index]
  BY ZenonT(90), <1>1, <1>3 DEF ConsInv, Typed
<1>5. committed = taken \o Span(r, input.w, b) /\ committed \in Seq(Key) /\ taken \in Seq(Key)
  BY DEF ConsInv, ConsoleSound, LinesInOrder, Typed
<1>6. taken' = Append(taken, c) /\ committed' = committed
  OBVIOUS
<1> HIDE DEF r, a, n, r1, c, b
<1>7. a >= 1
  <2>1. a # 0
    BY <1>1, PlusZero DEF r
  <2> QED
    BY <1>1, <2>1
<1>8. Dist(r1, input.w) = a - 1 /\ Dist(r1, input.e) = n - 1
  <2>1. 1 \in Nat /\ 1 <= a /\ 1 <= n /\ a - 1 < WRAP /\ n - 1 < WRAP
    BY <1>1, <1>7, Sizes
  <2>2. Dist(Plus(r, 1), Plus(r, a)) = a - 1
    BY ZenonT(90), <1>1, <2>1, Between
  <2>3. Dist(Plus(r, 1), Plus(r, n)) = n - 1
    BY ZenonT(90), <1>1, <2>1, Between
  <2> QED
    BY <1>1, <2>2, <2>3 DEF r1
<1>9. Append(taken, c) = taken \o Span(r, r1, b)
  BY ZenonT(90), <1>1, <1>5, OneByte DEF c, r1, b
<1>10. Span(r, r1, b) \o Span(r1, input.w, b) = Span(r, input.w, b)
  <2>1. 1 \in Nat /\ 1 <= a /\ a < WRAP
    BY <1>1, <1>7, Sizes
  <2>2. Span(r, Plus(r, 1), b) \o Span(Plus(r, 1), Plus(r, a), b) = Span(r, Plus(r, a), b)
    BY ZenonT(90), <1>1, <2>1, Joined
  <2> QED
    BY <1>1, <2>2 DEF r1
<1>11. Span(r, r1, b) \in Seq(Key) /\ Span(r1, input.w, b) \in Seq(Key)
  BY <1>1, <1>3, SpanIs
<1>12. committed = Append(taken, c) \o Span(r1, input.w, b)
  <2> DEFINE x == Span(r, r1, b)
             y == Span(r1, input.w, b)
  <2>1. committed = taken \o (x \o y) /\ Append(taken, c) = taken \o x
    BY <1>5, <1>9, <1>10
  <2>2. x \in Seq(Key) /\ y \in Seq(Key) /\ taken \in Seq(Key)
    BY <1>5, <1>11
  <2> HIDE DEF x, y
  <2>3. (taken \o x) \o y = taken \o (x \o y)
    BY ZenonT(90), <2>2, Associates
  <2> QED
    BY <2>1, <2>3 DEF y
<1>13. LinesInOrder'
  BY SMTT(60), <1>4, <1>6, <1>12 DEF LinesInOrder
<1>14. taken' \in Seq(Key)
  BY <1>2, <1>5, <1>6
<1>15. a - 1 <= n - 1 /\ n - 1 < INPUT_BUF
  BY <1>1, Sizes
<1>16. input.buf[Slot(input.r)] \in Key
  BY <1>2 DEF c, r, b
<1> QED
  BY ZenonT(90), <1>4, <1>8, <1>13, <1>14, <1>15, <1>16

LEMMA TakeStep ==
  ASSUME ConsInv, NEW p \in ConsReader, Take(p)
  PROVE  ConsInv'
<1> DEFINE c == input.buf[Slot(input.r)]
           n == rd[p].n - 1
<1>1. /\ lock = p /\ rd[p].n > 0 /\ input.r # input.w /\ UNCHANGED committed
      /\ rd[p].n \in Int /\ rd[p].target \in Int /\ rd[p].n <= rd[p].target
  BY DEF Take, ConsInv, Typed, ReaderState
<1>2. \A q \in ConsReader : rd[q].at # "asleep"
  BY <1>1 DEF ConsInv, ConsoleSound, NobodySleepsOnInput
<1>3. CASE c = "eof" /\ PutBack(p)
  <2>1. UNCHANGED <<input, committed, taken, zeros>>
    BY <1>1, <1>3 DEF Take, Return, PutBack, ConsInv, Typed
  <2>2. lock' = 0 /\ rd' = [rd EXCEPT ![p].at = "out"]
    BY <1>3 DEF Take, Return
  <2> QED
    BY SMTT(60), <1>2, <2>1, <2>2, InputKept DEF ConsInv, Typed, ReaderState
<1>4. CASE ~(c = "eof" /\ PutBack(p))
  <2>1. input' = [input EXCEPT !.r = Plus(@, 1)] /\ taken' = Append(taken, c)
    BY <1>4 DEF Take
  <2>2. /\ input' \in [buf : Buffer, r : Index, w : Index, e : Index]
        /\ taken' \in Seq(Key) /\ c \in Key
        /\ Dist(input'.r, input'.w) <= Dist(input'.r, input'.e)
        /\ Dist(input'.r, input'.e) < INPUT_BUF
        /\ LinesInOrder'
    BY ZenonT(90), <1>1, <2>1, TakeByte
  <2>3. zeros' = zeros + IF c = "eof" THEN 1 ELSE 0
    <3>1. zeros \in Nat
      BY DEF ConsInv, Typed
    <3>2. CASE c = "eof"
      BY <1>1, <1>4, <3>1, <3>2 DEF Take, Return, PutBack
    <3>3. CASE c # "eof"
      BY <1>1, <3>1, <3>3 DEF Take, Return
    <3> QED
      BY <3>2, <3>3
  <2>4. /\ rd' \in [ConsReader -> ReaderState]
        /\ \A q \in ConsReader : rd'[q].n <= rd'[q].target /\ rd'[q].at # "asleep"
        /\ lock' \in ConsReader \cup {0}
    <3>1. \/ lock' = 0 /\ rd' = [rd EXCEPT ![p].at = "out"]
          \/ lock' = lock /\ rd' = [rd EXCEPT ![p].n = n]
      BY DEF Take, Return
    <3>2. n \in Int /\ n <= rd[p].target
      BY <1>1
    <3> HIDE DEF n
    <3>3. CASE lock' = 0 /\ rd' = [rd EXCEPT ![p].at = "out"]
      BY ZenonT(90), <1>2, <3>3 DEF ConsInv, Typed, ReaderState
    <3>4. CASE lock' = lock /\ rd' = [rd EXCEPT ![p].n = n]
      BY ZenonT(90), <1>1, <1>2, <3>2, <3>4 DEF ConsInv, Typed, ReaderState
    <3> QED
      BY <3>1, <3>3, <3>4
  <2>5. EofIsZero' /\ zeros' \in Nat
    <3>1. zeros = Cardinality({i \in 1..Len(taken) : taken[i] = "eof"}) /\ zeros \in Nat /\ taken \in Seq(Key)
      BY DEF ConsInv, ConsoleSound, EofIsZero, Typed
    <3>2. zeros' = Cardinality({i \in 1..Len(taken') : taken'[i] = "eof"})
      <4>1. /\ taken' = Append(taken, c) /\ c \in Key
            /\ zeros' = zeros + IF c = "eof" THEN 1 ELSE 0
        BY <2>1, <2>2, <2>3
      <4> HIDE DEF c
      <4>2. Cardinality({i \in 1..Len(Append(taken, c)) : Append(taken, c)[i] = "eof"}) =
            Cardinality({i \in 1..Len(taken) : taken[i] = "eof"}) + (IF c = "eof" THEN 1 ELSE 0)
        BY ZenonT(90), <3>1, <4>1, EofAppended
      <4> QED
        BY ZenonT(90), <3>1, <4>1, <4>2
    <3> QED
      BY <2>3, <3>1, <3>2 DEF EofIsZero
  <2>6. Typed'
    BY <1>1, <2>2, <2>4, <2>5 DEF ConsInv, Typed
  <2>7. ConsTypeOK' /\ FullIsReady'
    <3>1. {input'.r, input'.w, input'.e} \subseteq Index
      BY <2>2
    <3>2. Dist(input'.r, input'.e) \in Int
      BY <2>2, Reach DEF Index
    <3> QED
      BY <2>2, <2>4, <3>1, <3>2, Sizes DEF ConsTypeOK, FullIsReady, Index
  <2>8. NobodySleepsOnInput'
    BY <2>4 DEF NobodySleepsOnInput
  <2> QED
    BY <2>2, <2>5, <2>6, <2>7, <2>8 DEF ConsInv, ConsoleSound
<1> QED
  BY <1>3, <1>4

(* One reader moves, and is awake afterwards. *)
LEMMA OneReader ==
  ASSUME ConsInv, NEW p \in ConsReader, NEW x \in ReaderState, x.n <= x.target, x.at # "asleep",
         UNCHANGED <<input, committed, taken, zeros, lock>>, rd' = [rd EXCEPT ![p] = x]
  PROVE  ConsInv'
<1>1. rd' \in [ConsReader -> ReaderState] /\ \A q \in ConsReader : rd'[q].n <= rd'[q].target
  BY DEF ConsInv, Typed
<1>2. (\E q \in ConsReader : rd'[q].at = "asleep") => input.r = input.w
  BY DEF ConsInv, Typed, ConsoleSound, NobodySleepsOnInput
<1>3. lock' \in ConsReader \cup {0}
  BY DEF ConsInv, ConsoleSound, ConsTypeOK
<1> QED
  BY <1>1, <1>2, <1>3, InputKept

LEMMA OtherSteps ==
  ASSUME ConsInv, NEW p \in ConsReader,
         ReadEnter(p) \/ Wait(p) \/ KillReader(p) \/ \E n \in 1..MaxRead : Call(p, n)
  PROVE  ConsInv'
<1>1. CASE ReadEnter(p)
  BY <1>1, InputKept DEF ReadEnter, ConsInv, Typed, ConsoleSound, NobodySleepsOnInput
<1>2. CASE Wait(p)
  <2>1. UNCHANGED <<input, committed, taken, zeros>>
    BY <1>2 DEF Wait, Return, ConsInv, Typed
  <2>2. lock' = 0 /\ input.r = input.w
        /\ \E x \in {"out", "asleep"} : rd' = [rd EXCEPT ![p].at = x]
    BY <1>2 DEF Wait, Return
  <2>3. /\ rd' \in [ConsReader -> ReaderState]
        /\ \A q \in ConsReader : rd'[q].n <= rd'[q].target
    <3>1. PICK x \in {"out", "asleep"} : rd' = [rd EXCEPT ![p].at = x]
      BY ZenonT(90), <2>2
    <3> QED
      BY ZenonT(90), <3>1 DEF ConsInv, Typed, ReaderState
  <2> QED
    BY <2>1, <2>2, <2>3, InputKept
<1>3. CASE KillReader(p)
  <2>1. UNCHANGED <<input, committed, taken, zeros, lock>>
    BY <1>3 DEF KillReader
  <2> DEFINE x == [rd[p] EXCEPT !.killed = TRUE, !.at = IF @ = "asleep" THEN "ready" ELSE @]
  <2>2. rd' = [rd EXCEPT ![p] = x]
    BY ZenonT(90), <1>3 DEF KillReader, ConsInv, Typed
  <2>3. rd[p] \in ReaderState /\ rd[p].n <= rd[p].target
    BY DEF ConsInv, Typed
  <2>4. x \in ReaderState /\ x.at # "asleep" /\ x.n = rd[p].n /\ x.target = rd[p].target
    BY ZenonT(90), <2>3 DEF ReaderState
  <2> HIDE DEF x
  <2> QED
    BY ZenonT(90), <2>1, <2>2, <2>3, <2>4, OneReader
<1>4. ASSUME NEW n \in 1..MaxRead, Call(p, n) PROVE ConsInv'
  <2> DEFINE x == [rd[p] EXCEPT !.at = "ready", !.n = n, !.target = n]
  <2>1. UNCHANGED <<input, committed, taken, zeros, lock>> /\ rd' = [rd EXCEPT ![p] = x]
    BY ZenonT(90), <1>4 DEF Call
  <2>2. n \in Int /\ rd[p] \in ReaderState
    BY DEF ConsInv, Typed
  <2>3. x \in ReaderState /\ x.at = "ready" /\ x.n = n /\ x.target = n
    BY ZenonT(90), <2>2 DEF ReaderState
  <2>4. x.n <= x.target
    BY <2>2, <2>3
  <2> HIDE DEF x
  <2> QED
    BY ZenonT(90), <2>1, <2>3, <2>4, OneReader
<1> QED
  BY <1>1, <1>2, <1>3, <1>4

(* However readers, keys, interrupts and kills interleave, the readers        *)
(* together get every committed byte once and in order, nobody sleeps on      *)
(* input, and each ^D ends one call with 0 (consoleread() and consoleintr()). *)
THEOREM ConsoleIsSound == ConsSpec => []ConsoleSound
<1>1. ConsInv /\ [ConsNext]_consVars => ConsInv'
  <2> SUFFICES ASSUME ConsInv, [ConsNext]_consVars PROVE ConsInv'
    OBVIOUS
  <2>1. ASSUME NEW c \in Key, TypeChar(c) \/ Erase(c) PROVE ConsInv'
    BY <2>1, TypeStep, EraseStep
  <2>2. ASSUME NEW p \in ConsReader,
               ReadStep(p) \/ KillReader(p) \/ \E n \in 1..MaxRead : Call(p, n)
        PROVE  ConsInv'
    BY <2>2, TakeStep, OtherSteps DEF ReadStep
  <2>3. CASE UNCHANGED consVars
    BY <2>3, InputKept DEF consVars, ConsInv, Typed, ConsoleSound, NobodySleepsOnInput, ConsTypeOK
  <2> QED
    BY <2>1, <2>2, <2>3 DEF ConsNext
<1>2. ConsInv => ConsoleSound
  BY DEF ConsInv
<1> QED
  BY <1>1, <1>2, Begins, PTL DEF ConsSpec

-----------------------------------------------------------------------------
(* The share of every process, for any number of processes and tickets.       *)

(* The slices slot p may have had: a full turn in every completed pass, and   *)
(* what this pass has brought it so far.                                      *)
Quota(p) ==
  pass * tickets[p] +
    (IF p < cursor THEN tickets[p] ELSE IF p = cursor THEN turn - 1 ELSE 0)

(* A turn in progress has at most one slice per ticket; a process that always *)
(* computes has had its quota, any other one at most that.                    *)
IInv ==
  /\ TicketTypeOK
  /\ \A p \in Steady : runnable[p]
  /\ \A p \in Proc : p = cursor => turn <= tickets[p] + 1
  /\ cursor = N + 1 => turn = 1
  /\ \A p \in Proc : ticksAcc[p] <= Quota(p)
  /\ \A p \in Steady : ticksAcc[p] = Quota(p)

USE TicketAssumption DEF TicketAssumption, Proc

(* Before the first slice nobody has had any.                                 *)
LEMMA InitIInv == TicketInit => IInv
BY DEF TicketInit, IInv, TicketTypeOK, Quota

(* The quota is an integer.                                                   *)
LEMMA QuotaInt ==
  ASSUME TicketTypeOK, NEW p \in Proc
  PROVE  Quota(p) \in Int
<1>1. pass \in Nat /\ tickets[p] \in Nat /\ turn \in Nat
  BY DEF TicketTypeOK
<1>2. pass * tickets[p] \in Nat
  BY <1>1
<1> QED
  BY <1>1, <1>2 DEF Quota

(* A slice adds one to what its process has had and to its quota.             *)
LEMMA SliceStep ==
  ASSUME IInv, NEW p \in Proc, Slice(p)
  PROVE  IInv'
<1>1. /\ cursor = p /\ runnable[p] /\ turn <= tickets[p]
      /\ ticksAcc' = [ticksAcc EXCEPT ![p] = @ + 1] /\ turn' = turn + 1
      /\ UNCHANGED <<tickets, cursor, pass>>
  BY DEF Slice, MoreSlices
<1>2. runnable' \in [Proc -> BOOLEAN] /\ \A q \in Steady : runnable'[q]
  BY ZenonT(90) DEF Slice, IInv, TicketTypeOK
<1>3. TicketTypeOK'
  BY SMTT(60), <1>1, <1>2 DEF IInv, TicketTypeOK
<1>4. \A q \in Proc : Quota(q)' = Quota(q) + (IF q = p THEN 1 ELSE 0)
  <2> TAKE q \in Proc
  <2> DEFINE base == pass * tickets[q]
  <2>1. base \in Nat /\ tickets[q] \in Nat /\ turn \in Nat
    BY SMTT(60) DEF IInv, TicketTypeOK
  <2>2. base' = base
    BY <1>1
  <2>3. Quota(q) = base + (IF q < cursor THEN tickets[q] ELSE IF q = cursor THEN turn - 1 ELSE 0)
    BY DEF Quota
  <2>4. Quota(q)' = base + (IF q < cursor THEN tickets[q] ELSE IF q = cursor THEN turn ELSE 0)
    BY <1>1, <2>1, <2>2 DEF Quota
  <2> HIDE DEF base
  <2> QED
    BY <1>1, <2>1, <2>3, <2>4
<1>5. \A q \in Proc : ticksAcc'[q] = ticksAcc[q] + (IF q = p THEN 1 ELSE 0)
  BY SMTT(60), <1>1 DEF IInv, TicketTypeOK
<1>6. \A q \in Proc : Quota(q) \in Int /\ ticksAcc[q] \in Nat
  BY ZenonT(90), QuotaInt DEF IInv, TicketTypeOK
<1>7. \A q \in Proc : ticksAcc'[q] <= Quota(q)'
  BY <1>4, <1>5, <1>6 DEF IInv
<1>8. \A q \in Steady : ticksAcc'[q] = Quota(q)'
  BY <1>4, <1>5, <1>6 DEF IInv
<1> QED
  BY SMTT(60), <1>1, <1>2, <1>3, <1>7, <1>8 DEF IInv, TicketTypeOK

(* The end of a turn: a steady process has had all of it.                     *)
LEMMA NextSlotStep ==
  ASSUME IInv, NEW p \in Proc, NextSlot(p)
  PROVE  IInv'
<1>1. /\ cursor = p /\ ~(runnable[p] /\ turn <= tickets[p])
      /\ cursor' = cursor + 1 /\ turn' = 1
      /\ UNCHANGED <<tickets, ticksAcc, runnable, pass>>
  BY DEF NextSlot, MoreSlices
<1>2. TicketTypeOK'
  BY SMTT(60), <1>1 DEF IInv, TicketTypeOK
<1>3. \A q \in Proc : Quota(q) \in Int /\ Quota(q)' \in Int /\ Quota(q) <= Quota(q)'
                      /\ (q # p => Quota(q)' = Quota(q))
                      /\ (turn = tickets[q] + 1 => Quota(q)' = Quota(q))
  <2> TAKE q \in Proc
  <2> DEFINE base == pass * tickets[q]
  <2>1. base \in Nat /\ tickets[q] \in Nat /\ turn \in Nat
    BY DEF IInv, TicketTypeOK
  <2>2. base' = base
    BY <1>1
  <2>3. Quota(q) = base + (IF q < cursor THEN tickets[q] ELSE IF q = cursor THEN turn - 1 ELSE 0)
    BY DEF Quota
  <2>4. Quota(q)' = base + (IF q < cursor + 1 THEN tickets[q] ELSE 0)
    BY <1>1, <2>1, <2>2 DEF Quota
  <2>5. q = cursor => turn <= tickets[q] + 1
    BY DEF IInv
  <2> HIDE DEF base
  <2> QED
    BY <1>1, <2>1, <2>3, <2>4, <2>5
<1>4. p \in Steady => turn = tickets[p] + 1
  BY SMTT(60), <1>1 DEF IInv, TicketTypeOK
<1>5. \A q \in Proc : ticksAcc'[q] <= Quota(q)'
  <2> TAKE q \in Proc
  <2>1. ticksAcc[q] \in Nat /\ ticksAcc[q] <= Quota(q)
    BY ZenonT(90) DEF IInv, TicketTypeOK
  <2> QED
    BY <1>1, <1>3, <2>1
<1>6. \A q \in Steady : ticksAcc'[q] = Quota(q)'
  BY <1>1, <1>3, <1>4 DEF IInv
<1> QED
  BY SMTT(60), <1>1, <1>2, <1>5, <1>6 DEF IInv, TicketTypeOK

(* The end of a pass: everybody's full turn is counted.                       *)
LEMMA NextPassStep ==
  ASSUME IInv, NextPass
  PROVE  IInv'
<1>1. TicketTypeOK'
  BY SMTT(60) DEF NextPass, IInv, TicketTypeOK
<1>2. \A q \in Proc : Quota(q)' = Quota(q)
  <2> TAKE q \in Proc
  <2>1. Quota(q) = pass * tickets[q] + tickets[q]
    BY DEF NextPass, Quota
  <2>2. Quota(q)' = (pass + 1) * tickets[q]
    BY SMTT(60) DEF NextPass, IInv, TicketTypeOK, Quota
  <2>3. pass \in Nat /\ tickets[q] \in Nat
    BY SMTT(60) DEF IInv, TicketTypeOK
  <2>4. \A x, y \in Nat : (x + 1) * y = x * y + y
    OBVIOUS
  <2> QED
    BY ZenonT(90), <2>1, <2>2, <2>3, <2>4
<1> QED
  BY SMTT(60), <1>1, <1>2 DEF NextPass, IInv, TicketTypeOK

(* Being woken changes nobody's slices.                                       *)
LEMMA WakeStep ==
  ASSUME IInv, NEW p \in Proc, Wake(p)
  PROVE  IInv'
<1>1. TicketTypeOK' /\ \A q \in Steady : runnable'[q]
  BY ZenonT(90) DEF Wake, IInv, TicketTypeOK
<1>2. \A q \in Proc : Quota(q)' = Quota(q)
  BY DEF Wake, Quota
<1> QED
  BY <1>1, <1>2 DEF Wake, IInv

(* Every step of the scheduler keeps the quotas.                              *)
LEMMA NextIInv == IInv /\ [TicketNext]_ticketVars => IInv'
<1> SUFFICES ASSUME IInv, [TicketNext]_ticketVars PROVE IInv'
  OBVIOUS
<1>1. CASE UNCHANGED ticketVars
  BY ZenonT(90), <1>1 DEF ticketVars, IInv, TicketTypeOK, Quota
<1> QED
  BY <1>1, SliceStep, NextSlotStep, NextPassStep, WakeStep DEF TicketNext

(* Quotas are proportional to tickets up to one turn.                         *)
LEMMA QuotaShare ==
  ASSUME NEW r \in Nat, NEW s \in Nat, NEW t \in Nat, NEW a \in Nat, NEW b \in Nat,
         a <= s
  PROVE  (r * s + a) * t <= ((r * t + b) + t) * s
<1>1. (r * s + a) * t = r * s * t + a * t
  OBVIOUS
<1>2. ((r * t + b) + t) * s = r * s * t + b * s + s * t
  OBVIOUS
<1>3. a * t <= s * t /\ b * s >= 0
  OBVIOUS
<1>4. a * t \in Nat /\ s * t \in Nat /\ b * s \in Nat /\ r * s * t \in Nat
  OBVIOUS
<1> QED
  BY <1>1, <1>2, <1>3, <1>4

(* Slices within the quotas are shares within one turn.                       *)
LEMMA IInvFair == IInv => FairShare
<1> SUFFICES ASSUME IInv, NEW p \in Proc, NEW q \in Steady
             PROVE  ticksAcc[p] * tickets[q] <= (ticksAcc[q] + tickets[q]) * tickets[p]
  BY DEF FairShare
<1> DEFINE done(x) == IF x < cursor THEN tickets[x] ELSE IF x = cursor THEN turn - 1 ELSE 0
<1>1. pass \in Nat /\ tickets[p] \in Nat /\ tickets[q] \in Nat /\ ticksAcc[p] \in Nat
  BY SMTT(60) DEF IInv, TicketTypeOK
<1>2. done(p) \in Nat /\ done(q) \in Nat /\ done(p) <= tickets[p]
  BY SMTT(60) DEF IInv, TicketTypeOK
<1>3. ticksAcc[p] <= pass * tickets[p] + done(p) /\ ticksAcc[q] = pass * tickets[q] + done(q)
  BY DEF IInv, Quota
<1> HIDE DEF done
<1>4. (pass * tickets[p] + done(p)) * tickets[q]
        <= ((pass * tickets[q] + done(q)) + tickets[q]) * tickets[p]
  BY <1>1, <1>2, QuotaShare
<1>5. ticksAcc[p] * tickets[q] <= (pass * tickets[p] + done(p)) * tickets[q]
  <2>1. \A x, y, z \in Nat : x <= y => x * z <= y * z
    OBVIOUS
  <2> QED
    BY <1>1, <1>2, <1>3, <2>1
<1>6. ticksAcc[p] * tickets[q] \in Nat /\ (pass * tickets[p] + done(p)) * tickets[q] \in Nat
      /\ ((pass * tickets[q] + done(q)) + tickets[q]) * tickets[p] \in Nat
  BY <1>1, <1>2
<1>7. ticksAcc[p] * tickets[q] <= ((pass * tickets[q] + done(q)) + tickets[q]) * tickets[p]
  BY <1>4, <1>5, <1>6
<1> QED
  BY <1>3, <1>7

(* scheduler() gives every process its share of the CPU, whatever the others  *)
(* do and however many tickets they have.                                     *)
THEOREM ProportionalShare == TicketSpec => []FairShare
BY InitIInv, NextIInv, IInvFair, PTL DEF TicketSpec

-----------------------------------------------------------------------------
(* What is typed is what is read, for any number of keys and any bytes the    *)
(* controller holds.  Inductive is where the bytes that still wait will take  *)
(* kbdgetc(): the state it reaches after the last of them agrees with the     *)
(* keys that are down and, while no two keys of a modifier ever were, with    *)
(* all that was typed; on the way there it only adds characters.  A key that  *)
(* moves then adds codes behind a state that is known, whatever waits before. *)

Bits      == {"CTL", "SHIFT", "ALT", "CAPSLOCK", "NUMLOCK", "SCROLLLOCK", "E0ESC"}
Kinds     == {"SHIFT", "CTL", "ALT"}
MapKeys   == {"k1", "ka", "slash", "kp_div", "kp_enter", "up"}
PlainChar == {Charcode(bits)[k] : bits \in SUBSET Bits, k \in MapKeys} \cup {"NO"}
KbdChar   == PlainChar \cup {Upper(c) : c \in PlainChar}
KbdState  == [bits : SUBSET Bits, chars : Seq(KbdChar)]

(* What kbdgetc() makes of a byte; of a code without its escape and its high  *)
(* bit, pressed; and of one that is released.                                 *)
Stroke(s, data) ==
  LET bits == Toggle((s.bits \ {"E0ESC"}) \cup Shiftcode(data), Togglecode(data))
      c    == Char(bits, data)
  IN  [bits |-> bits, chars |-> IF c = "NO" THEN s.chars ELSE Append(s.chars, c)]

Byte(s, data) ==
  IF data = 224 THEN [bits |-> s.bits \cup {"E0ESC"}, chars |-> s.chars]
  ELSE IF data >= 128 THEN [bits |-> Released(data, s.bits), chars |-> s.chars]
  ELSE Stroke(s, IF "E0ESC" \in s.bits THEN data + 128 ELSE data)

(* kbdgetc() reads the bytes p from state s to state t; what it has stored    *)
(* before is a part of what it has stored then.                               *)
Before(a, b) == Len(a) <= Len(b) /\ \A i \in 1..Len(a) : a[i] = b[i]

Reads(p, s, t) ==
  \E st \in [0..Len(p) -> KbdState] :
    /\ st[0] = s /\ st[Len(p)] = t
    /\ \A n \in 1..Len(p) : st[n] = Byte(st[n - 1], p[n])
    /\ \A n \in 0..Len(p) : Before(st[n].chars, t.chars)

(* A state that agrees with the keys that are down, and with what was typed.  *)
DownOf(h, kind) == \E k \in h \cap Modifiers : KindOf[k] = kind

Agrees(t, h, c, tw, m) ==
  /\ t \in KbdState /\ "E0ESC" \notin t.bits
  /\ "CAPSLOCK" \in t.bits <=> c
  /\ \A kind \in Kinds : kind \in t.bits => DownOf(h, kind)
  /\ ~tw => /\ t.chars = m
            /\ \A kind \in Kinds : DownOf(h, kind) => kind \in t.bits

KbdInv ==
  /\ shift \in SUBSET Bits /\ chars \in Seq(KbdChar) /\ port \in Seq(Nat)
  /\ held \subseteq Keys \ {"pause"} /\ caps \in BOOLEAN /\ twice \in BOOLEAN
  /\ ~twice => \A j, k \in held \cap Modifiers : KindOf[j] = KindOf[k] => j = k
  /\ \E t \in KbdState : Reads(port, [bits |-> shift, chars |-> chars], t) /\ Agrees(t, held, caps, twice, meant)

-----------------------------------------------------------------------------
LEMMA KeyMaps ==
  /\ DOMAIN Maps = MapKeys
  /\ \A k, j \in MapKeys : Maps[k] = Maps[j] => k = j
  /\ \A k \in MapKeys : Maps[k] \in {2, 30, 53, 181, 156, 200}
  /\ "NO" # "1"
BY DEF Maps, MapKeys

LEMMA CharOfKey ==
  ASSUME NEW bits \in SUBSET Bits, NEW k \in MapKeys
  PROVE  Char(bits, Maps[k]) = IF "CAPSLOCK" \in bits THEN Upper(Charcode(bits)[k]) ELSE Charcode(bits)[k]
<1>1. {j \in DOMAIN Maps : Maps[j] = Maps[k]} = {k}
  BY KeyMaps
<1>2. (CHOOSE j \in {k} : TRUE) = k
  OBVIOUS
<1> QED BY <1>1, <1>2 DEF Char

LEMMA NoCharOf ==
  ASSUME NEW bits \in SUBSET Bits, NEW data \in Nat \ {2, 30, 53, 181, 156, 200}
  PROVE  Char(bits, data) = "NO"
<1>1. {j \in DOMAIN Maps : Maps[j] = data} = {}
  BY KeyMaps
<1> QED BY <1>1 DEF Char, Upper

LEMMA CharType ==
  ASSUME NEW bits \in SUBSET Bits, NEW data \in Nat
  PROVE  Char(bits, data) \in KbdChar
<1>1. ASSUME NEW k \in MapKeys, Maps[k] = data PROVE Char(bits, data) \in KbdChar
  <2>1. Charcode(bits)[k] \in PlainChar
    BY DEF PlainChar
  <2> QED BY <1>1, <2>1, CharOfKey DEF KbdChar
<1>2. ASSUME \A k \in MapKeys : Maps[k] # data PROVE Char(bits, data) \in KbdChar
  <2>1. {j \in DOMAIN Maps : Maps[j] = data} = {}
    BY <1>2, KeyMaps
  <2>2. Char(bits, data) = IF "CAPSLOCK" \in bits THEN Upper("NO") ELSE "NO"
    BY <2>1 DEF Char
  <2> QED BY <2>2 DEF KbdChar, PlainChar
<1> QED BY <1>1, <1>2

LEMMA StrokeType ==
  ASSUME NEW s \in KbdState, NEW data \in Nat
  PROVE  Stroke(s, data) \in KbdState /\ Before(s.chars, Stroke(s, data).chars)
<1> DEFINE bits == Toggle((s.bits \ {"E0ESC"}) \cup Shiftcode(data), Togglecode(data))
           c    == Char(bits, data)
           x    == IF c = "NO" THEN s.chars ELSE Append(s.chars, c)
<1>1. s.bits \in SUBSET Bits /\ s.chars \in Seq(KbdChar)
  BY DEF KbdState
<1>2. bits \in SUBSET Bits
  BY <1>1 DEF Toggle, Shiftcode, Togglecode, Bits
<1>3. c \in KbdChar
  BY <1>2, CharType
<1>4. Stroke(s, data) = [bits |-> bits, chars |-> x]
  BY DEF Stroke
<1> HIDE DEF c, bits
<1>5. x \in Seq(KbdChar) /\ Before(s.chars, x)
  BY <1>1, <1>3 DEF Before
<1> HIDE DEF x
<1> QED BY <1>2, <1>4, <1>5 DEF KbdState

LEMMA ByteType ==
  ASSUME NEW s \in KbdState, NEW data \in Nat
  PROVE  Byte(s, data) \in KbdState /\ Before(s.chars, Byte(s, data).chars)
<1>1. s.bits \in SUBSET Bits /\ s.chars \in Seq(KbdChar) /\ Before(s.chars, s.chars)
  BY DEF KbdState, Before
<1>2. CASE data = 224
  <2>1. Byte(s, data) = [bits |-> s.bits \cup {"E0ESC"}, chars |-> s.chars]
    BY <1>2 DEF Byte
  <2>2. s.bits \cup {"E0ESC"} \in SUBSET Bits
    BY <1>1 DEF Bits
  <2> QED BY <1>1, <2>1, <2>2 DEF KbdState
<1>3. CASE data # 224 /\ data >= 128
  <2>1. Byte(s, data) = [bits |-> Released(data, s.bits), chars |-> s.chars]
    BY <1>3 DEF Byte
  <2>2. Released(data, s.bits) \in SUBSET Bits
    BY <1>1 DEF Released
  <2> QED BY <1>1, <2>1, <2>2 DEF KbdState
<1>4. CASE data # 224 /\ ~(data >= 128)
  <2>1. Byte(s, data) = Stroke(s, IF "E0ESC" \in s.bits THEN data + 128 ELSE data)
    BY <1>4 DEF Byte
  <2>2. (IF "E0ESC" \in s.bits THEN data + 128 ELSE data) \in Nat
    OBVIOUS
  <2> QED BY ZenonT(90), <2>1, <2>2, StrokeType
<1> QED BY <1>2, <1>3, <1>4

-----------------------------------------------------------------------------
LEMMA BeforeTrans ==
  ASSUME NEW a \in Seq(KbdChar), NEW b \in Seq(KbdChar), NEW c \in Seq(KbdChar), Before(a, b), Before(b, c)
  PROVE  Before(a, c)
BY DEF Before

LEMMA ReadsNone == ASSUME NEW s \in KbdState PROVE Reads(<<>>, s, s)
<1> DEFINE st == [n \in 0..0 |-> s]
<1>1. st \in [0..Len(<<>>) -> KbdState] /\ st[0] = s /\ st[Len(<<>>)] = s
  OBVIOUS
<1>2. \A n \in 0..Len(<<>>) : Before(st[n].chars, s.chars)
  BY DEF KbdState, Before
<1> HIDE DEF st
<1> QED BY <1>1, <1>2 DEF Reads

(* One byte more.                                                             *)
LEMMA ReadsByte ==
  ASSUME NEW p \in Seq(Nat), NEW s, NEW t \in KbdState, NEW data \in Nat, Reads(p, s, t)
  PROVE  Reads(Append(p, data), s, Byte(t, data))
<1> DEFINE z == Len(p)
           q == Append(p, data)
           u == Byte(t, data)
<1>1. PICK st \in [0..z -> KbdState] :
        /\ st[0] = s /\ st[z] = t
        /\ \A n \in 1..z : st[n] = Byte(st[n - 1], p[n])
        /\ \A n \in 0..z : Before(st[n].chars, t.chars)
  BY ZenonT(90) DEF Reads
<1>2. u \in KbdState /\ Before(t.chars, u.chars)
  BY SMTT(60), ByteType
<1>3. z \in Nat /\ Len(q) = z + 1 /\ q[z + 1] = data /\ \A n \in 1..z : q[n] = p[n]
  OBVIOUS
<1> HIDE DEF u, q, z
<1> DEFINE sv == [n \in 0..(z + 1) |-> IF n = z + 1 THEN u ELSE st[n]]
<1>4. sv \in [0..Len(q) -> KbdState] /\ sv[0] = s /\ sv[Len(q)] = u
  BY <1>1, <1>2, <1>3
<1>5. ASSUME NEW n \in 1..Len(q) PROVE sv[n] = Byte(sv[n - 1], q[n])
  <2>1. CASE n = z + 1
    BY <2>1, <1>1, <1>3 DEF u
  <2>2. CASE n \in 1..z
    BY <2>2, <1>1, <1>3
  <2> QED BY <2>1, <2>2, <1>3
<1>6. ASSUME NEW n \in 0..Len(q) PROVE Before(sv[n].chars, u.chars)
  <2>1. CASE n = z + 1
    BY <2>1, <1>2, <1>3 DEF KbdState, Before
  <2>2. CASE n \in 0..z
    <3>1. sv[n] = st[n] /\ st[n] \in KbdState
      BY <2>2, <1>1, <1>3
    <3>2. st[n].chars \in Seq(KbdChar) /\ t.chars \in Seq(KbdChar) /\ u.chars \in Seq(KbdChar)
      BY <3>1, <1>2 DEF KbdState
    <3> QED BY <3>1, <3>2, <2>2, <1>1, <1>2, BeforeTrans
  <2> QED BY <2>1, <2>2, <1>3
<1> HIDE DEF sv
<1>7. Reads(q, s, u)
  BY ZenonT(90), <1>4, <1>5, <1>6 DEF Reads
<1> QED BY <1>7 DEF q, u

(* The byte at the head, read by kbdgetc().                                   *)
LEMMA ReadsTail ==
  ASSUME NEW p \in Seq(Nat), p # <<>>, NEW s, NEW t, Reads(p, s, t)
  PROVE  Reads(Tail(p), Byte(s, Head(p)), t)
<1> DEFINE z == Len(p)
           q == Tail(p)
<1>1. PICK st \in [0..z -> KbdState] :
        /\ st[0] = s /\ st[z] = t
        /\ \A n \in 1..z : st[n] = Byte(st[n - 1], p[n])
        /\ \A n \in 0..z : Before(st[n].chars, t.chars)
  BY ZenonT(90) DEF Reads
<1>2. z \in Nat \ {0} /\ Len(q) = z - 1 /\ Head(p) = p[1] /\ \A n \in 1..(z - 1) : q[n] = p[n + 1]
  OBVIOUS
<1> HIDE DEF q, z
<1> DEFINE sv == [n \in 0..(z - 1) |-> st[n + 1]]
<1>3. sv \in [0..Len(q) -> KbdState] /\ sv[Len(q)] = t
  BY <1>1, <1>2
<1>4. sv[0] = Byte(s, Head(p))
  BY <1>1, <1>2
<1>5. ASSUME NEW n \in 1..Len(q) PROVE sv[n] = Byte(sv[n - 1], q[n])
  <2>1. sv[n] = st[n + 1] /\ sv[n - 1] = st[n] /\ n + 1 \in 1..z /\ (n + 1) - 1 = n
    BY <1>2
  <2>2. st[n + 1] = Byte(st[(n + 1) - 1], p[n + 1])
    BY <2>1, <1>1
  <2> QED BY <2>1, <2>2, <1>2
<1>6. \A n \in 0..Len(q) : Before(sv[n].chars, t.chars)
  BY <1>1, <1>2
<1> HIDE DEF sv
<1>7. Reads(q, Byte(s, Head(p)), t)
  BY ZenonT(90), <1>3, <1>4, <1>5, <1>6 DEF Reads
<1> QED BY <1>7 DEF q

LEMMA ReadsStart ==
  ASSUME NEW p \in Seq(Nat), NEW s, NEW t, Reads(p, s, t)
  PROVE  Before(s.chars, t.chars) /\ (p = <<>> => s = t) /\ s \in KbdState
<1>1. PICK st \in [0..Len(p) -> KbdState] :
        /\ st[0] = s /\ st[Len(p)] = t
        /\ \A n \in 0..Len(p) : Before(st[n].chars, t.chars)
  BY ZenonT(90) DEF Reads
<1>2. 0 \in 0..Len(p) /\ (p = <<>> => Len(p) = 0)
  OBVIOUS
<1> QED BY <1>1, <1>2

(* Codes put behind each other.                                               *)
LEMMA BehindOne ==
  ASSUME NEW p \in Seq(Nat), NEW a \in Nat PROVE p \o <<a>> = Append(p, a)
OBVIOUS

LEMMA BehindTwo ==
  ASSUME NEW p \in Seq(Nat), NEW a \in Nat, NEW b \in Nat
  PROVE  p \o <<a, b>> = Append(Append(p, a), b)
<1>1. <<a, b>> = Append(<<a>>, b)
  OBVIOUS
<1>2. \A x, y \in Seq(Nat) : x \o Append(y, b) = Append(x \o y, b)
  BY SMTT(60)
<1>3. <<a>> \in Seq(Nat)
  OBVIOUS
<1> QED BY <1>1, <1>2, <1>3, BehindOne

LEMMA BehindNone == ASSUME NEW p \in Seq(Nat) PROVE p \o <<>> = p
OBVIOUS

LEMMA Behind ==
  ASSUME NEW p \in Seq(Nat), NEW x \in Seq(Nat), NEW y \in Seq(Nat)
  PROVE  p \o (x \o y) = (p \o x) \o y /\ p \o x \in Seq(Nat)
BY SMTT(60)

LEMMA BehindAll ==
  ASSUME NEW p \in Seq(Nat), NEW x \in Seq(Nat), NEW y \in Seq(Nat), NEW z \in Seq(Nat)
  PROVE  ((p \o x) \o y) \o z = p \o ((x \o y) \o z) /\ (x \o y) \o z \in Seq(Nat)
<1>1. x \o y \in Seq(Nat) /\ (p \o x) \o y = p \o (x \o y)
  BY SMTT(60)
<1>2. \A w \in Seq(Nat) : (p \o w) \o z = p \o (w \o z) /\ w \o z \in Seq(Nat)
  BY SMTT(60)
<1> QED BY <1>1, <1>2, ZenonT(90)

LEMMA ReadsOne ==
  ASSUME NEW p \in Seq(Nat), NEW s, NEW t \in KbdState, NEW a \in Nat, Reads(p, s, t)
  PROVE  Reads(p \o <<a>>, s, Byte(t, a))
BY ZenonT(90), ReadsByte, BehindOne

LEMMA ReadsTwo ==
  ASSUME NEW p \in Seq(Nat), NEW s, NEW t \in KbdState, NEW a \in Nat, NEW b \in Nat, Reads(p, s, t)
  PROVE  Reads(p \o <<a, b>>, s, Byte(Byte(t, a), b))
<1>1. Reads(Append(p, a), s, Byte(t, a)) /\ Append(p, a) \in Seq(Nat) /\ Byte(t, a) \in KbdState
  BY ReadsByte, ByteType
<1>2. Reads(Append(Append(p, a), b), s, Byte(Byte(t, a), b))
  BY ZenonT(90), <1>1, ReadsByte
<1> QED BY ZenonT(90), <1>2, BehindTwo

-----------------------------------------------------------------------------
(* What the codes of a key amount to.                                         *)
Data(k) == IF k \in E0 THEN Make[k] + 128 ELSE Make[k]
Untyped(s, data) == [bits |-> s.bits \ Shiftcode(data), chars |-> s.chars]

PlainKeys == Keys \ {"pause"}

LEMMA MakeCodes ==
  ASSUME NEW k \in PlainKeys
  PROVE  /\ Make[k] \in 2..72 /\ Make[k] + 128 \in Nat /\ Data(k) \in Nat
         /\ Make[k] < 128 /\ Make[k] + 128 # 224
<1>1. k \in {"lshift", "rshift", "lctl", "rctl", "ralt", "capslock", "k1", "ka", "slash", "kp_div", "kp_enter", "up"}
  BY KeyMaps DEF PlainKeys, Keys, Modifiers, KindOf, MapKeys
<1>2. Make[k] \in 2..72
  BY <1>1 DEF Make
<1> QED BY <1>2 DEF Data

LEMMA PlainDown ==
  ASSUME NEW t \in KbdState, "E0ESC" \notin t.bits, NEW a \in Nat, a < 128
  PROVE  Byte(t, a) = Stroke(t, a)
BY DEF Byte

LEMMA EscapedDown ==
  ASSUME NEW t \in KbdState, "E0ESC" \notin t.bits, NEW a \in Nat, a < 128
  PROVE  Byte(Byte(t, 224), a) = Stroke(t, a + 128)
<1> DEFINE u == [bits |-> t.bits \cup {"E0ESC"}, chars |-> t.chars]
<1>1. Byte(t, 224) = u
  BY DEF Byte
<1>2. u.bits \ {"E0ESC"} = t.bits \ {"E0ESC"} /\ u.chars = t.chars /\ "E0ESC" \in u.bits
  OBVIOUS
<1> HIDE DEF u
<1>3. Byte(u, a) = Stroke(u, a + 128)
  BY <1>2 DEF Byte
<1>4. Stroke(u, a + 128) = Stroke(t, a + 128)
  BY ZenonT(90), <1>2 DEF Stroke
<1> QED BY <1>1, <1>3, <1>4

LEMMA PlainUp ==
  ASSUME NEW t \in KbdState, "E0ESC" \notin t.bits, NEW a \in Nat, a >= 128, a # 224
  PROVE  Byte(t, a) = Untyped(t, a - 128)
<1>1. Byte(t, a) = [bits |-> Released(a, t.bits), chars |-> t.chars]
  BY DEF Byte
<1>2. Released(a, t.bits) = t.bits \ Shiftcode(a - 128)
  BY DEF Released, Unescaped
<1> QED BY <1>1, <1>2 DEF Untyped

LEMMA EscapedUp ==
  ASSUME NEW t \in KbdState, "E0ESC" \notin t.bits, NEW a \in Nat, a >= 128, a # 224
  PROVE  Byte(Byte(t, 224), a) = Untyped(t, a)
<1> DEFINE u == [bits |-> t.bits \cup {"E0ESC"}, chars |-> t.chars]
<1>1. Byte(t, 224) = u
  BY DEF Byte
<1>2. u.bits = t.bits \cup {"E0ESC"} /\ u.chars = t.chars
  OBVIOUS
<1> HIDE DEF u
<1>3. Byte(u, a) = [bits |-> Released(a, u.bits), chars |-> u.chars]
  BY DEF Byte
<1>4. Released(a, u.bits) = t.bits \ Shiftcode(a)
  BY <1>2 DEF Released, Unescaped
<1> QED BY ZenonT(90), <1>1, <1>2, <1>3, <1>4 DEF Untyped

LEMMA UntypedNothing ==
  ASSUME NEW t \in KbdState, NEW data, Shiftcode(data) = {}
  PROVE  Untyped(t, data) = t
BY DEF Untyped, KbdState

(* The cursor key's hidden shifts leave everything as it was.                 *)
LEMMA HiddenShift ==
  ASSUME NEW t \in KbdState, "E0ESC" \notin t.bits
  PROVE  Byte(Byte(t, 224), 170) = t
<1>1. Shiftcode(170) = {}
  BY DEF Shiftcode
<1> QED BY <1>1, EscapedUp, UntypedNothing

LEMMA HiddenShiftBack ==
  ASSUME NEW t \in KbdState, "E0ESC" \notin t.bits
  PROVE  Byte(Byte(t, 224), 42) = t
<1>1. Shiftcode(170) = {} /\ Togglecode(170) = {}
  BY DEF Shiftcode, Togglecode
<1>2. Char(t.bits, 170) = "NO"
  BY NoCharOf DEF KbdState
<1>3. Toggle((t.bits \ {"E0ESC"}) \cup {}, {}) = t.bits
  BY DEF Toggle
<1>4. Stroke(t, 170) = [bits |-> t.bits, chars |-> t.chars]
  BY ZenonT(90), <1>1, <1>2, <1>3 DEF Stroke
<1>5. Byte(Byte(t, 224), 42) = Stroke(t, 42 + 128)
  BY EscapedDown
<1> QED BY <1>4, <1>5 DEF KbdState

LEMMA Tuples ==
  ASSUME NEW a \in Nat, NEW b \in Nat
  PROVE  <<a>> \in Seq(Nat) /\ <<a, b>> \in Seq(Nat) /\ <<>> \in Seq(Nat)
OBVIOUS

LEMMA ReadsNothing ==
  ASSUME NEW p \in Seq(Nat), NEW s, NEW t, Reads(p, s, t)
  PROVE  Reads(p \o <<>>, s, t)
BY BehindNone

LEMMA DownReads ==
  ASSUME NEW p \in Seq(Nat), NEW s, NEW t \in KbdState, "E0ESC" \notin t.bits, Reads(p, s, t),
         NEW k \in PlainKeys
  PROVE  /\ Reads(p \o CodesDown(k), s, Stroke(t, Data(k)))
         /\ CodesDown(k) \in Seq(Nat)
<1> DEFINE a == Make[k]
           x == IF k = "up" /\ Down("SHIFT") THEN <<224, 170>> ELSE <<>>
           y == IF k \in E0 THEN <<224>> ELSE <<>>
           z == <<a>>
<1>1. CodesDown(k) = (x \o y) \o z
  BY DEF CodesDown, PlainKeys
<1>2. a \in Nat /\ a < 128 /\ 224 \in Nat /\ 170 \in Nat
  <2>1. a \in 2..72 /\ a < 128
    BY MakeCodes, ZenonT(90)
  <2> HIDE DEF a
  <2> QED BY <2>1
<1>3. Data(k) = IF k \in E0 THEN a + 128 ELSE a
  BY DEF Data
<1> HIDE DEF a
<1>4. x \in Seq(Nat) /\ y \in Seq(Nat) /\ z \in Seq(Nat)
  BY <1>2, Tuples
<1>5. Reads(p \o x, s, t)
  <2>1. CASE k = "up" /\ Down("SHIFT")
    <3>1. Reads(p \o <<224, 170>>, s, Byte(Byte(t, 224), 170))
      BY <1>2, ReadsTwo
    <3> QED BY <2>1, <3>1, HiddenShift
  <2>2. CASE ~(k = "up" /\ Down("SHIFT"))
    BY ZenonT(90), <2>2, ReadsNothing
  <2> QED BY <2>1, <2>2
<1> HIDE DEF x
<1>6. p \o x \in Seq(Nat)
  BY <1>4, Behind
<1>7. CASE k \in E0
  <2>1. y = <<224>>
    BY <1>7
  <2>2. Reads((p \o x) \o y, s, Byte(t, 224)) /\ Byte(t, 224) \in KbdState
    BY ZenonT(90), <2>1, <1>2, <1>5, <1>6, ReadsOne, ByteType
  <2> HIDE DEF y
  <2>3. (p \o x) \o y \in Seq(Nat)
    BY <1>4, <1>6, Behind
  <2>4. Reads(((p \o x) \o y) \o z, s, Byte(Byte(t, 224), a))
    BY ZenonT(90), <2>2, <2>3, <1>2, ReadsOne
  <2>5. Byte(Byte(t, 224), a) = Stroke(t, Data(k))
    BY <1>7, <1>2, <1>3, EscapedDown
  <2> HIDE DEF z
  <2>6. ((p \o x) \o y) \o z = p \o CodesDown(k) /\ CodesDown(k) \in Seq(Nat)
    <3>1. ((p \o x) \o y) \o z = p \o ((x \o y) \o z) /\ (x \o y) \o z \in Seq(Nat)
      BY ZenonT(90), <1>4, BehindAll
    <3> QED BY <1>1, <3>1, ZenonT(90)
  <2> QED BY <2>4, <2>5, <2>6, ZenonT(90)
<1>8. CASE k \notin E0
  <2>1. y = <<>>
    BY <1>8
  <2>2. Reads((p \o x) \o y, s, t)
    BY ZenonT(90), <2>1, <1>5, <1>6, ReadsNothing
  <2> HIDE DEF y
  <2>3. (p \o x) \o y \in Seq(Nat)
    BY <1>4, <1>6, Behind
  <2>4. Reads(((p \o x) \o y) \o z, s, Byte(t, a))
    BY ZenonT(90), <2>2, <2>3, <1>2, ReadsOne
  <2>5. Byte(t, a) = Stroke(t, Data(k))
    BY <1>8, <1>2, <1>3, PlainDown
  <2> HIDE DEF z
  <2>6. ((p \o x) \o y) \o z = p \o CodesDown(k) /\ CodesDown(k) \in Seq(Nat)
    <3>1. ((p \o x) \o y) \o z = p \o ((x \o y) \o z) /\ (x \o y) \o z \in Seq(Nat)
      BY <1>4, BehindAll
    <3> QED BY <1>1, <3>1, ZenonT(90)
  <2> QED BY <2>4, <2>5, <2>6, ZenonT(90)
<1> QED BY <1>7, <1>8

LEMMA UpReads ==
  ASSUME NEW p \in Seq(Nat), NEW s, NEW t \in KbdState, "E0ESC" \notin t.bits, Reads(p, s, t),
         NEW k \in PlainKeys
  PROVE  /\ Reads(p \o CodesUp(k), s, Untyped(t, Data(k)))
         /\ CodesUp(k) \in Seq(Nat)
<1> DEFINE a == Make[k] + 128
           u == Untyped(t, Data(k))
           x == IF k \in E0 THEN <<224>> ELSE <<>>
           y == <<a>>
           z == IF k = "up" /\ Down("SHIFT") THEN <<224, 42>> ELSE <<>>
<1>1. CodesUp(k) = (x \o y) \o z
  BY DEF CodesUp
<1>2. a \in Nat /\ a >= 128 /\ a # 224 /\ 224 \in Nat /\ 42 \in Nat
  <2>1. PICK n \in 2..72 : a = n + 128
    BY MakeCodes, ZenonT(90)
  <2> HIDE DEF a, u, x, y, z
  <2>2. a \in Nat /\ a >= 128 /\ a # 224
    BY <2>1
  <2> QED BY <2>2
<1>3. Data(k) = IF k \in E0 THEN a ELSE a - 128
  <2>1. Make[k] \in 2..72
    BY MakeCodes, ZenonT(90)
  <2>2. \A n \in 2..72 : (n + 128) - 128 = n
    OBVIOUS
  <2>3. a - 128 = Make[k]
    BY ZenonT(90), <2>1, <2>2
  <2> QED BY <2>3 DEF Data
<1>4. u \in KbdState /\ "E0ESC" \notin u.bits
  BY DEF Untyped, KbdState
<1>5. u = Untyped(t, Data(k))
  OBVIOUS
<1> HIDE DEF a, u
<1>6. x \in Seq(Nat) /\ y \in Seq(Nat) /\ z \in Seq(Nat)
  BY <1>2, Tuples
<1> HIDE DEF z
<1>7. p \o x \in Seq(Nat) /\ (p \o x) \o y \in Seq(Nat)
  <2> HIDE DEF x, y
  <2> QED BY <1>6, Behind
<1>8. Reads((p \o x) \o y, s, u)
  <2>1. CASE k \in E0
    <3>1. Reads(p \o x, s, Byte(t, 224)) /\ Byte(t, 224) \in KbdState
      BY <2>1, <1>2, ReadsOne, ByteType
    <3> HIDE DEF x
    <3>2. Reads((p \o x) \o y, s, Byte(Byte(t, 224), a))
      BY ZenonT(90), <3>1, <1>2, <1>7, ReadsOne
    <3>3. Byte(Byte(t, 224), a) = u
      BY <2>1, <1>2, <1>3, <1>5, EscapedUp
    <3> QED BY <3>2, <3>3
  <2>2. CASE k \notin E0
    <3>1. Reads(p \o x, s, t)
      BY <2>2, ReadsNothing
    <3> HIDE DEF x
    <3>2. Reads((p \o x) \o y, s, Byte(t, a))
      BY ZenonT(90), <3>1, <1>2, <1>7, ReadsOne
    <3>3. Byte(t, a) = u
      BY <2>2, <1>2, <1>3, <1>5, PlainUp
    <3> QED BY <3>2, <3>3
  <2> QED BY <2>1, <2>2
<1> HIDE DEF x, y
<1>9. Reads(((p \o x) \o y) \o z, s, u)
  <2>1. CASE k = "up" /\ Down("SHIFT")
    <3>1. Reads(((p \o x) \o y) \o <<224, 42>>, s, Byte(Byte(u, 224), 42))
      BY ZenonT(90), <1>2, <1>4, <1>7, <1>8, ReadsTwo
    <3>2. Byte(Byte(u, 224), 42) = u
      BY <1>4, HiddenShiftBack
    <3> QED BY <2>1, <3>1, <3>2 DEF z
  <2>2. CASE ~(k = "up" /\ Down("SHIFT"))
    <3>1. z = <<>>
      BY <2>2 DEF z
    <3> QED BY <3>1, <1>7, <1>8, ReadsNothing
  <2> QED BY <2>1, <2>2
<1>10. ((p \o x) \o y) \o z = p \o CodesUp(k) /\ CodesUp(k) \in Seq(Nat)
  <2>1. ((p \o x) \o y) \o z = p \o ((x \o y) \o z) /\ (x \o y) \o z \in Seq(Nat)
    BY ZenonT(90), <1>6, BehindAll
  <2> QED BY <1>1, <2>1, ZenonT(90)
<1> QED BY <1>5, <1>9, <1>10, ZenonT(90)

-----------------------------------------------------------------------------
(* Pause: its codes press and release other keys, and change no more than the  *)
(* Num Lock bit.                                                              *)
Paused(t) == IF Down("CTL") THEN t ELSE [bits |-> Toggle(t.bits, {"NUMLOCK"}), chars |-> t.chars]

LEMMA ReadsFour ==
  ASSUME NEW p \in Seq(Nat), NEW s, NEW t \in KbdState, Reads(p, s, t),
         NEW a \in Nat, NEW b \in Nat, NEW c \in Nat, NEW d \in Nat
  PROVE  /\ Reads(p \o <<a, b, c, d>>, s, Byte(Byte(Byte(Byte(t, a), b), c), d))
         /\ p \o <<a, b, c, d>> \in Seq(Nat)
<1> DEFINE u == Byte(Byte(t, a), b)
<1>1. u \in KbdState
  BY ByteType
<1>2. <<a, b>> \in Seq(Nat) /\ <<c, d>> \in Seq(Nat)
  BY Tuples
<1>3. Reads(p \o <<a, b>>, s, u)
  BY ReadsTwo
<1>4. p \o <<a, b>> \in Seq(Nat)
  BY <1>2, Behind
<1>5. u = Byte(Byte(t, a), b)
  OBVIOUS
<1> HIDE DEF u
<1>6. Reads((p \o <<a, b>>) \o <<c, d>>, s, Byte(Byte(u, c), d))
  BY ZenonT(90), <1>1, <1>3, <1>4, ReadsTwo
<1>7. (p \o <<a, b>>) \o <<c, d>> \in Seq(Nat)
  BY <1>2, <1>4, Behind
<1>8. p \o <<a, b, c, d>> = (p \o <<a, b>>) \o <<c, d>>
  <2>1. <<a, b, c, d>> = <<a, b>> \o <<c, d>>
    OBVIOUS
  <2>2. \A x, y \in Seq(Nat) : p \o (x \o y) = (p \o x) \o y
    BY SMTT(60)
  <2> QED BY <1>2, <2>1, <2>2, ZenonT(90)
<1> QED BY <1>5, <1>6, <1>7, <1>8, ZenonT(90)

LEMMA ReadsSix ==
  ASSUME NEW p \in Seq(Nat), NEW s, NEW t \in KbdState, Reads(p, s, t),
         NEW a \in Nat, NEW b \in Nat, NEW c \in Nat, NEW d \in Nat, NEW e \in Nat, NEW f \in Nat
  PROVE  /\ Reads(p \o <<a, b, c, d, e, f>>, s, Byte(Byte(Byte(Byte(Byte(Byte(t, a), b), c), d), e), f))
         /\ p \o <<a, b, c, d, e, f>> \in Seq(Nat)
<1> DEFINE u == Byte(Byte(Byte(Byte(t, a), b), c), d)
           q == p \o <<a, b, c, d>>
<1>1. u \in KbdState
  <2>1. Byte(Byte(t, a), b) \in KbdState
    BY ByteType
  <2> HIDE DEF u
  <2> QED BY <2>1, ByteType DEF u
<1>2. <<e, f>> \in Seq(Nat)
  BY Tuples
<1>3. Reads(q, s, u) /\ q \in Seq(Nat)
  BY ReadsFour
<1>4. u = Byte(Byte(Byte(Byte(t, a), b), c), d) /\ p \o <<a, b, c, d, e, f>> = q \o <<e, f>>
  <2>1. <<a, b, c, d, e, f>> = <<a, b, c, d>> \o <<e, f>>
    BY SMTT(60)
  <2>2. \A x, y \in Seq(Nat) : p \o (x \o y) = (p \o x) \o y
    BY SMTT(60)
  <2>3. <<a, b, c, d>> \in Seq(Nat)
    OBVIOUS
  <2> QED BY <1>2, <2>1, <2>2, <2>3, ZenonT(90)
<1> HIDE DEF u, q
<1>5. Reads(q \o <<e, f>>, s, Byte(Byte(u, e), f))
  BY <1>1, <1>3, ReadsTwo
<1>6. q \o <<e, f>> \in Seq(Nat)
  BY <1>2, <1>3, Behind
<1> QED BY <1>4, <1>5, <1>6, ZenonT(90)

(* An escaped code that kbdgetc() knows nothing of.                           *)
LEMMA EscapedNothing ==
  ASSUME NEW t \in KbdState, "E0ESC" \notin t.bits
  PROVE  Byte(Byte(Byte(Byte(t, 224), 70), 224), 198) = t
<1>1. Shiftcode(198) = {} /\ Togglecode(198) = {}
  BY DEF Shiftcode, Togglecode
<1>2. Char(t.bits, 198) = "NO"
  BY NoCharOf DEF KbdState
<1>3. Toggle((t.bits \ {"E0ESC"}) \cup {}, {}) = t.bits
  BY DEF Toggle
<1>4. Stroke(t, 198) = [bits |-> t.bits, chars |-> t.chars]
  BY ZenonT(90), <1>1, <1>2, <1>3 DEF Stroke
<1>5. Byte(Byte(t, 224), 70) = Stroke(t, 70 + 128)
  BY EscapedDown
<1>6. Byte(Byte(t, 224), 70) = t
  BY <1>4, <1>5 DEF KbdState
<1>7. Byte(Byte(t, 224), 198) = t
  BY <1>1, EscapedUp, UntypedNothing
<1> QED BY <1>6, <1>7

(* The codes of Control and Num Lock, pressed and released.                   *)
LEMMA NumLocked ==
  ASSUME NEW t \in KbdState, "E0ESC" \notin t.bits, "CTL" \notin t.bits
  PROVE  Byte(Byte(Byte(Byte(Byte(Byte(t, 225), 29), 69), 225), 157), 197)
         = [bits |-> Toggle(t.bits, {"NUMLOCK"}), chars |-> t.chars]
<1> DEFINE u == [bits |-> t.bits \cup {"CTL"}, chars |-> t.chars]
           v == [bits |-> Toggle(t.bits \cup {"CTL"}, {"NUMLOCK"}), chars |-> t.chars]
           w == [bits |-> Toggle(t.bits, {"NUMLOCK"}), chars |-> t.chars]
<1>1. t.bits \in SUBSET Bits /\ t.chars \in Seq(KbdChar)
  BY DEF KbdState
<1>2. u \in KbdState /\ v \in KbdState /\ w \in KbdState
  BY <1>1 DEF KbdState, Bits, Toggle
<1>3. /\ u.bits = t.bits \cup {"CTL"} /\ u.chars = t.chars /\ "E0ESC" \notin u.bits
      /\ v.bits = Toggle(t.bits \cup {"CTL"}, {"NUMLOCK"}) /\ v.chars = t.chars /\ "E0ESC" \notin v.bits
      /\ w.bits = Toggle(t.bits, {"NUMLOCK"}) /\ w.chars = t.chars /\ "E0ESC" \notin w.bits
  BY DEF Toggle
<1>4. v.bits \ {"CTL"} = w.bits
  BY <1>3 DEF Toggle
<1>5. /\ Shiftcode(97) = {} /\ Shiftcode(29) = {"CTL"} /\ Togglecode(29) = {}
      /\ Shiftcode(69) = {} /\ Togglecode(69) = {"NUMLOCK"}
  BY DEF Shiftcode, Togglecode
<1>6. u = [bits |-> u.bits, chars |-> u.chars] /\ v = [bits |-> v.bits, chars |-> v.chars]
      /\ w = [bits |-> w.bits, chars |-> w.chars]
  OBVIOUS
<1>7. w = [bits |-> Toggle(t.bits, {"NUMLOCK"}), chars |-> t.chars]
  OBVIOUS
<1> HIDE DEF u, v, w
<1>8. Byte(t, 225) = t
  BY <1>5, PlainUp, UntypedNothing
<1>9. Byte(t, 29) = u
  <2>1. Char(u.bits, 29) = "NO"
    BY <1>2, NoCharOf DEF KbdState
  <2>2. Toggle((t.bits \ {"E0ESC"}) \cup {"CTL"}, {}) = u.bits
    BY <1>3 DEF Toggle
  <2>3. Stroke(t, 29) = [bits |-> u.bits, chars |-> t.chars]
    BY ZenonT(90), <1>5, <2>1, <2>2 DEF Stroke
  <2>4. Byte(t, 29) = Stroke(t, 29)
    BY PlainDown
  <2> QED BY <2>3, <2>4, <1>3, <1>6, ZenonT(90)
<1>10. Byte(u, 69) = v
  <2>1. Char(v.bits, 69) = "NO"
    BY <1>2, NoCharOf DEF KbdState
  <2>2. Toggle((u.bits \ {"E0ESC"}) \cup {}, {"NUMLOCK"}) = v.bits
    BY <1>3 DEF Toggle
  <2>3. Stroke(u, 69) = [bits |-> v.bits, chars |-> u.chars]
    BY ZenonT(90), <1>5, <2>1, <2>2 DEF Stroke
  <2>4. Byte(u, 69) = Stroke(u, 69)
    BY <1>2, <1>3, PlainDown
  <2> QED BY <2>3, <2>4, <1>3, <1>6, ZenonT(90)
<1>11. Byte(v, 225) = v
  BY <1>2, <1>3, <1>5, PlainUp, UntypedNothing
<1>12. Byte(v, 157) = w
  <2>1. Byte(v, 157) = Untyped(v, 29)
    BY <1>2, <1>3, PlainUp
  <2>2. Untyped(v, 29) = [bits |-> w.bits, chars |-> w.chars]
    BY ZenonT(90), <1>3, <1>4, <1>5 DEF Untyped
  <2> QED BY <2>1, <2>2, <1>6
<1>13. Byte(w, 197) = w
  <2>1. Byte(w, 197) = Untyped(w, 69)
    BY <1>2, <1>3, PlainUp
  <2> QED BY <2>1, <1>2, <1>5, UntypedNothing
<1> QED BY <1>7, <1>8, <1>9, <1>10, <1>11, <1>12, <1>13

LEMMA PauseReads ==
  ASSUME NEW p \in Seq(Nat), NEW s, NEW t \in KbdState, "E0ESC" \notin t.bits, Reads(p, s, t),
         "CTL" \in t.bits => Down("CTL")
  PROVE  /\ Reads(p \o CodesDown("pause"), s, Paused(t))
         /\ p \o CodesDown("pause") \in Seq(Nat)
<1>1. CASE Down("CTL")
  <2>1. CodesDown("pause") = <<224, 70, 224, 198>> /\ Paused(t) = t
    BY <1>1 DEF CodesDown, Paused
  <2>2. Reads(p \o <<224, 70, 224, 198>>, s, Byte(Byte(Byte(Byte(t, 224), 70), 224), 198))
        /\ p \o <<224, 70, 224, 198>> \in Seq(Nat)
    <3>1. PICK a, b, c \in Nat : a = 224 /\ b = 70 /\ c = 198
      OBVIOUS
    <3>2. Reads(p \o <<a, b, a, c>>, s, Byte(Byte(Byte(Byte(t, a), b), a), c)) /\ p \o <<a, b, a, c>> \in Seq(Nat)
      BY ReadsFour, ZenonT(90)
    <3> QED BY <3>1, <3>2, ZenonT(90)
  <2>3. Byte(Byte(Byte(Byte(t, 224), 70), 224), 198) = t
    BY EscapedNothing, ZenonT(90)
  <2> QED BY <2>1, <2>2, <2>3, ZenonT(90)
<1>2. CASE ~Down("CTL")
  <2>1. CodesDown("pause") = <<225, 29, 69, 225, 157, 197>>
        /\ Paused(t) = [bits |-> Toggle(t.bits, {"NUMLOCK"}), chars |-> t.chars]
    BY <1>2 DEF CodesDown, Paused
  <2>2. Reads(p \o <<225, 29, 69, 225, 157, 197>>, s,
              Byte(Byte(Byte(Byte(Byte(Byte(t, 225), 29), 69), 225), 157), 197))
        /\ p \o <<225, 29, 69, 225, 157, 197>> \in Seq(Nat)
    <3>1. PICK a, b, c, d, e \in Nat : a = 225 /\ b = 29 /\ c = 69 /\ d = 157 /\ e = 197
      OBVIOUS
    <3>2. /\ Reads(p \o <<a, b, c, a, d, e>>, s, Byte(Byte(Byte(Byte(Byte(Byte(t, a), b), c), a), d), e))
          /\ p \o <<a, b, c, a, d, e>> \in Seq(Nat)
      BY ReadsSix, ZenonT(90)
    <3> QED BY <3>1, <3>2, ZenonT(90)
  <2> QED BY ZenonT(90), <2>1, <2>2, <1>2, NumLocked
<1> QED BY <1>1, <1>2

-----------------------------------------------------------------------------
(* A state that agrees with the keys, when one of them moves.                 *)
LEMMA KeyMeans ==
  ASSUME NEW t \in KbdState, NEW m, Agrees(t, held, caps, FALSE, m), caps \in BOOLEAN,
         NEW k \in MapKeys
  PROVE  Char(t.bits, Maps[k]) = Means(k)
<1>1. t.bits \in SUBSET Bits
  BY DEF KbdState
<1>2. ("CTL" \in t.bits <=> Down("CTL")) /\ ("SHIFT" \in t.bits <=> Down("SHIFT"))
  BY DEF Agrees, Kinds, DownOf, Down
<1>3. "CAPSLOCK" \in t.bits <=> caps
  BY DEF Agrees
<1>4. Charcode(t.bits) = IF Down("CTL") THEN Ctlmap ELSE IF Down("SHIFT") THEN Shiftmap ELSE Normalmap
  BY <1>2 DEF Charcode
<1>5. Char(t.bits, Maps[k]) = IF "CAPSLOCK" \in t.bits THEN Upper(Charcode(t.bits)[k]) ELSE Charcode(t.bits)[k]
  BY <1>1, CharOfKey
<1> QED BY <1>3, <1>4, <1>5 DEF Means

LEMMA DataOfMap ==
  ASSUME NEW k \in MapKeys
  PROVE  /\ Data(k) = Maps[k] /\ Shiftcode(Data(k)) = {} /\ Togglecode(Data(k)) = {}
         /\ k \in PlainKeys /\ k \notin Modifiers /\ k # "capslock"
BY DEF MapKeys, Data, Maps, Make, E0, Shiftcode, Togglecode, PlainKeys, Keys, Modifiers, KindOf

LEMMA DataOfModifier ==
  ASSUME NEW k \in Modifiers
  PROVE  /\ Shiftcode(Data(k)) = {KindOf[k]} /\ Togglecode(Data(k)) = {} /\ KindOf[k] \in Kinds
         /\ Data(k) \in Nat \ {2, 30, 53, 181, 156, 200}
         /\ k \in PlainKeys /\ k \notin MapKeys /\ k # "capslock"
BY DEF MapKeys, Data, Make, E0, Shiftcode, Togglecode, PlainKeys, Keys, Modifiers, KindOf, Kinds

LEMMA DataOfCaps ==
  /\ Data("capslock") = 58 /\ Shiftcode(58) = {} /\ Togglecode(58) = {"CAPSLOCK"}
  /\ "capslock" \in PlainKeys /\ "capslock" \notin MapKeys /\ "capslock" \notin Modifiers
BY DEF MapKeys, Data, Make, E0, Shiftcode, Togglecode, PlainKeys, Keys, Modifiers, KindOf

LEMMA KeyKinds ==
  ASSUME NEW k \in PlainKeys
  PROVE  k \in MapKeys \/ k \in Modifiers \/ k = "capslock"
BY KeyMaps DEF PlainKeys, Keys

LEMMA StillDown ==
  ASSUME NEW h, NEW k, k \notin Modifiers, NEW kind
  PROVE  (DownOf(h \cup {k}, kind) <=> DownOf(h, kind)) /\ (DownOf(h \ {k}, kind) <=> DownOf(h, kind))
BY DEF DownOf

LEMMA MapDown ==
  ASSUME NEW t \in KbdState, Agrees(t, held, caps, twice, meant), caps \in BOOLEAN, twice \in BOOLEAN,
         NEW k \in MapKeys
  PROVE  Agrees(Stroke(t, Data(k)), held \cup {k}, caps, twice,
                IF Means(k) # "NO" THEN Append(meant, Means(k)) ELSE meant)
<1> DEFINE u == Stroke(t, Data(k))
           c == Char(t.bits, Maps[k])
<1>1. u \in KbdState /\ Data(k) = Maps[k]
  BY MakeCodes, DataOfMap, StrokeType
<1>2. "E0ESC" \notin t.bits
  BY DEF Agrees
<1>3. Toggle((t.bits \ {"E0ESC"}) \cup {}, {}) = t.bits
  BY <1>2 DEF Toggle
<1>4. u = [bits |-> t.bits, chars |-> IF c = "NO" THEN t.chars ELSE Append(t.chars, c)]
  BY ZenonT(90), <1>1, <1>3, DataOfMap DEF Stroke
<1> HIDE DEF c
<1>5. u.bits = t.bits /\ u.chars = IF c = "NO" THEN t.chars ELSE Append(t.chars, c)
  BY <1>4
<1> HIDE DEF u
<1>6. ASSUME ~twice PROVE u.chars = IF Means(k) # "NO" THEN Append(meant, Means(k)) ELSE meant
  <2>1. Agrees(t, held, caps, FALSE, meant)
    BY <1>6 DEF Agrees
  <2>2. c = Means(k)
    BY ZenonT(90), <2>1, KeyMeans DEF c
  <2>3. t.chars = meant
    BY <2>1 DEF Agrees
  <2> QED BY <2>2, <2>3, <1>5
<1>7. \A kind : DownOf(held \cup {k}, kind) <=> DownOf(held, kind)
  BY SMTT(60), DataOfMap, StillDown
<1>8. Agrees(u, held \cup {k}, caps, twice, IF Means(k) # "NO" THEN Append(meant, Means(k)) ELSE meant)
  BY SMTT(60), <1>1, <1>2, <1>5, <1>6, <1>7 DEF Agrees
<1> QED BY <1>8 DEF u

LEMMA ModifierDown ==
  ASSUME NEW t \in KbdState, Agrees(t, held, caps, twice, meant), caps \in BOOLEAN, twice \in BOOLEAN,
         NEW k \in Modifiers, NEW tw \in BOOLEAN, twice => tw
  PROVE  Agrees(Stroke(t, Data(k)), held \cup {k}, caps, tw, meant)
<1> DEFINE u == Stroke(t, Data(k))
           b == t.bits \cup {KindOf[k]}
<1>1. u \in KbdState
  BY MakeCodes, DataOfModifier, StrokeType
<1>2. "E0ESC" \notin t.bits /\ t.bits \in SUBSET Bits /\ KindOf[k] \in Kinds
  BY DataOfModifier DEF Agrees, KbdState
<1>3. Toggle((t.bits \ {"E0ESC"}) \cup {KindOf[k]}, {}) = b /\ b \in SUBSET Bits
  BY <1>2 DEF Toggle, Kinds, Bits
<1>4. Char(b, Data(k)) = "NO"
  BY <1>3, NoCharOf, DataOfModifier
<1>5. u = [bits |-> b, chars |-> t.chars]
  BY ZenonT(90), <1>3, <1>4, DataOfModifier DEF Stroke
<1> HIDE DEF b
<1>6. u.bits = b /\ u.chars = t.chars
  BY <1>5
<1> HIDE DEF u
<1>7. \A kind \in Kinds : kind \in b <=> (kind \in t.bits \/ kind = KindOf[k])
  BY DEF b
<1>8. \A kind \in Kinds : DownOf(held \cup {k}, kind) <=> (DownOf(held, kind) \/ kind = KindOf[k])
  BY DEF DownOf
<1>9. "E0ESC" \notin b /\ ("CAPSLOCK" \in b <=> "CAPSLOCK" \in t.bits)
  BY <1>2 DEF b, Kinds
<1>10. Agrees(u, held \cup {k}, caps, tw, meant)
  BY <1>1, <1>6, <1>7, <1>8, <1>9 DEF Agrees
<1> QED BY <1>10 DEF u

LEMMA CapsDown ==
  ASSUME NEW t \in KbdState, Agrees(t, held, caps, twice, meant), caps \in BOOLEAN, twice \in BOOLEAN,
         NEW c \in BOOLEAN, c <=> ~caps
  PROVE  Agrees(Stroke(t, Data("capslock")), held \cup {"capslock"}, c, twice, meant)
<1> DEFINE u == Stroke(t, 58)
           b == Toggle(t.bits, {"CAPSLOCK"})
<1>1. u \in KbdState
  BY StrokeType
<1>2. "E0ESC" \notin t.bits /\ t.bits \in SUBSET Bits
  BY DEF Agrees, KbdState
<1>3. Toggle((t.bits \ {"E0ESC"}) \cup {}, {"CAPSLOCK"}) = b /\ b \in SUBSET Bits
  BY <1>2 DEF Toggle, Bits
<1>4. Char(b, 58) = "NO"
  BY <1>3, NoCharOf
<1>5. u = [bits |-> b, chars |-> t.chars]
  BY ZenonT(90), <1>3, <1>4, DataOfCaps DEF Stroke
<1>6. ("CAPSLOCK" \in b <=> "CAPSLOCK" \notin t.bits) /\ "E0ESC" \notin b
      /\ \A kind \in Kinds : kind \in b <=> kind \in t.bits
  BY <1>2 DEF Toggle, Kinds
<1> HIDE DEF b
<1>7. u.bits = b /\ u.chars = t.chars
  BY <1>5
<1> HIDE DEF u
<1>8. \A kind : DownOf(held \cup {"capslock"}, kind) <=> DownOf(held, kind)
  BY DataOfCaps, StillDown
<1>9. Agrees(u, held \cup {"capslock"}, c, twice, meant)
  BY <1>1, <1>6, <1>7, <1>8 DEF Agrees
<1> QED BY <1>9, DataOfCaps DEF u

LEMMA PauseDown ==
  ASSUME NEW t \in KbdState, Agrees(t, held, caps, twice, meant)
  PROVE  Agrees(Paused(t), held, caps, twice, meant)
<1>1. CASE Down("CTL")
  BY <1>1 DEF Paused
<1>2. CASE ~Down("CTL")
  <2> DEFINE b == Toggle(t.bits, {"NUMLOCK"})
             u == [bits |-> b, chars |-> t.chars]
  <2>1. Paused(t) = u
    BY <1>2 DEF Paused
  <2>2. t.bits \in SUBSET Bits /\ t.chars \in Seq(KbdChar) /\ "E0ESC" \notin t.bits
    BY DEF KbdState, Agrees
  <2>3. b \in SUBSET Bits /\ ("CAPSLOCK" \in b <=> "CAPSLOCK" \in t.bits) /\ "E0ESC" \notin b
        /\ \A kind \in Kinds : kind \in b <=> kind \in t.bits
    BY <2>2 DEF Toggle, Kinds, Bits
  <2> HIDE DEF b
  <2>4. u \in KbdState /\ u.bits = b /\ u.chars = t.chars
    BY <2>2, <2>3 DEF KbdState
  <2> HIDE DEF u
  <2> QED BY <2>1, <2>3, <2>4 DEF Agrees
<1> QED BY <1>1, <1>2

LEMMA KeyUp ==
  ASSUME NEW t \in KbdState, Agrees(t, held, caps, twice, meant), twice \in BOOLEAN,
         NEW k \in PlainKeys, k \in held,
         ~twice => \A i, j \in held \cap Modifiers : KindOf[i] = KindOf[j] => i = j
  PROVE  Agrees(Untyped(t, Data(k)), held \ {k}, caps, twice, meant)
<1> DEFINE u == Untyped(t, Data(k))
           b == t.bits \ Shiftcode(Data(k))
<1>1. t.bits \in SUBSET Bits /\ t.chars \in Seq(KbdChar) /\ "E0ESC" \notin t.bits
  BY DEF KbdState, Agrees
<1>2. u = [bits |-> b, chars |-> t.chars]
  BY DEF Untyped
<1>3. b \in SUBSET Bits /\ "E0ESC" \notin b
  BY <1>1
<1>4. CASE k \in Modifiers
  <2>1. Shiftcode(Data(k)) = {KindOf[k]} /\ KindOf[k] \in Kinds
    BY <1>4, DataOfModifier
  <2>2. \A kind \in Kinds : kind \in b <=> kind \in t.bits /\ kind # KindOf[k]
    BY <2>1
  <2>3. "CAPSLOCK" \in b <=> "CAPSLOCK" \in t.bits
    BY <2>1 DEF Kinds
  <2> HIDE DEF b
  <2>4. u \in KbdState /\ u.bits = b /\ u.chars = t.chars
    BY <1>1, <1>2, <1>3 DEF KbdState
  <2> HIDE DEF u
  <2>5. \A kind \in Kinds : kind # KindOf[k] => (DownOf(held \ {k}, kind) <=> DownOf(held, kind))
    BY DEF DownOf
  <2>6. ~twice => ~DownOf(held \ {k}, KindOf[k])
    BY <1>4 DEF DownOf
  <2>7. Agrees(u, held \ {k}, caps, twice, meant)
    BY ZenonT(90), <1>3, <2>2, <2>3, <2>4, <2>5, <2>6 DEF Agrees
  <2> QED BY <2>7 DEF u
<1>5. CASE k \notin Modifiers
  <2>1. Shiftcode(Data(k)) = {}
    BY <1>5, KeyKinds, DataOfMap, DataOfCaps
  <2>2. b = t.bits
    BY <2>1
  <2> HIDE DEF b
  <2>3. u \in KbdState /\ u.bits = t.bits /\ u.chars = t.chars
    BY <1>1, <1>2, <1>3, <2>2 DEF KbdState
  <2> HIDE DEF u
  <2>4. \A kind : DownOf(held \ {k}, kind) <=> DownOf(held, kind)
    BY <1>5, StillDown
  <2>5. Agrees(u, held \ {k}, caps, twice, meant)
    BY ZenonT(90), <1>1, <2>3, <2>4 DEF Agrees
  <2> QED BY <2>5 DEF u
<1> QED BY <1>4, <1>5

-----------------------------------------------------------------------------
LEMMA KbdStart == KbdInit => KbdInv
<1> SUFFICES ASSUME KbdInit PROVE KbdInv
  OBVIOUS
<1> DEFINE s == [bits |-> {}, chars |-> <<>>]
<1>1. shift = {} /\ chars = <<>> /\ port = <<>> /\ held = {} /\ caps = FALSE /\ twice = FALSE /\ meant = <<>>
  BY DEF KbdInit
<1>2. s \in KbdState /\ s.bits = {} /\ s.chars = <<>>
  BY DEF KbdState
<1>3. [bits |-> shift, chars |-> chars] = s
  BY <1>1
<1> HIDE DEF s
<1>4. Reads(port, [bits |-> shift, chars |-> chars], s)
  BY <1>1, <1>2, <1>3, ReadsNone
<1>5. Agrees(s, held, caps, twice, meant)
  BY <1>1, <1>2 DEF Agrees, DownOf
<1>6. /\ shift \in SUBSET Bits /\ chars \in Seq(KbdChar) /\ port \in Seq(Nat)
      /\ held \subseteq Keys \ {"pause"} /\ caps \in BOOLEAN /\ twice \in BOOLEAN
  <2>1. <<>> \in Seq(KbdChar) /\ <<>> \in Seq(Nat)
    OBVIOUS
  <2> QED BY <1>1, <2>1, ZenonT(90)
<1>7. \A j, k \in held \cap Modifiers : KindOf[j] = KindOf[k] => j = k
  <2>1. held \cap Modifiers = {}
    BY <1>1
  <2> QED BY <2>1
<1> QED BY <1>2, <1>4, <1>5, <1>6, <1>7 DEF KbdInv

LEMMA KbdgetcByte ==
  ASSUME KbdInv, Kbdgetc
  PROVE  [bits |-> shift', chars |-> chars'] = Byte([bits |-> shift, chars |-> chars], Head(port))
<1> DEFINE s == [bits |-> shift, chars |-> chars]
           d == Head(port)
<1>1. s.bits = shift /\ s.chars = chars /\ d \in Nat
  BY DEF KbdInv, Kbdgetc
<1>2. d = Head(port)
  OBVIOUS
<1>3. Escape \/ KeyReleased \/ Pressed
  BY DEF Kbdgetc
<1> HIDE DEF s, d
<1>4. CASE Escape
  <2>1. d = 224 /\ shift' = s.bits \cup {"E0ESC"} /\ chars' = s.chars
    BY SMTT(60), <1>1, <1>2, <1>4 DEF Escape
  <2>2. Byte(s, d) = [bits |-> shift', chars |-> chars']
    BY SMTT(60), <2>1 DEF Byte
  <2> QED BY <1>2, <2>2 DEF s
<1>5. CASE KeyReleased
  <2>1. d # 224 /\ d >= 128 /\ shift' = Released(d, s.bits) /\ chars' = s.chars
    BY SMTT(60), <1>1, <1>2, <1>5 DEF KeyReleased
  <2>2. Byte(s, d) = [bits |-> shift', chars |-> chars']
    BY SMTT(60), <2>1 DEF Byte
  <2> QED BY <1>2, <2>2 DEF s
<1>6. CASE Pressed
  <2> DEFINE data == IF "E0ESC" \in s.bits THEN d + 128 ELSE d
             bits == Toggle((s.bits \ {"E0ESC"}) \cup Shiftcode(data), Togglecode(data))
             c    == Char(bits, data)
  <2>1. /\ d < 128 /\ shift' = bits
        /\ chars' = IF c = "NO" THEN s.chars ELSE Append(s.chars, c)
    BY SMTT(60), <1>1, <1>2, <1>6 DEF Pressed
  <2>2. Byte(s, d) = Stroke(s, data)
    BY SMTT(60), <1>1, <2>1 DEF Byte
  <2>3. Stroke(s, data) = [bits |-> bits, chars |-> IF c = "NO" THEN s.chars ELSE Append(s.chars, c)]
    BY DEF Stroke
  <2> QED BY <1>2, <2>1, <2>2, <2>3 DEF s
<1> QED BY <1>3, <1>4, <1>5, <1>6

LEMMA KbdgetcStep == ASSUME KbdInv, Kbdgetc PROVE KbdInv'
<1> DEFINE s == [bits |-> shift, chars |-> chars]
<1>1. PICK t \in KbdState : Reads(port, s, t) /\ Agrees(t, held, caps, twice, meant)
  BY DEF KbdInv
<1>2. /\ port # <<>> /\ port' = Tail(port) /\ port \in Seq(Nat)
      /\ held' = held /\ caps' = caps /\ twice' = twice /\ meant' = meant
  BY DEF Kbdgetc, KbdInv
<1>3. s \in KbdState
  BY DEF KbdInv, KbdState
<1>4. Head(port) \in Nat /\ Tail(port) \in Seq(Nat)
  BY <1>2
<1> HIDE DEF s
<1> DEFINE u == Byte(s, Head(port))
<1>5. [bits |-> shift', chars |-> chars'] = u
  BY KbdgetcByte DEF s
<1>6. u \in KbdState /\ Reads(port', u, t)
  BY ZenonT(90), <1>1, <1>2, <1>3, <1>4, ByteType, ReadsTail
<1> HIDE DEF u
<1>7. shift' \in SUBSET Bits /\ chars' \in Seq(KbdChar)
  <2>1. shift' = u.bits /\ chars' = u.chars
    BY <1>5
  <2> QED BY <2>1, <1>6 DEF KbdState
<1>8. /\ held \subseteq Keys \ {"pause"} /\ caps \in BOOLEAN /\ twice \in BOOLEAN
      /\ ~twice => \A j, k \in held \cap Modifiers : KindOf[j] = KindOf[k] => j = k
  BY DEF KbdInv
<1> QED BY <1>1, <1>2, <1>4, <1>5, <1>6, <1>7, <1>8 DEF KbdInv

(* A key that moves: what kbdgetc() has stored is left, and the codes it will  *)
(* read take it to a state that agrees with the keys.                         *)
LEMMA MoveStep ==
  ASSUME KbdInv, NEW t \in KbdState, Reads(port', [bits |-> shift, chars |-> chars], t),
         Agrees(t, held', caps', twice', meant'), UNCHANGED <<shift, chars>>, port' \in Seq(Nat),
         held' \subseteq Keys \ {"pause"}, caps' \in BOOLEAN, twice' \in BOOLEAN,
         ~twice' => \A j, k \in held' \cap Modifiers : KindOf[j] = KindOf[k] => j = k
  PROVE  KbdInv'
<1>1. shift \in SUBSET Bits /\ chars \in Seq(KbdChar) /\ shift' = shift /\ chars' = chars
  BY DEF KbdInv
<1> QED BY <1>1 DEF KbdInv

LEMMA PressStep == ASSUME KbdInv, NEW k \in Keys, PressKey(k) PROVE KbdInv'
<1> DEFINE s == [bits |-> shift, chars |-> chars]
<1>1. PICK t \in KbdState : Reads(port, s, t) /\ Agrees(t, held, caps, twice, meant)
  BY DEF KbdInv
<1>2. /\ port \in Seq(Nat) /\ held \subseteq Keys \ {"pause"} /\ caps \in BOOLEAN /\ twice \in BOOLEAN
      /\ ~twice => \A i, j \in held \cap Modifiers : KindOf[i] = KindOf[j] => i = j
  BY DEF KbdInv
<1>3. /\ k \in held => k \in DOMAIN Maps
      /\ port' = port \o CodesDown(k) /\ shift' = shift /\ chars' = chars
      /\ held' = IF k = "pause" THEN held ELSE held \cup {k}
      /\ meant' = IF k \in DOMAIN Maps /\ Means(k) # "NO" THEN Append(meant, Means(k)) ELSE meant
  BY DEF PressKey, Sends
<1>4. caps' \in BOOLEAN /\ (caps' <=> ~(caps <=> k = "capslock"))
  BY ZenonT(90), <1>2 DEF PressKey
<1>5. twice' \in BOOLEAN /\ (twice' <=> twice \/ (k \in Modifiers /\ Down(KindOf[k])))
  BY ZenonT(90), <1>2 DEF PressKey
<1>6. "E0ESC" \notin t.bits
  BY <1>1 DEF Agrees
<1>7. DOMAIN Maps = MapKeys
  BY KeyMaps
<1> HIDE DEF s
<1>8. CASE k = "pause"
  <2>1. k \notin Modifiers /\ k \notin MapKeys /\ k # "capslock"
    BY <1>8 DEF Modifiers, KindOf, MapKeys
  <2>2. "CTL" \in t.bits => Down("CTL")
    BY <1>1 DEF Agrees, Down, DownOf, Kinds
  <2>3. Reads(port', s, Paused(t)) /\ port' \in Seq(Nat)
    BY <1>1, <1>2, <1>3, <1>6, <1>8, <2>2, PauseReads
  <2>4. held' = held /\ caps' = caps /\ twice' = twice /\ meant' = meant
    BY <1>2, <1>3, <1>4, <1>5, <1>7, <1>8, <2>1
  <2>5. Agrees(Paused(t), held, caps, twice, meant)
    BY <1>1, PauseDown
  <2>6. Paused(t) \in KbdState
    BY <2>5 DEF Agrees
  <2> QED BY ZenonT(90), <1>2, <1>3, <2>3, <2>4, <2>5, <2>6, MoveStep DEF s
<1>9. CASE k # "pause"
  <2> DEFINE u == Stroke(t, Data(k))
  <2>1. k \in PlainKeys
    BY <1>9 DEF PlainKeys
  <2>2. Reads(port', s, u) /\ port' \in Seq(Nat)
    <3>1. Reads(port \o CodesDown(k), s, u) /\ CodesDown(k) \in Seq(Nat)
      BY <1>1, <1>2, <1>6, <2>1, DownReads
    <3>2. port \o CodesDown(k) \in Seq(Nat)
      BY <3>1, <1>2, Behind
    <3> QED BY <3>1, <3>2, <1>3
  <2>3. held' = held \cup {k}
    BY <1>3, <1>9
  <2>4. held' \subseteq Keys \ {"pause"}
    BY <1>2, <1>9, <2>3
  <2>5. Agrees(u, held', caps', twice', meant')
    <3>1. CASE k \in MapKeys
      <4>1. k \notin Modifiers /\ k # "capslock"
        BY <3>1, DataOfMap
      <4>2. caps' = caps /\ twice' = twice
        BY <1>2, <1>4, <1>5, <4>1
      <4>3. meant' = IF Means(k) # "NO" THEN Append(meant, Means(k)) ELSE meant
        BY <1>3, <1>7, <3>1
      <4> QED BY <1>1, <1>2, <2>3, <3>1, <4>2, <4>3, MapDown
    <3>2. CASE k \in Modifiers
      <4>1. k \notin MapKeys /\ k # "capslock"
        BY <3>2, DataOfModifier
      <4>2. caps' = caps /\ (twice => twice') /\ meant' = meant
        BY <1>2, <1>3, <1>4, <1>5, <1>7, <4>1
      <4> QED BY <1>1, <1>2, <1>5, <2>3, <3>2, <4>2, ModifierDown
    <3>3. CASE k = "capslock"
      <4>1. k \notin MapKeys /\ k \notin Modifiers
        BY <3>3, DataOfCaps
      <4>2. (caps' <=> ~caps) /\ twice' = twice /\ meant' = meant
        BY <1>2, <1>3, <1>4, <1>5, <1>7, <3>3, <4>1
      <4> QED BY ZenonT(90), <1>1, <1>2, <1>4, <2>3, <3>3, <4>2, CapsDown
    <3> QED BY <2>1, <3>1, <3>2, <3>3, KeyKinds
  <2>6. ~twice' => \A i, j \in held' \cap Modifiers : KindOf[i] = KindOf[j] => i = j
    <3>1. ASSUME ~twice', NEW i \in held' \cap Modifiers, NEW j \in held' \cap Modifiers, KindOf[i] = KindOf[j]
          PROVE  i = j
      <4>1. ~twice /\ (k \in Modifiers => ~Down(KindOf[k]))
        BY <1>5, <3>1
      <4>2. k \in Modifiers => \A m \in held \cap Modifiers : KindOf[m] # KindOf[k]
        BY <4>1 DEF Down
      <4> QED BY <1>2, <2>3, <3>1, <4>1, <4>2
    <3> QED BY <3>1
  <2>7. u \in KbdState
    BY <2>5 DEF Agrees
  <2> QED BY ZenonT(90), <1>3, <1>4, <1>5, <2>2, <2>4, <2>5, <2>6, <2>7, MoveStep DEF s
<1> QED BY <1>8, <1>9

LEMMA ReleaseStep == ASSUME KbdInv, NEW k \in Keys, ReleaseKey(k) PROVE KbdInv'
<1> DEFINE s == [bits |-> shift, chars |-> chars]
           u(t) == Untyped(t, Data(k))
<1>1. PICK t \in KbdState : Reads(port, s, t) /\ Agrees(t, held, caps, twice, meant)
  BY DEF KbdInv
<1>2. /\ port \in Seq(Nat) /\ held \subseteq Keys \ {"pause"} /\ caps \in BOOLEAN /\ twice \in BOOLEAN
      /\ ~twice => \A i, j \in held \cap Modifiers : KindOf[i] = KindOf[j] => i = j
  BY DEF KbdInv
<1>3. /\ k \in held /\ port' = port \o CodesUp(k) /\ shift' = shift /\ chars' = chars
      /\ held' = held \ {k} /\ caps' = caps /\ twice' = twice /\ meant' = meant
  BY DEF ReleaseKey, Sends
<1>4. "E0ESC" \notin t.bits /\ k \in PlainKeys
  BY <1>1, <1>2, <1>3 DEF Agrees, PlainKeys
<1> HIDE DEF s
<1>5. Reads(port', s, u(t)) /\ port' \in Seq(Nat)
  <2>1. Reads(port \o CodesUp(k), s, u(t)) /\ CodesUp(k) \in Seq(Nat)
    BY <1>1, <1>2, <1>4, UpReads
  <2>2. port \o CodesUp(k) \in Seq(Nat)
    BY <2>1, <1>2, Behind
  <2> QED BY <2>1, <2>2, <1>3
<1>6. Agrees(u(t), held', caps', twice', meant')
  BY <1>1, <1>2, <1>3, <1>4, KeyUp
<1>7. u(t) \in KbdState
  BY <1>6 DEF Agrees
<1>8. /\ held' \subseteq Keys \ {"pause"}
      /\ ~twice' => \A i, j \in held' \cap Modifiers : KindOf[i] = KindOf[j] => i = j
  BY <1>2, <1>3
<1> QED BY ZenonT(90), <1>2, <1>3, <1>5, <1>6, <1>7, <1>8, MoveStep DEF s

LEMMA KbdInvSound == KbdInv => KeysSound
<1> SUFFICES ASSUME KbdInv PROVE KeysSound
  OBVIOUS
<1> DEFINE s == [bits |-> shift, chars |-> chars]
<1>1. PICK t \in KbdState : Reads(port, s, t) /\ Agrees(t, held, caps, twice, meant)
  BY DEF KbdInv
<1>2. port \in Seq(Nat) /\ chars \in Seq(KbdChar) /\ s.chars = chars /\ s.bits = shift /\ twice \in BOOLEAN
      /\ caps \in BOOLEAN
  BY DEF KbdInv
<1> HIDE DEF s
<1>3. Before(chars, t.chars) /\ (port = <<>> => s = t)
  BY <1>1, <1>2, ReadsStart
<1>4. CharsAreTyped
  <2> SUFFICES ASSUME ~twice PROVE IsPrefix(chars, meant) /\ (port = <<>> => chars = meant)
    BY DEF CharsAreTyped
  <2>1. t.chars = meant /\ meant \in Seq(KbdChar)
    BY <1>1 DEF Agrees, KbdState
  <2>2. \A a, b \in Seq(KbdChar) : Before(a, b) => Len(a) <= Len(b) /\ SubSeq(a, 1, Len(a)) = SubSeq(b, 1, Len(a))
    BY DEF Before
  <2>3. IsPrefix(chars, meant)
    BY <1>2, <1>3, <2>1, <2>2 DEF IsPrefix
  <2> QED BY <1>2, <1>3, <2>1, <2>3
<1>5. NothingSticks
  <2> SUFFICES ASSUME port = <<>>
      PROVE  /\ \A kind \in {"SHIFT", "CTL", "ALT"} : kind \in shift => Down(kind)
             /\ "E0ESC" \notin shift
             /\ "CAPSLOCK" \in shift <=> caps
    BY DEF NothingSticks
  <2>1. shift = t.bits
    BY <1>2, <1>3
  <2> QED BY <1>1, <2>1 DEF Agrees, Kinds, Down, DownOf
<1> QED BY <1>4, <1>5 DEF KeysSound

(* KeysSound always holds: the characters kbdgetc() stores are the ones the    *)
(* keys meant when they were pressed, and no modifier or escape bit is left.   *)
THEOREM KeysAreSound == KbdSpec => []KeysSound
<1>1. KbdInv /\ [KbdNext]_kbdVars => KbdInv'
  <2> SUFFICES ASSUME KbdInv, [KbdNext]_kbdVars PROVE KbdInv'
    OBVIOUS
  <2>1. ASSUME NEW k \in Keys, PressKey(k) \/ ReleaseKey(k) PROVE KbdInv'
    BY <2>1, PressStep, ReleaseStep
  <2>2. CASE UNCHANGED kbdVars
    BY <2>2 DEF kbdVars, KbdInv
  <2> QED BY <2>1, <2>2, KbdgetcStep DEF KbdNext
<1> QED BY <1>1, KbdStart, KbdInvSound, PTL DEF KbdSpec

=============================================================================
