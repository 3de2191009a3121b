--------------------------- MODULE Programs_proofs ---------------------------
(* Three of the programs.  pzip: the order of the chunks through its queue,   *)
(* its threads and its output, for any number of consumers, any files and any *)
(* sizes.  kv: it keeps a persistent set of keys, for any keys, heap and      *)
(* capacity.  wish: one process at a time, for any scripts and paths.         *)
EXTENDS Pzip, Kv, Wish, FiniteSetTheorems, WellFoundedInduction, TLAPS

-----------------------------------------------------------------------------
(* pzip.c *)

(* How many chunks consumers have taken: they are the first Taken numbers.    *)
Taken == globalPage - numFull

Consuming == {"flag", "take", "compress", "done"}

Producing == {"open", "put", "finish", "done", "joined"}

Typed ==
  /\ file \in 1..(Len(Files) + 1) /\ chunk \in Nat /\ globalPage \in Nat
  /\ fillPtr \in 0..(QLen - 1) /\ usePtr \in 0..(QLen - 1) /\ numFull \in 0..QLen
  /\ q = [i \in 0..(QLen - 1) |-> q[i]]
  /\ waitFill \subseteq Consumer /\ waitEmpty \subseteq {Producer}
  /\ pc = [t \in Thread |-> pc[t]]
  /\ pc[Producer] \in Producing /\ \A t \in Consumer : pc[t] \in Consuming
  /\ item = [t \in Thread |-> item[t]]
  /\ output = [n \in 0..(TotalChunks - 1) |-> output[n]]

(* The number of the next chunk is what is before it in the input.            *)
Progress ==
  /\ globalPage = ChunksUpTo[file - 1] + chunk
  /\ pc[Producer] = "put" => file <= Len(Files) /\ chunk < NumChunks(file)
  /\ pc[Producer] # "put" => chunk = 0
  /\ pc[Producer] \in {"finish", "done", "joined"} => file = Len(Files) + 1
  /\ isComplete \in BOOLEAN
  /\ isComplete <=> pc[Producer] \in {"done", "joined"}

(* The slot of the i-th oldest chunk of the queue.                            *)
Slot(i) == (usePtr + i - 1) % QLen

(* The queue holds the last chunks put into it, in order.                     *)
QueueInv ==
  /\ numFull <= globalPage
  /\ fillPtr = (usePtr + numFull) % QLen
  /\ \A i \in 1..numFull : q[Slot(i)] \in AllItems /\ q[Slot(i)].num = Taken + i - 1

(* A chunk a consumer compresses is one taken from the queue, and nobody      *)
(* else's.                                                                    *)
HandsInv ==
  /\ \A t \in Consumer : pc[t] = "compress" =>
       item[t] \in AllItems /\ item[t].num < Taken /\ ~output[item[t].num].filled
  /\ \A t, u \in Consumer :
       pc[t] = "compress" /\ pc[u] = "compress" /\ item[t].num = item[u].num => t = u

(* A chunk taken is compressed, in its place, or somebody compresses it.      *)
OutputInv ==
  /\ \A n \in 0..(TotalChunks - 1) :
       output[n].filled => n < Taken /\ output[n].runs = Encode(DataOf(n))
  /\ \A n \in 0..(Taken - 1) :
       ~output[n].filled => \E t \in Consumer : pc[t] = "compress" /\ item[t].num = n

(* A consumer leaves its loop when no chunk will come any more.               *)
EndInv ==
  /\ \A t \in Consumer : pc[t] = "done" => isComplete /\ numFull = 0
  /\ printed.filled => pc[Producer] = "joined"

PzipInv == Typed /\ Progress /\ QueueInv /\ HandsInv /\ OutputInv /\ EndInv /\ PrintedInOrder

-----------------------------------------------------------------------------
(* Arithmetic: division with a remainder, by a constant of the model.         *)

LEMMA DivMod ==
  ASSUME NEW x \in Int, NEW m \in Nat \ {0}
  PROVE  \E h \in Int : x % m \in 0..(m - 1) /\ x = m * h + (x % m)
<1>1. x \div m \in Int /\ x % m \in 0..(m - 1) /\ x = m * (x \div m) + (x % m)
  OBVIOUS
<1> QED
  BY ZenonT(90), <1>1

LEMMA OneQuotient ==
  ASSUME NEW m \in Nat \ {0}, NEW h \in Int, NEW r \in 0..(m - 1),
         NEW k \in Int, NEW s \in 0..(m - 1), m * h + r = m * k + s
  PROVE  h = k /\ r = s
OBVIOUS

LEMMA ModIs ==
  ASSUME NEW m \in Nat \ {0}, NEW h \in Int, NEW r \in 0..(m - 1), NEW x, x = m * h + r
  PROVE  x % m = r
<1> DEFINE s == x % m
<1>0. x \in Int
  OBVIOUS
<1>1. PICK k \in Int : s \in 0..(m - 1) /\ x = m * k + s
  BY ZenonT(90), <1>0, DivMod
<1> HIDE DEF s
<1>2. s = r
  <2>1. m * k + s = m * h + r
    BY <1>1
  <2> QED
    BY ZenonT(90), <1>1, <2>1, OneQuotient
<1> QED
  BY <1>2 DEF s

(* Two numbers less than m apart with one remainder are the same.             *)
LEMMA ModEq ==
  ASSUME NEW m \in Nat \ {0}, NEW x \in Int, NEW y \in Int,
         x % m = y % m, 0 <= y - x, y - x < m
  PROVE  x = y
<1> DEFINE s == x % m
<1>1. PICK h \in Int : x = m * h + s
  BY ZenonT(90), DivMod
<1>2. PICK k \in Int : y = m * k + s
  BY ZenonT(90), DivMod
<1>3. s \in Int
  BY DivMod
<1> HIDE DEF s
<1>4. y - x \in 0..(m - 1) /\ 0 \in 0..(m - 1) /\ k - h \in Int
  OBVIOUS
<1>5. m * (k - h) + 0 = m * 0 + (y - x)
  BY <1>1, <1>2, <1>3
<1>6. y - x = 0
  BY <1>4, <1>5, OneQuotient
<1> QED
  BY <1>6

LEMMA ModShift ==
  ASSUME NEW m \in Nat \ {0}, NEW x \in Int, NEW k \in Int, NEW y, y = m * k + x
  PROVE  y % m = x % m
<1> DEFINE s == x % m
<1>1. PICK h \in Int : s \in 0..(m - 1) /\ x = m * h + s
  BY ZenonT(90), DivMod
<1> HIDE DEF s
<1> DEFINE j == k + h
<1>2. j \in Int /\ y = m * j + s /\ y \in Int
  BY <1>1
<1> HIDE DEF j
<1> DEFINE r == y % m
<1>3. PICK i \in Int : r \in 0..(m - 1) /\ y = m * i + r
  BY ZenonT(90), <1>2, DivMod
<1> HIDE DEF r
<1>4. m * j + s = m * i + r
  BY <1>2, <1>3
<1>5. s = r
  BY ZenonT(90), <1>1, <1>2, <1>3, <1>4, OneQuotient
<1> QED
  BY <1>5 DEF s, r

(* Induction on the natural numbers: what is not empty has a least element.   *)
LEMMA Least ==
  ASSUME NEW T \in SUBSET Nat, T # {}
  PROVE  \E m \in T : \A n \in T : m <= n
<1> DEFINE Below == {0..n : n \in T}
<1>1. IsWellFoundedOn(StrictSubsetOrdering(Nat), FiniteSubsetsOf(Nat))
  BY FS_StrictSubsetOrderingWellFounded
<1>2. Below \subseteq FiniteSubsetsOf(Nat)
  <2>1. ASSUME NEW n \in T PROVE 0..n \in FiniteSubsetsOf(Nat)
    <3>1. IsFiniteSet(0..n)
      BY FS_Interval
    <3>2. 0..n \subseteq Nat
      OBVIOUS
    <3> QED
      BY <3>1, <3>2 DEF FiniteSubsetsOf
  <2> QED
    BY <2>1
<1>3. Below # {}
  BY ZenonT(90)
<1>4. PICK s \in Below : \A r \in Below : ~ (<<r, s>> \in StrictSubsetOrdering(Nat))
  <2> HIDE DEF Below
  <2> QED
  BY <1>1, <1>2, <1>3, WFMin
<1>5. PICK m \in T : s = 0..m
  OBVIOUS
<1>6. ASSUME NEW n \in T PROVE m <= n
  <2>1. ~ (<<0..n, 0..m>> \in StrictSubsetOrdering(Nat))
    BY ZenonT(90), <1>4, <1>5
  <2>2. ~(0..n \subseteq 0..m /\ 0..n # 0..m)
    <3>1. 0..n \in SUBSET Nat /\ 0..m \in SUBSET Nat
      OBVIOUS
    <3> QED
    BY <2>1, <3>1 DEF StrictSubsetOrdering
  <2>3. CASE n < m
    <3>1. 0..n \subseteq 0..m
      BY <2>3
    <3>2. m \in 0..m /\ m \notin 0..n
      BY <2>3
    <3> QED
      BY <3>1, <3>2, <2>2
  <2> QED
    BY <2>3
<1> QED
  BY <1>6

LEMMA ModAgain ==
  ASSUME NEW m \in Nat \ {0}, NEW x \in Int, NEW y \in Int
  PROVE  ((x % m) + y) % m = (x + y) % m
<1> DEFINE s == x % m
<1>1. PICK k \in Int : s \in 0..(m - 1) /\ x = m * k + s
  BY ZenonT(90), DivMod
<1> HIDE DEF s
<1> DEFINE a == x + y
           b == s + y
<1>2. b \in Int /\ a = m * k + b
  BY <1>1
<1> HIDE DEF a, b
<1>3. a % m = b % m
  BY ZenonT(120), <1>1, <1>2, ModShift
<1> QED
  BY <1>3 DEF a, b, s

-----------------------------------------------------------------------------
(* The numbers of the chunks. *)

LEMMA Sizes ==
  ASSUME NEW f \in 1..Len(Files)
  PROVE  FileSize(f) \in Nat /\ NumChunks(f) \in Nat /\ (FileSize(f) > 0 => NumChunks(f) > 0)
<1>1. Len(Files) \in Nat /\ Files[f] \in {Missing} \cup Seq(0..255)
  BY PzipAssumption DEF PzipAssumption
<1>2. FileSize(f) \in Nat
  BY <1>1 DEF FileSize
<1> DEFINE s == FileSize(f)
<1>3. NumChunks(f) = s \div ChunkSz + (IF s % ChunkSz # 0 THEN 1 ELSE 0)
  BY DEF NumChunks, Ceiling
<1> HIDE DEF s
<1>4. ASSUME s \in Nat PROVE
        /\ s \div ChunkSz + (IF s % ChunkSz # 0 THEN 1 ELSE 0) \in Nat
        /\ s > 0 => s \div ChunkSz + (IF s % ChunkSz # 0 THEN 1 ELSE 0) > 0
  <2> DEFINE m == ChunkSz
             k == s \div m
             r == s % m
  <2>1. m \in Nat \ {0}
    BY PzipAssumption DEF PzipAssumption
  <2> HIDE DEF m
  <2>2. k \in Int /\ r \in 0..(m - 1) /\ s = m * k + r
    BY <1>4, <2>1
  <2> HIDE DEF k, r
  <2>3. k >= 0
    <3>1. ASSUME k < 0 PROVE m * k <= - m
      BY <2>1, <2>2, <3>1
    <3> QED
      BY <1>4, <2>1, <2>2, <3>1
  <2>4. k = 0 => m * k = 0
    BY <2>1
  <2> QED
    BY <1>4, <2>1, <2>2, <2>3, <2>4 DEF m, k, r
<1> QED
  BY <1>2, <1>3, <1>4 DEF s

(* The equation of ChunksUpTo has a solution.                                 *)
LEMMA ChunksExist ==
  \E g : g = [f \in 0..Len(Files) |-> IF f = 0 THEN 0 ELSE g[f - 1] + NumChunks(f)]
<1> DEFINE Upto(n, g) == g = [f \in 0..n |-> IF f = 0 THEN 0 ELSE g[f - 1] + NumChunks(f)]
           Bad == {n \in 0..Len(Files) : ~ \E g : Upto(n, g)}
<1>0. Len(Files) \in Nat
  BY PzipAssumption DEF PzipAssumption
<1>1. SUFFICES ASSUME Bad # {} PROVE FALSE
  <2>1. Len(Files) \in 0..Len(Files)
    BY <1>0
  <2> QED
    BY <2>1
<1>2. PICK n \in Bad : \A k \in Bad : n <= k
  <2>1. Bad \in SUBSET Nat
    BY <1>0
  <2> HIDE DEF Bad
  <2> QED
    BY <1>1, <2>1, Least
<1>3. n \in 0..Len(Files) /\ ~ \E g : Upto(n, g)
  OBVIOUS
<1>4. CASE n = 0
  <2> DEFINE g == [f \in 0..0 |-> 0]
  <2>1. g = [f \in 0..0 |-> IF f = 0 THEN 0 ELSE g[f - 1] + NumChunks(f)]
    OBVIOUS
  <2> QED
    BY ZenonT(90), <1>3, <1>4, <2>1
<1>5. CASE n > 0
  <2>1. n - 1 \in 0..Len(Files) /\ n - 1 \notin Bad
    <3>1. n - 1 \in 0..Len(Files) /\ ~(n <= n - 1)
      BY <1>0, <1>3, <1>5
    <3> HIDE DEF Bad
    <3> QED
      BY <1>2, <3>1
  <2>2. PICK g : Upto(n - 1, g)
    BY <2>1
  <2> DEFINE h == [f \in 0..n |-> IF f = n THEN g[n - 1] + NumChunks(n) ELSE g[f]]
  <2>3. g = [f \in 0..(n - 1) |-> IF f = 0 THEN 0 ELSE g[f - 1] + NumChunks(f)]
    BY <2>2
  <2>4. n \in Nat /\ n > 0
    BY <1>3, <1>5
  <2>5. ASSUME NEW f \in 0..n PROVE h[f] = IF f = 0 THEN 0 ELSE h[f - 1] + NumChunks(f)
    <3>1. CASE f = n
      <4>1. f # 0 /\ f - 1 \in 0..n /\ f - 1 # n
        BY <2>4, <3>1
      <4>2. h[f - 1] = g[f - 1]
        BY <4>1
      <4> QED
        BY <3>1, <4>1, <4>2
    <3>2. CASE f # n
      <4>1. f \in 0..(n - 1) /\ h[f] = g[f] /\ (f # 0 => f - 1 \in 0..n /\ f - 1 # n)
        BY <2>4, <3>2
      <4>2. g[f] = IF f = 0 THEN 0 ELSE g[f - 1] + NumChunks(f)
        <5> HIDE DEF h
        <5> QED
          BY ZenonT(90), <2>3, <4>1
      <4>3. f # 0 => h[f - 1] = g[f - 1]
        BY <4>1
      <4> QED
        BY <4>1, <4>2, <4>3
    <3> QED
      BY <3>1, <3>2
  <2>6. h = [f \in 0..n |-> h[f]]
    OBVIOUS
  <2>7. Upto(n, h)
    <3> HIDE DEF h
    <3> QED
      BY ZenonT(90), <2>5, <2>6
  <2> QED
    BY ZenonT(90), <1>3, <2>7
<1> QED
  BY <1>0, <1>3, <1>4, <1>5

LEMMA ChunksUpToIs ==
  /\ ChunksUpTo[0] = 0
  /\ \A f \in 1..Len(Files) : ChunksUpTo[f] = ChunksUpTo[f - 1] + NumChunks(f)
<1>0. Len(Files) \in Nat
  BY PzipAssumption DEF PzipAssumption
<1>1. ChunksUpTo =
        [f \in 0..Len(Files) |-> IF f = 0 THEN 0 ELSE ChunksUpTo[f - 1] + NumChunks(f)]
  BY ZenonT(90), ChunksExist DEF ChunksUpTo
<1> DEFINE C == ChunksUpTo
<1> HIDE DEF C
<1>2. \A f \in 0..Len(Files) : C[f] = IF f = 0 THEN 0 ELSE C[f - 1] + NumChunks(f)
  BY ZenonT(90), <1>1 DEF C
<1>3. 0 \in 0..Len(Files) /\ \A f \in 1..Len(Files) : f \in 0..Len(Files) /\ f # 0
  BY <1>0
<1> QED
  BY <1>2, <1>3 DEF C

LEMMA ChunksUpToNat == \A f \in 0..Len(Files) : ChunksUpTo[f] \in Nat
<1> DEFINE C == ChunksUpTo
           Bad == {f \in 0..Len(Files) : C[f] \notin Nat}
<1>0. Len(Files) \in Nat
  BY PzipAssumption DEF PzipAssumption
<1>1. C[0] = 0 /\ \A f \in 1..Len(Files) : C[f] = C[f - 1] + NumChunks(f)
  BY ChunksUpToIs
<1> HIDE DEF C
<1>2. SUFFICES ASSUME Bad # {} PROVE FALSE
  BY DEF C
<1>3. PICK f \in Bad : \A k \in Bad : f <= k
  <2>1. Bad \in SUBSET Nat
    BY <1>0
  <2> HIDE DEF Bad
  <2> QED
    BY <1>2, <2>1, Least
<1>4. f \in 1..Len(Files)
  BY <1>0, <1>1
<1>5. f - 1 \in 0..Len(Files) /\ C[f - 1] \in Nat
  BY <1>0, <1>3, <1>4
<1> QED
  BY <1>1, <1>3, <1>4, <1>5, Sizes

LEMMA ChunksGrow ==
  ASSUME NEW f \in 0..Len(Files), NEW g \in 0..Len(Files), f <= g
  PROVE  ChunksUpTo[f] <= ChunksUpTo[g]
<1> DEFINE C == ChunksUpTo
           Bad == {k \in f..Len(Files) : ~(C[f] <= C[k])}
<1>0. Len(Files) \in Nat
  BY PzipAssumption DEF PzipAssumption
<1>1. \A k \in 1..Len(Files) : C[k] = C[k - 1] + NumChunks(k)
  BY ChunksUpToIs
<1>2. \A k \in 0..Len(Files) : C[k] \in Nat
  BY ChunksUpToNat
<1> HIDE DEF C
<1>3. SUFFICES ASSUME Bad # {} PROVE FALSE
  BY <1>0 DEF C
<1>4. PICK k \in Bad : \A j \in Bad : k <= j
  <2>1. Bad \in SUBSET Nat
    BY <1>0
  <2> HIDE DEF Bad
  <2> QED
    BY SMTT(60), <1>3, <2>1, Least
<1>5. k \in f..Len(Files) /\ ~(C[f] <= C[k])
  OBVIOUS
<1>6. k # f
  BY <1>2, <1>5
<1>7. k - 1 \in f..Len(Files) /\ k \in 1..Len(Files) /\ ~(k <= k - 1)
  BY <1>0, <1>5, <1>6
<1>8. C[f] <= C[k - 1]
  BY <1>4, <1>7
<1>9. C[k - 1] \in Nat /\ C[f] \in Nat /\ NumChunks(k) \in Nat
  BY <1>0, <1>2, <1>7, Sizes
<1> QED
  BY SMTT(60), <1>1, <1>5, <1>7, <1>8, <1>9

ItemAt(f, c) == [num |-> ChunksUpTo[f - 1] + c, data |-> Chunk(f, c)]

LEMMA ItemsAre ==
  /\ \A f \in 1..Len(Files) : \A c \in 0..(NumChunks(f) - 1) : ItemAt(f, c) \in AllItems
  /\ \A x \in AllItems :
       \E f \in 1..Len(Files) : \E c \in 0..(NumChunks(f) - 1) : x = ItemAt(f, c)
<1> DEFINE P(f) == {f} \X (0..(NumChunks(f) - 1))
<1>1. ASSUME NEW f \in 1..Len(Files), NEW c \in 0..(NumChunks(f) - 1)
      PROVE  ItemAt(f, c) \in AllItems
  <2>1. <<f, c>> \in P(f) /\ <<f, c>>[1] = f /\ <<f, c>>[2] = c
    OBVIOUS
  <2> QED
    BY SMTT(60), <2>1 DEF AllItems, ItemAt
<1>2. ASSUME NEW x \in AllItems
      PROVE  \E f \in 1..Len(Files) : \E c \in 0..(NumChunks(f) - 1) : x = ItemAt(f, c)
  <2>0. PICK f \in 1..Len(Files) : \E y \in P(f) :
          x = [num |-> ChunksUpTo[y[1] - 1] + y[2], data |-> Chunk(y[1], y[2])]
    BY DEF AllItems
  <2>1. PICK y \in P(f) :
          x = [num |-> ChunksUpTo[y[1] - 1] + y[2], data |-> Chunk(y[1], y[2])]
    BY <2>0
  <2>2. y[1] = f /\ y[2] \in 0..(NumChunks(f) - 1)
    OBVIOUS
  <2> QED
    BY <2>1, <2>2 DEF ItemAt
<1> QED
  BY <1>1, <1>2

(* A file's chunks come before those of the next one.                         *)
LEMMA ChunksInFile ==
  ASSUME NEW f \in 1..Len(Files), NEW c \in 0..(NumChunks(f) - 1)
  PROVE  /\ ChunksUpTo[f - 1] + c \in 0..(ChunksUpTo[f] - 1)
         /\ ChunksUpTo[f] <= TotalChunks /\ TotalChunks \in Nat
<1>0. Len(Files) \in Nat
  BY PzipAssumption DEF PzipAssumption
<1> DEFINE n == Len(Files)
<1>1. f - 1 \in 0..n /\ f \in 0..n /\ n \in 0..n /\ f <= n
  BY <1>0
<1>2. ChunksUpTo[f - 1] \in Nat /\ ChunksUpTo[f] \in Nat /\ TotalChunks \in Nat
  BY <1>1, ChunksUpToNat DEF TotalChunks
<1>3. ChunksUpTo[f] <= ChunksUpTo[n]
  BY <1>1, ChunksGrow
<1>4. ChunksUpTo[f] = ChunksUpTo[f - 1] + NumChunks(f)
  BY ChunksUpToIs
<1> QED
  BY SMTT(60), <1>2, <1>3, <1>4, Sizes DEF TotalChunks

(* No two chunks have one number.                                             *)
LEMMA OneItem ==
  ASSUME NEW x \in AllItems, NEW y \in AllItems, x.num = y.num
  PROVE  x = y
<1>0. Len(Files) \in Nat
  BY PzipAssumption DEF PzipAssumption
<1>1a. PICK f \in 1..Len(Files) : \E c \in 0..(NumChunks(f) - 1) : x = ItemAt(f, c)
  BY ItemsAre
<1>1. PICK c \in 0..(NumChunks(f) - 1) : x = ItemAt(f, c)
  BY <1>1a
<1>2a. PICK g \in 1..Len(Files) : \E d \in 0..(NumChunks(g) - 1) : y = ItemAt(g, d)
  BY ItemsAre
<1>2. PICK d \in 0..(NumChunks(g) - 1) : y = ItemAt(g, d)
  BY <1>2a
<1> DEFINE C == ChunksUpTo
<1>3. C[f - 1] + c = C[g - 1] + d
  BY <1>1, <1>2 DEF ItemAt
<1>4a. C[f - 1] + c \in 0..(C[f] - 1)
  BY ChunksInFile
<1>4b. C[g - 1] + d \in 0..(C[g] - 1)
  BY ChunksInFile
<1>5. \A k \in 0..Len(Files) : C[k] \in Nat
  BY ChunksUpToNat
<1>6. f \in 0..Len(Files) /\ f - 1 \in 0..Len(Files) /\ g \in 0..Len(Files) /\ g - 1 \in 0..Len(Files)
  BY <1>0
<1>7. C[f] \in Nat /\ C[f - 1] \in Nat /\ C[g] \in Nat /\ C[g - 1] \in Nat
  BY <1>5, <1>6
<1>7a. (f <= g - 1 => C[f] <= C[g - 1]) /\ (g <= f - 1 => C[g] <= C[f - 1])
  BY <1>6, ChunksGrow
<1> HIDE DEF C
<1>8. c \in Nat /\ d \in Nat
  BY Sizes
<1> DEFINE a == C[f - 1]
           b == C[g - 1]
           u == C[f]
           v == C[g]
<1>9. ~(f <= g - 1) /\ ~(g <= f - 1)
  <2>1. a + c = b + d /\ a + c <= u - 1 /\ b + d <= v - 1
    BY <1>3, <1>4a, <1>4b
  <2>2. a \in Nat /\ b \in Nat /\ u \in Nat /\ v \in Nat /\ c \in Nat /\ d \in Nat
    BY <1>7, <1>8
  <2>3. (f <= g - 1 => u <= b) /\ (g <= f - 1 => v <= a)
    BY <1>7a
  <2> HIDE DEF a, b, u, v
  <2> QED
    BY <2>1, <2>2, <2>3
<1>10. f = g
  BY <1>0, <1>9
<1>11. c = d
  BY <1>3, <1>7, <1>8, <1>10
<1> QED
  BY <1>1, <1>2, <1>10, <1>11

LEMMA ItemHasItsData ==
  ASSUME NEW x \in AllItems
  PROVE  DataOf(x.num) = x.data /\ x.num \in 0..(TotalChunks - 1)
<1>1. DataOf(x.num) = x.data
  <2> DEFINE y == CHOOSE y \in AllItems : y.num = x.num
  <2>1. y \in AllItems /\ y.num = x.num
    OBVIOUS
  <2>2. y = x
    <3> HIDE DEF y
    <3> QED
      BY <2>1, OneItem
  <2> QED
    BY ZenonT(90), <2>2 DEF DataOf
<1>2a. PICK f \in 1..Len(Files) : \E c \in 0..(NumChunks(f) - 1) : x = ItemAt(f, c)
  BY ItemsAre
<1>2. PICK c \in 0..(NumChunks(f) - 1) : x = ItemAt(f, c)
  BY <1>2a
<1>3. x.num = ChunksUpTo[f - 1] + c
  BY <1>2 DEF ItemAt
<1>4. /\ ChunksUpTo[f - 1] + c \in 0..(ChunksUpTo[f] - 1)
      /\ ChunksUpTo[f] <= TotalChunks /\ TotalChunks \in Nat
  BY ChunksInFile
<1>5. ChunksUpTo[f] \in Nat
  <2>1. f \in 0..Len(Files)
    BY PzipAssumption DEF PzipAssumption
  <2> QED
    BY <2>1, ChunksUpToNat
<1> QED
  BY SMTT(60), <1>1, <1>3, <1>4, <1>5

-----------------------------------------------------------------------------
(* The slots of the queue. *)

LEMMA Lengths == QLen \in Nat \ {0} /\ Len(Files) \in Nat \ {0} /\ TotalChunks \in Nat
<1>1. QLen \in Nat \ {0} /\ Len(Files) \in Nat \ {0}
  BY PzipAssumption DEF PzipAssumption
<1>2. Len(Files) \in 0..Len(Files)
  BY <1>1
<1> QED
  BY <1>1, <1>2, ChunksUpToNat DEF TotalChunks

LEMMA SlotIs ==
  ASSUME usePtr \in 0..(QLen - 1), NEW i \in 1..QLen
  PROVE  /\ Slot(i) \in 0..(QLen - 1)
         /\ \A j \in 1..QLen : Slot(j) = Slot(i) => i = j
<1>0. QLen \in Nat \ {0}
  BY Lengths
<1>1. usePtr + i - 1 \in Int
  BY <1>0
<1>2. Slot(i) \in 0..(QLen - 1)
  BY <1>0, <1>1, DivMod DEF Slot
<1>3. ASSUME NEW j \in 1..QLen, Slot(j) = Slot(i) PROVE i = j
  <2> DEFINE x == usePtr + i - 1
             y == usePtr + j - 1
  <2>1. /\ x \in Int /\ y \in Int /\ y - x = j - i /\ x - y = i - j
        /\ 0 <= y - x \/ 0 <= x - y
        /\ y - x < QLen /\ x - y < QLen
    BY <1>0
  <2>2. x % QLen = y % QLen
    BY <1>3 DEF Slot
  <2> HIDE DEF x, y
  <2>3. x = y
    <3>1. CASE 0 <= y - x
      BY ZenonT(90), <1>0, <2>1, <2>2, <3>1, ModEq
    <3>2. CASE 0 <= x - y
      BY <1>0, <2>1, <2>2, <3>2, ModEq
    <3> QED
      BY <2>1, <3>1, <3>2
  <2> QED
    BY <1>0, <2>1, <2>3
<1> QED
  BY <1>2, <1>3

-----------------------------------------------------------------------------
(* The steps. *)

LEMMA GotoIs ==
  ASSUME pc = [x \in Thread |-> pc[x]], NEW t \in Thread, NEW l, Goto(t, l)
  PROVE  /\ pc' = [x \in Thread |-> pc'[x]] /\ pc'[t] = l
         /\ \A u \in Thread \ {t} : pc'[u] = pc[u]
BY DEF Goto

LEMMA Threads ==
  /\ Producer \in Thread /\ Producer \notin Consumer /\ Consumer \subseteq Thread
  /\ Thread = Consumer \cup {Producer}
BY PzipAssumption DEF PzipAssumption, Thread

LEMMA ConsumerGoto ==
  ASSUME pc = [x \in Thread |-> pc[x]], NEW t \in Consumer, NEW l, Goto(t, l)
  PROVE  /\ pc' = [x \in Thread |-> pc'[x]] /\ pc'[t] = l /\ pc'[Producer] = pc[Producer]
         /\ \A u \in Consumer \ {t} : pc'[u] = pc[u]
BY SMTT(60), GotoIs, Threads

LEMMA InitInv == Init => PzipInv
<1> SUFFICES ASSUME Init PROVE PzipInv
  OBVIOUS
<1>1. Typed
  BY Lengths, Threads DEF Init, Typed, Consuming, Producing
<1>2. Progress
  <2>1. ChunksUpTo[1 - 1] = 0 /\ 0 + 0 = 0
    BY ChunksUpToIs
  <2>2. globalPage = ChunksUpTo[file - 1] + chunk
    BY <2>1 DEF Init
  <2> QED
    BY ZenonT(90), <2>2, Threads DEF Init, Progress
<1>3. QueueInv
  <2>1. 0 % QLen = 0
    BY Lengths
  <2> QED
    BY <2>1, Lengths DEF Init, QueueInv
<1>4. HandsInv
  BY Threads DEF Init, HandsInv
<1>5. OutputInv
  BY Lengths DEF Init, OutputInv, NoRuns, Taken
<1>6. EndInv /\ PrintedInOrder
  BY Threads DEF Init, EndInv, PrintedInOrder, NoRuns
<1> QED
  BY <1>1, <1>2, <1>3, <1>4, <1>5, <1>6 DEF PzipInv

(* Going to wait, waking up, and steps that change nothing.                   *)
LEMMA WaitStep ==
  ASSUME PzipInv, waitFill' \subseteq Consumer, waitEmpty' \subseteq {Producer},
         UNCHANGED <<producing, ring, isComplete, pc, item, output, printed>>
  PROVE  PzipInv'
<1>1. /\ UNCHANGED <<file, chunk, globalPage, q, fillPtr, usePtr, numFull>>
      /\ UNCHANGED <<isComplete, pc, item, output, printed>>
  BY DEF producing, ring
<1>2. Typed'
  BY <1>1 DEF PzipInv, Typed
<1>3. Progress' /\ EndInv' /\ PrintedInOrder'
  BY <1>1 DEF PzipInv, Progress, EndInv, PrintedInOrder
<1>4. QueueInv'
  BY <1>1 DEF PzipInv, QueueInv, Slot, Taken
<1>5. HandsInv' /\ OutputInv'
  BY <1>1 DEF PzipInv, HandsInv, OutputInv, Taken
<1> QED
  BY <1>2, <1>3, <1>4, <1>5 DEF PzipInv

(* A consumer that has no chunk in hand goes on.                              *)
LEMMA MoveStep ==
  ASSUME PzipInv, NEW t \in Consumer, NEW l \in {"flag", "take", "done"},
         pc[t] # "compress", Goto(t, l), l = "done" => isComplete /\ numFull = 0,
         UNCHANGED <<producing, ring, isComplete, waiting, item, output, printed>>
  PROVE  PzipInv'
<1>1. /\ UNCHANGED <<file, chunk, globalPage, q, fillPtr, usePtr, numFull>>
      /\ UNCHANGED <<isComplete, waitFill, waitEmpty, item, output, printed>>
  BY DEF producing, ring, waiting
<1>2. /\ pc' = [x \in Thread |-> pc'[x]] /\ pc'[t] = l
      /\ \A u \in Thread \ {t} : pc'[u] = pc[u]
  BY ZenonT(90), GotoIs, Threads DEF PzipInv, Typed
<1>3. pc'[Producer] = pc[Producer] /\ \A u \in Consumer \ {t} : pc'[u] = pc[u]
  BY <1>2, Threads
<1>4. Typed'
  BY ZenonT(90), <1>1, <1>2, <1>3 DEF PzipInv, Typed, Consuming
<1>5. Progress' /\ PrintedInOrder'
  BY <1>1, <1>3 DEF PzipInv, Progress, PrintedInOrder
<1>6. EndInv'
  BY <1>1, <1>2, <1>3 DEF PzipInv, EndInv
<1>7. QueueInv'
  BY <1>1 DEF PzipInv, QueueInv, Slot, Taken
<1>8. HandsInv'
  BY <1>1, <1>2, <1>3 DEF PzipInv, HandsInv, Taken
<1>9. OutputInv'
  BY <1>1, <1>2, <1>3 DEF PzipInv, OutputInv, Taken
<1> QED
  BY <1>4, <1>5, <1>6, <1>7, <1>8, <1>9 DEF PzipInv

(* The producer goes on without touching the queue.                           *)
LEMMA OpenStep ==
  ASSUME PzipInv, OpenFile
  PROVE  PzipInv'
<1>1. /\ pc[Producer] = "open"
      /\ UNCHANGED <<globalPage, q, fillPtr, usePtr, numFull>>
      /\ UNCHANGED <<isComplete, waitFill, waitEmpty, item, output, printed>>
  BY DEF OpenFile, ring, waiting
<1>2. /\ \A u \in Consumer : pc'[u] = pc[u]
      /\ pc' = [x \in Thread |-> pc'[x]]
      /\ \/ /\ file > Len(Files) /\ pc'[Producer] = "finish" /\ UNCHANGED <<file, chunk>>
         \/ /\ file <= Len(Files) /\ FileSize(file) = 0 /\ file' = file + 1
            /\ pc'[Producer] = "open" /\ UNCHANGED chunk
         \/ /\ file <= Len(Files) /\ FileSize(file) # 0 /\ file' = file
            /\ pc'[Producer] = "put" /\ chunk' = 0
  <2>1. file \in Nat /\ pc = [x \in Thread |-> pc[x]]
    BY SMTT(60), Lengths DEF PzipInv, Typed
  <2>2. CASE file > Len(Files)
    BY ZenonT(90), <2>1, <2>2, GotoIs, Threads DEF OpenFile
  <2>3. CASE file <= Len(Files) /\ FileSize(file) = 0
    BY <1>1, <2>1, <2>3, Lengths, Threads DEF OpenFile
  <2>4. CASE file <= Len(Files) /\ FileSize(file) # 0
    <3>1. ~(file > Len(Files))
      BY <2>1, <2>4, Lengths
    <3>2. Goto(Producer, "put") /\ chunk' = 0 /\ file' = file
      BY <2>4, <3>1 DEF OpenFile
    <3> QED
      BY ZenonT(90), <2>1, <2>4, <3>2, GotoIs, Threads
  <2>5. file > Len(Files) \/ file <= Len(Files)
    BY <2>1, Lengths
  <2> QED
    BY ZenonT(90), <2>2, <2>3, <2>4, <2>5
<1>3. Typed'
  <2>1. file' \in 1..(Len(Files) + 1) /\ chunk' \in Nat /\ pc'[Producer] \in Producing
    BY SMTT(60), <1>2, Lengths DEF PzipInv, Typed, Producing
  <2> QED
    BY ZenonT(90), <1>1, <1>2, <2>1 DEF PzipInv, Typed
<1>4. Progress'
  <2>1. /\ file \in 1..(Len(Files) + 1) /\ chunk = 0
        /\ globalPage = ChunksUpTo[file - 1] + chunk /\ isComplete = FALSE
    BY SMTT(60), <1>1 DEF PzipInv, Typed, Progress
  <2>2. CASE file > Len(Files)
    BY <1>1, <1>2, <2>1, <2>2, Lengths DEF PzipInv, Progress
  <2>3. CASE file <= Len(Files) /\ FileSize(file) = 0
    <3>1. file' = file + 1 /\ pc'[Producer] = "open" /\ chunk' = 0 /\ globalPage' = globalPage
      BY <1>1, <1>2, <2>1, <2>3, Lengths
    <3>2. file \in 1..Len(Files) /\ file - 1 \in 0..Len(Files)
      BY <2>1, <2>3, Lengths
    <3>3. NumChunks(file) = 0
      BY <2>3, Lengths, PzipAssumption DEF PzipAssumption, NumChunks, Ceiling
    <3>4. ChunksUpTo[file] = ChunksUpTo[file - 1] + 0
      BY <3>2, <3>3, ChunksUpToIs
    <3>5. ChunksUpTo[file' - 1] = ChunksUpTo[file] /\ ChunksUpTo[file - 1] \in Nat
      <4>1. file + 1 - 1 = file
        BY <3>2
      <4> QED
        BY <3>1, <3>2, <4>1, ChunksUpToNat
    <3> QED
      BY <1>1, <2>1, <3>1, <3>4, <3>5 DEF PzipInv, Progress
  <2>4. CASE file <= Len(Files) /\ FileSize(file) # 0
    <3>1. file' = file /\ pc'[Producer] = "put" /\ chunk' = 0 /\ globalPage' = globalPage
      BY <1>1, <1>2, <2>1, <2>4, Lengths
    <3>2. file \in 1..Len(Files)
      BY <2>1, <2>4, Lengths
    <3>3. NumChunks(file) > 0 /\ NumChunks(file) \in Nat
      BY <2>4, <3>2, Sizes
    <3> QED
      BY <1>1, <2>1, <2>4, <3>1, <3>3 DEF PzipInv, Progress
  <2> QED
    BY <2>1, <2>2, <2>3, <2>4, Lengths
<1>5. EndInv'
  <2>1. ~printed.filled
    BY <1>1 DEF PzipInv, EndInv
  <2> QED
    BY <1>1, <1>2, <2>1 DEF PzipInv, EndInv
<1>6. QueueInv' /\ PrintedInOrder'
  BY <1>1 DEF PzipInv, QueueInv, PrintedInOrder, Slot, Taken
<1>7. HandsInv' /\ OutputInv'
  BY <1>1, <1>2 DEF PzipInv, HandsInv, OutputInv, Taken
<1> QED
  BY <1>3, <1>4, <1>5, <1>6, <1>7 DEF PzipInv

(* No more chunks are numbered than main() counted.                           *)
LEMMA PagesBelowTotal ==
  ASSUME PzipInv
  PROVE  globalPage \in 0..TotalChunks /\ numFull \in Nat /\ Taken \in 0..globalPage
<1>1. file \in 1..(Len(Files) + 1) /\ globalPage \in Nat /\ numFull \in Nat /\ numFull <= globalPage
  BY Lengths DEF PzipInv, Typed, QueueInv
<1>2. globalPage <= TotalChunks
  <2>1. CASE pc[Producer] = "put"
    <3>1. file \in 1..Len(Files) /\ chunk \in 0..(NumChunks(file) - 1)
      <4>1. file \in 1..Len(Files) /\ chunk \in Nat /\ chunk < NumChunks(file)
        BY <2>1, Lengths DEF PzipInv, Typed, Progress
      <4> QED
        BY <4>1, Sizes
    <3>2. ChunksUpTo[file] \in Nat
      BY <3>1, Lengths, ChunksUpToNat
    <3>3. /\ globalPage \in 0..(ChunksUpTo[file] - 1)
          /\ ChunksUpTo[file] <= TotalChunks /\ TotalChunks \in Nat
      BY <3>1, ChunksInFile DEF PzipInv, Progress
    <3> QED
      BY <3>2, <3>3
  <2>2. CASE pc[Producer] # "put"
    <3>1. globalPage = ChunksUpTo[file - 1] + 0
      BY <2>2 DEF PzipInv, Progress
    <3>2. file - 1 \in 0..Len(Files) /\ Len(Files) \in 0..Len(Files) /\ file - 1 <= Len(Files)
      BY <1>1, Lengths
    <3> QED
      BY <3>1, <3>2, ChunksGrow, ChunksUpToNat DEF TotalChunks
  <2> QED
    BY <2>1, <2>2
<1> QED
  BY <1>1, <1>2, Lengths DEF Taken

LEMMA PutStep ==
  ASSUME PzipInv, PutChunk
  PROVE  PzipInv'
<1> DEFINE x == [num |-> globalPage, data |-> Chunk(file, chunk)]
<1>1. /\ pc[Producer] = "put" /\ numFull # QLen
      /\ q' = [q EXCEPT ![fillPtr] = x]
      /\ fillPtr' = (fillPtr + 1) % QLen /\ numFull' = numFull + 1
      /\ globalPage' = globalPage + 1
      /\ UNCHANGED <<usePtr, isComplete, waitEmpty, item, output, printed>>
  BY DEF PutChunk, PutsChunk, QueueFull
<1>2. /\ file \in 1..Len(Files) /\ chunk \in 0..(NumChunks(file) - 1)
      /\ NumChunks(file) \in Nat /\ globalPage = ChunksUpTo[file - 1] + chunk
  <2>1. file \in 1..Len(Files) /\ chunk \in Nat /\ chunk < NumChunks(file)
    BY <1>1, Lengths DEF PzipInv, Typed, Progress
  <2> QED
    BY <2>1, Sizes DEF PzipInv, Progress
<1>3. x \in AllItems
  BY <1>2, ItemsAre DEF ItemAt
<1>4. x.num = globalPage
  OBVIOUS
<1> HIDE DEF x
<1>5. /\ globalPage \in Nat /\ numFull \in 0..(QLen - 1) /\ QLen \in Nat \ {0}
      /\ usePtr \in 0..(QLen - 1) /\ fillPtr = Slot(numFull + 1)
      /\ fillPtr \in 0..(QLen - 1)
  <2>1. usePtr + numFull = usePtr + (numFull + 1) - 1
    BY SMTT(60), Lengths DEF PzipInv, Typed
  <2> QED
    BY SMTT(60), <1>1, <2>1, Lengths DEF PzipInv, Typed, QueueInv, Slot
<1>6. /\ pc' = [u \in Thread |-> pc'[u]] /\ \A u \in Consumer : pc'[u] = pc[u]
      /\ \/ /\ chunk + 1 < NumChunks(file) /\ chunk' = chunk + 1 /\ file' = file
            /\ pc'[Producer] = "put"
         \/ /\ chunk + 1 = NumChunks(file) /\ chunk' = 0 /\ file' = file + 1
            /\ pc'[Producer] = "open"
  <2>1. pc = [u \in Thread |-> pc[u]]
    BY DEF PzipInv, Typed
  <2>2. CASE chunk + 1 < NumChunks(file)
    BY <1>1, <2>1, <2>2, Threads DEF PutChunk
  <2>3. CASE ~(chunk + 1 < NumChunks(file))
    <3>1. chunk' = 0 /\ file' = file + 1 /\ Goto(Producer, "open")
      BY <2>3 DEF PutChunk
    <3>2. chunk + 1 = NumChunks(file)
      BY <1>2, <2>3
    <3> QED
      BY SMTT(60), <2>1, <3>1, <3>2, GotoIs, Threads
  <2> QED
    BY <2>2, <2>3
<1>7. waitFill' \subseteq Consumer
  <2>1. Signal(waitFill, waitFill') /\ waitFill \subseteq Consumer
    BY DEF PutChunk, PzipInv, Typed
  <2> QED
    BY <2>1 DEF Signal
<1>8. Taken' = Taken
  BY <1>1, <1>5 DEF Taken
<1>9. Typed'
  <2>1. file' \in 1..(Len(Files) + 1) /\ chunk' \in Nat /\ globalPage' \in Nat
    <3>1. globalPage' \in Nat
      BY <1>1, <1>5
    <3>2. file \in 1..(Len(Files) + 1) /\ file + 1 \in 1..(Len(Files) + 1) /\ chunk + 1 \in Nat /\ 0 \in Nat
      BY <1>2, Lengths
    <3> QED
      BY ZenonT(90), <1>6, <3>1, <3>2
  <2>2. fillPtr' \in 0..(QLen - 1) /\ numFull' \in 0..QLen
    BY <1>1, <1>5
  <2>3. q' = [i \in 0..(QLen - 1) |-> q'[i]]
    BY ZenonT(90), <1>1 DEF PzipInv, Typed
  <2>4. pc'[Producer] \in Producing
    BY <1>6 DEF Producing
  <2> QED
    BY ZenonT(90), <1>1, <1>6, <1>7, <2>1, <2>2, <2>3, <2>4 DEF PzipInv, Typed
<1>10. Progress'
  <2>1. ChunksUpTo[file] = ChunksUpTo[file - 1] + NumChunks(file) /\ ChunksUpTo[file - 1] \in Nat
    <3>1. file - 1 \in 0..Len(Files)
      BY <1>2, Lengths
    <3> QED
      BY <1>2, <3>1, ChunksUpToIs, ChunksUpToNat
  <2>2. CASE chunk + 1 < NumChunks(file)
    <3>1. chunk' = chunk + 1 /\ file' = file /\ pc'[Producer] = "put"
      BY <1>2, <1>6, <2>2
    <3> QED
      <4>1. globalPage' = ChunksUpTo[file' - 1] + chunk'
        <5> DEFINE a == ChunksUpTo[file - 1]
        <5>1. a \in Nat /\ globalPage = a + chunk /\ chunk \in Nat
          BY <1>2, <2>1
        <5>2. ChunksUpTo[file' - 1] = a
          BY <3>1
        <5> HIDE DEF a
        <5>3. globalPage + 1 = a + (chunk + 1)
          BY <5>1
        <5> QED
          BY <1>1, <3>1, <5>2, <5>3
      <4>2. file' <= Len(Files) /\ chunk' < NumChunks(file')
        BY <1>2, <2>2, <3>1, Lengths
      <4> QED
        BY <1>1, <3>1, <4>1, <4>2 DEF PzipInv, Progress
  <2>3. CASE chunk + 1 = NumChunks(file)
    <3>1. chunk' = 0 /\ file' = file + 1 /\ pc'[Producer] = "open"
      BY <1>2, <1>6, <2>3
    <3>2. file + 1 - 1 = file
      BY <1>2
    <3>3. globalPage' = ChunksUpTo[file' - 1] + chunk'
      <4>1. ChunksUpTo[file' - 1] = ChunksUpTo[file]
        <5>1. file' - 1 = file
          BY <1>2, <3>1
        <5> QED
          BY ZenonT(90), <5>1
      <4> DEFINE a == ChunksUpTo[file - 1]
                 b == ChunksUpTo[file]
      <4>2. a \in Nat /\ globalPage = a + chunk /\ b = a + (chunk + 1) /\ chunk \in Nat
        BY <1>2, <2>1, <2>3
      <4> HIDE DEF a, b
      <4>3. globalPage + 1 = b + 0
        BY <4>2
      <4> QED
        BY <1>1, <3>1, <4>1, <4>3 DEF b
    <3> QED
      BY <1>1, <3>1, <3>3 DEF PzipInv, Progress
  <2> QED
    BY <1>6, <2>2, <2>3
<1>11. QueueInv'
  <2>1. numFull' <= globalPage'
    BY <1>1, <1>5 DEF PzipInv, QueueInv
  <2>2. fillPtr' = (usePtr' + numFull') % QLen
    <3>1. fillPtr = (usePtr + numFull) % QLen
      BY DEF PzipInv, QueueInv
    <3>2. (((usePtr + numFull) % QLen) + 1) % QLen = (usePtr + numFull + 1) % QLen
      <4> DEFINE z == usePtr + numFull
      <4>1. z \in Int /\ 1 \in Int /\ QLen \in Nat \ {0}
        BY <1>5
      <4> HIDE DEF z
      <4>2. ((z % QLen) + 1) % QLen = (z + 1) % QLen
        BY ZenonT(90), <4>1, ModAgain
      <4> QED
        BY <4>2 DEF z
    <3>3. usePtr + numFull + 1 = usePtr + (numFull + 1)
      BY <1>5
    <3> QED
      BY <1>1, <3>1, <3>2, <3>3
  <2>3. ASSUME NEW i \in 1..numFull'
        PROVE  q'[Slot(i)'] \in AllItems /\ q'[Slot(i)'].num = Taken' + i - 1
    <3>1. Slot(i)' = Slot(i)
      BY <1>1 DEF Slot
    <3>2. i \in 1..QLen /\ numFull + 1 \in 1..QLen
      BY <1>1, <1>5
    <3>3. Slot(i) \in 0..(QLen - 1) /\ (Slot(numFull + 1) = Slot(i) => i = numFull + 1)
      BY <1>5, <3>2, SlotIs
    <3>4. CASE i = numFull + 1
      <4>1. q'[Slot(i)'] = x
        BY <1>1, <1>5, <3>1, <3>4 DEF PzipInv, Typed
      <4> QED
        BY <1>3, <1>4, <1>5, <1>8, <3>4, <4>1 DEF Taken
    <3>5. CASE i # numFull + 1
      <4>1. q'[Slot(i)'] = q[Slot(i)]
        BY <1>1, <1>5, <3>1, <3>3, <3>5 DEF PzipInv, Typed
      <4>2. i \in 1..numFull
        BY <1>1, <1>5, <3>5
      <4> QED
        BY <1>8, <4>1, <4>2 DEF PzipInv, QueueInv
    <3> QED
      BY <3>4, <3>5
  <2> QED
    BY <2>1, <2>2, <2>3 DEF QueueInv
<1>12. HandsInv' /\ OutputInv'
  BY <1>1, <1>6, <1>8 DEF PzipInv, HandsInv, OutputInv
<1>13. EndInv' /\ PrintedInOrder'
  <2>1. ~isComplete /\ ~printed.filled
    BY <1>1 DEF PzipInv, Progress, EndInv
  <2> QED
    BY <1>1, <1>6, <2>1 DEF PzipInv, EndInv, PrintedInOrder
<1> QED
  BY <1>9, <1>10, <1>11, <1>12, <1>13 DEF PzipInv

LEMMA FinishStep ==
  ASSUME PzipInv, FinishProducer
  PROVE  PzipInv'
<1>1. /\ pc[Producer] = "finish" /\ isComplete' = TRUE /\ waitFill' = {}
      /\ UNCHANGED <<file, chunk, globalPage, q, fillPtr, usePtr, numFull>>
      /\ UNCHANGED <<waitEmpty, item, output, printed>>
  BY DEF FinishProducer, WokenAtEnd, producing, ring
<1>2. /\ pc' = [u \in Thread |-> pc'[u]] /\ pc'[Producer] = "done"
      /\ \A u \in Consumer : pc'[u] = pc[u]
  <2>1. pc = [u \in Thread |-> pc[u]] /\ Goto(Producer, "done")
    BY DEF PzipInv, Typed, FinishProducer
  <2> QED
    BY <2>1, GotoIs, Threads
<1>3. Typed'
  BY ZenonT(90), <1>1, <1>2 DEF PzipInv, Typed, Producing
<1>4. Progress'
  BY <1>1, <1>2 DEF PzipInv, Progress
<1>5. QueueInv'
  BY <1>1 DEF PzipInv, QueueInv, Slot, Taken
<1>6. HandsInv' /\ OutputInv'
  BY <1>1, <1>2 DEF PzipInv, HandsInv, OutputInv, Taken
<1>7. EndInv' /\ PrintedInOrder'
  BY <1>1, <1>2 DEF PzipInv, EndInv, PrintedInOrder
<1> QED
  BY <1>3, <1>4, <1>5, <1>6, <1>7 DEF PzipInv

(* When every consumer has left its loop, every chunk is in its place.        *)
LEMMA AllDone ==
  ASSUME PzipInv, \A t \in Consumer : pc[t] = "done"
  PROVE  numFull = 0 /\ \A n \in 0..(TotalChunks - 1) : output[n].filled
<1>1. isComplete /\ numFull = 0
  BY PzipAssumption DEF PzipAssumption, PzipInv, EndInv
<1>2. globalPage = TotalChunks
  <2>1. /\ file = Len(Files) + 1 /\ chunk = 0
        /\ globalPage = ChunksUpTo[file - 1] + chunk
    BY <1>1 DEF PzipInv, Progress
  <2>2. file - 1 = Len(Files)
    BY <2>1, Lengths
  <2> QED
    BY <2>1, <2>2, Lengths DEF TotalChunks
<1>3. ASSUME NEW n \in 0..(TotalChunks - 1), ~output[n].filled PROVE FALSE
  <2>1. n \in 0..(Taken - 1)
    BY <1>1, <1>2, Lengths DEF Taken
  <2> QED
    BY <1>3, <2>1 DEF PzipInv, OutputInv
<1> QED
  BY <1>1, <1>3

LEMMA MergeStep ==
  ASSUME PzipInv, MergeOutput
  PROVE  PzipInv'
<1>1. /\ pc[Producer] = "done" /\ \A t \in Consumer : pc[t] = "done"
      /\ UNCHANGED <<file, chunk, globalPage, q, fillPtr, usePtr, numFull>>
      /\ UNCHANGED <<isComplete, waitFill, waitEmpty, item, output>>
  BY DEF MergeOutput, producing, ring, waiting
<1>2. /\ pc' = [u \in Thread |-> pc'[u]] /\ pc'[Producer] = "joined"
      /\ \A u \in Consumer : pc'[u] = pc[u]
  <2>1. pc = [u \in Thread |-> pc[u]] /\ Goto(Producer, "joined")
    BY DEF PzipInv, Typed, MergeOutput
  <2> QED
    BY ZenonT(90), <2>1, GotoIs, Threads
<1>3. Typed'
  BY ZenonT(90), <1>1, <1>2 DEF PzipInv, Typed, Producing
<1>4. Progress'
  BY <1>1, <1>2 DEF PzipInv, Progress
<1>5. QueueInv'
  BY <1>1 DEF PzipInv, QueueInv, Slot, Taken
<1>6. HandsInv' /\ OutputInv'
  BY <1>1, <1>2 DEF PzipInv, HandsInv, OutputInv, Taken
<1>7. EndInv'
  BY <1>1, <1>2 DEF PzipInv, EndInv
<1>8. PrintedInOrder'
  <2> DEFINE A == [i \in 1..TotalChunks |-> output[i - 1].runs]
             B == [i \in 1..TotalChunks |-> Encode(DataOf(i - 1))]
  <2>1. A = B
    <3>1. ASSUME NEW i \in 1..TotalChunks PROVE output[i - 1].runs = Encode(DataOf(i - 1))
      <4>1. i - 1 \in 0..(TotalChunks - 1)
        BY Lengths
      <4> QED
        BY <1>1, <4>1, AllDone DEF PzipInv, OutputInv
    <3> QED
      BY <3>1
  <2>2. printed'.runs = Merge(FlattenSeq(A))
    BY DEF MergeOutput, Filled
  <2> QED
    BY ZenonT(90), <2>1, <2>2 DEF PrintedInOrder
<1> QED
  BY <1>3, <1>4, <1>5, <1>6, <1>7, <1>8 DEF PzipInv

(* The oldest chunk of the queue.                                             *)
LEMMA Oldest ==
  ASSUME PzipInv, numFull # 0
  PROVE  /\ q[usePtr] \in AllItems /\ q[usePtr].num = Taken /\ numFull \in 1..QLen
         /\ usePtr' = (usePtr + 1) % QLen => \A i \in Int : Slot(i)' = Slot(i + 1)
<1>1. numFull \in 1..QLen /\ usePtr \in 0..(QLen - 1) /\ QLen \in Nat \ {0}
  BY SMTT(60), Lengths DEF PzipInv, Typed
<1>2. Slot(1) = usePtr
  <2>1. usePtr + 1 - 1 = usePtr /\ usePtr = QLen * 0 + usePtr
    BY <1>1
  <2> QED
    BY <1>1, <2>1, ModIs DEF Slot
<1>3. 1 \in 1..numFull /\ Taken + 1 - 1 = Taken
  BY <1>1, PagesBelowTotal, Lengths
<1>4. q[Slot(1)] \in AllItems /\ q[Slot(1)].num = Taken + 1 - 1
  BY <1>3 DEF PzipInv, QueueInv
<1>5. ASSUME usePtr' = (usePtr + 1) % QLen, NEW i \in Int PROVE Slot(i)' = Slot(i + 1)
  <2> DEFINE a == usePtr + 1
             b == i - 1
  <2>1. a \in Int /\ b \in Int
    BY <1>1, <1>5
  <2>2. Slot(i)' = ((a % QLen) + b) % QLen
    <3>1. Slot(i)' = (((usePtr + 1) % QLen) + i - 1) % QLen
      BY <1>5 DEF Slot
    <3>2. (usePtr + 1) % QLen \in Int
      BY <1>1
    <3>3. ((usePtr + 1) % QLen) + i - 1 = ((usePtr + 1) % QLen) + (i - 1)
      BY <1>5, <3>2
    <3> QED
      BY <3>1, <3>3
  <2>3. Slot(i + 1) = (a + b) % QLen
    <3>1. usePtr + (i + 1) - 1 = usePtr + 1 + (i - 1)
      BY <1>1, <1>5
    <3> QED
      BY <3>1 DEF Slot
  <2> HIDE DEF a, b
  <2>4. ((a % QLen) + b) % QLen = (a + b) % QLen
    BY ZenonT(90), <1>1, <2>1, ModAgain
  <2> QED
    BY <2>2, <2>3, <2>4
<1> QED
  BY <1>1, <1>2, <1>3, <1>4, <1>5

LEMMA TakeStep ==
  ASSUME PzipInv, NEW t \in Consumer, TakeChunk(t)
  PROVE  PzipInv'
<1> DEFINE x == q[usePtr]
<1>1. /\ pc[t] = "take" /\ numFull # 0
      /\ item' = [item EXCEPT ![t] = x]
      /\ usePtr' = (usePtr + 1) % QLen /\ numFull' = numFull - 1
      /\ UNCHANGED <<file, chunk, globalPage, q, fillPtr, isComplete, waitFill, output, printed>>
  BY DEF TakeChunk, Takes, CanTake, producing
<1>2. x \in AllItems /\ x.num = Taken /\ x.num \in 0..(TotalChunks - 1)
  BY <1>1, Oldest, ItemHasItsData
<1> HIDE DEF x
<1>3. /\ globalPage \in Nat /\ numFull \in 1..QLen /\ Taken \in Nat /\ Taken' = Taken + 1
      /\ usePtr \in 0..(QLen - 1) /\ QLen \in Nat \ {0}
  <2>1. /\ globalPage \in Nat /\ numFull \in 0..QLen /\ usePtr \in 0..(QLen - 1)
        /\ QLen \in Nat \ {0} /\ Taken \in Nat
    BY SMTT(60), Lengths, PagesBelowTotal DEF PzipInv, Typed
  <2>2. Taken' = Taken + 1
    BY <1>1, <2>1 DEF Taken
  <2> QED
    BY <1>1, <2>1, <2>2
<1>4. /\ pc' = [u \in Thread |-> pc'[u]] /\ pc'[t] = "compress" /\ pc'[Producer] = pc[Producer]
      /\ \A u \in Consumer \ {t} : pc'[u] = pc[u]
  <2>1. pc = [u \in Thread |-> pc[u]] /\ Goto(t, "compress")
    BY DEF PzipInv, Typed, TakeChunk
  <2> QED
    BY <2>1, ConsumerGoto
<1>5. /\ item' = [u \in Thread |-> item'[u]] /\ item'[t] = x
      /\ \A u \in Consumer \ {t} : item'[u] = item[u]
  <2>1. item = [u \in Thread |-> item[u]]
    BY DEF PzipInv, Typed
  <2> QED
    BY ZenonT(90), <1>1, <2>1, Threads
<1>6. Typed'
  <2>1. usePtr' \in 0..(QLen - 1)
    BY <1>1, <1>3
  <2>2. numFull' \in 0..QLen
    BY <1>1, <1>3
  <2>3. waitEmpty' \subseteq {Producer}
    <3>1. Signal(waitEmpty, waitEmpty') /\ waitEmpty \subseteq {Producer}
      BY DEF TakeChunk, PzipInv, Typed
    <3> QED
      BY <3>1 DEF Signal
  <2>4. pc'[Producer] \in Producing /\ \A u \in Consumer : pc'[u] \in Consuming
    BY ZenonT(90), <1>4 DEF PzipInv, Typed, Consuming
  <2> QED
    BY SMTT(60), <1>1, <1>4, <1>5, <2>1, <2>2, <2>3, <2>4 DEF PzipInv, Typed
<1>7. Progress' /\ PrintedInOrder'
  BY <1>1, <1>4 DEF PzipInv, Progress, PrintedInOrder
<1>8. QueueInv'
  <2>1. numFull' <= globalPage'
    BY <1>1, <1>3 DEF PzipInv, QueueInv
  <2>2. fillPtr' = (usePtr' + numFull') % QLen
    <3> DEFINE a == usePtr + 1
               b == numFull - 1
    <3>1. a \in Int /\ b \in Int /\ usePtr + numFull = a + b
      BY <1>3
    <3>2. fillPtr = (usePtr + numFull) % QLen /\ usePtr' = a % QLen /\ numFull' = b
      BY <1>1 DEF PzipInv, QueueInv
    <3> HIDE DEF a, b
    <3>3. ((a % QLen) + b) % QLen = (a + b) % QLen
      BY ZenonT(90), <1>3, <3>1, ModAgain
    <3> QED
      BY <1>1, <3>1, <3>2, <3>3
  <2>3. ASSUME NEW i \in 1..numFull'
        PROVE  q'[Slot(i)'] \in AllItems /\ q'[Slot(i)'].num = Taken' + i - 1
    <3>1. i \in Int /\ i + 1 \in 1..numFull
      BY <1>1, <1>3
    <3>2. Slot(i)' = Slot(i + 1)
      BY <1>1, <3>1, Oldest
    <3>3. q[Slot(i + 1)] \in AllItems /\ q[Slot(i + 1)].num = Taken + (i + 1) - 1
      BY <3>1 DEF PzipInv, QueueInv
    <3>4. Taken + (i + 1) - 1 = Taken' + i - 1
      BY <1>3, <3>1
    <3> QED
      BY <1>1, <3>2, <3>3, <3>4
  <2> QED
    BY <2>1, <2>2, <2>3 DEF QueueInv
<1>9. HandsInv'
  <2>1. ASSUME NEW u \in Consumer, pc'[u] = "compress"
        PROVE  item'[u] \in AllItems /\ item'[u].num < Taken' /\ ~output'[item'[u].num].filled
    <3>1. CASE u = t
      <4>1. ~output[x.num].filled
        <5>1. ~(x.num < Taken)
          BY <1>2, <1>3
        <5> QED
          BY <1>2, <5>1 DEF PzipInv, OutputInv
      <4> QED
        BY <1>1, <1>2, <1>3, <1>5, <3>1, <4>1
    <3>2. CASE u # t
      <4>1. item[u] \in AllItems /\ item[u].num < Taken /\ ~output[item[u].num].filled
        BY <1>4, <2>1, <3>2 DEF PzipInv, HandsInv
      <4>2. item[u].num \in Int
        BY <4>1, ItemHasItsData, Lengths
      <4> QED
        BY <1>1, <1>3, <1>5, <3>2, <4>1, <4>2
    <3> QED
      BY <3>1, <3>2
  <2>2. ASSUME NEW u \in Consumer \ {t}, pc'[u] = "compress" PROVE item'[u].num # x.num
    <3>1. item[u] \in AllItems /\ item[u].num < Taken
      BY <1>4, <2>2 DEF PzipInv, HandsInv
    <3>2. item[u].num \in Int
      BY <3>1, ItemHasItsData, Lengths
    <3> QED
      BY <1>2, <1>3, <1>5, <3>1, <3>2
  <2>3. ASSUME NEW u \in Consumer, NEW v \in Consumer,
               pc'[u] = "compress", pc'[v] = "compress", item'[u].num = item'[v].num
        PROVE  u = v
    <3>1. CASE u = t \/ v = t
      BY <1>5, <2>2, <2>3, <3>1
    <3>2. CASE u # t /\ v # t
      BY <1>4, <1>5, <2>3, <3>2 DEF PzipInv, HandsInv
    <3> QED
      BY <3>1, <3>2
  <2> QED
    BY <2>1, <2>3 DEF HandsInv
<1>10. OutputInv'
  <2>1. ASSUME NEW n \in 0..(TotalChunks - 1), output'[n].filled
        PROVE  n < Taken' /\ output'[n].runs = Encode(DataOf(n))
    <3>1. n < Taken /\ output[n].runs = Encode(DataOf(n))
      BY <1>1, <2>1 DEF PzipInv, OutputInv
    <3> QED
      BY <1>1, <1>3, <3>1, Lengths
  <2>2. ASSUME NEW n \in 0..(Taken' - 1), ~output'[n].filled
        PROVE  \E u \in Consumer : pc'[u] = "compress" /\ item'[u].num = n
    <3>1. CASE n = Taken
      BY <1>2, <1>4, <1>5, <3>1
    <3>2. CASE n # Taken
      <4>1. n \in 0..(Taken - 1)
        BY <1>3, <3>2
      <4>2. PICK u \in Consumer : pc[u] = "compress" /\ item[u].num = n
        BY <1>1, <2>2, <4>1 DEF PzipInv, OutputInv
      <4>3. u # t
        BY <1>1, <4>2
      <4> QED
        BY <1>4, <1>5, <4>2, <4>3
    <3> QED
      BY <3>1, <3>2
  <2> QED
    BY <2>1, <2>2 DEF OutputInv
<1>11. EndInv'
  <2>1. \A u \in Consumer : pc[u] # "done"
    BY <1>1 DEF PzipInv, EndInv
  <2> QED
    BY <1>1, <1>4, <2>1 DEF PzipInv, EndInv
<1> QED
  BY <1>6, <1>7, <1>8, <1>9, <1>10, <1>11 DEF PzipInv

LEMMA CompressStep ==
  ASSUME PzipInv, NEW t \in Consumer, Compress(t)
  PROVE  PzipInv'
<1> DEFINE x == item[t]
           r == Filled(Encode(x.data))
<1>1. /\ pc[t] = "compress"
      /\ output' = [output EXCEPT ![x.num] = r]
      /\ item' = [item EXCEPT ![t] = NoItem]
      /\ UNCHANGED <<file, chunk, globalPage, q, fillPtr, usePtr, numFull>>
      /\ UNCHANGED <<isComplete, waitFill, waitEmpty, printed>>
  BY DEF Compress, producing, ring, waiting
<1>2. x \in AllItems /\ x.num < Taken
  BY <1>1 DEF PzipInv, HandsInv
<1>3. r.filled /\ r.runs = Encode(DataOf(x.num)) /\ x.num \in 0..(TotalChunks - 1)
  BY <1>2, ItemHasItsData DEF Filled
<1> HIDE DEF x, r
<1>4. /\ pc' = [u \in Thread |-> pc'[u]] /\ pc'[t] = "flag" /\ pc'[Producer] = pc[Producer]
      /\ \A u \in Consumer \ {t} : pc'[u] = pc[u]
  <2>1. pc = [u \in Thread |-> pc[u]] /\ Goto(t, "flag")
    BY DEF PzipInv, Typed, Compress
  <2> QED
    BY <2>1, ConsumerGoto
<1>5. /\ item' = [u \in Thread |-> item'[u]] /\ \A u \in Consumer \ {t} : item'[u] = item[u]
  <2>1. item = [u \in Thread |-> item[u]]
    BY DEF PzipInv, Typed
  <2> QED
    BY ZenonT(90), <1>1, <2>1, Threads
<1>6. /\ output' = [n \in 0..(TotalChunks - 1) |-> output'[n]] /\ output'[x.num] = r
      /\ \A n \in 0..(TotalChunks - 1) : n # x.num => output'[n] = output[n]
  <2>1. output = [n \in 0..(TotalChunks - 1) |-> output[n]]
    BY DEF PzipInv, Typed
  <2> QED
    BY ZenonT(90), <1>1, <1>3, <2>1
<1>7. Taken' = Taken
  BY <1>1 DEF Taken
<1>8. Typed'
  BY ZenonT(90), <1>1, <1>4, <1>5, <1>6 DEF PzipInv, Typed, Consuming
<1>9. Progress' /\ PrintedInOrder'
  BY <1>1, <1>4 DEF PzipInv, Progress, PrintedInOrder
<1>10. QueueInv'
  BY <1>1 DEF PzipInv, QueueInv, Slot, Taken
<1>11. HandsInv'
  <2>1. ASSUME NEW u \in Consumer, pc'[u] = "compress"
        PROVE  item'[u] \in AllItems /\ item'[u].num < Taken' /\ ~output'[item'[u].num].filled
    <3>1. u # t
      BY <1>4, <2>1
    <3>2. pc[u] = "compress" /\ item'[u] = item[u]
      BY <1>4, <1>5, <2>1, <3>1
    <3>3. item[u] \in AllItems /\ item[u].num < Taken /\ ~output[item[u].num].filled
      BY <3>2 DEF PzipInv, HandsInv
    <3>4. item[u].num # x.num
      BY <1>1, <3>1, <3>2 DEF PzipInv, HandsInv, x
    <3>5. item[u].num \in 0..(TotalChunks - 1)
      BY <3>3, ItemHasItsData
    <3> QED
      BY <1>6, <1>7, <3>2, <3>3, <3>4, <3>5
  <2>2. ASSUME NEW u \in Consumer, NEW v \in Consumer,
               pc'[u] = "compress", pc'[v] = "compress", item'[u].num = item'[v].num
        PROVE  u = v
    <3>1. u # t /\ v # t
      BY <1>4, <2>2
    <3> QED
      BY <1>4, <1>5, <2>2, <3>1 DEF PzipInv, HandsInv
  <2> QED
    BY <2>1, <2>2 DEF HandsInv
<1>12. OutputInv'
  <2>1. ASSUME NEW n \in 0..(TotalChunks - 1), output'[n].filled
        PROVE  n < Taken' /\ output'[n].runs = Encode(DataOf(n))
    <3>1. CASE n = x.num
      BY <1>2, <1>3, <1>6, <1>7, <3>1
    <3>2. CASE n # x.num
      <4>1. output'[n] = output[n]
        BY <1>6, <3>2
      <4> QED
        BY <1>7, <2>1, <4>1 DEF PzipInv, OutputInv
    <3> QED
      BY <3>1, <3>2
  <2>2. ASSUME NEW n \in 0..(Taken' - 1), ~output'[n].filled
        PROVE  \E u \in Consumer : pc'[u] = "compress" /\ item'[u].num = n
    <3>1. n \in 0..(Taken - 1) /\ n \in 0..(TotalChunks - 1)
      BY <1>7, PagesBelowTotal, Lengths
    <3>2. n # x.num
      BY <1>3, <1>6, <2>2
    <3>3. output'[n] = output[n]
      BY <1>6, <3>1, <3>2
    <3>4. PICK u \in Consumer : pc[u] = "compress" /\ item[u].num = n
      BY <2>2, <3>1, <3>3 DEF PzipInv, OutputInv
    <3>5. u # t
      BY <3>2, <3>4 DEF x
    <3> QED
      BY <1>4, <1>5, <3>4, <3>5
  <2> QED
    BY <2>1, <2>2 DEF OutputInv
<1>13. EndInv'
  BY <1>1, <1>4 DEF PzipInv, EndInv
<1> QED
  BY <1>8, <1>9, <1>10, <1>11, <1>12, <1>13 DEF PzipInv

LEMMA StepInv ==
  ASSUME PzipInv, [Next]_vars
  PROVE  PzipInv'
<1>0. waitFill \subseteq Consumer /\ waitEmpty \subseteq {Producer}
  BY DEF PzipInv, Typed
<1>1. CASE OpenFile
  BY <1>1, OpenStep
<1>2. CASE PutWait
  BY <1>0, <1>2, WaitStep DEF PutWait
<1>3. CASE PutChunk
  BY <1>3, PutStep
<1>4. CASE FinishProducer
  BY <1>4, FinishStep
<1>5. CASE MergeOutput
  BY <1>5, MergeStep
<1>6. ASSUME NEW t \in Consumer, ConsumerStep(t) PROVE PzipInv'
  <2>1. CASE ReadFlag(t)
    <3>1. isComplete \in BOOLEAN
      BY DEF PzipInv, Progress
    <3>2. CASE GoOn
      BY <2>1, <3>2, MoveStep DEF ReadFlag
    <3>3. CASE ~GoOn
      <4>1. isComplete /\ numFull = 0
        BY <3>1, <3>3 DEF GoOn
      <4> QED
        BY <2>1, <3>3, <4>1, MoveStep DEF ReadFlag
    <3> QED
      BY <3>2, <3>3
  <2>2. CASE TakeWait(t)
    <3>1. waitFill' \subseteq Consumer /\ waitEmpty' \subseteq {Producer}
      BY <1>0, <2>2 DEF TakeWait
    <3>2. UNCHANGED <<producing, ring, isComplete, pc, item, output, printed>>
      BY <2>2 DEF TakeWait
    <3> QED
      BY <3>1, <3>2, WaitStep
  <2>3. CASE TakeChunk(t)
    BY <2>3, TakeStep
  <2>4. CASE TakeNothing(t)
    BY <2>4, MoveStep DEF TakeNothing, Takes
  <2>5. CASE Compress(t)
    BY <2>5, CompressStep
  <2> QED
    BY <1>6, <2>1, <2>2, <2>3, <2>4, <2>5 DEF ConsumerStep
<1>7. CASE SpuriousWakeup
  <2>1. waitFill' \subseteq Consumer /\ waitEmpty' \subseteq {Producer}
    BY <1>0, <1>7 DEF SpuriousWakeup
  <2>2. UNCHANGED <<producing, ring, isComplete, pc, item, output, printed>>
    BY <1>7 DEF SpuriousWakeup
  <2> QED
    BY <2>1, <2>2, WaitStep
<1>8. CASE UNCHANGED vars
  BY <1>0, <1>8, WaitStep DEF vars, waiting
<1> QED
  BY <1>1, <1>2, <1>3, <1>4, <1>5, <1>6, <1>7, <1>8 DEF Next, ProducerStep, Exited

LEMMA Inductive == Spec => []PzipInv
<1>1. Init => PzipInv
  BY InitInv
<1>2. PzipInv /\ [Next]_vars => PzipInv'
  BY StepInv
<1> QED
  BY <1>1, <1>2, PTL DEF Spec

-----------------------------------------------------------------------------
(* What the invariant says. *)

LEMMA OnePlace == PzipInv => ChunkInOnePlace
<1> SUFFICES ASSUME PzipInv, NEW n \in 0..(globalPage - 1)
             PROVE  Cardinality({i \in 1..numFull : Queued[i].num = n})
                      + Cardinality({t \in Consumer : pc[t] = "compress" /\ item[t].num = n})
                      + (IF output[n].filled THEN 1 ELSE 0) = 1
  BY DEF ChunkInOnePlace
<1> DEFINE I == {i \in 1..numFull : Queued[i].num = n}
           T == {t \in Consumer : pc[t] = "compress" /\ item[t].num = n}
<1>1. /\ globalPage \in 0..TotalChunks /\ numFull \in Nat /\ Taken \in 0..globalPage
      /\ TotalChunks \in Nat /\ Taken + numFull = globalPage
  BY PagesBelowTotal, Lengths DEF Taken
<1>2. n \in 0..(TotalChunks - 1)
  BY <1>1
<1>3. \A i \in 1..numFull : Queued[i].num = Taken + i - 1
  BY DEF Queued, PzipInv, QueueInv, Slot
<1>4. CASE n < Taken
  <2>1. I = {}
    BY <1>1, <1>3, <1>4
  <2>2. CASE output[n].filled
    <3>1. T = {}
      BY <2>2 DEF PzipInv, HandsInv
    <3> HIDE DEF I, T
    <3>2. Cardinality(I) = 0 /\ Cardinality(T) = 0
      BY <2>1, <3>1, FS_EmptySet
    <3> QED
      BY <2>2, <3>2 DEF I, T
  <2>3. CASE ~output[n].filled
    <3>1. PICK t \in Consumer : pc[t] = "compress" /\ item[t].num = n
      BY <1>1, <1>4, <2>3 DEF PzipInv, OutputInv
    <3>2. T = {t}
      BY <3>1 DEF PzipInv, HandsInv
    <3> HIDE DEF I, T
    <3>3. Cardinality(I) = 0 /\ Cardinality(T) = 1
      BY ZenonT(90), <2>1, <3>2, FS_EmptySet, FS_Singleton
    <3> QED
      BY <2>3, <3>3 DEF I, T
  <2> QED
    BY <2>2, <2>3
<1>5. CASE ~(n < Taken)
  <2> DEFINE k == n - Taken + 1
  <2>1. k \in 1..numFull /\ \A i \in 1..numFull : Taken + i - 1 = n <=> i = k
    BY <1>1, <1>5
  <2> HIDE DEF k
  <2>2. I = {k}
    BY <1>3, <2>1
  <2>3. T = {}
    BY <1>5 DEF PzipInv, HandsInv
  <2>4. ~output[n].filled
    BY <1>2, <1>5 DEF PzipInv, OutputInv
  <2> HIDE DEF I, T
  <2>5. Cardinality(I) = 1 /\ Cardinality(T) = 0
    BY <2>2, <2>3, FS_EmptySet, FS_Singleton
  <2> QED
    BY <2>4, <2>5 DEF I, T
<1> QED
  BY <1>4, <1>5

LEMMA InvImplies == PzipInv => PzipSound
<1> SUFFICES ASSUME PzipInv PROVE PzipSound
  OBVIOUS
<1>1. TypeOK
  <2>1. DOMAIN q = 0..(QLen - 1) /\ DOMAIN output = 0..(TotalChunks - 1)
    BY DEF PzipInv, Typed
  <2>2. globalPage \in 0..TotalChunks
    BY PagesBelowTotal
  <2> QED
    BY <2>1, <2>2 DEF TypeOK, PzipInv, Typed, Progress, Producing, Consuming
<1>2. NothingLeft
  <2>1. DOMAIN output = 0..(TotalChunks - 1)
    BY DEF PzipInv, Typed
  <2> QED
    BY <2>1, AllDone DEF NothingLeft
<1> QED
  BY <1>1, <1>2, OnePlace DEF PzipSound, PzipInv

(* Whatever consumers encode the chunks, and in whatever order they finish:   *)
(* every chunk the producer has cut is in one place - the queue, the hands of *)
(* one consumer, or its slot of the output -, the consumers leave when none   *)
(* is left, and compressOutput() merges the encodings in the order of the     *)
(* input.                                                                     *)
THEOREM PzipIsSound == Spec => []PzipSound
<1>1. PzipInv => PzipSound
  BY InvImplies
<1> QED
  BY <1>1, Inductive, PTL

-----------------------------------------------------------------------------
(* The queue. *)

LEMMA QueuedIs ==
  ASSUME PzipInv
  PROVE  /\ Queued \in Seq(AllItems) /\ Len(Queued) = numFull
         /\ \A i \in 1..numFull : Queued[i] = q[Slot(i)]
<1>1. numFull \in Nat
  BY PagesBelowTotal
<1>2. Queued = [i \in 1..numFull |-> q[Slot(i)]]
  BY DEF Queued, Slot
<1>3. \A i \in 1..numFull : q[Slot(i)] \in AllItems
  BY DEF PzipInv, QueueInv
<1> QED
  BY <1>1, <1>2, <1>3

LEMMA QueuedNext ==
  ASSUME PzipInv'
  PROVE  /\ Queued' \in Seq(AllItems) /\ Len(Queued') = numFull'
         /\ \A i \in 1..numFull' : Queued'[i] = q'[Slot(i)']
<1>1. numFull' \in Nat
  BY Lengths DEF PzipInv, Typed
<1>2. Queued' = [i \in 1..numFull' |-> q'[Slot(i)']]
  BY DEF Queued, Slot
<1>3. \A i \in 1..numFull' : q'[Slot(i)'] \in AllItems
  BY DEF PzipInv, QueueInv
<1> QED
  BY <1>1, <1>2, <1>3

LEMMA AppendIs ==
  ASSUME NEW S, NEW s \in Seq(S), NEW x \in S, NEW u \in Seq(S), Len(u) = Len(s) + 1,
         \A i \in 1..Len(s) : u[i] = s[i], u[Len(s) + 1] = x
  PROVE  u = Append(s, x)
OBVIOUS

LEMMA TailIs ==
  ASSUME NEW S, NEW s \in Seq(S), s # <<>>, NEW u \in Seq(S), Len(u) = Len(s) - 1,
         \A i \in 1..Len(u) : u[i] = s[i + 1]
  PROVE  u = Tail(s)
OBVIOUS

(* put() adds the chunk it is given at the end.                               *)
LEMMA PutIsPut ==
  ASSUME PzipInv, PzipInv', PutChunk
  PROVE  \E x \in AllItems : Queue!Put(x)
<1>1. /\ numFull # QLen /\ numFull' = numFull + 1 /\ globalPage' = globalPage + 1
      /\ usePtr' = usePtr
      /\ q' = [q EXCEPT ![fillPtr] = [num |-> globalPage, data |-> Chunk(file, chunk)]]
  BY DEF PutChunk, QueueFull
<1>2. /\ numFull \in 0..(QLen - 1) /\ usePtr \in 0..(QLen - 1) /\ globalPage \in Nat
      /\ QLen \in Nat \ {0} /\ fillPtr = Slot(numFull + 1)
  <2>1. numFull \in 0..QLen /\ usePtr \in 0..(QLen - 1) /\ QLen \in Nat \ {0} /\ globalPage \in Nat
    BY Lengths DEF PzipInv, Typed
  <2>2. usePtr + numFull = usePtr + (numFull + 1) - 1
    BY <2>1
  <2> QED
    BY <1>1, <2>1, <2>2 DEF PzipInv, QueueInv, Slot
<1> DEFINE s == Queued
           u == Queued'
<1>3. s \in Seq(AllItems) /\ Len(s) = numFull /\ \A i \in 1..numFull : s[i] = q[Slot(i)]
  BY QueuedIs
<1>4. u \in Seq(AllItems) /\ Len(u) = numFull' /\ \A i \in 1..numFull' : u[i] = q'[Slot(i)']
  BY QueuedNext
<1> HIDE DEF s, u
<1>5. ASSUME NEW i \in 1..numFull PROVE u[i] = s[i]
  <2>1. i \in 1..QLen /\ numFull + 1 \in 1..QLen /\ i # numFull + 1 /\ i \in 1..numFull'
    BY <1>1, <1>2
  <2>2. Slot(i) \in 0..(QLen - 1) /\ Slot(i) # fillPtr
    BY <1>2, <2>1, SlotIs
  <2>3. Slot(i)' = Slot(i)
    BY <1>1 DEF Slot
  <2>4. q'[Slot(i)] = q[Slot(i)]
    BY <1>1, <2>2 DEF PzipInv, Typed
  <2> QED
    BY <1>3, <1>4, <2>1, <2>3, <2>4
<1> DEFINE x == u[numFull + 1]
<1>6. x \in AllItems
  BY <1>1, <1>2, <1>4
<1>7. Len(u) = Len(s) + 1 /\ (\A i \in 1..Len(s) : u[i] = s[i]) /\ u[Len(s) + 1] = x
  BY <1>1, <1>3, <1>4, <1>5
<1> HIDE DEF x
<1>8. u = Append(s, x)
  BY <1>3, <1>4, <1>6, <1>7, AppendIs
<1>9. Len(s) < QLen /\ (globalPage - numFull)' = globalPage - numFull
  BY <1>1, <1>2, <1>3
<1> QED
  BY <1>1, <1>6, <1>8, <1>9 DEF Queue!Put, s, u

(* get() takes the oldest one.                                                *)
LEMMA TakeIsGet ==
  ASSUME PzipInv, PzipInv', NEW t \in Consumer, TakeChunk(t)
  PROVE  Queue!Get
<1>1. /\ numFull # 0 /\ numFull' = numFull - 1 /\ globalPage' = globalPage /\ q' = q
      /\ usePtr' = (usePtr + 1) % QLen
  BY DEF TakeChunk, CanTake, producing
<1>2. numFull \in 1..QLen /\ globalPage \in Nat /\ \A i \in Int : Slot(i)' = Slot(i + 1)
  BY <1>1, Oldest, PagesBelowTotal
<1> DEFINE s == Queued
           u == Queued'
<1>3. s \in Seq(AllItems) /\ Len(s) = numFull /\ \A i \in 1..numFull : s[i] = q[Slot(i)]
  BY QueuedIs
<1>4. u \in Seq(AllItems) /\ Len(u) = numFull' /\ \A i \in 1..numFull' : u[i] = q'[Slot(i)']
  BY QueuedNext
<1> HIDE DEF s, u
<1>5. ASSUME NEW i \in 1..Len(u) PROVE u[i] = s[i + 1]
  <2>1. i \in Int /\ i \in 1..numFull'
    BY <1>4
  <2>2. i + 1 \in 1..numFull
    BY <1>1, <1>2, <2>1
  <2> QED
    BY ZenonT(90), <1>1, <1>2, <1>3, <1>4, <2>1, <2>2
<1>6. Len(u) = Len(s) - 1 /\ s # <<>>
  BY <1>1, <1>2, <1>3, <1>4, Lengths
<1>7. u = Tail(s)
  BY <1>3, <1>4, <1>5, <1>6, TailIs
<1>8. (globalPage - numFull)' = globalPage - numFull + 1
  BY <1>1, <1>2, Lengths
<1> QED
  BY <1>1, <1>6, <1>7, <1>8 DEF Queue!Get, s, u

LEMMA OtherStepsStutter ==
  ASSUME UNCHANGED <<globalPage, q, usePtr, numFull>>
  PROVE  UNCHANGED <<Queued, globalPage, globalPage - numFull>>
BY DEF Queued

(* put() and get() are those of a bounded first-in first-out queue.           *)
THEOREM QueueImplementsFifo == Spec => QueueIsFifo
<1>1. Init => Queue!FInit
  <2> SUFFICES ASSUME Init PROVE Queue!FInit
    OBVIOUS
  <2>1. Queued = <<>>
    <3>1. PzipInv /\ numFull = 0
      BY InitInv DEF Init
    <3>2. Queued \in Seq(AllItems) /\ Len(Queued) = 0
      BY <3>1, QueuedIs
    <3> QED
      BY <3>2
  <2> QED
    BY <2>1 DEF Init, Queue!FInit
<1>2. PzipInv /\ PzipInv' /\ [Next]_vars =>
        [Queue!FNext]_<<Queued, globalPage, globalPage - numFull>>
  <2> SUFFICES ASSUME PzipInv, PzipInv', [Next]_vars
               PROVE  Queue!FNext \/ UNCHANGED <<Queued, globalPage, globalPage - numFull>>
    OBVIOUS
  <2>1. CASE PutChunk
    BY <2>1, PutIsPut DEF Queue!FNext
  <2>2. ASSUME NEW t \in Consumer, TakeChunk(t) PROVE Queue!FNext
    BY <2>2, TakeIsGet DEF Queue!FNext
  <2>3. CASE UNCHANGED <<globalPage, q, usePtr, numFull>>
    BY <2>3, OtherStepsStutter
  <2>4. CASE OpenFile \/ PutWait \/ FinishProducer \/ MergeOutput \/ SpuriousWakeup
    <3>1. UNCHANGED <<globalPage, q, usePtr, numFull>>
      BY <2>4 DEF OpenFile, PutWait, FinishProducer, MergeOutput, SpuriousWakeup, producing, ring
    <3> QED
      BY <2>3, <3>1
  <2>5. ASSUME NEW t \in Consumer, ReadFlag(t) \/ TakeWait(t) \/ TakeNothing(t) \/ Compress(t)
        PROVE  UNCHANGED <<globalPage, q, usePtr, numFull>>
    BY <2>5 DEF ReadFlag, TakeWait, TakeNothing, Compress, producing, ring
  <2>6. CASE UNCHANGED vars
    BY <2>3, <2>6 DEF vars, producing, ring
  <2> QED
    BY <2>1, <2>2, <2>3, <2>4, <2>5, <2>6 DEF Next, ProducerStep, ConsumerStep, Exited
<1> QED
  BY <1>1, <1>2, Inductive, PTL DEF Spec, QueueIsFifo, Queue!FSpec

-----------------------------------------------------------------------------
(* kv.c *)

KvEntry == [key : KvKey, ptr : KvBuffer]

KvTyped ==
  /\ db = [arr |-> db.arr, capacity |-> db.capacity]
  /\ db.arr \in Seq(KvEntry) /\ db.capacity \in Nat \ {0} /\ Size <= db.capacity
  /\ database \in Seq(KvKey)
  /\ run \in {"loading", "running", "saving", "over", "wild"}
  /\ line \in Nat \ {0}

(* A key is in the array, and in the file, once.                              *)
UniqueKeys(s) == \A i, j \in 1..Len(s) : s[i].key = s[j].key => i = j
Distinct(s)   == \A i, j \in 1..Len(s) : s[i] = s[j] => i = j

(* Between two runs, and while the next reads the file, how the last one ended *)
(* is known; the first run finds no file.                                     *)
Began == run \in {"loading", "over"} => asked.op \in {"end", "stopped"} \/ database = <<>>

(* While the file is read, the array holds the lines read; while it is        *)
(* written, the file holds the entries written.                               *)
LoadedSoFar ==
  run = "loading" =>
    /\ line = Size + 1 /\ Size <= Len(database) /\ db.capacity = INITIAL_CAPACITY
    /\ \A i \in 1..Size : db.arr[i].key = database[i]

SavedSoFar ==
  run = "saving" =>
    /\ asked = [op |-> "save", key |-> 0]
    /\ line = Len(database) + 1 /\ Len(database) <= Size
    /\ \A i \in 1..Len(database) : database[i] = db.arr[i].key

KvInv ==
  /\ KvTyped
  /\ UniqueKeys(db.arr) /\ Distinct(database)
  /\ Began /\ LoadedSoFar /\ SavedSoFar

-----------------------------------------------------------------------------
(* A sequence without its i-th element.                                       *)
LEMMA WithoutOne ==
  ASSUME NEW S, NEW s \in Seq(S), NEW i \in 1..Len(s)
  PROVE  /\ RemoveAt(s, i) \in Seq(S) /\ Len(RemoveAt(s, i)) = Len(s) - 1
         /\ \A j \in 1..(Len(s) - 1) : RemoveAt(s, i)[j] = IF j < i THEN s[j] ELSE s[j + 1]
<1> DEFINE a == SubSeq(s, 1, i - 1)
           b == SubSeq(s, i + 1, Len(s))
<1>1. /\ a \in Seq(S) /\ Len(a) = i - 1 /\ \A j \in 1..(i - 1) : a[j] = s[j]
  OBVIOUS
<1>2. /\ b \in Seq(S) /\ Len(b) = Len(s) - i /\ \A j \in 1..(Len(s) - i) : b[j] = s[i + j]
  <2>1. b \in Seq(S)
    OBVIOUS
  <2>2. Len(b) = Len(s) - i
    OBVIOUS
  <2>3. \A j \in 1..(Len(s) - i) : b[j] = s[i + j]
    OBVIOUS
  <2> QED BY <2>1, <2>2, <2>3
<1>3. RemoveAt(s, i) = a \o b
  BY DEF RemoveAt
<1> HIDE DEF a, b
<1>4. a \o b \in Seq(S) /\ Len(a \o b) = Len(s) - 1
  <2>1. \A x, y \in Seq(S) : x \o y \in Seq(S) /\ Len(x \o y) = Len(x) + Len(y)
    OBVIOUS
  <2>2. a \o b \in Seq(S) /\ Len(a \o b) = Len(a) + Len(b)
    BY <1>1, <1>2, <2>1, Zenon
  <2>3. (i - 1) + (Len(s) - i) = Len(s) - 1
    OBVIOUS
  <2> QED BY <1>1, <1>2, <2>2, <2>3
<1>5. ASSUME NEW j \in 1..(Len(s) - 1) PROVE (a \o b)[j] = IF j < i THEN s[j] ELSE s[j + 1]
  <2>1. CASE j < i
    BY <2>1, <1>1, <1>2
  <2>2. CASE ~(j < i)
    <3>1. (a \o b)[j] = b[j - (i - 1)]
      BY SMTT(60), <2>2, <1>1, <1>2
    <3>2. j - (i - 1) \in 1..(Len(s) - i) /\ i + (j - (i - 1)) = j + 1
      BY <2>2
    <3> QED BY <3>1, <3>2, <1>2, <2>2
  <2> QED BY ZenonT(90), <2>1, <2>2
<1> QED BY ZenonT(90), <1>3, <1>4, <1>5

(* A sequence with another element at one place.                              *)
LEMMA Replaced ==
  ASSUME NEW S, NEW s \in Seq(S), NEW i \in 1..Len(s), NEW x \in S
  PROVE  LET r == [s EXCEPT ![i] = x] IN
         /\ r \in Seq(S) /\ Len(r) = Len(s)
         /\ r[i] = x /\ \A j \in 1..Len(s) \ {i} : r[j] = s[j]
OBVIOUS

(* The smallest member of a set of one.                                       *)
LEMMA MinOfOne == ASSUME NEW i \in Int PROVE Min({i}) = i
BY DEF Min

(* The first entry of a key is the only one.                                  *)
LEMMA EntryOf ==
  ASSUME NEW s \in Seq([key : KvKey, ptr : KvBuffer]), UniqueKeys(s), NEW i \in 1..Len(s)
  PROVE  Min({j \in 1..Len(s) : s[j].key = s[i].key}) = i
<1>1. {j \in 1..Len(s) : s[j].key = s[i].key} = {i}
  BY DEF UniqueKeys
<1> QED BY <1>1, MinOfOne

LEMMA FirstIs ==
  ASSUME KvTyped, UniqueKeys(db.arr), NEW k, IndexOf(k) # {}
  PROVE  First(k) \in 1..Size /\ db.arr[First(k)].key = k
<1>1. PICK i \in 1..Len(db.arr) : db.arr[i].key = k
  BY DEF IndexOf, Size
<1>2. First(k) = i
  BY ZenonT(90), <1>1, EntryOf DEF First, IndexOf, Size, KvTyped, KvEntry
<1> QED BY <1>1, <1>2 DEF Size

(* What is at different places counts once for each.                          *)
LEMMA AsManyAs ==
  ASSUME NEW n \in Nat, NEW F, F = [i \in 1..n |-> F[i]], \A i, j \in 1..n : F[i] = F[j] => i = j
  PROVE  Cardinality({F[i] : i \in 1..n}) = n
<1> DEFINE R == {F[i] : i \in 1..n}
<1>1. F \in [1..n -> R]
  OBVIOUS
<1>2. \A k \in R : \E i \in 1..n : F[i] = k
  OBVIOUS
<1> HIDE DEF R
<1>3. F \in Bijection(1..n, R)
  BY <1>1, <1>2 DEF Bijection, Injection, Surjection, IsInjective
<1>4. ExistsBijection(1..n, R)
  BY <1>3 DEF ExistsBijection
<1>5. IsFiniteSet(1..n) /\ Cardinality(1..n) = n
  <2>1. 1 \in Int /\ n \in Int
    OBVIOUS
  <2>2. IsFiniteSet(1..n) /\ Cardinality(1..n) = IF 1 > n THEN 0 ELSE n - 1 + 1
    BY ZenonT(90), <2>1, FS_Interval
  <2> QED BY <2>2
<1>6. Cardinality(R) = n
  BY <1>4, <1>5, FS_Bijection
<1> QED BY <1>6 DEF R

LEMMA KeysCount ==
  ASSUME NEW s \in Seq(KvEntry), UniqueKeys(s)
  PROVE  KeysOf(s) = {s[i].key : i \in 1..Len(s)} /\ Cardinality(KeysOf(s)) = Len(s)
<1> DEFINE F == [i \in 1..Len(s) |-> s[i].key]
<1>1. DOMAIN s = 1..Len(s) /\ Len(s) \in Nat
  OBVIOUS
<1>2. KeysOf(s) = {s[i].key : i \in 1..Len(s)}
  BY <1>1 DEF KeysOf
<1>3. \A i, j \in 1..Len(s) : F[i] = F[j] => i = j
  BY DEF UniqueKeys
<1>4. {F[i] : i \in 1..Len(s)} = KeysOf(s)
  BY <1>2
<1>5. F = [i \in 1..Len(s) |-> F[i]]
  OBVIOUS
<1> HIDE DEF F
<1>6. Cardinality({F[i] : i \in 1..Len(s)}) = Len(s)
  BY <1>1, <1>3, <1>5, AsManyAs
<1> QED BY <1>2, <1>4, <1>6, Zenon

LEMMA LinesCount ==
  ASSUME NEW S, NEW s \in Seq(S), Distinct(s)
  PROVE  Range(s) = {s[i] : i \in 1..Len(s)} /\ Cardinality(Range(s)) = Len(s)
<1>1. DOMAIN s = 1..Len(s) /\ Len(s) \in Nat /\ s = [i \in 1..Len(s) |-> s[i]]
  OBVIOUS
<1>2. Range(s) = {s[i] : i \in 1..Len(s)}
  BY <1>1 DEF Range
<1>3. \A i, j \in 1..Len(s) : s[i] = s[j] => i = j
  BY DEF Distinct
<1> QED BY <1>1, <1>2, <1>3, AsManyAs

LEMMA KvInvTypeOK == KvInv => KvTypeOK
<1> SUFFICES ASSUME KvInv PROVE KvTypeOK
  OBVIOUS
<1>1. db.arr \in Seq(KvEntry) /\ database \in Seq(KvKey) /\ UniqueKeys(db.arr) /\ Distinct(database)
  BY DEF KvInv, KvTyped
<1>2. Cardinality(KeysOf(db.arr)) = Size /\ Cardinality(Range(database)) = Len(database)
  BY <1>1, KeysCount, LinesCount DEF Size
<1>3. \A i \in 1..Size : db.arr[i].key \in KvKey /\ db.arr[i].ptr \in KvBuffer
  <2>1. \A i \in 1..Size : db.arr[i] \in KvEntry
    BY <1>1 DEF Size
  <2> QED BY <2>1 DEF KvEntry
<1> QED BY <1>2, <1>3 DEF KvInv, KvTyped, KvTypeOK

-----------------------------------------------------------------------------
(* What each command does to the array, and that it keeps the invariant.      *)
LEMMA KvInitInv == KvInit => KvInv
<1> SUFFICES ASSUME KvInit PROVE KvInv
  OBVIOUS
<1>1. db.arr = <<>> /\ db.capacity = INITIAL_CAPACITY
  BY DEF KvInit
<1>2. database = <<>> /\ line = 1 /\ run = "loading"
  BY DEF KvInit
<1>3. KvTyped
  BY <1>1, <1>2, KvAssumption DEF KvInit, KvTyped, Size
<1> QED BY <1>1, <1>2, <1>3 DEF KvInv, UniqueKeys, Distinct, Began, LoadedSoFar, SavedSoFar, Size

LEMMA PutEffect ==
  ASSUME KvInv, NEW k \in KvKey, NEW b \in KvBuffer, PutinStore(k, b)
  PROVE  /\ KvTyped'
         /\ Size' \in Nat /\ Size \in 0..Size'
         /\ \E i \in 1..Size' :
              /\ db'.arr[i].key = k /\ db'.arr[i].ptr = b
              /\ i \in 1..Size => db.arr[i].key = k
              /\ \A j \in 1..Size' \ {i} : j \in 1..Size /\ db'.arr[j] = db.arr[j] /\ db.arr[j].key # k
<1> USE DEF KvInv
<1>1. /\ db' = [capacity |-> Grown(Size),
                arr |-> IF IndexOf(k) # {} THEN [db.arr EXCEPT ![First(k)].ptr = b]
                        ELSE Append(db.arr, [key |-> k, ptr |-> b])]
      /\ UNCHANGED <<database, run, line>>
  BY DEF PutinStore
<1>3. db.arr \in Seq(KvEntry) /\ Size \in Nat /\ Size = Len(db.arr) /\ Size <= db.capacity /\ db.capacity \in Nat \ {0}
  BY DEF KvTyped, Size
<1>4. db'.capacity = Grown(Size) /\ db' = [arr |-> db'.arr, capacity |-> db'.capacity]
  BY <1>1
<1>5. Grown(Size) \in Nat \ {0} /\ Size + 1 <= Grown(Size)
  BY <1>3 DEF Grown
<1> DEFINE e == [key |-> k, ptr |-> b]
<1>6. e \in KvEntry /\ e.key = k /\ e.ptr = b
  BY DEF KvEntry
<1> HIDE DEF e
<1>7. CASE IndexOf(k) # {}
  <2> DEFINE i == First(k)
  <2>1. i \in 1..Size /\ db.arr[i].key = k
    BY <1>7, FirstIs
  <2>2. db'.arr = [db.arr EXCEPT ![i].ptr = b]
    BY <1>1, <1>7
  <2> HIDE DEF i
  <2>3. db.arr[i] \in KvEntry
    BY <1>3, <2>1
  <2>4. [db.arr[i] EXCEPT !.ptr = b] = e
    BY <2>1, <2>3 DEF KvEntry, e
  <2>5. db'.arr = [db.arr EXCEPT ![i] = e]
    BY <2>2, <2>4
  <2>6. /\ db'.arr \in Seq(KvEntry) /\ Len(db'.arr) = Size
        /\ db'.arr[i] = e /\ \A j \in 1..Size \ {i} : db'.arr[j] = db.arr[j]
    <3>2. db.arr \in Seq(KvEntry) /\ e \in KvEntry /\ i \in 1..Len(db.arr) /\ Size = Len(db.arr)
      BY <1>3, <1>6, <2>1
    <3>3. /\ [db.arr EXCEPT ![i] = e] \in Seq(KvEntry) /\ Len([db.arr EXCEPT ![i] = e]) = Len(db.arr)
          /\ [db.arr EXCEPT ![i] = e][i] = e
          /\ \A j \in 1..Len(db.arr) \ {i} : [db.arr EXCEPT ![i] = e][j] = db.arr[j]
      BY <3>2, Replaced
    <3> QED BY <3>2, <3>3, <2>5
  <2>7. Size' = Size
    BY <2>6 DEF Size
  <2>8. \A j \in 1..Size \ {i} : db.arr[j].key # k
    BY <2>1, <1>3 DEF UniqueKeys
  <2>9. KvTyped'
    BY <2>6, <2>7, <1>1, <1>3, <1>4, <1>5 DEF KvTyped
  <2> QED BY SMTT(60), <2>1, <1>3, <1>6, <2>6, <2>7, <2>8, <2>9
<1>8. CASE IndexOf(k) = {}
  <2>1. db'.arr = Append(db.arr, e)
    BY <1>1, <1>8 DEF e
  <2>2. /\ db'.arr \in Seq(KvEntry) /\ Len(db'.arr) = Size + 1 /\ Size' = Size + 1
        /\ db'.arr[Size + 1] = e /\ \A i \in 1..Size : db'.arr[i] = db.arr[i]
    BY <2>1, <1>3, <1>6 DEF Size
  <2>3. \A j \in 1..Size : db.arr[j].key # k
    BY <1>8 DEF IndexOf
  <2>4. KvTyped'
    BY <2>2, <1>1, <1>3, <1>4, <1>5 DEF KvTyped
  <2>5. Size + 1 \in 1..Size' /\ (Size + 1) \notin 1..Size /\ \A j \in 1..Size' \ {Size + 1} : j \in 1..Size
    BY SMTT(60), <2>2, <1>3
  <2> QED BY SMTT(60), <1>3, <1>6, <2>2, <2>3, <2>4, <2>5
<1> QED BY <1>7, <1>8

LEMMA PutInv ==
  ASSUME KvInv, NEW k \in KvKey, NEW b \in KvBuffer, PutinStore(k, b)
  PROVE  KvInv' /\ KeysOf(db.arr)' = KeysOf(db.arr) \cup {k}
<1> USE DEF KvInv
<1>1. PICK i \in 1..Size' :
              /\ db'.arr[i].key = k /\ db'.arr[i].ptr = b
              /\ i \in 1..Size => db.arr[i].key = k
              /\ \A j \in 1..Size' \ {i} : j \in 1..Size /\ db'.arr[j] = db.arr[j] /\ db.arr[j].key # k
  BY PutEffect
<1>2. /\ KvTyped' /\ Size = Len(db.arr) /\ Size' = Len(db'.arr)
      /\ Size' \in Nat /\ Size \in 0..Size'
  BY PutEffect DEF Size
<1>3. run = "running" /\ UNCHANGED <<database, run, line>>
  BY DEF PutinStore, Command
<1>4. UniqueKeys(db.arr)'
  BY SMTT(60), <1>1, <1>2 DEF UniqueKeys
<1>5. Distinct(database)'
  BY <1>3 DEF Distinct
<1>6. KvInv'
  BY <1>2, <1>3, <1>4, <1>5 DEF Began, LoadedSoFar, SavedSoFar
<1>7. /\ KeysOf(db.arr) = {db.arr[j].key : j \in 1..Size}
      /\ KeysOf(db.arr)' = {db'.arr[j].key : j \in 1..Size'}
  BY <1>2, <1>4, KeysCount DEF KvTyped
<1>8. \A j \in 1..Size : j = i \/ (j \in 1..Size' \ {i} /\ db'.arr[j] = db.arr[j])
  BY <1>1, <1>2
<1>9. \A x \in KeysOf(db.arr) : x = k \/ \E j \in 1..Size' : x = db'.arr[j].key
  BY <1>1, <1>7, <1>8
<1>10. \A x \in KeysOf(db.arr)' : x = k \/ \E j \in 1..Size : x = db.arr[j].key
  BY <1>1, <1>7
<1> QED BY <1>1, <1>6, <1>7, <1>9, <1>10

(* What a delete does to them: the entry old[j] is the one that is now j.     *)
Old(i, j) == IF j < i THEN j ELSE j + 1

LEMMA DeleteEffect ==
  ASSUME KvInv, NEW k \in KvKey, DeleteStore(k), run' # "over"
  PROVE  LET i == First(k) IN
         /\ KvTyped' /\ Size \in Nat \ {0} /\ Size' = Size - 1
         /\ i \in 1..Size /\ db.arr[i].key = k
         /\ \A j \in 1..Size' : Old(i, j) \in 1..Size \ {i} /\ db'.arr[j] = db.arr[Old(i, j)]
         /\ \A j, n \in 1..Size' : Old(i, j) = Old(i, n) => j = n
         /\ \A n \in 1..Size \ {i} : \E j \in 1..Size' : n = Old(i, j)
<1> USE DEF KvInv
<1> DEFINE i == First(k)
<1>1. /\ IndexOf(k) # {}
      /\ db' = [db EXCEPT !.arr = RemoveAt(@, i)]
      /\ UNCHANGED <<run, database, line>>
  BY DEF DeleteStore, Gone
<1>2. i \in 1..Size /\ db.arr[i].key = k
  BY <1>1, FirstIs
<1>3. Size \in Nat \ {0} /\ Size = Len(db.arr) /\ db.arr \in Seq(KvEntry) /\ Size <= db.capacity
      /\ db.capacity \in Nat \ {0}
  BY <1>2 DEF KvTyped, Size
<1> HIDE DEF i
<1>6. db'.arr = RemoveAt(db.arr, i) /\ db'.capacity = db.capacity /\ db' = [arr |-> db'.arr, capacity |-> db'.capacity]
  BY <1>1 DEF KvTyped
<1>7. /\ db'.arr \in Seq(KvEntry) /\ Len(db'.arr) = Size - 1
      /\ \A j \in 1..(Size - 1) : db'.arr[j] = IF j < i THEN db.arr[j] ELSE db.arr[j + 1]
  BY SMTT(60), <1>2, <1>3, <1>6, WithoutOne
<1>8. Size' = Size - 1
  BY <1>7 DEF Size
<1>9. KvTyped'
  BY <1>1, <1>3, <1>6, <1>7, <1>8 DEF KvTyped
<1>10. ASSUME NEW j \in 1..Size'
       PROVE  Old(i, j) \in 1..Size \ {i} /\ db'.arr[j] = db.arr[Old(i, j)]
  <2>1. db'.arr[j] = IF j < i THEN db.arr[j] ELSE db.arr[j + 1]
    BY <1>7, <1>8
  <2>2. Old(i, j) \in 1..Size \ {i}
    BY SMTT(60), <1>2, <1>3, <1>8 DEF Old
  <2> QED BY <2>1, <2>2 DEF Old
<1>11. \A j, n \in 1..Size' : Old(i, j) = Old(i, n) => j = n
  BY <1>2, <1>3, <1>8 DEF Old
<1>12. ASSUME NEW n \in 1..Size \ {i} PROVE \E j \in 1..Size' : n = Old(i, j)
  <2>1. CASE n < i
    <3>1. n \in 1..Size' /\ n = Old(i, n)
      BY <2>1, <1>2, <1>3, <1>8 DEF Old
    <3> QED BY <3>1
  <2>2. CASE n > i
    <3>1. n - 1 \in 1..Size' /\ n = Old(i, n - 1)
      BY <2>2, <1>2, <1>3, <1>8 DEF Old
    <3> QED BY <3>1
  <2> QED BY <2>1, <2>2, <1>2, <1>3
<1>13. QED
  BY <1>2, <1>3, <1>8, <1>9, <1>10, <1>11, <1>12 DEF i

LEMMA DeleteInv ==
  ASSUME KvInv, NEW k \in KvKey, DeleteStore(k)
  PROVE  /\ KvInv'
         /\ run' # "over" => k \in KeysOf(db.arr) /\ KeysOf(db.arr)' = KeysOf(db.arr) \ {k}
<1> USE DEF KvInv
<1>1. run = "running" /\ UNCHANGED <<database, line>>
  BY DEF DeleteStore, Command
<1>2. CASE run' = "over"
  <2>1. UNCHANGED <<db, heap>> /\ asked'.op = "stopped"
    BY <1>1, <1>2 DEF DeleteStore, Asked
  <2> QED BY <1>1, <1>2, <2>1 DEF KvTyped, Began, LoadedSoFar, SavedSoFar, Size, UniqueKeys, Distinct
<1>3. CASE run' # "over"
  <2> DEFINE i == First(k)
  <2>1. /\ KvTyped' /\ Size' = Size - 1 /\ Size \in Nat \ {0}
        /\ i \in 1..Size /\ db.arr[i].key = k
        /\ \A j \in 1..Size' : Old(i, j) \in 1..Size \ {i} /\ db'.arr[j] = db.arr[Old(i, j)]
        /\ \A j, n \in 1..Size' : Old(i, j) = Old(i, n) => j = n
        /\ \A n \in 1..Size \ {i} : \E j \in 1..Size' : n = Old(i, j)
    BY <1>3, DeleteEffect
  <2>2. run' = "running"
    BY <1>1, <1>3 DEF DeleteStore
  <2> HIDE DEF i
  <2>3. Size = Len(db.arr) /\ Size' = Len(db'.arr)
    BY DEF Size
  <2>4. UniqueKeys(db.arr)'
    <3> SUFFICES ASSUME NEW j \in 1..Size', NEW n \in 1..Size', db'.arr[j].key = db'.arr[n].key
                 PROVE  j = n
      BY <2>3 DEF UniqueKeys
    <3>1. db.arr[Old(i, j)].key = db.arr[Old(i, n)].key /\ Old(i, j) \in 1..Size /\ Old(i, n) \in 1..Size
      BY <2>1
    <3>2. Old(i, j) = Old(i, n)
      BY ZenonT(90), <3>1, <2>3 DEF UniqueKeys
    <3> QED BY <3>2, <2>1
  <2>5. Distinct(database)'
    BY <1>1 DEF Distinct
  <2>6. \A n \in 1..Size \ {i} : db.arr[n].key # k
    BY SMTT(60), <2>1, <2>3 DEF UniqueKeys
  <2>7. /\ KeysOf(db.arr) = {db.arr[j].key : j \in 1..Size}
        /\ KeysOf(db.arr)' = {db'.arr[j].key : j \in 1..Size'}
    BY <2>1, <2>3, <2>4, KeysCount DEF KvTyped
  <2>8. \A x \in KeysOf(db.arr)' : \E n \in 1..Size \ {i} : x = db.arr[n].key
    BY <2>1, <2>7
  <2>9. \A n \in 1..Size \ {i} : db.arr[n].key \in KeysOf(db.arr)'
    <3> SUFFICES ASSUME NEW n \in 1..Size \ {i} PROVE db.arr[n].key \in KeysOf(db.arr)'
      OBVIOUS
    <3>1. PICK j \in 1..Size' : n = Old(i, j)
      BY <2>1
    <3>2. db'.arr[j] = db.arr[n]
      BY <2>1, <3>1
    <3> QED BY <2>7, <3>2
  <2>10. \A x \in KeysOf(db.arr) : x = k \/ \E n \in 1..Size \ {i} : x = db.arr[n].key
    BY <2>1, <2>7
  <2>11. k \in KeysOf(db.arr) /\ KeysOf(db.arr)' = KeysOf(db.arr) \ {k}
    BY <2>1, <2>6, <2>7, <2>8, <2>9, <2>10
  <2> QED BY <1>1, <2>1, <2>2, <2>4, <2>5, <2>11 DEF Began, LoadedSoFar, SavedSoFar
<1> QED BY <1>2, <1>3

LEMMA LoadInv == ASSUME KvInv, NEW b \in KvBuffer, Load(b) PROVE KvInv'
<1> USE DEF KvInv
<1>1. /\ run = "loading" /\ line <= Len(database) /\ UNCHANGED <<database, asked>>
      /\ line = Size + 1 /\ db.capacity = INITIAL_CAPACITY /\ Size = Len(db.arr)
      /\ Size \in Nat /\ Size <= db.capacity /\ db.arr \in Seq(KvEntry) /\ database \in Seq(KvKey)
      /\ \A i \in 1..Size : db.arr[i].key = database[i]
  BY DEF Load, LoadedSoFar, KvTyped, Size
<1>2. Distinct(database)'
  BY <1>1 DEF Distinct
<1>3. CASE Size = db.capacity
  <2>1. run' = "wild" /\ UNCHANGED <<db, line>>
    BY <1>3 DEF Load
  <2> QED BY <1>1, <1>2, <2>1 DEF KvTyped, Began, LoadedSoFar, SavedSoFar, Size, UniqueKeys
<1>4. CASE Size # db.capacity
  <2> DEFINE e == [key |-> database[line], ptr |-> b]
  <2>1. /\ run' = "loading" /\ line' = line + 1
        /\ db' = [db EXCEPT !.arr = Append(@, e)]
    BY <1>1, <1>4 DEF Load
  <2>2. line \in 1..Len(database) /\ database[line] \in KvKey
    BY <1>1 DEF KvTyped
  <2>3. e \in KvEntry /\ e.key = database[line]
    BY <2>2 DEF KvEntry
  <2> HIDE DEF e
  <2>4. db'.arr = Append(db.arr, e) /\ db' = [arr |-> db'.arr, capacity |-> db.capacity] /\ db'.capacity = db.capacity
    BY <2>1 DEF KvTyped
  <2>5. /\ db'.arr \in Seq(KvEntry) /\ Len(db'.arr) = Size + 1 /\ Size' = Size + 1
        /\ db'.arr[Size + 1] = e /\ \A i \in 1..Size : db'.arr[i] = db.arr[i]
    BY <1>1, <2>3, <2>4 DEF Size
  <2>6. KvTyped'
    <3>1. Size' <= db'.capacity /\ db'.capacity \in Nat \ {0} /\ line' \in Nat \ {0}
      BY <1>1, <1>4, <2>1, <2>4, <2>5 DEF KvTyped
    <3> QED BY <1>1, <2>1, <2>4, <2>5, <3>1, Zenon DEF KvTyped
  <2>7. \A i \in 1..Size' : db'.arr[i].key = database[i]
    <3>1. \A i \in 1..Size' : i = Size + 1 \/ i \in 1..Size
      BY <1>1, <2>5
    <3> QED BY <1>1, <2>3, <2>5, <3>1
  <2>8. UniqueKeys(db.arr)'
    <3>1. \A i, j \in 1..Size' : i \in 1..Len(database) /\ j \in 1..Len(database)
      BY <1>1, <2>5
    <3> SUFFICES ASSUME NEW i \in 1..Size', NEW j \in 1..Size', db'.arr[i].key = db'.arr[j].key
                 PROVE  i = j
      BY <2>5 DEF UniqueKeys
    <3>2. database[i] = database[j]
      BY <2>7
    <3> QED BY <3>1, <3>2 DEF Distinct
  <2>9. LoadedSoFar'
    BY <1>1, <2>1, <2>4, <2>5, <2>7 DEF LoadedSoFar
  <2>10. Began' /\ SavedSoFar'
    BY <1>1, <2>1 DEF Began, SavedSoFar
  <2> QED BY <1>2, <2>6, <2>8, <2>9, <2>10
<1> QED BY <1>3, <1>4

LEMMA SaveLineInv ==
  ASSUME KvInv, SaveLine
  PROVE  KvInv' /\ Range(database)' \subseteq KeysOf(db.arr) /\ UNCHANGED <<db, run, asked>>
<1> USE DEF KvInv
<1>1. /\ run = "saving" /\ line <= Size /\ UNCHANGED <<db, run, asked>>
      /\ database' = Append(database, db.arr[line].key) /\ line' = line + 1
      /\ line = Len(database) + 1 /\ Size = Len(db.arr) /\ Size \in Nat
      /\ db.arr \in Seq(KvEntry) /\ database \in Seq(KvKey)
      /\ \A i \in 1..Len(database) : database[i] = db.arr[i].key
  BY DEF SaveLine, SavedSoFar, KvTyped, Size
<1>2. line \in 1..Size /\ db.arr[line].key \in KvKey
  <2>1. line \in 1..Size /\ db.arr[line] \in KvEntry
    BY <1>1
  <2> QED BY <2>1 DEF KvEntry
<1>3. /\ database' \in Seq(KvKey) /\ Len(database') = line
      /\ \A i \in 1..line : database'[i] = db.arr[i].key
  <2> DEFINE k == db.arr[line].key
  <2>1. database' = Append(database, k) /\ k \in KvKey
    BY <1>1, <1>2
  <2> HIDE DEF k
  <2>2. /\ database' \in Seq(KvKey) /\ Len(database') = Len(database) + 1
        /\ \A i \in 1..Len(database) : database'[i] = database[i]
        /\ database'[Len(database) + 1] = k
    BY <1>1, <2>1
  <2>3. \A i \in 1..line : i = line \/ i \in 1..Len(database)
    BY <1>1
  <2> QED BY <1>1, <2>2, <2>3 DEF k
<1>4. UNCHANGED Size /\ KvTyped'
  BY <1>1, <1>2, <1>3 DEF KvTyped, Size
<1>5. UniqueKeys(db.arr)'
  BY <1>1 DEF UniqueKeys
<1>6. Distinct(database)'
  <2> SUFFICES ASSUME NEW i \in 1..line, NEW j \in 1..line, database'[i] = database'[j]
               PROVE  i = j
    BY <1>3 DEF Distinct
  <2>1. i \in 1..Len(db.arr) /\ j \in 1..Len(db.arr) /\ db.arr[i].key = db.arr[j].key
    BY <1>1, <1>2, <1>3
  <2> QED BY <2>1 DEF UniqueKeys
<1>7. Began' /\ LoadedSoFar' /\ SavedSoFar'
  BY <1>1, <1>2, <1>3, <1>4 DEF Began, LoadedSoFar, SavedSoFar
<1>8. Range(database)' \subseteq KeysOf(db.arr)
  <2>1. Range(database)' = {database'[i] : i \in 1..line}
    BY <1>3, <1>6, LinesCount
  <2>2. KeysOf(db.arr) = {db.arr[i].key : i \in 1..Size}
    BY <1>1, KeysCount
  <2>3. \A i \in 1..line : i \in 1..Size
    BY <1>1, <1>2
  <2>4. \A i \in 1..line : database'[i] \in KeysOf(db.arr)
    BY <1>3, <2>2, <2>3
  <2> QED BY <2>1, <2>4
<1> QED BY <1>1, <1>4, <1>5, <1>6, <1>7, <1>8

LEMMA OtherInv ==
  ASSUME KvInv, Loaded \/ ClearStore \/ SaveStart \/ Saved \/ Stopped \/ Restart \/ UNCHANGED kvVars
  PROVE  KvInv'
<1> USE DEF KvInv, KvTyped, Began, LoadedSoFar, SavedSoFar, Size, UniqueKeys, Distinct
<1>1. CASE Loaded
  BY <1>1 DEF Loaded
<1>2. CASE ClearStore
  <2>1. db' = [arr |-> <<>>, capacity |-> db.capacity]
    BY <1>2 DEF ClearStore
  <2> QED BY <1>2, <2>1 DEF ClearStore, Command
<1>3. CASE SaveStart
  <2>1. Size \in Nat /\ database' = <<>> /\ asked' = [op |-> "save", key |-> 0]
    BY <1>3 DEF SaveStart, Asked
  <2> QED BY <1>3, <2>1 DEF SaveStart
<1>4. CASE Saved \/ Stopped
  BY <1>4 DEF Saved, Stopped, Asked
<1>5. CASE Restart
  <2>1. db' = [arr |-> <<>>, capacity |-> INITIAL_CAPACITY] /\ Len(database) \in Nat
    BY <1>5 DEF Restart
  <2> QED BY <1>5, <2>1, KvAssumption DEF Restart
<1>6. CASE UNCHANGED kvVars
  BY <1>6 DEF kvVars
<1> QED BY <1>1, <1>2, <1>3, <1>4, <1>5, <1>6

LEMMA KvStepInv == KvInv /\ [KvNext]_kvVars => KvInv'
<1> SUFFICES ASSUME KvInv, [KvNext]_kvVars PROVE KvInv'
  OBVIOUS
<1>1. CASE \E b \in KvBuffer : Load(b) \/ \E k \in KvKey : PutinStore(k, b)
  BY <1>1, LoadInv, PutInv
<1>2. CASE \E k \in KvKey : DeleteStore(k)
  BY <1>2, DeleteInv
<1>3. CASE SaveLine
  BY <1>3, SaveLineInv
<1> QED BY <1>1, <1>2, <1>3, OtherInv DEF KvNext

-----------------------------------------------------------------------------
(* Each step is a step of the map or leaves it alone.                         *)
KvMap == IF run \in {"loading", "over", "wild"} THEN Range(database) ELSE KeysOf(db.arr)

LEMMA KvMapInit == KvInit => Map!MapInit
<1> SUFFICES ASSUME KvInit PROVE Map!MapInit
  OBVIOUS
<1>1. Range(database) = {}
  BY DEF KvInit, Range
<1> QED BY <1>1 DEF KvInit, Map!MapInit

LEMMA CommandIsStep ==
  ASSUME KvInv,
         \/ \E k \in KvKey, b \in KvBuffer : PutinStore(k, b)
         \/ \E k \in KvKey : DeleteStore(k) /\ run' # "over"
         \/ ClearStore
  PROVE  run' # "wild" /\ Map!MapStep
<1> USE DEF Map!MapStep, Map!Ask
<1>1. ASSUME NEW k \in KvKey, NEW b \in KvBuffer, PutinStore(k, b) PROVE run' # "wild" /\ Map!PutKey(k)
  <2>1. run = "running" /\ UNCHANGED <<database, run>> /\ asked' = [op |-> "p", key |-> k]
    BY <1>1 DEF PutinStore, Command, Asked
  <2>2. KeysOf(db.arr)' = KeysOf(db.arr) \cup {k}
    BY <1>1, PutInv
  <2> QED BY <2>1, <2>2 DEF Map!PutKey
<1>2. ASSUME NEW k \in KvKey, DeleteStore(k), run' # "over" PROVE run' # "wild" /\ Map!DeleteKey(k)
  <2>1. run = "running" /\ UNCHANGED <<database, run>> /\ asked' = [op |-> "d", key |-> k]
    BY <1>2 DEF DeleteStore, Command, Asked
  <2>2. k \in KeysOf(db.arr) /\ KeysOf(db.arr)' = KeysOf(db.arr) \ {k}
    BY <1>2, DeleteInv
  <2> QED BY <2>1, <2>2 DEF Map!DeleteKey
<1>3. CASE ClearStore
  <2>1. run = "running" /\ UNCHANGED <<database, run>> /\ asked' = [op |-> "c", key |-> 0]
    BY <1>3 DEF ClearStore, Command, Asked
  <2>2. KeysOf(db.arr)' = {}
    BY <1>3 DEF ClearStore, KeysOf
  <2> QED BY <2>1, <2>2 DEF Map!ClearMap
<1> QED BY <1>1, <1>2, <1>3

LEMMA EndIsStep ==
  ASSUME KvInv,
         \/ SaveStart \/ SaveLine \/ Saved \/ Stopped
         \/ \E k \in KvKey : DeleteStore(k) /\ run' = "over"
  PROVE  run' # "wild" /\ Map!MapStep
<1> USE DEF Map!MapStep, Map!Ask
<1>1. CASE SaveStart
  <2>1. /\ run = "running" /\ run' = "saving" /\ UNCHANGED db
        /\ asked' = [op |-> "save", key |-> 0] /\ database' = <<>>
    BY <1>1 DEF SaveStart, Asked
  <2>2. Range(database)' = {} /\ KeysOf(db.arr)' = KeysOf(db.arr)
    BY <2>1 DEF Range
  <2> QED BY <2>1, <2>2 DEF Map!SaveMap
<1>2. CASE SaveLine
  <2>1. run = "saving" /\ asked = [op |-> "save", key |-> 0]
    BY <1>2 DEF SaveLine, KvInv, SavedSoFar
  <2>2. Range(database)' \subseteq KeysOf(db.arr) /\ UNCHANGED <<db, run, asked>>
    BY <1>2, SaveLineInv
  <2> QED BY <2>1, <2>2 DEF Map!SaveMap
<1>3. CASE Saved
  <2>1. /\ run = "saving" /\ run' = "over" /\ line > Size /\ UNCHANGED <<db, database>>
        /\ asked' = [op |-> "end", key |-> 0]
    BY <1>3 DEF Saved, Asked
  <2>2. /\ Len(database) = Size /\ Size = Len(db.arr)
        /\ \A i \in 1..Size : database[i] = db.arr[i].key
    BY <2>1 DEF KvInv, KvTyped, SavedSoFar, Size
  <2>3. /\ Range(database) = {database[i] : i \in 1..Size}
        /\ KeysOf(db.arr) = {db.arr[i].key : i \in 1..Size}
    BY <2>2, LinesCount, KeysCount DEF KvInv, KvTyped
  <2>4. Range(database) = KeysOf(db.arr)
    BY <2>2, <2>3
  <2> QED BY <2>1, <2>4 DEF Map!EndRun
<1>4. CASE Stopped \/ \E k \in KvKey : DeleteStore(k) /\ run' = "over"
  <2>1. run' = "over" /\ UNCHANGED database /\ asked' = [op |-> "stopped", key |-> 0]
    BY <1>4 DEF Stopped, DeleteStore, Command, Asked
  <2> QED BY <2>1 DEF Map!StopRun
<1> QED BY <1>1, <1>2, <1>3, <1>4

(* A file is read past the end of the array only if it has more lines, and so *)
(* more keys, than that.                                                      *)
LEMMA OverflowIsLost ==
  ASSUME KvInv, NEW b \in KvBuffer, Load(b), run' = "wild"
  PROVE  Map!NoRoom
<1>1. /\ run = "loading" /\ line <= Len(database) /\ Size = db.capacity
  BY DEF Load, KvInv
<1>2. line = Size + 1 /\ db.capacity = INITIAL_CAPACITY /\ INITIAL_CAPACITY \in Nat \ {0}
  BY <1>1, KvAssumption DEF KvInv, LoadedSoFar
<1>3. Len(database) > INITIAL_CAPACITY /\ database # <<>>
  BY <1>1, <1>2 DEF KvInv, KvTyped
<1>4. Cardinality(Range(database)) = Len(database)
  BY LinesCount DEF KvInv, KvTyped
<1>5. asked.op \in {"end", "stopped"}
  BY <1>1, <1>3 DEF KvInv, Began
<1>6. Cardinality(Range(database)) > INITIAL_CAPACITY
  BY <1>3, <1>4
<1> QED BY <1>5, <1>6, Zenon DEF Map!NoRoom, Map!Cardinality, Cardinality

LEMMA OtherIsStutter ==
  ASSUME KvInv, \/ Loaded \/ Restart \/ UNCHANGED kvVars
                \/ \E b \in KvBuffer : Load(b) /\ run' # "wild"
  PROVE  UNCHANGED <<KvMap, Range(database), asked, run = "wild">>
<1>1. UNCHANGED <<database, asked>>
  BY ZenonT(90) DEF Loaded, Restart, kvVars, Load
<1>2. Range(database)' = Range(database)
  BY <1>1 DEF Range
<1>3. CASE Loaded
  <2>1. run = "loading" /\ run' = "running" /\ UNCHANGED db /\ line > Len(database)
    BY <1>3 DEF Loaded
  <2>2. /\ Len(database) = Size /\ Size = Len(db.arr)
        /\ \A i \in 1..Size : database[i] = db.arr[i].key
    BY <2>1 DEF KvInv, KvTyped, LoadedSoFar, Size
  <2>3. /\ Range(database) = {database[i] : i \in 1..Size}
        /\ KeysOf(db.arr) = {db.arr[i].key : i \in 1..Size}
    BY <2>2, LinesCount, KeysCount DEF KvInv, KvTyped
  <2>4. Range(database) = KeysOf(db.arr)
    BY <2>2, <2>3
  <2> QED BY <1>1, <1>2, <2>1, <2>4 DEF KvMap
<1>4. CASE Restart \/ \E b \in KvBuffer : Load(b) /\ run' # "wild"
  <2>1. run \in {"loading", "over"} /\ run' = "loading"
    BY ZenonT(90), <1>4 DEF Restart, Load
  <2> QED BY <1>1, <1>2, <2>1 DEF KvMap
<1>5. CASE UNCHANGED kvVars
  <2>1. UNCHANGED <<run, db>>
    BY <1>5 DEF kvVars
  <2> QED BY <1>1, <1>2, <2>1 DEF KvMap
<1> QED BY <1>3, <1>4, <1>5

LEMMA KvStepIsMapStep ==
  KvInv /\ [KvNext]_kvVars =>
    [Map!MapNext]_<<IF run \in {"loading", "over", "wild"} THEN Range(database) ELSE KeysOf(db.arr),
                    Range(database), asked, run = "wild">>
<1> SUFFICES ASSUME KvInv, [KvNext]_kvVars
             PROVE  Map!MapNext \/ UNCHANGED <<KvMap, Range(database), asked, run = "wild">>
  BY DEF KvMap
<1>1. CASE run = "wild"
  BY <1>1, OtherIsStutter DEF KvNext, Load, PutinStore, DeleteStore, Command, Loaded, ClearStore,
       SaveStart, SaveLine, Saved, Stopped, Restart
<1>2. ASSUME run # "wild", run' # "wild", Map!MapStep PROVE Map!MapNext
  BY <1>2 DEF Map!MapNext
<1>3. CASE run # "wild"
  <2>1. CASE \E b \in KvBuffer : \E k \in KvKey : PutinStore(k, b)
    BY <1>2, <1>3, <2>1, CommandIsStep
  <2>2. CASE \E k \in KvKey : DeleteStore(k)
    BY <1>2, <1>3, <2>2, CommandIsStep, EndIsStep
  <2>3. CASE ClearStore
    BY <1>2, <1>3, <2>3, CommandIsStep
  <2>4. CASE SaveStart \/ SaveLine \/ Saved \/ Stopped
    BY <1>2, <1>3, <2>4, EndIsStep
  <2>5. CASE \E b \in KvBuffer : Load(b) /\ run' = "wild"
    BY <2>5, OverflowIsLost DEF Map!MapNext
  <2>6. CASE \/ Loaded \/ Restart \/ UNCHANGED kvVars
             \/ \E b \in KvBuffer : Load(b) /\ run' # "wild"
    BY <2>6, OtherIsStutter
  <2> QED BY <2>1, <2>2, <2>3, <2>4, <2>5, <2>6 DEF KvNext
<1> QED BY <1>1, <1>3

(* kv.c keeps a set of keys: each of its steps, with a stop in the middle of  *)
(* a save and the start of the next run, is a step of the map or leaves it    *)
(* alone, for any keys, any buffers malloc() returns and any initial          *)
(* capacity, until a run finds more keys in the file than that.               *)
THEOREM KvRefinesMap == KvSpec => KvIsMap
<1>1. KvInit => KvInv /\ Map!MapInit
  BY KvInitInv, KvMapInit
<1>2. KvInv /\ [KvNext]_kvVars => KvInv'
  BY KvStepInv
<1>3. KvInv => KvTypeOK
  BY KvInvTypeOK
<1>4. KvInv /\ [KvNext]_kvVars =>
        [Map!MapNext]_<<IF run \in {"loading", "over", "wild"} THEN Range(database) ELSE KeysOf(db.arr),
                        Range(database), asked, run = "wild">>
  BY KvStepIsMapStep
<1> QED BY <1>1, <1>2, <1>3, <1>4, PTL DEF KvSpec, KvIsMap, Map!MapSpec

-----------------------------------------------------------------------------
(* wish.c *)

(* A process is in a command, or between two of them.                         *)
Busy     == {"fork", "child", "wait", "prog"}
WishAt   == Busy \cup {"free", "read", "dead"}
Path     == Seq(STRING) \cup {<<"/bin">>, <<>>}
WishProcess == [parent : 0..MaxShells, at : WishAt, path : Path, tried : Nat, loops : Nat,
                line : Nat \ {0}, upto : Nat]

(* It, or the parent that waits for it, has a step to make: there is one such *)
(* process, and a fork or an end passes this on.                              *)
Turn(pr) == pr.at \notin {"free", "wait", "dead"} \/ (pr.at = "dead" /\ pr.parent # 0)

ShellOK(pr, n) ==
  /\ pr \in WishProcess /\ pr.upto <= n /\ pr.line <= pr.upto + 1
  /\ pr.at \in Busy => pr.loops > 0

WishInv ==
  /\ script \in Seq(CommandLine) /\ batch \in BOOLEAN /\ offset \in 1..(Len(script) + 1)
  /\ sh \in [Shell -> WishProcess]
  /\ \A i \in Shell : ShellOK(sh[i], Len(script))
  /\ \A i, j \in Shell : Turn(sh[i]) /\ Turn(sh[j]) => i = j

LEMMA FreeOK == ASSUME NEW n \in Nat PROVE ShellOK(NoShell, n) /\ ~Turn(NoShell) /\ NoShell \in WishProcess
<1>1. NoShell \in WishProcess
  BY WishAssumption DEF NoShell, WishProcess, WishAt, Busy, Path
<1> QED BY <1>1 DEF NoShell, ShellOK, Turn, Busy

LEMMA WishInitInv == WishInit => WishInv
<1> SUFFICES ASSUME WishInit PROVE WishInv
  OBVIOUS
<1> DEFINE first == [NoShell EXCEPT !.at = "read", !.path = <<"/bin">>]
<1>1. script \in Seq(CommandLine) /\ batch \in BOOLEAN /\ offset = 1 /\ Len(script) \in Nat
  BY WishAssumption DEF WishInit
<1>2. first \in WishProcess /\ first.at = "read" /\ first.line = 1 /\ first.upto = 0
  <2> DEFINE r == [NoShell EXCEPT !.at = "read"]
  <2>1. NoShell \in WishProcess /\ NoShell.line = 1 /\ NoShell.upto = 0
    BY <1>1, FreeOK DEF NoShell
  <2>2. "read" \in WishAt /\ <<"/bin">> \in Path
    BY DEF WishAt, Path
  <2>3. r \in WishProcess /\ r.at = "read" /\ r.line = 1 /\ r.upto = 0
    BY <2>1, <2>2 DEF WishProcess
  <2>4. first = [r EXCEPT !.path = <<"/bin">>]
    OBVIOUS
  <2> HIDE DEF r, first
  <2> QED BY <2>2, <2>3, <2>4 DEF WishProcess
<1>3. sh = [i \in Shell |-> IF i = 1 THEN first ELSE NoShell]
  BY DEF WishInit
<1> HIDE DEF first
<1>4. ShellOK(first, Len(script))
  BY <1>1, <1>2 DEF ShellOK, Busy
<1>5. \A i \in Shell : sh[i] = first \/ (i # 1 /\ sh[i] = NoShell)
  BY <1>3
<1>6. sh \in [Shell -> WishProcess] /\ \A i \in Shell : ShellOK(sh[i], Len(script))
  BY <1>1, <1>2, <1>3, <1>4, FreeOK
<1>7. \A i \in Shell : Turn(sh[i]) => i = 1
  BY <1>1, <1>3, FreeOK
<1> QED BY <1>1, <1>6, <1>7 DEF WishInv

-----------------------------------------------------------------------------
(* A step that changes process i alone, and does not give it a turn.          *)
LEMMA OneChanged ==
  ASSUME WishInv, NEW i \in Shell, NEW r, ShellOK(r, Len(script)),
         Turn(r) => Turn(sh[i]), sh' = [sh EXCEPT ![i] = r], UNCHANGED <<script, batch>>,
         offset' \in 1..(Len(script) + 1)
  PROVE  WishInv'
<1>1. sh \in [Shell -> WishProcess] /\ r \in WishProcess
  BY DEF WishInv, ShellOK
<1>2. sh' \in [Shell -> WishProcess] /\ sh'[i] = r /\ \A j \in Shell \ {i} : sh'[j] = sh[j]
  BY <1>1
<1>3. \A j \in Shell : ShellOK(sh[j], Len(script))
  BY DEF WishInv
<1>4. \A j, k \in Shell : Turn(sh[j]) /\ Turn(sh[k]) => j = k
  BY DEF WishInv
<1>5. \A j \in Shell : ShellOK(sh'[j], Len(script)) /\ (Turn(sh'[j]) => Turn(sh[j]))
  BY <1>2, <1>3
<1>6. \A j, k \in Shell : Turn(sh'[j]) /\ Turn(sh'[k]) => j = k
  BY <1>4, <1>5
<1>7. script' \in Seq(CommandLine) /\ batch' \in BOOLEAN /\ script' = script
  BY DEF WishInv
<1> QED BY <1>2, <1>5, <1>6, <1>7 DEF WishInv, Shell

LEMMA BecomesOK ==
  ASSUME WishInv, NEW i \in Shell, NEW a \in WishAt, Becomes(i, a),
         UNCHANGED <<script, batch>>, offset' \in 1..(Len(script) + 1),
         a \in Busy => sh[i].at \in Busy,
         sh[i].at \notin {"free", "wait", "dead"}
  PROVE  WishInv'
<1>1. sh[i] \in WishProcess /\ ShellOK(sh[i], Len(script))
  BY DEF WishInv
<1> DEFINE r == [sh[i] EXCEPT !.at = a]
<1>2. sh' = [sh EXCEPT ![i] = r]
  BY DEF Becomes
<1>3. /\ r \in WishProcess /\ r.line = sh[i].line /\ r.upto = sh[i].upto
      /\ r.loops = sh[i].loops /\ r.at = a
  BY <1>1 DEF WishProcess
<1> HIDE DEF r
<1>4. ShellOK(r, Len(script))
  BY <1>1, <1>3 DEF ShellOK
<1>5. Turn(sh[i])
  BY DEF Turn
<1> QED BY <1>2, <1>4, <1>5, OneChanged

(* The offset stays in the file.                                              *)
LEMMA BackOK ==
  ASSUME NEW n \in Nat, NEW o \in 1..(n + 1), NEW k \in Nat
  PROVE  Back(o, k) \in 1..(n + 1)
BY DEF Back

LEMMA ExitsOK ==
  ASSUME WishInv, NEW i \in Shell, Exits(i), sh[i].at \notin {"free", "wait", "dead"}
  PROVE  WishInv'
<1>1. /\ Len(script) \in Nat /\ offset \in 1..(Len(script) + 1)
      /\ sh[i].upto + 1 - sh[i].line \in Nat
  BY DEF WishInv, ShellOK, WishProcess
<1>2. offset' \in 1..(Len(script) + 1)
  BY <1>1, BackOK DEF Exits
<1> QED BY <1>2, BecomesOK DEF Exits, WishAt, Busy

LEMMA StopsInv ==
  ASSUME WishInv, NEW i \in Shell,
         Eof(i) \/ BadRedirect(i) \/ ForkFails(i) \/ NoPath(i) \/ ProgEnds(i)
  PROVE  WishInv'
<1>1. CASE BadRedirect(i) \/ ForkFails(i) \/ NoPath(i)
  BY <1>1, ExitsOK DEF BadRedirect, ForkFails, NoPath, Stands
<1>2. CASE Eof(i) \/ ProgEnds(i)
  <2>1. UNCHANGED <<script, batch, offset>> /\ Becomes(i, "dead") /\ sh[i].at \in {"read", "prog"}
    BY <1>2 DEF Eof, AtEof, ProgEnds, Stands, Same
  <2>2. offset' \in 1..(Len(script) + 1)
    BY <2>1 DEF WishInv
  <2> QED BY <2>1, <2>2, BecomesOK DEF WishAt, Busy
<1> QED BY <1>1, <1>2

LEMMA AgainOK ==
  ASSUME WishInv, NEW i \in Shell, sh[i].at \in Busy
  PROVE  /\ ShellOK(Again(i), Len(script))
         /\ Again(i).at \in {"fork", "read"} /\ Again(i).parent = sh[i].parent
<1>1. sh[i] \in WishProcess /\ ShellOK(sh[i], Len(script))
  BY DEF WishInv
<1> DEFINE a == IF sh[i].loops > 1 THEN "fork" ELSE "read"
           n == sh[i].loops - 1
           r == [sh[i] EXCEPT !.loops = n, !.at = a]
<1>2. Again(i) = r
  BY DEF Again
<1>3. n \in Nat /\ a \in {"fork", "read"} /\ a \in WishAt /\ (a \in Busy => n > 0)
  BY <1>1 DEF ShellOK, WishProcess, WishAt, Busy
<1> HIDE DEF a, n
<1>4. /\ r \in WishProcess /\ r.parent = sh[i].parent /\ r.line = sh[i].line /\ r.upto = sh[i].upto
      /\ r.loops = n /\ r.at = a
  BY ZenonT(90), <1>1, <1>3 DEF WishProcess
<1> QED BY <1>1, <1>2, <1>3, <1>4 DEF ShellOK

LEMMA MinOfTwo ==
  ASSUME NEW a \in Int, NEW b \in Int
  PROVE  Min({a, b}) \in {a, b} /\ Min({a, b}) <= a /\ Min({a, b}) <= b
<1>1. \E x \in {a, b} : \A y \in {a, b} : x <= y
  OBVIOUS
<1> QED BY <1>1 DEF Min

(* getline() gives a line of the input, and leaves the buffer and the offset  *)
(* in it.                                                                     *)
LEMMA GetlineOK ==
  ASSUME WishInv, NEW i \in Shell, Stands(i, "read"), ~AtEof(i)
  PROVE  LET g == Getline(i) IN
         /\ g.line \in 1..Len(script) /\ g.upto \in 1..Len(script) /\ g.line <= g.upto
         /\ g.offset \in 1..(Len(script) + 1)
<1>1. /\ Len(script) \in Nat /\ offset \in 1..(Len(script) + 1) /\ BufLines \in Nat \ {0}
      /\ sh[i].line \in Nat \ {0} /\ sh[i].upto \in Nat /\ sh[i].upto <= Len(script)
  BY WishAssumption DEF WishInv, ShellOK, WishProcess
<1>2. CASE Empty(i)
  <2>1. offset <= Len(script)
    BY <1>1, <1>2 DEF AtEof
  <2>2. FilledTo \in offset..Len(script)
    <3>1. CASE batch
      <4> DEFINE a == offset + BufLines - 1
      <4>1. a \in Int /\ a >= offset /\ Len(script) \in Int
        BY <1>1
      <4>2. FilledTo = Min({a, Len(script)})
        BY <3>1 DEF FilledTo
      <4> HIDE DEF a
      <4>3. FilledTo \in {a, Len(script)} /\ FilledTo <= Len(script)
        BY <4>1, <4>2, MinOfTwo
      <4> QED BY <1>1, <2>1, <4>1, <4>3
    <3>2. CASE ~batch
      BY <1>1, <2>1, <3>2 DEF FilledTo
    <3> QED BY <3>1, <3>2
  <2> QED BY <1>1, <1>2, <2>1, <2>2 DEF Getline
<1>3. CASE ~Empty(i)
  BY <1>1, <1>3 DEF Getline, Empty
<1> QED BY <1>2, <1>3

LEMMA ProcessInv == ASSUME WishInv, NEW i \in Shell, Process(i) PROVE WishInv'
<1> DEFINE g == Getline(i)
           c == script[g.line]
           quits == c.op = "exit" /\ ~c.args
           p == IF c.op = "path" THEN c.dirs ELSE sh[i].path
           a == IF quits THEN "dead" ELSE IF Times(c) > 0 THEN "fork" ELSE "read"
           t == Times(c)
           r == [sh[i] EXCEPT !.line = g.line + 1, !.upto = g.upto, !.loops = t, !.path = p, !.at = a]
<1>1. /\ Stands(i, "read") /\ ~AtEof(i) /\ sh' = [sh EXCEPT ![i] = r] /\ UNCHANGED <<script, batch>>
      /\ offset' = IF quits THEN Back(g.offset, g.upto - g.line) ELSE g.offset
  BY DEF Process
<1>2. /\ g.line \in 1..Len(script) /\ g.upto \in 1..Len(script) /\ g.line <= g.upto
      /\ g.offset \in 1..(Len(script) + 1)
  BY <1>1, GetlineOK
<1>3. c \in CommandLine /\ Len(script) \in Nat
  BY <1>2 DEF WishInv
<1>4. t \in Nat /\ a \in {"dead", "fork", "read"} /\ a \in WishAt /\ (a \in Busy => t > 0)
  BY <1>3 DEF Times, CommandLine, WishAt, Busy
<1>5. sh[i] \in WishProcess
  BY DEF WishInv
<1>6. p \in Path
  BY <1>3, <1>5 DEF WishProcess, CommandLine, Path
<1> HIDE DEF quits, p, a, t, c, g
<1>7. offset' \in 1..(Len(script) + 1)
  <2>1. g.upto - g.line \in Nat
    BY <1>2
  <2> QED BY <1>1, <1>2, <1>3, <2>1, BackOK
<1>8. r \in WishProcess /\ r.line = g.line + 1 /\ r.upto = g.upto /\ r.loops = t /\ r.at = a
  <2> DEFINE r1 == [sh[i] EXCEPT !.line = g.line + 1, !.upto = g.upto]
             r2 == [r1 EXCEPT !.loops = t, !.path = p]
  <2>1. g.line + 1 \in Nat \ {0} /\ g.upto \in Nat
    BY <1>2, <1>3
  <2>2. r1 \in WishProcess /\ r1.line = g.line + 1 /\ r1.upto = g.upto
    BY ZenonT(90), <2>1, <1>5 DEF WishProcess
  <2> HIDE DEF r1
  <2>3. r2 \in WishProcess /\ r2.line = g.line + 1 /\ r2.upto = g.upto /\ r2.loops = t
    BY ZenonT(90), <2>2, <1>4, <1>6 DEF WishProcess
  <2>4. r = [r2 EXCEPT !.at = a]
    BY DEF r1
  <2> HIDE DEF r2, r
  <2> QED BY ZenonT(90), <2>3, <2>4, <1>4 DEF WishProcess
<1> HIDE DEF r
<1>9. ShellOK(r, Len(script))
  BY <1>2, <1>4, <1>8 DEF ShellOK
<1>10. Turn(sh[i])
  BY <1>1 DEF Turn, Stands
<1> QED BY <1>1, <1>7, <1>9, <1>10, OneChanged

(* A step that changes two processes, of which one had the turn.              *)
LEMMA TwoChanged ==
  ASSUME WishInv, NEW i \in Shell, NEW j \in Shell, i # j, NEW x, NEW y,
         ShellOK(x, Len(script)), ShellOK(y, Len(script)),
         sh' = [sh EXCEPT ![i] = x, ![j] = y], Same,
         Turn(sh[i]) \/ Turn(sh[j]), ~Turn(x) \/ ~Turn(y)
  PROVE  WishInv'
<1>1. sh \in [Shell -> WishProcess] /\ x \in WishProcess /\ y \in WishProcess
  BY DEF WishInv, ShellOK
<1>2. sh' \in [Shell -> WishProcess] /\ sh'[i] = x /\ sh'[j] = y /\ \A k \in Shell \ {i, j} : sh'[k] = sh[k]
  BY <1>1
<1>3. \A k \in Shell : ShellOK(sh[k], Len(script))
  BY DEF WishInv
<1>4. \A k \in Shell \ {i, j} : ~Turn(sh'[k])
  <2>1. \A k, l \in Shell : Turn(sh[k]) /\ Turn(sh[l]) => k = l
    BY DEF WishInv
  <2> QED BY <1>2, <2>1
<1>5. \A k \in Shell : ShellOK(sh'[k], Len(script))
  BY <1>2, <1>3
<1>6. \A k, l \in Shell : Turn(sh'[k]) /\ Turn(sh'[l]) => k = l
  BY <1>2, <1>4
<1>7. UNCHANGED <<script, batch, offset>>
  BY DEF Same
<1> QED BY <1>2, <1>5, <1>6, <1>7 DEF WishInv, Shell

LEMMA RunForkInv == ASSUME WishInv, NEW i \in Shell, RunFork(i) PROVE WishInv'
<1> DEFINE r == [sh[i] EXCEPT !.at = "wait"]
           c == [sh[i] EXCEPT !.parent = i, !.at = "child", !.tried = 0]
<1>1. sh[i].at = "fork" /\ Same
  BY DEF RunFork, Stands
<1>2. PICK j \in Shell : sh[j].at = "free" /\ sh' = [sh EXCEPT ![i].at = "wait", ![j] = c]
  BY ZenonT(90) DEF RunFork, Stands, Forked
<1>3. i # j /\ sh \in [Shell -> WishProcess] /\ sh[i] \in WishProcess /\ ShellOK(sh[i], Len(script))
  BY <1>1, <1>2 DEF WishInv
<1>4. sh' = [sh EXCEPT ![i] = r, ![j] = c]
  BY <1>2, <1>3
<1>5. /\ r \in WishProcess /\ r.line = sh[i].line /\ r.upto = sh[i].upto
      /\ r.loops = sh[i].loops /\ r.at = "wait"
  BY <1>3 DEF WishProcess, WishAt, Busy
<1>6. /\ c \in WishProcess /\ c.line = sh[i].line /\ c.upto = sh[i].upto
      /\ c.loops = sh[i].loops /\ c.at = "child"
  <2> DEFINE c1 == [sh[i] EXCEPT !.parent = i, !.at = "child"]
  <2>1. i \in 0..MaxShells /\ "child" \in WishAt
    BY DEF Shell, WishAt, Busy
  <2>2. /\ c1 \in WishProcess /\ c1.line = sh[i].line /\ c1.upto = sh[i].upto
        /\ c1.loops = sh[i].loops /\ c1.at = "child"
    BY ZenonT(90), <2>1, <1>3 DEF WishProcess
  <2>3. c = [c1 EXCEPT !.tried = 0]
    OBVIOUS
  <2> HIDE DEF c1, c
  <2> QED BY <2>2, <2>3 DEF WishProcess
<1> HIDE DEF r, c
<1>7. ShellOK(r, Len(script)) /\ ShellOK(c, Len(script))
  BY <1>1, <1>3, <1>5, <1>6 DEF ShellOK, Busy
<1>8. Turn(sh[i]) /\ ~Turn(r)
  BY <1>1, <1>5 DEF Turn
<1> QED BY <1>1, <1>3, <1>4, <1>7, <1>8, TwoChanged

LEMMA WaitChildInv == ASSUME WishInv, NEW i \in Shell, WaitChild(i) PROVE WishInv'
<1>1. PICK j \in Shell : /\ sh[j].parent = i /\ sh[j].at = "dead"
                         /\ sh' = [sh EXCEPT ![i] = Again(i), ![j] = NoShell]
  BY ZenonT(90) DEF WaitChild, Stands
<1>2. sh[i].at = "wait" /\ Same
  BY DEF WaitChild, Stands
<1>3. i # j /\ Turn(sh[j])
  BY <1>1, <1>2 DEF Turn, Shell
<1>4. ShellOK(Again(i), Len(script)) /\ ShellOK(NoShell, Len(script)) /\ ~Turn(NoShell)
  BY <1>2, AgainOK, FreeOK DEF WishInv, Busy
<1> QED BY <1>1, <1>2, <1>3, <1>4, TwoChanged

LEMMA ExecvInv == ASSUME WishInv, NEW i \in Shell, Execv(i) PROVE WishInv'
<1>1. sh[i] \in WishProcess /\ ShellOK(sh[i], Len(script))
  BY DEF WishInv
<1>2. sh[i].at = "child" /\ UNCHANGED <<script, batch, offset>> /\ offset \in 1..(Len(script) + 1)
  BY DEF Execv, Stands, Same, WishInv
<1> DEFINE p == [sh[i] EXCEPT !.at = "prog"]
           r == [sh[i] EXCEPT !.tried = @ + 1]
<1>3. \/ sh' = [sh EXCEPT ![i] = p]
      \/ sh' = [sh EXCEPT ![i] = r]
      \/ sh' = [sh EXCEPT ![i] = Again(i)]
  BY ZenonT(90) DEF Execv, Same
<1>4. Turn(sh[i])
  BY <1>2 DEF Turn
<1>5. ShellOK(p, Len(script))
  <2>1. /\ p \in WishProcess /\ p.line = sh[i].line /\ p.upto = sh[i].upto
        /\ p.loops = sh[i].loops /\ p.at = "prog"
    BY <1>1 DEF WishProcess, WishAt, Busy
  <2> HIDE DEF p
  <2> QED BY <1>1, <1>2, <2>1 DEF ShellOK, Busy
<1>6. ShellOK(r, Len(script))
  <2>1. /\ r \in WishProcess /\ r.line = sh[i].line /\ r.upto = sh[i].upto
        /\ r.loops = sh[i].loops /\ r.at = sh[i].at
    BY SMTT(60), <1>1 DEF WishProcess
  <2> HIDE DEF r
  <2> QED BY <1>1, <2>1 DEF ShellOK
<1>7. ShellOK(Again(i), Len(script))
  BY <1>2, AgainOK DEF Busy
<1> HIDE DEF p, r
<1> QED BY ZenonT(90), <1>2, <1>3, <1>4, <1>5, <1>6, <1>7, OneChanged

LEMMA WishStepInv == WishInv /\ [WishNext]_wishVars => WishInv'
<1> SUFFICES ASSUME WishInv, [WishNext]_wishVars PROVE WishInv'
  OBVIOUS
<1>1. CASE UNCHANGED wishVars
  BY <1>1 DEF wishVars, WishInv
<1>2. ASSUME NEW i \in Shell, ShellStep(i) PROVE WishInv'
  BY <1>2, StopsInv, ProcessInv, RunForkInv, WaitChildInv, ExecvInv DEF ShellStep
<1> QED BY <1>1, <1>2 DEF WishNext

LEMMA WishInvSound == WishInv => WishSound
<1> SUFFICES ASSUME WishInv PROVE WishSound
  OBVIOUS
<1>1. \A i \in Shell : ShellOK(sh[i], Len(script))
  BY DEF WishInv
<1>2. WishTypeOK
  <2>1. offset \in 1..(Len(script) + 1) /\ Len(script) \in Nat
    BY DEF WishInv
  <2> QED BY <1>1, <2>1 DEF WishTypeOK, ShellOK, WishProcess, WishAt, Busy
<1>3. OneRuns
  <2> DEFINE R == {i \in Shell : sh[i].at \notin {"free", "wait", "dead"}}
  <2>1. \A i, j \in R : i = j
    BY DEF WishInv, Turn
  <2>2. CASE R = {}
    BY <2>2, FS_EmptySet DEF OneRuns
  <2>3. CASE R # {}
    <3>1. PICK x : x \in R
      BY <2>3
    <3>2. R = {x}
      BY <2>1, <3>1
    <3> HIDE DEF R
    <3>3. Cardinality(R) = 1
      BY ZenonT(90), <3>2, FS_Singleton
    <3> QED BY <3>3 DEF R, OneRuns
  <2> QED BY <2>2, <2>3
<1> QED BY <1>2, <1>3 DEF WishSound

(* One process of wish runs at a time, whatever shells are left over by an    *)
(* execv() that failed: output never mixes, and no shell reads a line before  *)
(* the command of the last one has ended (wish.c, run_fork and main).         *)
THEOREM WishIsSound == WishSpec => []WishSound
<1>1. WishInit => WishInv
  BY WishInitInv
<1>2. WishInv /\ [WishNext]_wishVars => WishInv'
  BY WishStepInv
<1>3. WishInv => WishSound
  BY WishInvSound
<1> QED BY <1>1, <1>2, <1>3, PTL DEF WishSpec

=============================================================================
