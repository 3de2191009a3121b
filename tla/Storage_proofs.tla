--------------------------- MODULE Storage_proofs ---------------------------
(* The storage layers under the file system.  The log is crash safe for any   *)
(* blocks, contents, number of operations and sizes: it implements            *)
(* AtomicDisk, it is never overrun, and at rest the disk is up to date.  The  *)
(* buffer cache is sound and implements BlockStore, for any processes,        *)
(* buffers, blocks and contents.                                              *)
EXTENDS Log, BufCache, FunctionTheorems, FiniteSetTheorems, TLAPS

(* The operations between begin_op() and end_op(), and the blocks they have   *)
(* modified that are in the log.                                              *)
Active  == {t \in LogOp : op[t] \in {"in", "append"}}
Counted == {tb \in LogOp \X Block : tb[2] \in wrote[tb[1]] /\ tb[2] \in ToSet(logged)}

Once(s) == \A i, j \in 1..Len(s) : s[i] = s[j] => i = j

LogShape ==
  /\ home \in [Block -> Value] /\ cache \in [Block -> Value]
  /\ logData \in [1..LOGSIZE -> Value]
  /\ head \in Seq(Block) /\ Len(head) <= LOGSIZE /\ Once(head)
  /\ logged \in Seq(Block) /\ Once(logged)
  /\ outstanding \in Nat /\ committing \in BOOLEAN
  /\ op \in [LogOp -> OpState] /\ wrote \in [LogOp -> SUBSET Block]
  /\ appending \in [LogOp -> Block \cup {NoBlock}]
  /\ phase \in Phase /\ tail \in Nat

(* begin_op() reserves MAXOPBLOCKS blocks for an operation, and what it has   *)
(* logged is taken from its own reserve, or was in the log already.           *)
AccountInv ==
  /\ outstanding = Cardinality(Active)
  /\ committing => Active = {}
  /\ \A t \in LogOp : IsFiniteSet(wrote[t]) /\ Cardinality(wrote[t]) <= MAXOPBLOCKS
  /\ \A t \in LogOp : t \notin Active => wrote[t] = {}
  /\ \A t \in LogOp : op[t] = "append" => appending[t] \in wrote[t]
  /\ Len(logged) + outstanding * MAXOPBLOCKS <= LOGSIZE + Cardinality(Counted)

(* Outside the log and log_write() the cache has what the home block has.     *)
CacheIsHome ==
  \A b \in Block : /\ b \notin ToSet(logged)
                   /\ \A t \in LogOp : op[t] = "append" => appending[t] # b
                   => cache[b] = home[b]

(* What the disk holds in each phase of commit() and of the recovery.         *)
PhaseInv ==
  /\ phase \in {"none", "write_log", "write_head"} => head = <<>>
  /\ phase \in {"none", "write_log", "write_head", "install"} => CacheIsHome
  /\ phase \in {"write_log", "write_head", "install", "clear"} => committing
  /\ phase = "none" /\ outstanding = 0 => logged = <<>>
  /\ phase \notin {"write_log", "install", "reinstall"} => tail = 1
  /\ phase \in {"write_log", "install", "reinstall"} => tail \in 1..(Len(logged) + 1)
  /\ phase = "write_log" =>
       \A i \in 1..Len(logged) : i < tail => logData[i] = cache[logged[i]]
  /\ phase \in {"write_head", "install"} =>
       \A i \in 1..Len(logged) : logData[i] = cache[logged[i]]
  /\ phase \in {"install", "reinstall"} =>
       /\ head = logged
       /\ \A i \in 1..Len(logged) : i < tail => home[logged[i]] = logData[i]
  /\ phase \in {"clear", "reclear"} =>
       logged = <<>> /\ \A i \in 1..Len(head) : home[head[i]] = logData[i]
  /\ phase = "clear" => cache = home
  /\ phase \in {"read_head", "reinstall", "reclear"} =>
       ~committing /\ \A t \in LogOp : op[t] = "idle"

LogInv == LogShape /\ AccountInv /\ PhaseInv

-----------------------------------------------------------------------------
(* Sequences without repetition, and sets of pairs.                           *)

LEMMA InToSet ==
  ASSUME NEW S, NEW s \in Seq(S), NEW b
  PROVE  b \in ToSet(s) <=> \E i \in 1..Len(s) : s[i] = b
BY DEF ToSet

LEMMA OnceAppend ==
  ASSUME NEW S, NEW s \in Seq(S), Once(s), NEW b \in S, b \notin ToSet(s)
  PROVE  /\ Append(s, b) \in Seq(S) /\ Once(Append(s, b))
         /\ Len(Append(s, b)) = Len(s) + 1
         /\ ToSet(Append(s, b)) = ToSet(s) \cup {b}
<1> DEFINE a == Append(s, b)
<1>1. a \in Seq(S) /\ Len(a) = Len(s) + 1 /\ a[Len(s) + 1] = b
      /\ \A i \in 1..Len(s) : a[i] = s[i]
  OBVIOUS
<1>2. \A i \in 1..Len(s) : s[i] # b
  BY InToSet
<1>3. Once(a)
  BY <1>1, <1>2 DEF Once
<1> HIDE DEF a
<1>4. \A x : x \in ToSet(a) <=> x \in ToSet(s) \/ x = b
  <2> TAKE x
  <2>1. x \in ToSet(a) <=> \E i \in 1..Len(a) : a[i] = x
    BY <1>1, InToSet
  <2>2. x \in ToSet(s) <=> \E i \in 1..Len(s) : s[i] = x
    BY InToSet
  <2>3. Len(s) \in Nat
    OBVIOUS
  <2> QED  BY <1>1, <2>1, <2>2, <2>3
<1> QED  BY <1>1, <1>3, <1>4 DEF a

(* A sequence without repetition has as many elements as its length says.     *)
LEMMA OnceLen ==
  ASSUME NEW S, NEW s \in Seq(S), Once(s)
  PROVE  Cardinality(ToSet(s)) = Len(s)
<1>1. s \in [1..Len(s) -> ToSet(s)]
  BY InToSet
<1>2. s \in Bijection(1..Len(s), ToSet(s))
  BY <1>1, InToSet DEF Once, Bijection, Injection, Surjection, IsInjective
<1>3. ExistsBijection(1..Len(s), ToSet(s))
  BY <1>2 DEF ExistsBijection
<1> QED  BY <1>3, FS_CountingElements

(* At most K pairs with each of the elements of A.                            *)
LEMMA BoundedPairs ==
  ASSUME NEW A, IsFiniteSet(A), NEW B, NEW W \in SUBSET (A \X B), NEW K \in Nat,
         NEW g, \A a \in A : /\ IsFiniteSet(g[a]) /\ Cardinality(g[a]) <= K
                             /\ \A b \in B : <<a, b>> \in W => b \in g[a]
  PROVE  IsFiniteSet(W) /\ Cardinality(W) <= Cardinality(A) * K
<1>1. \A a \in A : \E f : f \in [g[a] -> 1..K] /\ \A x, y \in g[a] : f[x] = f[y] => x = y
  <2> TAKE a \in A
  <2> DEFINE n == Cardinality(g[a])
  <2>1. n \in Nat /\ n <= K /\ ExistsBijection(1..n, g[a])
    BY FS_CardinalityType
  <2>2. PICK h : h \in Bijection(1..n, g[a])
    BY <2>1 DEF ExistsBijection
  <2> DEFINE f == [x \in g[a] |-> CHOOSE i \in 1..n : h[i] = x]
  <2>3. \A x \in g[a] : f[x] \in 1..n /\ h[f[x]] = x
    BY <2>2 DEF Bijection, Surjection
  <2>4. f \in [g[a] -> 1..K] /\ \A x, y \in g[a] : f[x] = f[y] => x = y
    <3>1. DOMAIN f = g[a] /\ f = [x \in g[a] |-> f[x]]
      OBVIOUS
    <3> HIDE DEF f, n
    <3>2. \A x \in g[a] : f[x] \in 1..K
      BY <2>1, <2>3
    <3> QED  BY <2>3, <3>1, <3>2
  <2> QED  BY <2>4
<1> DEFINE inj == [a \in A |-> CHOOSE f : f \in [g[a] -> 1..K] /\ \A x, y \in g[a] : f[x] = f[y] => x = y]
<1>2. \A a \in A : inj[a] \in [g[a] -> 1..K] /\ \A x, y \in g[a] : inj[a][x] = inj[a][y] => x = y
  BY <1>1
<1> DEFINE m == [w \in W |-> <<w[1], inj[w[1]][w[2]]>>]
<1>3. \A w \in W : w[1] \in A /\ w[2] \in B /\ w = <<w[1], w[2]>> /\ w[2] \in g[w[1]]
  OBVIOUS
<1>4. \A w \in W : m[w] = <<w[1], inj[w[1]][w[2]]>>
  OBVIOUS
<1> HIDE DEF inj
<1>5. m \in [W -> A \X (1..K)]
  BY <1>2, <1>3
<1>6. \A v, w \in W : m[v] = m[w] => v = w
  BY <1>2, <1>3, <1>4
<1>7. m \in Injection(W, A \X (1..K))
  BY <1>5, <1>6 DEF Injection, IsInjective
<1>8. IsFiniteSet(A \X (1..K)) /\ Cardinality(A \X (1..K)) = Cardinality(A) * K
  <2>1. IsFiniteSet(1..K) /\ Cardinality(1..K) = K
    BY FS_Interval
  <2> QED  BY <2>1, FS_Product
<1> HIDE DEF m
<1> QED  BY <1>7, <1>8, FS_Injection

-----------------------------------------------------------------------------
(* What the accounts give: the log is never longer than what begin_op() may   *)
(* share out.                                                                 *)

LEMMA CountedIsFinite ==
  ASSUME LogInv
  PROVE  /\ IsFiniteSet(Counted) /\ Cardinality(Counted) \in Nat
         /\ Cardinality(Counted) <= outstanding * MAXOPBLOCKS
<1>1. IsFiniteSet(Active)
  BY FS_Subset, LogAssumption DEF Active
<1>2. Counted \in SUBSET (Active \X Block)
  BY DEF LogInv, AccountInv, Counted
<1>3. \A a \in Active : /\ IsFiniteSet(wrote[a]) /\ Cardinality(wrote[a]) <= MAXOPBLOCKS
                        /\ \A b \in Block : <<a, b>> \in Counted => b \in wrote[a]
  BY DEF LogInv, AccountInv, Counted, Active
<1>4. MAXOPBLOCKS \in Nat
  BY LogAssumption
<1>5. IsFiniteSet(Counted) /\ Cardinality(Counted) <= Cardinality(Active) * MAXOPBLOCKS
  BY <1>1, <1>2, <1>3, <1>4, BoundedPairs
<1> QED  BY <1>5, FS_CardinalityType DEF LogInv, AccountInv

LEMMA LogIsNotOverrun ==
  ASSUME LogInv
  PROVE  Len(logged) <= LOGSIZE
<1>1. Len(logged) + outstanding * MAXOPBLOCKS <= LOGSIZE + Cardinality(Counted)
  BY DEF LogInv, AccountInv
<1>2. outstanding * MAXOPBLOCKS \in Nat /\ Len(logged) \in Nat /\ LOGSIZE \in Nat
  BY LogAssumption DEF LogInv, LogShape
<1> QED  BY <1>1, <1>2, CountedIsFinite

(* Once the last operation has ended, commit() has the log to itself.         *)
LEMMA NoneActive ==
  ASSUME LogInv, committing
  PROVE  Active = {} /\ outstanding = 0 /\ \A t \in LogOp : wrote[t] = {}
BY FS_EmptySet DEF LogInv, AccountInv

LEMMA SomeActive ==
  ASSUME LogInv, NEW t \in LogOp, t \in Active
  PROVE  outstanding \in Nat \ {0} /\ ~committing /\ (Up => phase = "none")
<1>1. IsFiniteSet(Active) /\ Active # {}
  BY FS_Subset, LogAssumption DEF Active
<1>2. outstanding # 0
  BY <1>1, FS_EmptySet DEF LogInv, AccountInv
<1> QED  BY <1>1, <1>2 DEF LogInv, LogShape, AccountInv, PhaseInv, Up, Phase

(* With no operation in progress a log of any legal length is accounted for.  *)
LEMMA NothingCounted ==
  /\ Cardinality({}) = 0
  /\ Len(<<>>) + 0 * MAXOPBLOCKS <= LOGSIZE + Cardinality({})
  /\ \A n \in Nat : n <= LOGSIZE => n + 0 * MAXOPBLOCKS <= LOGSIZE + Cardinality({})
  /\ IsFiniteSet({}) /\ Cardinality({}) <= MAXOPBLOCKS
<1>1. Cardinality({}) = 0 /\ IsFiniteSet({})
  BY FS_EmptySet
<1> QED  BY <1>1, LogAssumption

(* Steps of the disk that do not touch the accounts.                          *)
LEMMA AccountKept ==
  ASSUME LogInv, UNCHANGED <<logged, outstanding, committing, op, wrote, appending>>
  PROVE  AccountInv'
BY DEF LogInv, AccountInv, Active, Counted

-----------------------------------------------------------------------------
LEMMA InitLogInv ==
  ASSUME Init
  PROVE  LogInv
<1>1. Active = {} /\ Counted = {} /\ CacheIsHome
  BY DEF Init, Active, Counted, CacheIsHome, ToSet
<1>2. (CHOOSE v \in Value : TRUE) \in Value
  BY LogAssumption
<1>3. LogShape
  <2>1. head \in Seq(Block) /\ Len(head) <= LOGSIZE /\ Once(head)
        /\ logged \in Seq(Block) /\ Once(logged)
    BY LogAssumption DEF Init, Once
  <2>2. logData \in [1..LOGSIZE -> Value]
    BY <1>2 DEF Init
  <2> QED  BY <2>1, <2>2 DEF Init, LogShape, OpState, Phase
<1>4. AccountInv
  BY <1>1, FS_EmptySet, LogAssumption DEF Init, AccountInv
<1>5. PhaseInv
  BY <1>1 DEF Init, PhaseInv
<1> QED  BY <1>3, <1>4, <1>5 DEF LogInv

LEMMA BeginLogInv ==
  ASSUME LogInv, NEW t \in LogOp, Begin(t)
  PROVE  LogInv'
<1>1. LogShape'
  <2>1. op' \in [LogOp -> OpState] /\ outstanding' \in Nat
    BY DEF LogInv, LogShape, Begin, OpState
  <2>2. UNCHANGED <<home, logData, head, cache, logged, committing, wrote, appending, phase, tail>>
    BY DEF Begin, disk
  <2> QED  BY <2>1, <2>2 DEF LogInv, LogShape
<1>2. UNCHANGED <<logged, wrote, appending, committing>>
  BY DEF Begin
<1>3. Counted' = Counted
  BY <1>2 DEF Counted
<1>4. AccountInv'
  <2>1. IsFiniteSet(Active) /\ t \notin Active /\ wrote[t] = {}
    BY FS_Subset, LogAssumption DEF Begin, Active, LogInv, AccountInv
  <2>2. CASE Admitted
    <3>1. Active' = Active \cup {t} /\ outstanding' = outstanding + 1 /\ ~committing
      BY <2>2 DEF Begin, Active, Admitted, LogInv, LogShape
    <3>2. Cardinality(Active') = outstanding + 1
      BY <2>1, <3>1, FS_AddElement DEF LogInv, AccountInv
    <3>3. Len(logged) + (outstanding + 1) * MAXOPBLOCKS <= LOGSIZE + Cardinality(Counted)
      <4>1. Len(logged) + (outstanding + 1) * MAXOPBLOCKS <= LOGSIZE
        BY <2>2 DEF Admitted
      <4>2. (outstanding + 1) * MAXOPBLOCKS \in Nat /\ Len(logged) \in Nat /\ LOGSIZE \in Nat
        BY LogAssumption DEF LogInv, LogShape
      <4> QED  BY <4>1, <4>2, CountedIsFinite
    <3>4. \A u \in LogOp : op'[u] = "append" => op[u] = "append"
      BY <2>2 DEF Begin, LogInv, LogShape
    <3> QED  BY <1>2, <1>3, <3>1, <3>2, <3>3, <3>4 DEF LogInv, AccountInv
  <2>3. CASE ~Admitted
    <3>1. Active' = Active /\ outstanding' = outstanding
      BY <2>3 DEF Begin, Active, LogInv, LogShape
    <3>2. \A u \in LogOp : op'[u] = "append" => op[u] = "append"
      BY <2>3 DEF Begin, LogInv, LogShape
    <3> QED  BY <1>2, <1>3, <3>1, <3>2 DEF LogInv, AccountInv
  <2> QED  BY <2>2, <2>3
<1>5. PhaseInv'
  <2>1. UNCHANGED <<home, logData, head, cache, phase, tail>>
    BY DEF Begin, disk
  <2>2. \A u \in LogOp : op'[u] = "append" <=> op[u] = "append"
    BY DEF Begin, LogInv, LogShape
  <2>3. CacheIsHome => CacheIsHome'
    BY <1>2, <2>1, <2>2 DEF CacheIsHome
  <2>4. outstanding' = 0 => outstanding = 0
    BY DEF Begin, LogInv, LogShape
  <2>5. phase \notin {"read_head", "reinstall", "reclear"}
    BY DEF Begin, Up
  <2> QED  BY <1>2, <2>1, <2>3, <2>4, <2>5 DEF LogInv, PhaseInv
<1> QED  BY <1>1, <1>4, <1>5 DEF LogInv

LEMMA ModifyLogInv ==
  ASSUME LogInv, NEW t \in LogOp, NEW b \in Block, NEW v \in Value, Modify(t, b, v)
  PROVE  LogInv'
<1>1. LogShape'
  BY DEF LogInv, LogShape, Modify, OpState, Phase, disk
<1>2. UNCHANGED <<home, logData, head, logged, outstanding, committing, tail>>
  BY DEF Modify, disk
<1>3. wrote' = [wrote EXCEPT ![t] = @ \cup {b}] /\ op[t] = "in" /\ t \in Active
  BY DEF Modify, Active
<1>4. phase = "none" /\ outstanding # 0
  BY <1>3, SomeActive DEF Modify
<1>5. Active' = Active
  BY DEF Modify, Active, LogInv, LogShape
<1>6. AccountInv'
  <2>1. \A u \in LogOp : IsFiniteSet(wrote'[u]) /\ Cardinality(wrote'[u]) <= MAXOPBLOCKS
    <3>1. IsFiniteSet(wrote[t]) /\ Cardinality(wrote[t]) \in Nat /\ Cardinality(wrote[t]) <= MAXOPBLOCKS
      BY FS_CardinalityType DEF LogInv, AccountInv
    <3>2. b \in wrote[t] \/ Cardinality(wrote[t]) < MAXOPBLOCKS
      BY DEF Modify
    <3>3. IsFiniteSet(wrote[t] \cup {b}) /\ Cardinality(wrote[t] \cup {b}) <= MAXOPBLOCKS
      <4>1. /\ IsFiniteSet(wrote[t] \cup {b})
            /\ Cardinality(wrote[t] \cup {b}) =
                 IF b \in wrote[t] THEN Cardinality(wrote[t]) ELSE Cardinality(wrote[t]) + 1
        BY <3>1, FS_AddElement
      <4> QED  BY <3>1, <3>2, <4>1, LogAssumption
    <3>4. \A u \in LogOp : wrote'[u] = IF u = t THEN wrote[t] \cup {b} ELSE wrote[u]
      BY <1>3 DEF LogInv, LogShape
    <3> QED  BY <3>3, <3>4 DEF LogInv, AccountInv
  <2>2. \A u \in LogOp : u \notin Active => wrote'[u] = {}
    BY <1>3 DEF LogInv, LogShape, AccountInv
  <2>3. \A u \in LogOp : op'[u] = "append" => appending'[u] \in wrote'[u]
    BY <1>3 DEF Modify, LogInv, LogShape, AccountInv
  <2>4. Cardinality(Counted) <= Cardinality(Counted') /\ Cardinality(Counted') \in Nat
    <3>1. Counted \subseteq Counted' /\ Counted' \subseteq Counted \cup {<<t, b>>}
      BY <1>2, <1>3 DEF Counted, LogInv, LogShape
    <3>2. IsFiniteSet(Counted')
      BY <3>1, CountedIsFinite, FS_AddElement, FS_Subset
    <3> QED  BY <3>1, <3>2, FS_Subset, FS_CardinalityType
  <2>5. Len(logged) + outstanding * MAXOPBLOCKS <= LOGSIZE + Cardinality(Counted')
    <3>1. outstanding * MAXOPBLOCKS \in Nat /\ Len(logged) \in Nat /\ LOGSIZE \in Nat
      BY LogAssumption DEF LogInv, LogShape
    <3> QED  BY <2>4, <3>1, CountedIsFinite DEF LogInv, AccountInv
  <2> QED  BY <1>2, <1>5, <2>1, <2>2, <2>3, <2>5 DEF LogInv, AccountInv
<1>7. PhaseInv'
  <2>1. CASE phase' = "panic"
    BY <1>2, <1>4, <2>1 DEF LogInv, PhaseInv
  <2>2. CASE phase' # "panic"
    <3>1. phase' = "none" /\ op' = [op EXCEPT ![t] = "append"] /\ appending' = [appending EXCEPT ![t] = b]
      BY <1>4, <2>2 DEF Modify
    <3>2. CacheIsHome'
      <4> SUFFICES ASSUME NEW c \in Block, c \notin ToSet(logged),
                          \A u \in LogOp : op'[u] = "append" => appending'[u] # c
                   PROVE  cache'[c] = home[c]
        BY <1>2 DEF CacheIsHome
      <4>1. c # b /\ \A u \in LogOp : op[u] = "append" => appending[u] # c
        BY <1>3, <3>1 DEF LogInv, LogShape
      <4>2. cache'[c] = cache[c]
        BY <4>1 DEF Modify, LogInv, LogShape
      <4> QED  BY <1>4, <4>1, <4>2 DEF LogInv, PhaseInv, CacheIsHome
    <3> QED  BY <1>2, <1>4, <3>1, <3>2 DEF LogInv, PhaseInv
  <2> QED  BY <2>1, <2>2
<1> QED  BY <1>1, <1>6, <1>7 DEF LogInv

LEMMA AppendLogInv ==
  ASSUME LogInv, NEW t \in LogOp, AppendBlock(t)
  PROVE  LogInv'
<1> DEFINE b == appending[t]
<1>1. UNCHANGED <<home, logData, head, cache, outstanding, committing, wrote, phase, tail>>
      /\ op[t] = "append" /\ op' = [op EXCEPT ![t] = "in"] /\ t \in Active
      /\ appending' = [appending EXCEPT ![t] = NoBlock]
  BY DEF AppendBlock, disk, Active
<1>2. b \in wrote[t] /\ b \in Block
  BY <1>1 DEF LogInv, LogShape, AccountInv
<1>3. phase = "none" /\ outstanding \in Nat \ {0}
  BY <1>1, SomeActive DEF AppendBlock
<1>4. Active' = Active
  BY <1>1 DEF Active, LogInv, LogShape
<1>5. /\ logged' \in Seq(Block) /\ Once(logged')
      /\ ToSet(logged') = ToSet(logged) \cup {b}
      /\ Len(logged') = IF b \in ToSet(logged) THEN Len(logged) ELSE Len(logged) + 1
  <2>1. CASE b \in ToSet(logged)
    <3>1. ToSet(logged) \cup {b} = ToSet(logged)
      BY <2>1
    <3> QED  BY <2>1, <3>1 DEF AppendBlock, Absorbed, LogInv, LogShape
  <2>2. CASE b \notin ToSet(logged)
    <3>1. logged' = Append(logged, b)
      BY <2>2 DEF AppendBlock, Absorbed
    <3>2. logged \in Seq(Block) /\ Once(logged)
      BY DEF LogInv, LogShape
    <3> QED  BY <1>2, <2>2, <3>1, <3>2, OnceAppend
  <2> QED  BY <2>1, <2>2
<1>6. LogShape'
  BY <1>1, <1>5 DEF LogInv, LogShape, OpState
<1>7. AccountInv'
  <2>1. \A u \in LogOp : op'[u] = "append" => op[u] = "append" /\ appending'[u] = appending[u]
    BY <1>1 DEF LogInv, LogShape
  <2>2. Len(logged') + outstanding * MAXOPBLOCKS <= LOGSIZE + Cardinality(Counted')
    <3>1. outstanding * MAXOPBLOCKS \in Nat /\ Len(logged) \in Nat /\ LOGSIZE \in Nat
      BY LogAssumption DEF LogInv, LogShape
    <3>2. Counted \cup {<<t, b>>} \subseteq Counted'
      BY <1>1, <1>2, <1>5 DEF Counted
    <3>3. IsFiniteSet(Counted')
      <4>1. \A u \in LogOp : IsFiniteSet(wrote[u]) /\ Cardinality(wrote[u]) <= MAXOPBLOCKS
        BY DEF LogInv, AccountInv
      <4>2. Counted' \in SUBSET (LogOp \X Block)
        BY DEF Counted
      <4>3. \A u \in LogOp : \A c \in Block : <<u, c>> \in Counted' => c \in wrote[u]
        BY <1>1 DEF Counted
      <4> QED  BY <4>1, <4>2, <4>3, BoundedPairs, LogAssumption
    <3>4. /\ IsFiniteSet(Counted \cup {<<t, b>>})
          /\ Cardinality(Counted \cup {<<t, b>>}) =
               IF <<t, b>> \in Counted THEN Cardinality(Counted) ELSE Cardinality(Counted) + 1
      BY CountedIsFinite, FS_AddElement
    <3>5. Cardinality(Counted \cup {<<t, b>>}) <= Cardinality(Counted') /\ Cardinality(Counted') \in Nat
      BY <3>2, <3>3, FS_Subset, FS_CardinalityType
    <3>6. <<t, b>> \in Counted => b \in ToSet(logged)
      BY DEF Counted
    <3>7. Len(logged) + outstanding * MAXOPBLOCKS <= LOGSIZE + Cardinality(Counted)
      BY DEF LogInv, AccountInv
    <3> QED  BY SMTT(60), <1>5, <3>1, <3>4, <3>5, <3>6, <3>7, CountedIsFinite
  <2> QED  BY <1>1, <1>4, <2>1, <2>2 DEF LogInv, AccountInv
<1>8. PhaseInv'
  <2>1. CacheIsHome'
    <3> SUFFICES ASSUME NEW c \in Block, c \notin ToSet(logged'),
                        \A u \in LogOp : op'[u] = "append" => appending'[u] # c
                 PROVE  cache[c] = home[c]
      BY <1>1 DEF CacheIsHome
    <3>1. c \notin ToSet(logged) /\ \A u \in LogOp : op[u] = "append" => appending[u] # c
      BY <1>1, <1>5 DEF LogInv, LogShape
    <3> QED  BY <1>3, <3>1 DEF LogInv, PhaseInv, CacheIsHome
  <2> QED  BY <1>1, <1>3, <2>1 DEF LogInv, PhaseInv
<1> QED  BY <1>6, <1>7, <1>8 DEF LogInv

LEMMA EndOpLogInv ==
  ASSUME LogInv, NEW t \in LogOp, EndOp(t)
  PROVE  LogInv'
<1>1. /\ UNCHANGED <<home, logData, head, cache, logged, appending, tail>>
      /\ op[t] = "in" /\ t \in Active
      /\ outstanding' = outstanding - 1 /\ wrote' = [wrote EXCEPT ![t] = {}]
  BY DEF EndOp, disk, Active
<1>2. phase = "none" /\ outstanding \in Nat \ {0} /\ ~committing
  BY <1>1, SomeActive DEF EndOp
<1>3. \A u \in LogOp : /\ u # t => (op'[u] \in {"in", "append"} <=> op[u] \in {"in", "append"})
                       /\ op'[u] = "append" <=> op[u] = "append"
                       /\ op'[u] \in OpState
                       /\ op'[t] \in {"idle", "commit"}
  BY <1>1 DEF EndOp, Awake, LogInv, LogShape, OpState
<1>4. op' \in [LogOp -> OpState]
  BY <1>3 DEF EndOp, Awake, LogInv, LogShape, OpState
<1>5. LogShape'
  <2>1. phase' \in Phase /\ committing' \in BOOLEAN
    BY DEF EndOp, CommitStart, Phase, LogInv, LogShape
  <2>2. outstanding' \in Nat /\ wrote' \in [LogOp -> SUBSET Block]
    BY <1>1, <1>2 DEF LogInv, LogShape
  <2> QED  BY <1>1, <1>4, <2>1, <2>2 DEF LogInv, LogShape
<1>6. Active' = Active \ {t}
  BY <1>1, <1>3 DEF Active
<1>7. outstanding' = Cardinality(Active')
  <2>1. IsFiniteSet(Active)
    BY FS_Subset, LogAssumption DEF Active
  <2> QED  BY <1>1, <1>6, <2>1, FS_RemoveElement DEF LogInv, AccountInv
<1>8. AccountInv'
  <2>1. committing' => Active' = {}
    <3>1. CASE LastOp
      <4>1. IsFiniteSet(Active') /\ Cardinality(Active') = 0
        BY <1>1, <1>6, <1>7, <3>1, FS_Subset, LogAssumption DEF Active, LastOp
      <4> QED  BY <4>1, FS_EmptySet
    <3>2. CASE ~LastOp
      BY <1>2, <3>2 DEF EndOp
    <3> QED  BY <3>1, <3>2
  <2>2. \A u \in LogOp : IsFiniteSet(wrote'[u]) /\ Cardinality(wrote'[u]) <= MAXOPBLOCKS
    BY SMTT(60), <1>1, FS_EmptySet, LogAssumption DEF LogInv, LogShape, AccountInv
  <2>3. \A u \in LogOp : u \notin Active' => wrote'[u] = {}
    BY <1>1, <1>6 DEF LogInv, LogShape, AccountInv
  <2>4. \A u \in LogOp : op'[u] = "append" => appending'[u] \in wrote'[u]
    BY <1>1, <1>3 DEF LogInv, LogShape, AccountInv
  <2>5. Len(logged) + outstanding' * MAXOPBLOCKS <= LOGSIZE + Cardinality(Counted')
    <3> DEFINE gone == Counted \ Counted'
    <3>1. gone \in SUBSET ({t} \X Block) /\ Counted' \in SUBSET Counted
      BY <1>1 DEF Counted, LogInv, LogShape
    <3>2. IsFiniteSet(gone) /\ Cardinality(gone) <= MAXOPBLOCKS
      <4>1. \A u \in {t} : /\ IsFiniteSet(wrote[u]) /\ Cardinality(wrote[u]) <= MAXOPBLOCKS
                           /\ \A c \in Block : <<u, c>> \in gone => c \in wrote[u]
        BY DEF Counted, LogInv, AccountInv
      <4>2. IsFiniteSet({t}) /\ Cardinality({t}) = 1
        BY FS_Singleton
      <4> DEFINE one == {t}
      <4>3. gone \in SUBSET (one \X Block) /\ MAXOPBLOCKS \in Nat
        BY <3>1, LogAssumption
      <4> HIDE DEF gone, one
      <4>4. IsFiniteSet(gone) /\ Cardinality(gone) <= Cardinality(one) * MAXOPBLOCKS
        BY <4>1, <4>2, <4>3, BoundedPairs DEF one
      <4> QED  BY <4>2, <4>4, LogAssumption DEF one
    <3>3. IsFiniteSet(Counted')
      BY <3>1, CountedIsFinite, FS_Subset
    <3>4. Cardinality(gone) = Cardinality(Counted) - Cardinality(Counted')
      <4>1. Cardinality(gone) = Cardinality(Counted) - Cardinality(Counted \cap Counted')
        BY CountedIsFinite, FS_Difference
      <4>2. Counted \cap Counted' = Counted'
        BY <3>1
      <4> QED  BY <4>1, <4>2
    <3>5. Cardinality(Counted') \in Nat /\ Cardinality(gone) \in Nat /\ Cardinality(Counted) \in Nat
      BY <3>2, <3>3, CountedIsFinite, FS_CardinalityType
    <3> DEFINE before == outstanding * MAXOPBLOCKS
               after == outstanding' * MAXOPBLOCKS
    <3>6. Len(logged) + before <= LOGSIZE + Cardinality(Counted)
      BY DEF LogInv, AccountInv
    <3>7. before = after + MAXOPBLOCKS /\ after \in Nat
      BY <1>1, <1>2, LogAssumption
    <3>8. Len(logged) \in Nat /\ LOGSIZE \in Nat /\ MAXOPBLOCKS \in Nat
      BY LogAssumption DEF LogInv, LogShape
    <3> HIDE DEF gone, before, after
    <3>9. Len(logged) + after <= LOGSIZE + Cardinality(Counted')
      BY <3>2, <3>4, <3>5, <3>6, <3>7, <3>8
    <3> QED  BY <3>9 DEF after
  <2> QED  BY <1>1, <1>7, <2>1, <2>2, <2>3, <2>4, <2>5 DEF AccountInv
<1>9. PhaseInv'
  <2>1. CacheIsHome'
    <3>1. CacheIsHome
      BY <1>2 DEF LogInv, PhaseInv
    <3> QED  BY <1>1, <1>3, <3>1 DEF CacheIsHome
  <2>2. head = <<>> /\ tail = 1 /\ Len(logged) \in Nat
    BY <1>2 DEF LogInv, LogShape, PhaseInv
  <2>3. CASE LastOp /\ logged # <<>>
    <3>1. phase' = "write_log" /\ committing' = TRUE
      BY <2>3 DEF EndOp, CommitStart
    <3> QED  BY <1>1, <2>1, <2>2, <3>1 DEF PhaseInv
  <2>4. CASE ~(LastOp /\ logged # <<>>)
    <3>1. phase' = "none" /\ (outstanding' = 0 => logged = <<>>)
      BY <1>1, <1>2, <2>4 DEF EndOp, CommitStart, LastOp
    <3> QED  BY <1>1, <2>1, <2>2, <3>1 DEF PhaseInv
  <2> QED  BY <2>3, <2>4
<1> QED  BY <1>5, <1>8, <1>9 DEF LogInv

LEMMA CommittedLogInv ==
  ASSUME LogInv, NEW t \in LogOp, Committed(t)
  PROVE  LogInv'
<1>1. UNCHANGED <<home, logData, head, cache, logged, outstanding, wrote, appending, phase, tail>>
      /\ phase = "none" /\ committing' = FALSE
  BY DEF Committed, disk
<1>2. op' \in [LogOp -> OpState]
      /\ \A u \in LogOp : /\ op'[u] \in {"in", "append"} <=> op[u] \in {"in", "append"}
                          /\ op'[u] = "append" <=> op[u] = "append"
  BY DEF Committed, Awake, LogInv, LogShape, OpState
<1>3. Active' = Active /\ Counted' = Counted
  BY <1>1, <1>2 DEF Active, Counted
<1>4. CacheIsHome'
  BY <1>1, <1>2 DEF LogInv, PhaseInv, CacheIsHome
<1>5. LogShape'
  BY <1>1, <1>2 DEF LogInv, LogShape
<1>6. AccountInv'
  BY <1>1, <1>2, <1>3 DEF LogInv, AccountInv
<1>7. PhaseInv'
  BY <1>1, <1>4 DEF LogInv, PhaseInv
<1> QED  BY <1>5, <1>6, <1>7 DEF LogInv

(* The steps of the disk.                                                     *)

LEMMA WriteLogLogInv ==
  ASSUME LogInv, WriteLog
  PROVE  LogInv'
<1>1. UNCHANGED <<home, head, cache, logged, outstanding, committing, op, wrote, appending, phase>>
      /\ phase = "write_log" /\ tail <= Len(logged) /\ tail' = tail + 1
      /\ logData' = [logData EXCEPT ![tail] = cache[logged[tail]]]
  BY DEF WriteLog
<1>2. tail \in 1..Len(logged) /\ Len(logged) \in Nat /\ logged[tail] \in Block
  BY <1>1 DEF LogInv, LogShape, PhaseInv
<1>3. tail \in 1..LOGSIZE
  BY <1>2, LogIsNotOverrun, LogAssumption
<1>4. LogShape'
  <2>1. logData' \in [1..LOGSIZE -> Value]
    BY <1>1, <1>2 DEF LogInv, LogShape
  <2>2. tail' \in Nat
    BY <1>1, <1>2
  <2> QED  BY <1>1, <2>1, <2>2 DEF LogInv, LogShape
<1>5. AccountInv'
  BY <1>1, AccountKept
<1>6. PhaseInv'
  <2>1. \A i \in 1..Len(logged) : i < tail' => logData'[i] = cache[logged[i]]
    <3> TAKE i \in 1..Len(logged)
    <3> HAVE i < tail'
    <3>1. i \in 1..LOGSIZE /\ (i < tail \/ i = tail)
      BY <1>1, <1>2, LogIsNotOverrun, LogAssumption
    <3> QED  BY <1>1, <1>3, <3>1 DEF LogInv, LogShape, PhaseInv
  <2>2. CacheIsHome'
    BY <1>1 DEF LogInv, PhaseInv, CacheIsHome
  <2> QED  BY <1>1, <1>2, <2>1, <2>2 DEF LogInv, PhaseInv
<1> QED  BY <1>4, <1>5, <1>6 DEF LogInv

LEMMA WriteLogDoneLogInv ==
  ASSUME LogInv, WriteLogDone
  PROVE  LogInv'
<1>1. UNCHANGED <<home, logData, head, cache, logged, outstanding, committing, op, wrote, appending>>
      /\ phase = "write_log" /\ tail > Len(logged) /\ phase' = "write_head" /\ tail' = 1
  BY DEF WriteLogDone, disk
<1>2. LogShape'
  BY <1>1 DEF LogInv, LogShape, Phase
<1>3. AccountInv'
  BY <1>1, AccountKept
<1>4. PhaseInv'
  <2>1. \A i \in 1..Len(logged) : logData[i] = cache[logged[i]]
    BY <1>1 DEF LogInv, LogShape, PhaseInv
  <2>2. CacheIsHome'
    BY <1>1 DEF LogInv, PhaseInv, CacheIsHome
  <2> QED  BY <1>1, <2>1, <2>2 DEF LogInv, PhaseInv
<1> QED  BY <1>2, <1>3, <1>4 DEF LogInv

LEMMA WriteHeadLogInv ==
  ASSUME LogInv, WriteHead
  PROVE  LogInv'
<1>1. UNCHANGED <<home, logData, cache, logged, outstanding, committing, op, wrote, appending, tail>>
      /\ phase = "write_head" /\ phase' = "install" /\ head' = logged
  BY DEF WriteHead
<1>2. LogShape'
  BY <1>1, LogIsNotOverrun DEF LogInv, LogShape, Phase
<1>3. AccountInv'
  BY <1>1, AccountKept
<1>4. PhaseInv'
  <2>1. CacheIsHome'
    BY <1>1 DEF LogInv, PhaseInv, CacheIsHome
  <2>2. tail' = 1 /\ Len(logged) \in Nat
    BY <1>1 DEF LogInv, LogShape, PhaseInv
  <2> QED  BY <1>1, <2>1, <2>2 DEF LogInv, PhaseInv
<1> QED  BY <1>2, <1>3, <1>4 DEF LogInv

LEMMA InstallLogInv ==
  ASSUME LogInv, Install
  PROVE  LogInv'
<1>1. UNCHANGED <<logData, head, cache, logged, outstanding, committing, op, wrote, appending, phase>>
      /\ phase \in {"install", "reinstall"} /\ tail <= Len(logged) /\ tail' = tail + 1
      /\ home' = [home EXCEPT ![logged[tail]] = logData[tail]]
  BY DEF Install
<1>2. tail \in 1..Len(logged) /\ Len(logged) \in Nat /\ logged[tail] \in Block
  BY <1>1 DEF LogInv, LogShape, PhaseInv
<1>3. tail \in 1..LOGSIZE
  BY <1>2, LogIsNotOverrun, LogAssumption
<1>4. LogShape'
  BY SMTT(60), <1>1, <1>2, <1>3 DEF LogInv, LogShape
<1>5. AccountInv'
  BY <1>1, AccountKept
<1>6. PhaseInv'
  <2>1. \A i \in 1..Len(logged) : i < tail' => home'[logged[i]] = logData[i]
    <3> TAKE i \in 1..Len(logged)
    <3> HAVE i < tail'
    <3>1. logged[i] \in Block /\ (i < tail \/ i = tail)
      BY <1>1, <1>2 DEF LogInv, LogShape
    <3>2. i < tail => logged[i] # logged[tail]
      BY <1>2 DEF LogInv, LogShape, Once
    <3> QED  BY <1>1, <1>2, <3>1, <3>2 DEF LogInv, LogShape, PhaseInv
  <2>2. phase = "install" => CacheIsHome'
    <3>1. logged[tail] \in ToSet(logged)
      BY <1>2, InToSet DEF LogInv, LogShape
    <3>2. \A b \in Block : b \notin ToSet(logged) => home'[b] = home[b]
      BY <1>1, <3>1 DEF LogInv, LogShape
    <3> QED  BY <1>1, <3>2 DEF LogInv, PhaseInv, CacheIsHome
  <2> QED  BY <1>1, <1>2, <2>1, <2>2 DEF LogInv, PhaseInv
<1> QED  BY <1>4, <1>5, <1>6 DEF LogInv

LEMMA InstallDoneLogInv ==
  ASSUME LogInv, InstallDone
  PROVE  LogInv'
<1>1. UNCHANGED <<home, logData, head, cache, outstanding, committing, op, wrote, appending>>
      /\ phase \in {"install", "reinstall"} /\ tail > Len(logged) /\ tail' = 1
      /\ logged' = <<>> /\ phase' = IF phase = "install" THEN "clear" ELSE "reclear"
  BY DEF InstallDone, disk
<1>2. Active = {} /\ outstanding = 0 /\ \A t \in LogOp : wrote[t] = {}
  <2>1. CASE phase = "install"
    BY <2>1, NoneActive DEF LogInv, PhaseInv
  <2>2. CASE phase = "reinstall"
    BY <2>2, FS_EmptySet DEF LogInv, AccountInv, PhaseInv, Active
  <2> QED  BY <1>1, <2>1, <2>2
<1>3. LogShape'
  BY <1>1 DEF LogInv, LogShape, Phase, Once
<1>4. AccountInv'
  <2>1. Active' = {} /\ Counted' = {}
    BY <1>1, <1>2 DEF Active, Counted
  <2> QED  BY <1>1, <1>2, <2>1, NothingCounted DEF LogInv, AccountInv
<1>5. PhaseInv'
  <2>1. head = logged /\ \A i \in 1..Len(head) : home[head[i]] = logData[i]
    BY <1>1 DEF LogInv, LogShape, PhaseInv
  <2>2. CASE phase = "install"
    <3>1. \A b \in Block : cache[b] = home[b]
      <4> TAKE b \in Block
      <4>1. CASE b \in ToSet(logged)
        <5>1. PICK i \in 1..Len(logged) : logged[i] = b
          BY <4>1, InToSet DEF LogInv, LogShape
        <5> QED  BY <2>1, <2>2, <5>1 DEF LogInv, PhaseInv
      <4>2. CASE b \notin ToSet(logged)
        BY <1>2, <2>2, <4>2 DEF LogInv, PhaseInv, CacheIsHome, Active
      <4> QED  BY <4>1, <4>2
    <3>2. cache = home
      BY <3>1 DEF LogInv, LogShape
    <3> QED  BY <1>1, <2>1, <2>2, <3>2 DEF LogInv, PhaseInv
  <2>3. CASE phase = "reinstall"
    BY <1>1, <2>1, <2>3 DEF LogInv, PhaseInv
  <2> QED  BY <1>1, <2>2, <2>3
<1> QED  BY <1>3, <1>4, <1>5 DEF LogInv

LEMMA ClearLogInv ==
  ASSUME LogInv, Clear
  PROVE  LogInv'
<1>1. UNCHANGED <<home, logData, logged, outstanding, committing, op, wrote, appending, tail>>
      /\ phase \in {"clear", "reclear"} /\ phase' = "none" /\ head' = logged
      /\ cache' = IF phase = "clear" THEN cache ELSE home
  BY DEF Clear
<1>2. logged = <<>> /\ cache' = home /\ tail = 1
  BY <1>1 DEF LogInv, PhaseInv
<1>3. LogShape'
  BY <1>1, <1>2, LogIsNotOverrun DEF LogInv, LogShape, Phase
<1>4. AccountInv'
  BY <1>1, AccountKept
<1>5. PhaseInv'
  BY <1>1, <1>2 DEF PhaseInv, CacheIsHome
<1> QED  BY <1>3, <1>4, <1>5 DEF LogInv

LEMMA ReadHeadLogInv ==
  ASSUME LogInv, ReadHead
  PROVE  LogInv'
<1>1. UNCHANGED <<home, logData, head, cache, outstanding, committing, op, wrote, appending, tail>>
      /\ phase = "read_head" /\ phase' = "reinstall" /\ logged' = head
  BY DEF ReadHead, disk
<1>2. Active = {} /\ outstanding = 0 /\ \A t \in LogOp : wrote[t] = {}
  BY <1>1, NothingCounted DEF LogInv, AccountInv, PhaseInv, Active
<1>3. LogShape'
  BY <1>1 DEF LogInv, LogShape, Phase
<1>4. AccountInv'
  <2>1. Active' = {} /\ Counted' = {}
    BY <1>1, <1>2 DEF Active, Counted
  <2>2. Len(logged') \in Nat /\ Len(logged') <= LOGSIZE
    BY <1>1 DEF LogInv, LogShape
  <2> QED  BY <1>1, <1>2, <2>1, <2>2, NothingCounted DEF LogInv, AccountInv
<1>5. PhaseInv'
  <2>1. tail' = 1 /\ Len(logged') \in Nat
    BY <1>1 DEF LogInv, LogShape, PhaseInv
  <2> QED  BY <1>1, <2>1 DEF LogInv, PhaseInv
<1> QED  BY <1>3, <1>4, <1>5 DEF LogInv

LEMMA CrashLogInv ==
  ASSUME LogInv, Crash
  PROVE  LogInv'
<1>1. Active' = {} /\ Counted' = {}
  BY DEF Crash, Active, Counted
<1>2. LogShape'
  <2>1. UNCHANGED <<home, logData, head>> /\ cache' = home /\ logged' = <<>> /\ outstanding' = 0
        /\ committing' = FALSE /\ phase' = "read_head" /\ tail' = 1
    BY DEF Crash, disk
  <2>2. /\ op' \in [LogOp -> OpState] /\ wrote' \in [LogOp -> SUBSET Block]
        /\ appending' \in [LogOp -> Block \cup {NoBlock}]
    BY DEF Crash, OpState
  <2>3. logged' \in Seq(Block) /\ Once(logged')
    BY <2>1 DEF Once
  <2> QED  BY <2>1, <2>2, <2>3 DEF LogInv, LogShape, Phase
<1>3. AccountInv'
  BY <1>1, NothingCounted DEF Crash, AccountInv
<1>4. PhaseInv'
  BY DEF Crash, PhaseInv
<1> QED  BY <1>2, <1>3, <1>4 DEF LogInv

LEMMA NextLogInv ==
  ASSUME LogInv, [Next]_vars
  PROVE  LogInv'
<1>1. CASE UNCHANGED vars
  BY <1>1 DEF vars, disk, LogInv, LogShape, AccountInv, PhaseInv, Active, Counted, CacheIsHome
<1>2. ASSUME NEW t \in LogOp,
             \/ Begin(t) \/ AppendBlock(t) \/ EndOp(t) \/ Committed(t)
             \/ \E b \in Block, v \in Value : Modify(t, b, v)
      PROVE  LogInv'
  BY <1>2, BeginLogInv, AppendLogInv, EndOpLogInv, CommittedLogInv, ModifyLogInv
<1>3. CASE DiskStep
  BY <1>3, WriteLogLogInv, WriteLogDoneLogInv, WriteHeadLogInv, InstallLogInv, InstallDoneLogInv,
     ClearLogInv, ReadHeadLogInv DEF DiskStep
<1>4. CASE Crash
  BY <1>4, CrashLogInv
<1> QED  BY <1>1, <1>2, <1>3, <1>4 DEF Next

(* The account that begin_op() keeps of the log, and what commit() and the    *)
(* recovery have on disk in each of their phases, hold in every state.        *)
THEOREM LogInvariance == Spec => []LogInv
<1>1. Init => LogInv
  BY InitLogInv
<1>2. LogInv /\ [Next]_vars => LogInv'
  BY NextLogInv
<1> QED  BY <1>1, <1>2, PTL DEF Spec

-----------------------------------------------------------------------------
LEMMA ReplayedHome ==
  ASSUME LogInv, \A i \in 1..Len(head) : home[head[i]] = logData[i]
  PROVE  Replayed = home
<1>1. \A b \in Block : b \in ToSet(head) =>
        LET i == CHOOSE i \in 1..Len(head) : head[i] = b IN i \in 1..Len(head) /\ head[i] = b
  BY InToSet DEF LogInv, LogShape
<1>2. \A b \in Block : Replayed[b] = home[b]
  BY <1>1 DEF Replayed
<1> QED  BY <1>2 DEF Replayed, LogInv, LogShape

LEMMA EmptyReplayed ==
  ASSUME LogInv, head = <<>>
  PROVE  Replayed = home
<1>1. Len(head) = 0
  OBVIOUS
<1> QED  BY <1>1, ReplayedHome

(* In every state the log is well formed, no longer than begin_op() allows,   *)
(* and when nothing is going on the disk holds what the file system reads     *)
(* (log.c).                                                                   *)
THEOREM LogIsSound == Spec => []LogSound
<1>1. LogInv => LogSound
  <2> SUFFICES ASSUME LogInv PROVE LogSound
    OBVIOUS
  <2>1. Cardinality(ToSet(logged)) = Len(logged)
    BY OnceLen DEF LogInv, LogShape
  <2>2. outstanding \in 0..Cardinality(LogOp)
    <3>1. Cardinality(Active) <= Cardinality(LogOp) /\ Cardinality(LogOp) \in Nat
      BY FS_Subset, FS_CardinalityType, LogAssumption DEF Active
    <3> QED  BY <3>1 DEF LogInv, LogShape, AccountInv
  <2>3. tail \in 1..(LOGSIZE + 1)
    <3>1. Len(logged) \in Nat /\ Len(logged) <= LOGSIZE /\ LOGSIZE \in Nat
      BY LogIsNotOverrun, LogAssumption DEF LogInv, LogShape
    <3> QED  BY <3>1 DEF LogInv, PhaseInv
  <2>4. TypeOK
    BY <2>1, <2>2, <2>3, LogIsNotOverrun DEF TypeOK, LogInv, LogShape
  <2>5. QuietIsDurable
    <3> SUFFICES ASSUME Up, outstanding = 0, ~committing PROVE Replayed = cache /\ head = <<>>
      BY DEF QuietIsDurable
    <3>1. phase = "none"
      BY DEF LogInv, LogShape, PhaseInv, Up, Phase
    <3>2. head = <<>> /\ logged = <<>> /\ CacheIsHome
      BY <3>1 DEF LogInv, PhaseInv
    <3>3. Active = {}
      <4>1. IsFiniteSet(Active) /\ Cardinality(Active) = 0
        BY FS_Subset, LogAssumption DEF Active, LogInv, AccountInv
      <4> QED  BY <4>1, FS_EmptySet
    <3>4. \A b \in Block : cache[b] = home[b]
      BY <3>2, <3>3 DEF CacheIsHome, ToSet, Active
    <3>5. cache = home
      BY <3>4 DEF LogInv, LogShape
    <3> QED  BY <3>2, <3>5, EmptyReplayed
  <2> QED  BY <2>4, <2>5 DEF LogSound
<1> QED  BY <1>1, LogInvariance, PTL

-----------------------------------------------------------------------------
(* The log implements AtomicDisk.                                             *)

Current == IF Up THEN cache ELSE Replayed
Running == IF Up THEN Active ELSE {}

LEMMA ActiveOnly ==
  Disk!ANext <=>
    \/ \E t \in LogOp : \/ t \notin Running /\ Running' = Running \cup {t} /\ UNCHANGED <<Replayed, Current>>
                        \/ t \in Running /\ Running' = Running \ {t} /\ UNCHANGED <<Replayed, Current>>
                        \/ \E b \in Block, v \in Value :
                              t \in Running /\ Current' = [Current EXCEPT ![b] = v] /\ UNCHANGED <<Replayed, Running>>
    \/ Running = {} /\ Replayed' = Current /\ UNCHANGED <<Current, Running>>
    \/ Current' = Replayed /\ Running' = {} /\ UNCHANGED Replayed
BY DEF Disk!ANext, Disk!Begin, Disk!End, Disk!Write, Disk!Commit, Disk!Crash, Current, Running, Active

LEMMA Stutters ==
  (UNCHANGED <<Replayed, Current, Running>>) => UNCHANGED Disk!avars
BY DEF Disk!avars, Current, Running, Active

LEMMA InitAtomic ==
  ASSUME Init
  PROVE  Disk!AInit
<1>1. Replayed = home
  BY InitLogInv, EmptyReplayed DEF Init
<1> QED  BY <1>1 DEF Init, Disk!AInit, Up

(* What changes neither disk nor cache, nor the operations in progress.       *)
LEMMA QuietStep ==
  ASSUME UNCHANGED <<home, logData, head, cache>>, Up' = Up, Up => Active' = Active
  PROVE  UNCHANGED Disk!avars
<1>1. Replayed' = Replayed
  BY DEF Replayed
<1> QED  BY <1>1, Stutters DEF Current, Running

LEMMA OpAtomic ==
  ASSUME LogInv, NEW t \in LogOp,
         \/ Begin(t) \/ AppendBlock(t) \/ EndOp(t) \/ Committed(t)
         \/ \E b \in Block, v \in Value : Modify(t, b, v)
  PROVE  [Disk!ANext]_(Disk!avars)
<1>1. UNCHANGED <<home, logData, head>> /\ Up
  BY DEF Begin, AppendBlock, EndOp, Committed, Modify, disk, Up
<1>2. Replayed' = Replayed
  BY <1>1 DEF Replayed
<1>3. CASE Begin(t)
  <2>1. cache' = cache /\ phase' = phase /\ t \notin Active
    BY <1>3 DEF Begin, Active
  <2>2. Active' = Active \cup {t} \/ Active' = Active
    BY <1>3 DEF Begin, Active, LogInv, LogShape
  <2> QED  BY <1>1, <1>2, <2>1, <2>2, ActiveOnly, Stutters DEF Current, Running, Up
<1>4. CASE AppendBlock(t)
  <2>1. cache' = cache /\ phase' = phase /\ Active' = Active
    BY <1>4 DEF AppendBlock, Active, LogInv, LogShape
  <2> QED  BY <1>1, <1>2, <2>1, Stutters DEF Current, Running, Up
<1>5. CASE EndOp(t)
  <2>1. cache' = cache /\ phase' \in {phase, "none", "write_log"} /\ t \in Active
    BY <1>5 DEF EndOp, CommitStart, Active
  <2>2. Active' = Active \ {t}
    BY <1>5 DEF EndOp, Awake, Active, LogInv, LogShape
  <2> QED  BY <1>1, <1>2, <2>1, <2>2, ActiveOnly DEF Current, Running, Up
<1>6. CASE Committed(t)
  <2>1. cache' = cache /\ phase' = phase
    BY <1>6 DEF Committed
  <2>2. Active' = Active
    BY <1>6 DEF Committed, Awake, Active, LogInv, LogShape
  <2> QED  BY <1>1, <1>2, <2>1, <2>2, Stutters DEF Current, Running, Up
<1>7. ASSUME NEW b \in Block, NEW v \in Value, Modify(t, b, v)
      PROVE  Disk!ANext
  <2>1. CASE TooBig
    <3>1. phase' = "panic"
      BY <1>7, <2>1 DEF Modify
    <3>2. Current' = Replayed /\ Running' = {}
      BY <1>2, <3>1 DEF Current, Running, Up
    <3> QED  BY <1>2, <3>2, ActiveOnly
  <2>2. CASE ~TooBig
    <3>1. phase' = phase /\ t \in Active /\ Active' = Active /\ cache' = [cache EXCEPT ![b] = v]
      BY <1>7, <2>2 DEF Modify, Active, LogInv, LogShape
    <3>2. t \in Running /\ Current' = [Current EXCEPT ![b] = v] /\ Running' = Running
      BY <1>1, <3>1 DEF Current, Running, Up
    <3> QED  BY <1>2, <3>2, ActiveOnly
  <2> QED  BY <2>1, <2>2
<1> QED  BY <1>3, <1>4, <1>5, <1>6, <1>7

(* write_head() is the step at which a group reaches the disk.                *)
LEMMA WriteHeadAtomic ==
  ASSUME LogInv, WriteHead
  PROVE  Disk!ANext
<1>1. phase = "write_head" /\ phase' = "install" /\ head' = logged
      /\ UNCHANGED <<home, logData, cache, logged, op>> /\ committing
  BY DEF WriteHead, LogInv, PhaseInv
<1>2. Active = {} /\ Active' = {}
  BY <1>1, NoneActive DEF Active
<1>3. \A b \in Block : Replayed'[b] = cache[b]
  <2> TAKE b \in Block
  <2>1. CASE b \in ToSet(logged)
    <3> DEFINE i == CHOOSE i \in 1..Len(logged) : logged[i] = b
    <3>1. i \in 1..Len(logged) /\ logged[i] = b
      BY <2>1, InToSet DEF LogInv, LogShape
    <3>2. Replayed'[b] = logData[i]
      BY <1>1, <2>1 DEF Replayed
    <3> QED  BY <1>1, <3>1, <3>2 DEF LogInv, PhaseInv
  <2>2. CASE b \notin ToSet(logged)
    <3>1. cache[b] = home[b]
      BY <1>1, <1>2, <2>2 DEF LogInv, PhaseInv, CacheIsHome, Active
    <3> QED  BY <1>1, <2>2, <3>1 DEF Replayed
  <2> QED  BY <2>1, <2>2
<1>4. Replayed' = cache
  BY <1>3 DEF Replayed, LogInv, LogShape
<1> QED  BY <1>1, <1>2, <1>4, ActiveOnly DEF Current, Running, Up

LEMMA DiskStepAtomic ==
  ASSUME LogInv, DiskStep
  PROVE  [Disk!ANext]_(Disk!avars)
<1>1. CASE WriteLog
  <2>1. head = <<>> /\ UNCHANGED <<home, head, cache, phase, op>>
    BY <1>1 DEF WriteLog, LogInv, PhaseInv
  <2>2. Replayed' = Replayed
    BY <2>1 DEF Replayed, ToSet
  <2> QED  BY <2>1, <2>2, Stutters DEF Current, Running, Active, Up
<1>2. CASE WriteLogDone
  BY <1>2, QuietStep DEF WriteLogDone, disk, Up, Active
<1>3. CASE WriteHead
  BY <1>3, WriteHeadAtomic
<1>4. CASE Install
  <2>1. UNCHANGED <<logData, head, cache, phase, op>> /\ head = logged
        /\ home' = [home EXCEPT ![logged[tail]] = logData[tail]] /\ tail \in 1..Len(logged)
    BY <1>4 DEF Install, LogInv, LogShape, PhaseInv
  <2>2. logged[tail] \in ToSet(head)
    BY <2>1, InToSet DEF LogInv, LogShape
  <2>3. \A b \in Block : b \notin ToSet(head) => home'[b] = home[b]
    BY <2>1, <2>2 DEF LogInv, LogShape
  <2>4. Replayed' = Replayed
    BY <2>1, <2>3 DEF Replayed
  <2> QED  BY <2>1, <2>4, Stutters DEF Current, Running, Active, Up
<1>5. CASE InstallDone
  BY <1>5, QuietStep DEF InstallDone, disk, Up, Active
<1>6. CASE Clear
  <2>1. UNCHANGED <<home, op>> /\ phase \in {"clear", "reclear"} /\ phase' = "none" /\ head' = <<>>
        /\ cache' = IF phase = "clear" THEN cache ELSE home
    BY <1>6 DEF Clear, LogInv, PhaseInv
  <2>2. Replayed = home /\ Replayed' = home
    <3>1. Replayed = home
      BY <2>1, ReplayedHome DEF LogInv, PhaseInv
    <3>2. LogInv'
      BY <1>6, ClearLogInv
    <3>3. Replayed' = [b \in Block |-> home'[b]]
      BY <2>1 DEF Replayed, ToSet
    <3> QED  BY <2>1, <3>1, <3>3 DEF LogInv, LogShape
  <2>3. cache' = home /\ Current = home
    BY <2>1, <2>2 DEF LogInv, PhaseInv, Current, Up
  <2>4. Running' = Running
    BY <2>1 DEF LogInv, PhaseInv, Running, Up, Active
  <2> QED  BY <2>1, <2>2, <2>3, <2>4, Stutters DEF Current, Up
<1>7. CASE ReadHead
  BY <1>7, QuietStep DEF ReadHead, disk, Up
<1> QED  BY <1>1, <1>2, <1>3, <1>4, <1>5, <1>6, <1>7 DEF DiskStep

LEMMA CrashAtomic ==
  ASSUME Crash
  PROVE  Disk!ANext
<1>1. Replayed' = Replayed
  BY DEF Crash, disk, Replayed
<1>2. Current' = Replayed /\ Running' = {}
  BY <1>1 DEF Crash, Current, Running, Up
<1> QED  BY <1>1, <1>2, ActiveOnly

(* Groups of operations reach the disk entirely or not at all, whenever the   *)
(* machine stops, in recovery too (commit(), recover_from_log()).             *)
THEOREM LogIsAtomic == Spec => AtomicGroups
<1>1. Init => Disk!AInit
  BY InitAtomic
<1>2. LogInv /\ [Next]_vars => [Disk!ANext]_(Disk!avars)
  <2> SUFFICES ASSUME LogInv, [Next]_vars PROVE [Disk!ANext]_(Disk!avars)
    OBVIOUS
  <2>1. CASE UNCHANGED vars
    BY <2>1, QuietStep DEF vars, disk, Up, Active
  <2>2. CASE Next
    BY <2>2, OpAtomic, DiskStepAtomic, CrashAtomic DEF Next
  <2> QED  BY <2>1, <2>2
<1> QED  BY <1>1, <1>2, LogInvariance, PTL DEF Spec, AtomicGroups, Disk!ASpec

-----------------------------------------------------------------------------
(* The buffer cache.                                                          *)

(* Where a process has the buffer locked.                                     *)
Holding == {"rw", "io", "woken", "use"}

BufRec == [block : BlockNo \cup {0}, valid : BOOLEAN, dirty : BOOLEAN,
           ref : Nat, lock : User \cup {Nobody}, data : Contents]

CacheShape ==
  /\ buf \in [Buffer -> BufRec]
  /\ lru \in Seq(Buffer) /\ Len(lru) = NBUF /\ ToSet(lru) = Buffer
  /\ queue \in Seq(Buffer) /\ platter \in [BlockNo -> Contents]
  /\ at \in [User -> At] /\ bp \in [User -> Buffer \cup {0}]
  /\ want \in [User -> BlockNo \cup {0}]

(* A buffer with a reference is somebody's, which keeps bget() from           *)
(* recycling it.                                                              *)
RefInv ==
  /\ \A p \in User : bp[p] = 0 <=> at[p] \in {"idle", "panic"}
  /\ \A b \in Buffer : buf[b].ref = Cardinality(Holders(b))

BlockInv ==
  /\ OneBuffer
  /\ \A p \in User : bp[p] # 0 => buf[bp[p]].block = want[p] /\ want[p] \in BlockNo

LockInv ==
  \A p \in User, b \in Buffer : buf[b].lock = p <=> bp[p] = b /\ at[p] \in Holding

QueueInv ==
  /\ IsInjective(queue)
  /\ \A b \in Buffer : b \in ToSet(queue) <=> \E p \in User : at[p] = "io" /\ bp[p] = b

(* What is not dirty is on the disk, if the disk can write it; a request is a *)
(* read of an invalid buffer or a write of a dirty one.                       *)
DataInv ==
  /\ \A b \in Buffer : /\ buf[b].dirty => buf[b].valid
                       /\ buf[b].block = 0 => ~buf[b].valid
                       /\ buf[b].valid /\ ~buf[b].dirty /\ buf[b].block \in GoodBlock =>
                            buf[b].data = platter[buf[b].block]
  /\ \A p \in User : /\ at[p] \in {"rw", "io"} => (buf[bp[p]].valid <=> buf[bp[p]].dirty)
                     /\ at[p] = "woken" => buf[bp[p]].valid /\ ~buf[bp[p]].dirty
                     /\ at[p] = "use" => buf[bp[p]].valid

CacheInv == CacheShape /\ RefInv /\ BlockInv /\ LockInv /\ QueueInv /\ DataInv

USE CacheAssumption DEF CacheAssumption, Buffer, At, Holding, Has

-----------------------------------------------------------------------------
(* Sets and sequences.                                                        *)

LEMMA OneAppended ==
  ASSUME NEW S, NEW s \in Seq(S), NEW b \in S, b \notin ToSet(s), IsInjective(s)
  PROVE  ToSet(Append(s, b)) = ToSet(s) \cup {b} /\ IsInjective(Append(s, b))
<1> DEFINE t == Append(s, b)
<1>1. t \in Seq(S) /\ Len(t) = Len(s) + 1 /\ t[Len(t)] = b
      /\ \A i \in 1..Len(s) : t[i] = s[i] /\ s[i] # b
  BY InToSet
<1>2. DOMAIN t = 1..Len(t) /\ DOMAIN s = 1..Len(s) /\ Len(s) \in Nat
  BY <1>1
<1> HIDE DEF t
<1>3. \A x : x \in ToSet(t) <=> x \in ToSet(s) \cup {b}
  BY <1>1, <1>2 DEF ToSet
<1>4. IsInjective(t)
  BY <1>1, <1>2 DEF IsInjective
<1> QED
  BY <1>3, <1>4 DEF t

LEMMA HeadGone ==
  ASSUME NEW S, NEW s \in Seq(S), s # <<>>, IsInjective(s)
  PROVE  /\ Head(s) \in S /\ Head(s) \in ToSet(s)
         /\ ToSet(Tail(s)) = ToSet(s) \ {Head(s)} /\ IsInjective(Tail(s))
<1> DEFINE t == Tail(s)
<1>1. t \in Seq(S) /\ Len(t) = Len(s) - 1 /\ \A i \in 1..Len(t) : t[i] = s[i + 1]
  OBVIOUS
<1>2. DOMAIN t = 1..Len(t) /\ DOMAIN s = 1..Len(s) /\ Len(s) \in Nat \ {0} /\ Head(s) = s[1]
      /\ s[1] \in S
  OBVIOUS
<1> HIDE DEF t
<1>3. Head(s) \in ToSet(s)
  BY <1>2 DEF ToSet
<1>4. \A x : x \in ToSet(t) <=> x \in ToSet(s) \ {Head(s)}
  <2>1. ASSUME NEW x \in ToSet(t) PROVE x \in ToSet(s) \ {Head(s)}
    <3>1. PICK i \in 1..Len(t) : x = t[i]
      BY <1>2 DEF ToSet
    <3>2. i + 1 \in 1..Len(s) /\ i + 1 # 1 /\ x = s[i + 1]
      BY <1>1, <1>2, <3>1
    <3> QED
      BY <1>2, <3>2 DEF ToSet, IsInjective
  <2>2. ASSUME NEW x \in ToSet(s) \ {Head(s)} PROVE x \in ToSet(t)
    <3>1. PICK i \in 1..Len(s) : x = s[i]
      BY <1>2 DEF ToSet
    <3>2. i - 1 \in 1..Len(t) /\ t[i - 1] = x
      BY <1>1, <1>2, <3>1
    <3> QED
      BY <1>2, <3>2 DEF ToSet
  <2> QED
    BY <2>1, <2>2
<1>5. IsInjective(t)
  BY <1>1, <1>2, SMTT(60) DEF IsInjective
<1> QED
  BY <1>2, <1>3, <1>4, <1>5 DEF t

(* A process that had no buffer gets one.                                     *)
LEMMA OneMore ==
  ASSUME CacheShape, NEW p \in User, NEW b \in Buffer, bp[p] = 0, bp' = [bp EXCEPT ![p] = b]
  PROVE  /\ Cardinality(Holders(b)') = Cardinality(Holders(b)) + 1
         /\ \A c \in Buffer \ {b} : Holders(c)' = Holders(c)
<1>1. Holders(b)' = Holders(b) \cup {p} /\ p \notin Holders(b)
  BY DEF Holders, CacheShape
<1>2. IsFiniteSet(Holders(b))
  BY FS_Subset DEF Holders
<1>3. Cardinality(Holders(b) \cup {p}) = Cardinality(Holders(b)) + 1
  BY <1>1, <1>2, FS_AddElement
<1>4. \A c \in Buffer \ {b} : Holders(c)' = Holders(c)
  BY DEF Holders, CacheShape
<1> QED
  BY <1>1, <1>3, <1>4

(* A process gives its buffer back.                                           *)
LEMMA OneLess ==
  ASSUME CacheShape, NEW p \in User, NEW b \in Buffer, bp[p] = b, bp' = [bp EXCEPT ![p] = 0]
  PROVE  /\ Cardinality(Holders(b)') = Cardinality(Holders(b)) - 1
         /\ \A c \in Buffer \ {b} : Holders(c)' = Holders(c)
<1>1. Holders(b)' = Holders(b) \ {p} /\ p \in Holders(b)
  BY DEF Holders, CacheShape
<1>2. IsFiniteSet(Holders(b))
  BY FS_Subset DEF Holders
<1>3. Cardinality(Holders(b) \ {p}) = Cardinality(Holders(b)) - 1
  BY <1>1, <1>2, FS_RemoveElement
<1>4. \A c \in Buffer \ {b} : Holders(c)' = Holders(c)
  BY DEF Holders, CacheShape
<1> QED
  BY <1>1, <1>3, <1>4

LEMMA NoHolders ==
  ASSUME CacheShape, RefInv, NEW b \in Buffer, buf[b].ref = 0
  PROVE  \A p \in User : bp[p] # b
<1>1. IsFiniteSet(Holders(b)) /\ Cardinality(Holders(b)) = 0
  BY FS_Subset DEF Holders, RefInv
<1>2. Holders(b) = {}
  BY <1>1, FS_EmptySet
<1> QED
  BY <1>2 DEF Holders

-----------------------------------------------------------------------------

LEMMA InitCacheInv == CacheInit => CacheInv
<1> SUFFICES ASSUME CacheInit PROVE CacheInv
  OBVIOUS
<1> USE DEF CacheInit
<1>1. CacheShape
  <2>1. 0 \in Contents
    BY DEF Contents
  <2>2. lru \in Seq(Buffer) /\ Len(lru) = NBUF
    OBVIOUS
  <2>3. ToSet(lru) = Buffer
    <3>1. \A b \in Buffer : NBUF + 1 - b \in Buffer /\ lru[NBUF + 1 - b] = b
      OBVIOUS
    <3>2. \A b \in Buffer : b \in ToSet(lru)
      BY <2>2, <3>1, InToSet
    <3>3. \A b \in ToSet(lru) : b \in Buffer
      BY <2>2 DEF ToSet
    <3> QED
      BY <3>2, <3>3
  <2>4. queue \in Seq(Buffer) /\ platter \in [BlockNo -> Contents]
    BY <2>1
  <2>5. buf \in [Buffer -> BufRec]
    BY <2>1 DEF BufRec
  <2> QED
    BY <2>2, <2>3, <2>4, <2>5 DEF CacheShape
<1>2. RefInv
  <2>1. \A b \in Buffer : Holders(b) = {}
    BY DEF Holders
  <2> QED
    BY <2>1, FS_EmptySet DEF RefInv
<1>3. BlockInv /\ LockInv
  BY DEF BlockInv, OneBuffer, LockInv
<1>4. QueueInv
  <2>1. ToSet(queue) = {} /\ IsInjective(queue)
    BY DEF ToSet, IsInjective
  <2> QED
    BY <2>1 DEF QueueInv
<1>5. DataInv
  BY DEF DataInv
<1> QED
  BY <1>1, <1>2, <1>3, <1>4, <1>5 DEF CacheInv

(* A buffer's fields.                                                         *)
LEMMA Fields ==
  ASSUME NEW r \in BufRec
  PROVE  /\ r.block \in BlockNo \cup {0} /\ r.valid \in BOOLEAN /\ r.dirty \in BOOLEAN
         /\ r.ref \in Nat /\ r.lock \in User \cup {Nobody} /\ r.data \in Contents
BY DEF BufRec

(* A step that changes the reference count of a buffer.                       *)
LEMMA NewRef ==
  ASSUME CacheShape, NEW b \in Buffer, NEW n \in Nat, buf' = [buf EXCEPT ![b].ref = n]
  PROVE  /\ buf' \in [Buffer -> BufRec]
         /\ \A c \in Buffer :
              /\ buf'[c].block = buf[c].block /\ buf'[c].valid = buf[c].valid
              /\ buf'[c].dirty = buf[c].dirty /\ buf'[c].lock = buf[c].lock
              /\ buf'[c].data = buf[c].data
              /\ buf'[c].ref = IF c = b THEN n ELSE buf[c].ref
<1>1. \A c \in Buffer : buf'[c] = IF c = b THEN [buf[c] EXCEPT !.ref = n] ELSE buf[c]
  BY DEF CacheShape
<1>2. \A r \in BufRec : [r EXCEPT !.ref = n] \in BufRec
  BY DEF BufRec
<1>3. \A r \in BufRec : LET s == [r EXCEPT !.ref = n] IN
        s.block = r.block /\ s.valid = r.valid /\ s.dirty = r.dirty /\ s.lock = r.lock
        /\ s.data = r.data /\ s.ref = n
  BY DEF BufRec
<1>4. buf \in [Buffer -> BufRec] /\ DOMAIN buf' = Buffer /\ buf' = [c \in Buffer |-> buf'[c]]
  BY DEF CacheShape
<1>5. buf' \in [Buffer -> BufRec]
  BY <1>1, <1>2, <1>4
<1> QED
  BY <1>1, <1>3, <1>4, <1>5

(* A step that changes the lock of a buffer.                                  *)
LEMMA NewLock ==
  ASSUME CacheShape, NEW b \in Buffer, NEW p \in User \cup {Nobody},
         buf' = [buf EXCEPT ![b].lock = p]
  PROVE  /\ buf' \in [Buffer -> BufRec]
         /\ \A c \in Buffer :
              /\ buf'[c].block = buf[c].block /\ buf'[c].valid = buf[c].valid
              /\ buf'[c].dirty = buf[c].dirty /\ buf'[c].ref = buf[c].ref
              /\ buf'[c].data = buf[c].data
              /\ buf'[c].lock = IF c = b THEN p ELSE buf[c].lock
<1>1. \A c \in Buffer : buf'[c] = IF c = b THEN [buf[c] EXCEPT !.lock = p] ELSE buf[c]
  BY DEF CacheShape
<1>2. \A r \in BufRec : [r EXCEPT !.lock = p] \in BufRec
  BY DEF BufRec
<1>3. \A r \in BufRec : LET s == [r EXCEPT !.lock = p] IN
        s.block = r.block /\ s.valid = r.valid /\ s.dirty = r.dirty /\ s.ref = r.ref
        /\ s.data = r.data /\ s.lock = p
  BY DEF BufRec
<1>4. buf \in [Buffer -> BufRec] /\ DOMAIN buf' = Buffer /\ buf' = [c \in Buffer |-> buf'[c]]
  BY DEF CacheShape
<1>5. buf' \in [Buffer -> BufRec]
  BY <1>1, <1>2, <1>4
<1> QED
  BY <1>1, <1>3, <1>4, <1>5

(* A buffer whose request is done.                                            *)
LEMMA DoneData ==
  ASSUME CacheShape, NEW b \in Buffer, NEW x \in Contents,
         buf' = [buf EXCEPT ![b].data = x, ![b].valid = TRUE, ![b].dirty = FALSE]
  PROVE  /\ buf' \in [Buffer -> BufRec]
         /\ \A c \in Buffer \ {b} : buf'[c] = buf[c]
         /\ buf'[b].block = buf[b].block /\ buf'[b].lock = buf[b].lock /\ buf'[b].ref = buf[b].ref
         /\ buf'[b].valid /\ ~buf'[b].dirty /\ buf'[b].data = x
<1> DEFINE e(r) == [r EXCEPT !.data = x, !.valid = TRUE, !.dirty = FALSE]
<1>1. \A c \in Buffer : buf'[c] = IF c = b THEN e(buf[c]) ELSE buf[c]
  BY DEF CacheShape
<1>2. \A r \in BufRec : e(r) \in BufRec
  BY DEF BufRec
<1>3. \A r \in BufRec : /\ e(r).block = r.block /\ e(r).lock = r.lock /\ e(r).ref = r.ref
                        /\ e(r).valid /\ ~e(r).dirty /\ e(r).data = x
  BY DEF BufRec
<1>4. buf \in [Buffer -> BufRec] /\ buf' = [c \in Buffer |-> buf'[c]]
  BY DEF CacheShape
<1> HIDE DEF e
<1>5. buf' \in [Buffer -> BufRec]
  BY <1>1, <1>2, <1>4
<1> QED
  BY <1>1, <1>3, <1>4, <1>5

(* A buffer that is changed.                                                  *)
LEMMA DirtyData ==
  ASSUME CacheShape, NEW b \in Buffer, NEW x \in Contents,
         buf' = [buf EXCEPT ![b].data = x, ![b].dirty = TRUE]
  PROVE  /\ buf' \in [Buffer -> BufRec]
         /\ \A c \in Buffer \ {b} : buf'[c] = buf[c]
         /\ buf'[b].block = buf[b].block /\ buf'[b].lock = buf[b].lock /\ buf'[b].ref = buf[b].ref
         /\ (buf'[b].valid <=> buf[b].valid) /\ buf'[b].dirty /\ buf'[b].data = x
<1> DEFINE e(r) == [r EXCEPT !.data = x, !.dirty = TRUE]
<1>1. \A c \in Buffer : buf'[c] = IF c = b THEN e(buf[c]) ELSE buf[c]
  BY DEF CacheShape
<1>2. \A r \in BufRec : e(r) \in BufRec
  BY DEF BufRec
<1>3. \A r \in BufRec : /\ e(r).block = r.block /\ e(r).lock = r.lock /\ e(r).ref = r.ref
                        /\ (e(r).valid <=> r.valid) /\ e(r).dirty /\ e(r).data = x
  BY DEF BufRec
<1>4. buf \in [Buffer -> BufRec] /\ buf' = [c \in Buffer |-> buf'[c]]
  BY DEF CacheShape
<1> HIDE DEF e
<1>5. buf' \in [Buffer -> BufRec]
  BY <1>1, <1>2, <1>4
<1> QED
  BY <1>1, <1>3, <1>4, <1>5

(* A buffer that is recycled.                                                 *)
LEMMA NewBlock ==
  ASSUME CacheShape, NEW b \in Buffer, NEW k \in BlockNo,
         buf' = [buf EXCEPT ![b].block = k, ![b].valid = FALSE,
                            ![b].dirty = FALSE, ![b].ref = 1]
  PROVE  /\ buf' \in [Buffer -> BufRec]
         /\ \A c \in Buffer \ {b} : buf'[c] = buf[c]
         /\ buf'[b].block = k /\ ~buf'[b].valid /\ ~buf'[b].dirty /\ buf'[b].ref = 1
         /\ buf'[b].lock = buf[b].lock
<1> DEFINE e(r) == [r EXCEPT !.block = k, !.valid = FALSE, !.dirty = FALSE, !.ref = 1]
<1>1. \A c \in Buffer : buf'[c] = IF c = b THEN e(buf[c]) ELSE buf[c]
  BY DEF CacheShape
<1>2. \A r \in BufRec : e(r) \in BufRec
  BY DEF BufRec
<1>3. \A r \in BufRec : /\ e(r).block = k /\ ~e(r).valid /\ ~e(r).dirty /\ e(r).ref = 1
                        /\ e(r).lock = r.lock
  BY DEF BufRec
<1>4. buf \in [Buffer -> BufRec] /\ buf' = [c \in Buffer |-> buf'[c]]
  BY DEF CacheShape
<1> HIDE DEF e
<1>5. buf' \in [Buffer -> BufRec]
  BY <1>1, <1>2, <1>4
<1> QED
  BY <1>1, <1>3, <1>4, <1>5

LEMMA BgetHitCacheInv ==
  ASSUME CacheInv, NEW p \in User, NEW k \in BlockNo, BgetHit(p, k)
  PROVE  CacheInv'
<1>1. PICK b \in Cached(k) : /\ buf' = [buf EXCEPT ![b].ref = @ + 1]
                             /\ bp' = [bp EXCEPT ![p] = b]
  BY DEF BgetHit
<1>2. b \in Buffer /\ buf[b].block = k /\ at[p] = "idle" /\ bp[p] = 0
      /\ want' = [want EXCEPT ![p] = k] /\ at' = [at EXCEPT ![p] = "lock"]
      /\ UNCHANGED <<lru, queue, platter>>
  BY DEF BgetHit, Cached, Goes, CacheInv, RefInv
<1>3. buf[b].ref \in Nat /\ buf' = [buf EXCEPT ![b].ref = buf[b].ref + 1]
  BY <1>1, <1>2, Fields DEF CacheInv, CacheShape
<1>4. buf[b].ref + 1 \in Nat
  BY <1>3
<1>5. /\ buf' \in [Buffer -> BufRec]
      /\ \A c \in Buffer :
           /\ buf'[c].block = buf[c].block /\ buf'[c].valid = buf[c].valid
           /\ buf'[c].dirty = buf[c].dirty /\ buf'[c].lock = buf[c].lock
           /\ buf'[c].data = buf[c].data
           /\ buf'[c].ref = IF c = b THEN buf[b].ref + 1 ELSE buf[c].ref
  <2> DEFINE n == buf[b].ref + 1
  <2>1. n \in Nat /\ buf' = [buf EXCEPT ![b].ref = n] /\ b \in Buffer /\ CacheShape
    BY <1>2, <1>3, <1>4 DEF CacheInv
  <2> HIDE DEF n
  <2>2. /\ buf' \in [Buffer -> BufRec]
        /\ \A c \in Buffer :
             /\ buf'[c].block = buf[c].block /\ buf'[c].valid = buf[c].valid
             /\ buf'[c].dirty = buf[c].dirty /\ buf'[c].lock = buf[c].lock
             /\ buf'[c].data = buf[c].data
             /\ buf'[c].ref = IF c = b THEN n ELSE buf[c].ref
    BY ONLY <2>1, NewRef, ZenonT(90)
  <2> QED
    BY <2>2 DEF n
<1>6. \A q \in User : /\ at'[q] = IF q = p THEN "lock" ELSE at[q]
                      /\ bp'[q] = IF q = p THEN b ELSE bp[q]
                      /\ want'[q] = IF q = p THEN k ELSE want[q]
  BY <1>1, <1>2 DEF CacheInv, CacheShape
<1>7. CacheShape'
  <2>1. at' \in [User -> At] /\ bp' \in [User -> Buffer \cup {0}]
        /\ want' \in [User -> BlockNo \cup {0}]
    BY <1>1, <1>2 DEF CacheInv, CacheShape
  <2> QED
    BY <1>2, <1>5, <2>1 DEF CacheInv, CacheShape
<1>8. RefInv'
  <2>1. \A q \in User : bp'[q] = 0 <=> at'[q] \in {"idle", "panic"}
    BY <1>2, <1>6 DEF CacheInv, RefInv
  <2>2. \A c \in Buffer : buf'[c].ref = Cardinality(Holders(c)')
    <3>1. /\ Cardinality(Holders(b)') = Cardinality(Holders(b)) + 1
          /\ \A c \in Buffer \ {b} : Holders(c)' = Holders(c)
      BY <1>1, <1>2, OneMore DEF CacheInv
    <3> QED
      BY <1>2, <1>5, <3>1 DEF CacheInv, RefInv
  <2> QED
    BY <2>1, <2>2 DEF RefInv
<1>9. BlockInv'
  <2>1. OneBuffer'
    BY <1>5 DEF CacheInv, BlockInv, OneBuffer
  <2>2. \A q \in User : bp'[q] # 0 => buf'[bp'[q]].block = want'[q] /\ want'[q] \in BlockNo
    BY <1>2, <1>5, <1>6, SMTT(60) DEF CacheInv, BlockInv, CacheShape
  <2> QED
    BY <2>1, <2>2 DEF BlockInv
<1>10. LockInv'
  BY <1>2, <1>5, <1>6, SMTT(60) DEF CacheInv, LockInv
<1>11. QueueInv'
  BY <1>2, <1>6 DEF CacheInv, QueueInv
<1>12. DataInv'
  <2>1. \A c \in Buffer : /\ buf'[c].dirty => buf'[c].valid
                          /\ buf'[c].block = 0 => ~buf'[c].valid
                          /\ buf'[c].valid /\ ~buf'[c].dirty /\ buf'[c].block \in GoodBlock =>
                               buf'[c].data = platter'[buf'[c].block]
    BY <1>2, <1>5 DEF CacheInv, DataInv
  <2>2. \A q \in User : at'[q] \in {"rw", "io", "woken", "use"} =>
          q # p /\ at'[q] = at[q] /\ bp'[q] = bp[q] /\ bp[q] \in Buffer
    BY <1>2, <1>6 DEF CacheInv, CacheShape, RefInv
  <2> QED
    BY <1>5, <2>1, <2>2 DEF CacheInv, DataInv
<1> QED
  BY <1>7, <1>8, <1>9, <1>10, <1>11, <1>12 DEF CacheInv

LEMMA BgetMissCacheInv ==
  ASSUME CacheInv, NEW p \in User, NEW k \in BlockNo, BgetMiss(p, k)
  PROVE  CacheInv'
<1>1. CASE Unused = {}
  <2>1. at' = [at EXCEPT ![p] = "panic"] /\ at[p] = "idle"
        /\ UNCHANGED <<buf, bp, want, lru, queue, platter>>
    BY <1>1 DEF BgetMiss, Goes
  <2>2. \A q \in User : at'[q] = IF q = p THEN "panic" ELSE at[q]
    BY <2>1 DEF CacheInv, CacheShape
  <2>3. CacheShape' /\ RefInv'
    BY <2>1, <2>2 DEF CacheInv, CacheShape, RefInv, Holders
  <2>4. BlockInv' /\ LockInv'
    BY <2>1, <2>2 DEF CacheInv, BlockInv, LockInv, OneBuffer
  <2>5. QueueInv'
    BY <2>1, <2>2 DEF CacheInv, QueueInv
  <2>6. DataInv'
    BY <2>1, <2>2 DEF CacheInv, DataInv
  <2> QED
    BY <2>3, <2>4, <2>5, <2>6 DEF CacheInv
<1>2. CASE Unused # {}
  <2>1. PICK b \in Buffer :
          /\ LeastRecent(b)
          /\ buf' = [buf EXCEPT ![b].block = k, ![b].valid = FALSE,
                                ![b].dirty = FALSE, ![b].ref = 1]
          /\ bp' = [bp EXCEPT ![p] = b]
    BY <1>2, ZenonT(90) DEF BgetMiss
  <2>2. at[p] = "idle" /\ bp[p] = 0 /\ want' = [want EXCEPT ![p] = k]
        /\ at' = [at EXCEPT ![p] = "lock"] /\ UNCHANGED <<lru, queue, platter>>
        /\ \A c \in Buffer : buf[c].block # k
    BY <1>2, ZenonT(90) DEF BgetMiss, Goes, Cached, CacheInv, RefInv
  <2>3. buf[b].ref = 0 /\ ~buf[b].dirty
    BY <2>1 DEF LeastRecent, Unused
  <2>4. \A q \in User : bp[q] # b
    BY <2>3, NoHolders, SMTT(60) DEF CacheInv
  <2>5. /\ buf' \in [Buffer -> BufRec]
        /\ \A c \in Buffer \ {b} : buf'[c] = buf[c]
        /\ buf'[b].block = k /\ ~buf'[b].valid /\ ~buf'[b].dirty /\ buf'[b].ref = 1
        /\ buf'[b].lock = buf[b].lock
    BY <2>1, NewBlock DEF CacheInv
  <2>6. \A q \in User : /\ at'[q] = IF q = p THEN "lock" ELSE at[q]
                        /\ bp'[q] = IF q = p THEN b ELSE bp[q]
                        /\ want'[q] = IF q = p THEN k ELSE want[q]
    BY <2>1, <2>2 DEF CacheInv, CacheShape
  <2>7. \A q \in User : at[q] \in Holding \cup {"lock", "waitlock", "drop"} =>
          q # p /\ at'[q] = at[q] /\ bp'[q] = bp[q] /\ bp[q] \in Buffer \ {b}
    BY <2>2, <2>4, <2>6 DEF CacheInv, CacheShape, RefInv
  <2>8. CacheShape'
    <3>1. at' \in [User -> At] /\ bp' \in [User -> Buffer \cup {0}]
          /\ want' \in [User -> BlockNo \cup {0}]
      BY <2>1, <2>2 DEF CacheInv, CacheShape
    <3> QED
      BY <2>2, <2>5, <3>1 DEF CacheInv, CacheShape
  <2>9. RefInv'
    <3>1. \A q \in User : bp'[q] = 0 <=> at'[q] \in {"idle", "panic"}
      BY <2>2, <2>6 DEF CacheInv, RefInv
    <3>2. \A c \in Buffer : buf'[c].ref = Cardinality(Holders(c)')
      <4>1. /\ Cardinality(Holders(b)') = Cardinality(Holders(b)) + 1
            /\ \A c \in Buffer \ {b} : Holders(c)' = Holders(c)
        BY <2>1, <2>2, OneMore DEF CacheInv
      <4>2. Cardinality(Holders(b)') = 1
        BY <2>3, <4>1 DEF CacheInv, RefInv
      <4> QED
        BY <2>5, <4>1, <4>2 DEF CacheInv, RefInv
    <3> QED
      BY <3>1, <3>2 DEF RefInv
  <2>10. BlockInv'
    <3>1. OneBuffer'
      BY <2>2, <2>5 DEF CacheInv, BlockInv, OneBuffer
    <3>2. \A q \in User : bp'[q] # 0 => buf'[bp'[q]].block = want'[q] /\ want'[q] \in BlockNo
      <4>1. TAKE q \in User
      <4>2. CASE q = p
        BY <2>5, <2>6, <4>2
      <4>3. CASE q # p
        <5>1. bp'[q] = bp[q] /\ want'[q] = want[q] /\ bp[q] \in (Buffer \cup {0}) \ {b}
          BY <2>4, <2>6, <4>3 DEF CacheInv, CacheShape
        <5> QED
          BY <2>5, <5>1 DEF CacheInv, BlockInv
      <4> QED
        BY <4>2, <4>3
    <3> QED
      BY <3>1, <3>2 DEF BlockInv
  <2>11. LockInv'
    BY <2>2, <2>4, <2>5, <2>6 DEF CacheInv, LockInv
  <2>12. QueueInv'
    BY <2>2, <2>4, <2>6 DEF CacheInv, QueueInv
  <2>13. DataInv'
    <3>1. \A c \in Buffer : /\ buf'[c].dirty => buf'[c].valid
                            /\ buf'[c].block = 0 => ~buf'[c].valid
                            /\ buf'[c].valid /\ ~buf'[c].dirty /\ buf'[c].block \in GoodBlock =>
                                 buf'[c].data = platter'[buf'[c].block]
      BY <2>2, <2>5 DEF CacheInv, DataInv
    <3>2. \A q \in User : at'[q] \in Holding =>
            at[q] = at'[q] /\ bp'[q] = bp[q] /\ bp[q] \in Buffer \ {b}
      BY <2>6, <2>7
    <3> QED
      BY <2>5, <3>1, <3>2 DEF CacheInv, DataInv
  <2> QED
    BY <2>8, <2>9, <2>10, <2>11, <2>12, <2>13, ZenonT(90) DEF CacheInv
<1> QED
  BY <1>1, <1>2

LEMMA AcquiresleepCacheInv ==
  ASSUME CacheInv, NEW p \in User, Acquiresleep(p)
  PROVE  CacheInv'
<1> DEFINE b == bp[p]
<1>1. at[p] = "lock" /\ b \in Buffer /\ UNCHANGED <<lru, queue, platter, bp, want>>
  BY DEF Acquiresleep, CacheInv, CacheShape, RefInv
<1>2. \A c \in Buffer : Holders(c)' = Holders(c)
  BY <1>1 DEF Holders
<1>3. CASE buf[b].lock # Nobody
  <2>1. at' = [at EXCEPT ![p] = "waitlock"] /\ buf' = buf
    BY <1>3 DEF Acquiresleep, Goes
  <2>2. \A q \in User : at'[q] = IF q = p THEN "waitlock" ELSE at[q]
    BY <2>1 DEF CacheInv, CacheShape
  <2>3. CacheShape' /\ RefInv'
    BY <1>1, <1>2, <2>1, <2>2 DEF CacheInv, CacheShape, RefInv
  <2>4. BlockInv' /\ LockInv'
    BY <1>1, <2>1, <2>2 DEF CacheInv, BlockInv, LockInv, OneBuffer
  <2>5. QueueInv' /\ DataInv'
    BY <1>1, <2>1, <2>2 DEF CacheInv, QueueInv, DataInv
  <2> QED
    BY <2>3, <2>4, <2>5 DEF CacheInv
<1>4. CASE buf[b].lock = Nobody
  <2>1. /\ buf' = [buf EXCEPT ![b].lock = p]
        /\ at' = [at EXCEPT ![p] = IF buf[b].valid THEN "use" ELSE "rw"]
    BY <1>4 DEF Acquiresleep, Goes
  <2>2. /\ buf' \in [Buffer -> BufRec]
        /\ \A c \in Buffer :
             /\ buf'[c].block = buf[c].block /\ buf'[c].valid = buf[c].valid
             /\ buf'[c].dirty = buf[c].dirty /\ buf'[c].ref = buf[c].ref
             /\ buf'[c].data = buf[c].data
             /\ buf'[c].lock = IF c = b THEN p ELSE buf[c].lock
    <3>1. CacheShape /\ b \in Buffer /\ p \in User \cup {Nobody}
          /\ buf' = [buf EXCEPT ![b].lock = p]
      BY <1>1, <2>1 DEF CacheInv
    <3> HIDE DEF b
    <3> QED
      BY ONLY <3>1, NewLock, ZenonT(90)
  <2>3. \A q \in User :
          at'[q] = IF q = p THEN IF buf[b].valid THEN "use" ELSE "rw" ELSE at[q]
    BY <2>1 DEF CacheInv, CacheShape
  <2>4. CacheShape'
    <3>1. at' \in [User -> At]
      BY <2>1 DEF CacheInv, CacheShape
    <3> QED
      BY <1>1, <2>2, <3>1 DEF CacheInv, CacheShape
  <2>5. RefInv'
    BY <1>1, <1>2, <2>2, <2>3 DEF CacheInv, RefInv
  <2>6. BlockInv'
    <3>1. \A q \in User : bp[q] # 0 => bp[q] \in Buffer
      BY DEF CacheInv, CacheShape
    <3>2. OneBuffer'
      BY <2>2 DEF CacheInv, BlockInv, OneBuffer
    <3> QED
      BY <1>1, <2>2, <3>1, <3>2 DEF CacheInv, BlockInv
  <2>7. LockInv'
    <3>1. \A q \in User : buf[b].lock # q
      BY <1>4
    <3>2. at'[p] \in Holding /\ at[p] \notin Holding
      BY <1>1, <2>3
    <3> QED
      BY <1>1, <2>2, <2>3, <3>1, <3>2 DEF CacheInv, LockInv
  <2>8. QueueInv'
    BY <1>1, <2>3 DEF CacheInv, QueueInv
  <2>9. DataInv'
    <3>1. \A c \in Buffer : /\ buf'[c].dirty => buf'[c].valid
                            /\ buf'[c].block = 0 => ~buf'[c].valid
                            /\ buf'[c].valid /\ ~buf'[c].dirty /\ buf'[c].block \in GoodBlock =>
                                 buf'[c].data = platter'[buf'[c].block]
      BY <1>1, <2>2 DEF CacheInv, DataInv
    <3>2. \A q \in User \ {p} : at'[q] \in Holding => at'[q] = at[q] /\ bp'[q] = bp[q]
                                                     /\ bp[q] \in Buffer
      BY <1>1, <2>3 DEF CacheInv, CacheShape, RefInv
    <3>3. at'[p] = "use" => buf'[bp'[p]].valid
      BY <1>1, <2>2, <2>3
    <3>4. at'[p] = "rw" => ~buf'[bp'[p]].valid /\ ~buf'[bp'[p]].dirty
      BY <1>1, <2>2, <2>3, <3>1
    <3>5. at'[p] \in {"use", "rw"}
      BY <2>3
    <3> QED
      BY <2>2, <3>1, <3>2, <3>3, <3>4, <3>5 DEF CacheInv, DataInv
  <2> QED
    BY <2>4, <2>5, <2>6, <2>7, <2>8, <2>9 DEF CacheInv
<1> QED
  BY <1>3, <1>4

LEMMA IderwCacheInv ==
  ASSUME CacheInv, NEW p \in User, Iderw(p)
  PROVE  CacheInv'
<1> DEFINE b == bp[p]
<1>1. at[p] = "rw" /\ b \in Buffer /\ UNCHANGED <<buf, lru, platter, bp, want>>
      /\ queue' = Append(queue, b) /\ at' = [at EXCEPT ![p] = "io"]
  BY DEF Iderw, Goes, CacheInv, CacheShape, RefInv
<1>2. \A c \in Buffer : Holders(c)' = Holders(c)
  BY <1>1 DEF Holders
<1>3. \A q \in User : at'[q] = IF q = p THEN "io" ELSE at[q]
  BY <1>1 DEF CacheInv, CacheShape
<1>4. CacheShape'
  <2>1. queue' \in Seq(Buffer)
    BY <1>1 DEF CacheInv, CacheShape
  <2> QED
    BY <1>1, <2>1 DEF CacheInv, CacheShape
<1>5. RefInv'
  BY <1>1, <1>2, <1>3 DEF CacheInv, RefInv
<1>6. BlockInv' /\ LockInv'
  BY <1>1, <1>3 DEF CacheInv, BlockInv, LockInv, OneBuffer
<1>7. QueueInv'
  <2>1. b \notin ToSet(queue)
    BY <1>1 DEF CacheInv, QueueInv, LockInv
  <2>2. ToSet(queue') = ToSet(queue) \cup {b} /\ IsInjective(queue')
    BY <1>1, <2>1, OneAppended DEF CacheInv, CacheShape, QueueInv
  <2> QED
    BY <1>1, <1>3, <2>2 DEF CacheInv, QueueInv
<1>8. DataInv'
  BY <1>1, <1>3 DEF CacheInv, DataInv
<1> QED
  BY <1>4, <1>5, <1>6, <1>7, <1>8 DEF CacheInv

(* What the interrupt of the disk finds and leaves.                           *)
Answered(b, x, o) ==
  /\ b \in Buffer /\ x \in Contents /\ o \in User
  /\ at[o] = "io" /\ bp[o] = b /\ buf[b].lock = o
  /\ buf[b].block \in BlockNo /\ (buf[b].valid <=> buf[b].dirty)
  /\ buf[b].block \in GoodBlock => x = (IF buf[b].dirty THEN buf[b].data ELSE platter[buf[b].block])
  /\ queue' \in Seq(Buffer) /\ ToSet(queue') = ToSet(queue) \ {b} /\ IsInjective(queue')
  /\ UNCHANGED <<lru, bp, want>>
  /\ buf' \in [Buffer -> BufRec]
  /\ \A c \in Buffer :
       buf'[c].block = buf[c].block /\ buf'[c].lock = buf[c].lock /\ buf'[c].ref = buf[c].ref
  /\ \A c \in Buffer \ {b} : buf'[c] = buf[c]
  /\ buf'[b].valid /\ ~buf'[b].dirty /\ buf'[b].data = x
  /\ at' \in [User -> At]
  /\ \A q \in User : at'[q] = IF at[q] = "io" /\ bp[q] = b THEN "woken" ELSE at[q]
  /\ platter' \in [BlockNo -> Contents]
  /\ \A k \in BlockNo \ {buf[b].block} : platter'[k] = platter[k]
  /\ buf[b].block \in GoodBlock => platter'[buf[b].block] = x

LEMMA DiskAnswers ==
  ASSUME CacheInv, Ideintr
  PROVE  \E b, x, o : Answered(b, x, o)
<1>0. PICK ok \in Outcomes(buf[Head(queue)].block) :
        /\ buf' = [buf EXCEPT ![Head(queue)].data = IF ok /\ ~buf[Head(queue)].dirty
                                                  THEN platter[buf[Head(queue)].block] ELSE @,
                              ![Head(queue)].valid = TRUE, ![Head(queue)].dirty = FALSE]
        /\ platter' = IF ok /\ buf[Head(queue)].dirty
                      THEN [platter EXCEPT ![buf[Head(queue)].block] = buf[Head(queue)].data]
                      ELSE platter
  BY DEF Ideintr
<1> DEFINE b == Head(queue)
           x == IF ok /\ ~buf[b].dirty THEN platter[buf[b].block] ELSE buf[b].data
<1>1. queue # <<>> /\ queue' = Tail(queue) /\ UNCHANGED <<lru, bp, want>>
  BY DEF Ideintr
<1>2. b \in Buffer /\ b \in ToSet(queue) /\ queue' \in Seq(Buffer)
      /\ ToSet(queue') = ToSet(queue) \ {b} /\ IsInjective(queue')
  BY <1>1, HeadGone, SMTT(60) DEF CacheInv, CacheShape, QueueInv
<1>3. PICK o \in User : at[o] = "io" /\ bp[o] = b /\ buf[b].lock = o
  BY <1>2 DEF CacheInv, QueueInv, LockInv
<1>4. buf[b].block \in BlockNo /\ buf[b] \in BufRec /\ (buf[b].valid <=> buf[b].dirty)
  BY <1>2, <1>3, SMTT(60) DEF CacheInv, BlockInv, DataInv, CacheShape
<1>5. x \in Contents
  BY <1>4, Fields DEF CacheInv, CacheShape
<1>6. /\ buf' = [buf EXCEPT ![b].data = x, ![b].valid = TRUE, ![b].dirty = FALSE]
      /\ platter' = IF ok /\ buf[b].dirty THEN [platter EXCEPT ![buf[b].block] = buf[b].data]
                    ELSE platter
      /\ at' = [q \in User |-> IF at[q] = "io" /\ bp[q] = b THEN "woken" ELSE at[q]]
  <2>1. buf' = [buf EXCEPT ![b].data = x, ![b].valid = TRUE, ![b].dirty = FALSE]
    BY <1>0
  <2>2. at' = [q \in User |-> IF at[q] = "io" /\ bp[q] = b THEN "woken" ELSE at[q]]
    BY <1>2 DEF Ideintr, Woken, WakesIo, Wakes, Asleep
  <2> QED
    BY <1>0, <2>1, <2>2
<1>7. /\ buf' \in [Buffer -> BufRec]
      /\ \A c \in Buffer :
           buf'[c].block = buf[c].block /\ buf'[c].lock = buf[c].lock /\ buf'[c].ref = buf[c].ref
      /\ \A c \in Buffer \ {b} : buf'[c] = buf[c]
      /\ buf'[b].valid /\ ~buf'[b].dirty /\ buf'[b].data = x
  <2>1. CacheShape /\ b \in Buffer /\ x \in Contents
        /\ buf' = [buf EXCEPT ![b].data = x, ![b].valid = TRUE, ![b].dirty = FALSE]
    BY <1>2, <1>5, <1>6 DEF CacheInv
  <2> HIDE DEF b, x
  <2>2. /\ buf' \in [Buffer -> BufRec]
        /\ \A c \in Buffer \ {b} : buf'[c] = buf[c]
        /\ buf'[b].block = buf[b].block /\ buf'[b].lock = buf[b].lock /\ buf'[b].ref = buf[b].ref
        /\ buf'[b].valid /\ ~buf'[b].dirty /\ buf'[b].data = x
    BY <2>1, DoneData, ZenonT(90)
  <2> QED
    BY <2>1, <2>2
<1>8. \A q \in User : at'[q] = IF at[q] = "io" /\ bp[q] = b THEN "woken" ELSE at[q]
  BY <1>6
<1>9. /\ platter' \in [BlockNo -> Contents]
      /\ \A k \in BlockNo \ {buf[b].block} : platter'[k] = platter[k]
  BY <1>4, <1>5, <1>6, Fields DEF CacheInv, CacheShape
<1>12. ASSUME buf[b].block \in GoodBlock
       PROVE  /\ x = IF buf[b].dirty THEN buf[b].data ELSE platter[buf[b].block]
              /\ platter'[buf[b].block] = x
  <2>1. ok = TRUE
    BY <1>0, <1>12 DEF Outcomes, GoodBlock
  <2> QED
    BY <1>4, <1>6, <2>1 DEF CacheInv, CacheShape
<1>10. at' \in [User -> At]
  BY <1>6 DEF CacheInv, CacheShape
<1>11. UNCHANGED <<lru, bp, want>> /\ b \in Buffer /\ o \in User
  BY <1>1, <1>2
<1> HIDE DEF b, x
<1>13. Answered(b, x, o)
  BY <1>2, <1>3, <1>4, <1>5, <1>7, <1>8, <1>9, <1>10, <1>11, <1>12 DEF Answered
<1> QED
  BY <1>13

LEMMA IdeintrCacheInv ==
  ASSUME CacheInv, Ideintr
  PROVE  CacheInv'
<1>1. PICK b, x, o : Answered(b, x, o)
  BY DiskAnswers
<1> USE DEF Answered
<1>2. CacheShape'
  BY <1>1 DEF CacheInv, CacheShape
<1>3. RefInv'
  <2>1. \A c \in Buffer : Holders(c)' = Holders(c)
    BY <1>1 DEF Holders
  <2> QED
    <3>1. \A q \in User : (bp'[q] = 0 <=> bp[q] = 0)
                         /\ (at'[q] \in {"idle", "panic"} <=> at[q] \in {"idle", "panic"})
      BY <1>1
    <3>2. \A c \in Buffer : buf'[c].ref = buf[c].ref
      BY <1>1
    <3> QED
      BY <2>1, <3>1, <3>2 DEF CacheInv, RefInv
<1>4. BlockInv'
  <2>1. \A q \in User : bp[q] # 0 => bp[q] \in Buffer
    BY DEF CacheInv, CacheShape
  <2>2. OneBuffer'
    BY <1>1, SMTT(60) DEF CacheInv, BlockInv, OneBuffer
  <2> QED
    BY <1>1, <2>1, <2>2, SMTT(60) DEF CacheInv, BlockInv
<1>5. LockInv'
  BY <1>1, SMTT(60) DEF CacheInv, LockInv
<1>6. QueueInv'
  <2>1. \A q \in User, c \in Buffer :
          at'[q] = "io" /\ bp'[q] = c <=> at[q] = "io" /\ bp[q] = c /\ c # b
    BY <1>1
  <2>2. \A c \in Buffer : c \in ToSet(queue') <=> c \in ToSet(queue) /\ c # b
    BY <1>1
  <2>3. IsInjective(queue')
    BY <1>1
  <2> QED
    BY <2>1, <2>2, <2>3 DEF CacheInv, QueueInv
<1>7. DataInv'
  <2>1. ASSUME NEW c \in Buffer
        PROVE  /\ buf'[c].dirty => buf'[c].valid
               /\ buf'[c].block = 0 => ~buf'[c].valid
               /\ buf'[c].valid /\ ~buf'[c].dirty /\ buf'[c].block \in GoodBlock =>
                    buf'[c].data = platter'[buf'[c].block]
    <3>1. CASE c = b
      BY <1>1, <3>1
    <3>2. CASE c # b
      <4>1. buf[c].block # buf[b].block /\ buf[c].block \in BlockNo \cup {0}
        BY <1>1, <3>2, Fields DEF CacheInv, BlockInv, OneBuffer, CacheShape
      <4>2. buf[c].block # 0 => platter'[buf[c].block] = platter[buf[c].block]
        BY <1>1, <4>1
      <4> QED
        BY <1>1, <3>2, <4>2 DEF CacheInv, DataInv
    <3> QED
      BY <3>1, <3>2
  <2>2. \A q \in User : at[q] \in Holding => bp[q] \in Buffer
    BY DEF CacheInv, CacheShape, RefInv
  <2>3. ASSUME NEW q \in User, bp[q] = b
        PROVE  /\ at'[q] \notin {"rw", "io"}
               /\ buf'[bp'[q]].valid /\ ~buf'[bp'[q]].dirty
    <3>1. at[q] # "rw"
      BY <1>1, <2>3 DEF CacheInv, LockInv
    <3> QED
      BY <1>1, <2>3, <3>1
  <2>4. ASSUME NEW q \in User, bp[q] # b, at'[q] \in Holding
        PROVE  /\ at'[q] = at[q] /\ bp'[q] = bp[q] /\ bp[q] \in Buffer
               /\ (buf'[bp[q]].valid <=> buf[bp[q]].valid)
               /\ (buf'[bp[q]].dirty <=> buf[bp[q]].dirty)
    BY <1>1, <2>2, <2>4
  <2>5. \A q \in User : /\ at'[q] \in {"rw", "io"} => (buf'[bp'[q]].valid <=> buf'[bp'[q]].dirty)
                        /\ at'[q] = "woken" => buf'[bp'[q]].valid /\ ~buf'[bp'[q]].dirty
                        /\ at'[q] = "use" => buf'[bp'[q]].valid
    BY <2>3, <2>4 DEF CacheInv, DataInv
  <2> QED
    BY <2>1, <2>5 DEF DataInv
<1> QED
  BY <1>2, <1>3, <1>4, <1>5, <1>6, <1>7 DEF CacheInv

LEMMA IderwDoneCacheInv ==
  ASSUME CacheInv, NEW p \in User, IderwDone(p)
  PROVE  CacheInv'
<1>1. at[p] = "woken" /\ UNCHANGED <<buf, lru, queue, platter, bp, want>>
  BY DEF IderwDone
<1>2. buf[bp[p]].valid /\ ~buf[bp[p]].dirty
  BY <1>1 DEF CacheInv, DataInv
<1>3. at' = [at EXCEPT ![p] = "use"]
  BY <1>2 DEF IderwDone, AfterIo, Goes
<1>4. \A q \in User : at'[q] = IF q = p THEN "use" ELSE at[q]
  BY <1>3 DEF CacheInv, CacheShape
<1>5. CacheShape' /\ RefInv'
  BY <1>1, <1>3, <1>4 DEF CacheInv, CacheShape, RefInv, Holders
<1>6. BlockInv' /\ LockInv'
  BY <1>1, <1>4 DEF CacheInv, BlockInv, LockInv, OneBuffer
<1>7. QueueInv'
  BY <1>1, <1>4 DEF CacheInv, QueueInv
<1>8. DataInv'
  BY <1>1, <1>2, <1>4 DEF CacheInv, DataInv
<1> QED
  BY <1>5, <1>6, <1>7, <1>8 DEF CacheInv

LEMMA LogWriteCacheInv ==
  ASSUME CacheInv, NEW p \in User, LogWrite(p)
  PROVE  CacheInv'
<1> DEFINE b == bp[p]
           x == NewData
<1>1. at[p] = "use" /\ b \in Buffer /\ x \in Contents
      /\ UNCHANGED <<lru, queue, platter, at, bp, want>>
      /\ buf' = [buf EXCEPT ![b].data = x, ![b].dirty = TRUE]
  BY DEF LogWrite, CacheInv, CacheShape, RefInv
<1>2. buf[b].valid /\ buf[b].lock = p
  BY <1>1 DEF CacheInv, DataInv, LockInv
<1> HIDE DEF b, x
<1>3. /\ buf' \in [Buffer -> BufRec]
      /\ \A c \in Buffer \ {b} : buf'[c] = buf[c]
      /\ buf'[b].block = buf[b].block /\ buf'[b].lock = buf[b].lock /\ buf'[b].ref = buf[b].ref
      /\ buf'[b].valid /\ buf'[b].dirty
  <2>1. CacheShape
    BY DEF CacheInv
  <2> QED
    BY <1>1, <1>2, <2>1, DirtyData
<1>4. \A c \in Buffer : buf'[c].block = buf[c].block /\ buf'[c].lock = buf[c].lock
                        /\ buf'[c].ref = buf[c].ref
  BY <1>3
<1>5. CacheShape'
  BY <1>1, <1>3 DEF CacheInv, CacheShape
<1>6. RefInv'
  <2>1. \A c \in Buffer : Holders(c)' = Holders(c)
    BY <1>1 DEF Holders
  <2> QED
    BY <1>1, <1>4, <2>1, ZenonT(90) DEF CacheInv, RefInv
<1>7. BlockInv'
  <2>1. \A q \in User : bp[q] # 0 => bp[q] \in Buffer
    BY DEF CacheInv, CacheShape
  <2>2. OneBuffer'
    BY <1>4 DEF CacheInv, BlockInv, OneBuffer
  <2> QED
    BY <1>1, <1>4, <2>1, <2>2, ZenonT(90) DEF CacheInv, BlockInv
<1>8. LockInv' /\ QueueInv'
  <2>1. LockInv'
    <3>1. at' = at /\ bp' = bp
      BY <1>1
    <3> QED
      BY <1>4, <3>1 DEF CacheInv, LockInv
  <2>2. QueueInv'
    BY <1>1, SMTT(60) DEF CacheInv, QueueInv
  <2> QED
    BY <2>1, <2>2
<1>9. DataInv'
  <2>1. \A c \in Buffer : /\ buf'[c].dirty => buf'[c].valid
                          /\ buf'[c].block = 0 => ~buf'[c].valid
                          /\ buf'[c].valid /\ ~buf'[c].dirty /\ buf'[c].block \in GoodBlock =>
                               buf'[c].data = platter'[buf'[c].block]
    BY <1>1, <1>2, <1>3 DEF CacheInv, DataInv
  <2>2. \A q \in User \ {p} : at[q] \in Holding => bp[q] \in Buffer \ {b}
    BY <1>2 DEF CacheInv, CacheShape, RefInv, LockInv
  <2> QED
    BY <1>1, <1>3, <2>1, <2>2 DEF b, CacheInv, DataInv
<1> QED
  BY <1>5, <1>6, <1>7, <1>8, <1>9 DEF CacheInv

LEMMA BwriteCacheInv ==
  ASSUME CacheInv, NEW p \in User, Bwrite(p)
  PROVE  CacheInv' /\ buf' = buf
<1>1. at[p] = "use" /\ bp[p] \in Buffer /\ buf[bp[p]].dirty /\ at' = [at EXCEPT ![p] = "rw"]
      /\ UNCHANGED <<lru, queue, platter, bp, want>>
      /\ buf' = [buf EXCEPT ![bp[p]].dirty = TRUE]
  BY DEF Bwrite, Goes, CacheInv, CacheShape, RefInv
<1>2. buf' = buf
  <2>1. buf[bp[p]] \in BufRec /\ buf \in [Buffer -> BufRec]
    BY <1>1 DEF CacheInv, CacheShape
  <2>2. [buf[bp[p]] EXCEPT !.dirty = TRUE] = buf[bp[p]]
    BY <1>1, <2>1 DEF BufRec
  <2> QED
    BY <1>1, <2>1, <2>2
<1>3. buf[bp[p]].valid
  BY <1>1 DEF CacheInv, DataInv
<1>4. \A q \in User : at'[q] = IF q = p THEN "rw" ELSE at[q]
  BY <1>1 DEF CacheInv, CacheShape
<1>5. CacheShape' /\ RefInv'
  <2>1. UNCHANGED <<lru, queue, platter, bp, want, buf>> /\ at' \in [User -> At]
    BY <1>1, <1>2 DEF CacheInv, CacheShape
  <2>2. \A c \in Buffer : Holders(c)' = Holders(c)
    BY <2>1 DEF Holders
  <2>3. at[p] \notin {"idle", "panic"}
    BY <1>1
  <2>4. CacheShape'
    BY <2>1 DEF CacheInv, CacheShape
  <2>5. RefInv'
    BY <1>4, <2>1, <2>2, <2>3 DEF CacheInv, RefInv
  <2> QED
    BY <2>4, <2>5
<1>6. BlockInv' /\ LockInv'
  BY <1>1, <1>2, <1>4 DEF CacheInv, BlockInv, LockInv, OneBuffer
<1>7. QueueInv'
  BY <1>1, <1>2, <1>4 DEF CacheInv, QueueInv
<1>8. DataInv'
  BY <1>1, <1>2, <1>3, <1>4 DEF CacheInv, DataInv
<1> QED
  BY <1>2, <1>5, <1>6, <1>7, <1>8 DEF CacheInv

LEMMA ReleasesleepCacheInv ==
  ASSUME CacheInv, NEW p \in User, Releasesleep(p)
  PROVE  CacheInv'
<1> DEFINE b == bp[p]
<1>1. at[p] = "use" /\ b \in Buffer /\ UNCHANGED <<lru, queue, platter, bp, want>>
      /\ buf' = [buf EXCEPT ![b].lock = Nobody]
      /\ at' = [q \in User |-> IF q = p THEN "drop"
                               ELSE IF at[q] = "waitlock" /\ bp[q] = b THEN "lock" ELSE at[q]]
  BY DEF Releasesleep, LetsIn, Wakes, Asleep, CacheInv, CacheShape, RefInv
<1>2. \A q \in User : at'[q] = IF q = p THEN "drop"
                               ELSE IF at[q] = "waitlock" /\ bp[q] = b THEN "lock" ELSE at[q]
  BY <1>1
<1>3. /\ buf' \in [Buffer -> BufRec]
      /\ \A c \in Buffer :
           /\ buf'[c].block = buf[c].block /\ buf'[c].valid = buf[c].valid
           /\ buf'[c].dirty = buf[c].dirty /\ buf'[c].ref = buf[c].ref
           /\ buf'[c].data = buf[c].data
           /\ buf'[c].lock = IF c = b THEN Nobody ELSE buf[c].lock
  <2>1. CacheShape /\ Nobody \in User \cup {Nobody}
    BY DEF CacheInv
  <2> HIDE DEF b
  <2> QED
    BY ONLY <1>1, <2>1, NewLock, ZenonT(90)
<1>4. buf[b].lock = p
  BY <1>1 DEF CacheInv, LockInv
<1> HIDE DEF b
<1>5. CacheShape'
  <2>1. at' \in [User -> At]
    BY <1>1 DEF CacheInv, CacheShape
  <2> QED
    BY <1>1, <1>3, <2>1 DEF CacheInv, CacheShape
<1>6. RefInv'
  <2>1. \A c \in Buffer : Holders(c)' = Holders(c)
    BY <1>1 DEF Holders
  <2> QED
    BY <1>1, <1>2, <1>3, <2>1 DEF CacheInv, RefInv
<1>7. BlockInv'
  <2>1. \A q \in User : bp[q] # 0 => bp[q] \in Buffer
    BY DEF CacheInv, CacheShape
  <2>2. OneBuffer'
    BY <1>3 DEF CacheInv, BlockInv, OneBuffer
  <2> QED
    BY <1>1, <1>3, <2>1, <2>2 DEF CacheInv, BlockInv
<1>8. LockInv'
  <2>1. ASSUME NEW q \in User, NEW c \in Buffer
        PROVE  buf'[c].lock = q <=> bp'[q] = c /\ at'[q] \in Holding
    <3>1. CASE c = b
      BY <1>1, <1>2, <1>3, <1>4, <3>1 DEF CacheInv, LockInv
    <3>2. CASE c # b
      BY <1>1, <1>2, <1>3, <3>2 DEF b, CacheInv, LockInv
    <3> QED
      BY <3>1, <3>2
  <2> QED
    BY <2>1 DEF LockInv
<1>9. QueueInv'
  BY <1>1, <1>2 DEF CacheInv, QueueInv
<1>10. DataInv'
  <2>1. \A c \in Buffer : /\ buf'[c].dirty => buf'[c].valid
                          /\ buf'[c].block = 0 => ~buf'[c].valid
                          /\ buf'[c].valid /\ ~buf'[c].dirty /\ buf'[c].block \in GoodBlock =>
                               buf'[c].data = platter'[buf'[c].block]
    BY <1>1, <1>3 DEF CacheInv, DataInv
  <2>2. \A q \in User : at'[q] \in Holding =>
          at'[q] = at[q] /\ bp'[q] = bp[q] /\ bp[q] \in Buffer
    BY <1>1, <1>2 DEF CacheInv, CacheShape, RefInv
  <2> QED
    BY <1>3, <2>1, <2>2 DEF CacheInv, DataInv
<1> QED
  BY <1>5, <1>6, <1>7, <1>8, <1>9, <1>10 DEF CacheInv

LEMMA Joined ==
  ASSUME NEW S, NEW s \in Seq(S), NEW t \in Seq(S)
  PROVE  /\ s \o t \in Seq(S) /\ Len(s \o t) = Len(s) + Len(t)
         /\ \A j \in 1..Len(s) : (s \o t)[j] = s[j]
         /\ \A j \in 1..Len(t) : (s \o t)[Len(s) + j] = t[j]
<1>1. s \o t \in Seq(S) /\ Len(s \o t) = Len(s) + Len(t)
  OBVIOUS
<1>2. \A j \in 1..Len(s) : (s \o t)[j] = s[j]
  OBVIOUS
<1>3. \A j \in 1..Len(t) : (s \o t)[Len(s) + j] = t[j]
  OBVIOUS
<1> QED
  BY <1>1, <1>2, <1>3

(* The list keeps every buffer when one is moved to its front.                *)
LEMMA ListKept ==
  ASSUME CacheShape, NEW b \in Buffer
  PROVE  /\ MostRecent(b) \in Seq(Buffer)
         /\ Len(MostRecent(b)) = NBUF /\ ToSet(MostRecent(b)) = Buffer
<1> DEFINE i == CHOOSE i \in 1..Len(lru) : lru[i] = b
           s == SubSeq(lru, 1, i - 1)
           t == SubSeq(lru, i + 1, Len(lru))
           m == <<b>> \o (s \o t)
<1>1. lru \in Seq(Buffer) /\ Len(lru) = NBUF /\ ToSet(lru) = Buffer
  BY DEF CacheShape
<1>2. \E j \in 1..Len(lru) : lru[j] = b
  BY <1>1, InToSet
<1>3. i \in 1..Len(lru) /\ lru[i] = b
  BY <1>2
<1>4. MostRecent(b) = m
  BY DEF MostRecent, RemoveAt
<1> HIDE DEF i
<1>5. s \in Seq(Buffer) /\ Len(s) = i - 1 /\ \A j \in 1..(i - 1) : s[j] = lru[j]
  BY <1>1, <1>3
<1>6. t \in Seq(Buffer) /\ Len(t) = NBUF - i /\ \A j \in 1..(NBUF - i) : t[j] = lru[i + j]
  BY <1>1, <1>3
<1> HIDE DEF s, t
<1> DEFINE u == s \o t
<1>7. u \in Seq(Buffer) /\ Len(u) = NBUF - 1
      /\ (\A j \in 1..(i - 1) : u[j] = lru[j])
      /\ \A j \in 1..(NBUF - i) : u[i - 1 + j] = lru[i + j]
  <2>1. u \in Seq(Buffer) /\ Len(u) = Len(s) + Len(t)
        /\ (\A j \in 1..Len(s) : u[j] = s[j]) /\ \A j \in 1..Len(t) : u[Len(s) + j] = t[j]
    BY <1>5, <1>6, Joined, SMTT(60)
  <2>2. Len(s) + Len(t) = NBUF - 1
    BY <1>1, <1>3, <1>5, <1>6
  <2> QED
    BY <1>5, <1>6, <2>1, <2>2
<1> HIDE DEF u
<1>8. m \in Seq(Buffer) /\ Len(m) = NBUF /\ m[1] = b /\ \A j \in 1..(NBUF - 1) : m[j + 1] = u[j]
  <2>1. <<b>> \in Seq(Buffer) /\ Len(<<b>>) = 1 /\ <<b>>[1] = b
    OBVIOUS
  <2>2. <<b>> \o u \in Seq(Buffer) /\ Len(<<b>> \o u) = 1 + Len(u)
        /\ (<<b>> \o u)[1] = b /\ \A j \in 1..Len(u) : (<<b>> \o u)[1 + j] = u[j]
    BY <1>7, <2>1, Joined
  <2>3. m = <<b>> \o u
    BY DEF u
  <2>4. \A j \in 1..(NBUF - 1) : j + 1 = 1 + j
    OBVIOUS
  <2> HIDE DEF m
  <2> QED
    BY <1>7, <2>2, <2>3, <2>4
<1> HIDE DEF m
<1>9. ASSUME NEW c \in Buffer PROVE \E j \in 1..Len(m) : m[j] = c
  <2>1. PICK j \in 1..NBUF : lru[j] = c
    BY <1>1, InToSet
  <2>2. CASE j = i
    BY <1>1, <1>3, <1>8, <2>1, <2>2
  <2>3. CASE j < i
    <3>1. j \in 1..(i - 1) /\ j \in 1..(NBUF - 1) /\ j + 1 \in 1..NBUF
      BY <1>1, <1>3, <2>1, <2>3
    <3> QED
      BY <1>7, <1>8, <2>1, <3>1
  <2>4. CASE j > i
    <3>1. j - i \in 1..(NBUF - i) /\ i + (j - i) = j /\ i - 1 + (j - i) = j - 1
          /\ j - 1 \in 1..(NBUF - 1) /\ j - 1 + 1 = j
      BY <1>1, <1>3, <2>1, <2>4
    <3>2. u[j - 1] = lru[j]
      BY <1>7, <3>1, SMTT(60)
    <3> QED
      BY <1>8, <2>1, <3>1, <3>2, SMTT(60)
  <2> QED
    BY <1>1, <1>3, <2>1, <2>2, <2>3, <2>4
<1>10. ToSet(m) = Buffer
  <2>1. \A c \in ToSet(m) : c \in Buffer
    BY <1>8, InToSet
  <2>2. \A c \in Buffer : c \in ToSet(m)
    BY <1>8, <1>9, InToSet
  <2> QED
    BY <2>1, <2>2
<1> QED
  BY <1>4, <1>8, <1>10

LEMMA BrelseCacheInv ==
  ASSUME CacheInv, NEW p \in User, Brelse(p)
  PROVE  CacheInv'
<1>0. PICK b \in Buffer : b = bp[p]
  BY DEF Brelse, CacheInv, CacheShape, RefInv
<1>1. at[p] = "drop" /\ b = bp[p] /\ UNCHANGED <<queue, platter, want>>
      /\ at' = [at EXCEPT ![p] = "idle"] /\ bp' = [bp EXCEPT ![p] = 0]
      /\ lru' = (IF buf[b].ref = 1 THEN MostRecent(b) ELSE lru)
      /\ buf' = [buf EXCEPT ![b].ref = @ - 1]
  BY <1>0 DEF Brelse, Goes
<1>2. \A q \in User : /\ at'[q] = IF q = p THEN "idle" ELSE at[q]
                      /\ bp'[q] = IF q = p THEN 0 ELSE bp[q]
  BY <1>1 DEF CacheInv, CacheShape
<1>3. /\ Cardinality(Holders(b)') = Cardinality(Holders(b)) - 1
      /\ \A c \in Buffer \ {b} : Holders(c)' = Holders(c)
  <2>1. CacheShape
    BY DEF CacheInv
  <2> QED
    BY <1>1, <2>1, OneLess
<1>4. buf[b].ref = Cardinality(Holders(b)) /\ buf[b].ref - 1 \in Nat
  <2>1. IsFiniteSet(Holders(b)')
    BY FS_Subset DEF Holders
  <2>2. Cardinality(Holders(b)') \in Nat
    BY <2>1, FS_CardinalityType
  <2> QED
    BY <1>1, <1>3, <2>2 DEF CacheInv, RefInv
<1>5. /\ buf' \in [Buffer -> BufRec]
      /\ \A c \in Buffer :
           /\ buf'[c].block = buf[c].block /\ buf'[c].valid = buf[c].valid
           /\ buf'[c].dirty = buf[c].dirty /\ buf'[c].lock = buf[c].lock
           /\ buf'[c].data = buf[c].data
           /\ buf'[c].ref = IF c = b THEN buf[b].ref - 1 ELSE buf[c].ref
  <2> DEFINE n == buf[b].ref - 1
  <2>1. n \in Nat /\ buf' = [buf EXCEPT ![b].ref = n] /\ b \in Buffer /\ CacheShape
    BY <1>1, <1>4 DEF CacheInv
  <2> HIDE DEF n
  <2>2. /\ buf' \in [Buffer -> BufRec]
        /\ \A c \in Buffer :
             /\ buf'[c].block = buf[c].block /\ buf'[c].valid = buf[c].valid
             /\ buf'[c].dirty = buf[c].dirty /\ buf'[c].lock = buf[c].lock
             /\ buf'[c].data = buf[c].data
             /\ buf'[c].ref = IF c = b THEN n ELSE buf[c].ref
    BY ONLY <2>1, NewRef, ZenonT(90)
  <2> QED
    BY <2>2 DEF n
<1>6. CacheShape'
  <2>1. lru' \in Seq(Buffer) /\ Len(lru') = NBUF /\ ToSet(lru') = Buffer
    BY <1>1, ListKept DEF CacheInv, CacheShape
  <2>2. at' \in [User -> At] /\ bp' \in [User -> Buffer \cup {0}]
    BY <1>1 DEF CacheInv, CacheShape
  <2> QED
    BY <1>1, <1>5, <2>1, <2>2 DEF CacheInv, CacheShape
<1>7. RefInv'
  <2>1. \A q \in User : bp'[q] = 0 <=> at'[q] \in {"idle", "panic"}
    BY <1>2 DEF CacheInv, RefInv
  <2>2. \A c \in Buffer : buf'[c].ref = Cardinality(Holders(c)')
    <3>1. TAKE c \in Buffer
    <3>2. CASE c = b
      BY <1>3, <1>4, <1>5, <3>2
    <3>3. CASE c # b
      BY <1>3, <1>5, <3>3 DEF CacheInv, RefInv
    <3> QED
      BY <3>2, <3>3
  <2> QED
    BY <2>1, <2>2 DEF RefInv
<1>8. BlockInv'
  <2>1. \A q \in User : bp[q] # 0 => bp[q] \in Buffer
    BY DEF CacheInv, CacheShape
  <2>2. OneBuffer'
    BY <1>5 DEF CacheInv, BlockInv, OneBuffer
  <2> QED
    BY <1>1, <1>2, <1>5, <2>1, <2>2 DEF CacheInv, BlockInv
<1>9. LockInv'
  BY <1>1, <1>2, <1>5 DEF CacheInv, LockInv
<1>10. QueueInv'
  BY <1>1, <1>2 DEF CacheInv, QueueInv
<1>11. DataInv'
  <2>1. \A c \in Buffer : /\ buf'[c].dirty => buf'[c].valid
                          /\ buf'[c].block = 0 => ~buf'[c].valid
                          /\ buf'[c].valid /\ ~buf'[c].dirty /\ buf'[c].block \in GoodBlock =>
                               buf'[c].data = platter'[buf'[c].block]
    BY <1>1, <1>5 DEF CacheInv, DataInv
  <2>2. \A q \in User : at'[q] \in Holding =>
          at'[q] = at[q] /\ bp'[q] = bp[q] /\ bp[q] \in Buffer
    BY <1>2 DEF CacheInv, CacheShape, RefInv
  <2> QED
    BY <1>5, <2>1, <2>2 DEF CacheInv, DataInv
<1> QED
  BY <1>6, <1>7, <1>8, <1>9, <1>10, <1>11 DEF CacheInv

-----------------------------------------------------------------------------

LEMMA NextCacheInv == CacheInv /\ [CacheNext]_cacheVars => CacheInv'
<1> SUFFICES ASSUME CacheInv, [CacheNext]_cacheVars PROVE CacheInv'
  OBVIOUS
<1>1. ASSUME UNCHANGED cacheVars PROVE CacheInv'
  BY <1>1 DEF cacheVars, CacheInv, CacheShape, RefInv, Holders, BlockInv, OneBuffer, LockInv,
              QueueInv, DataInv
<1>2. ASSUME NEW p \in User, CacheStep(p) PROVE CacheInv'
  BY <1>2, AcquiresleepCacheInv, IderwCacheInv, IderwDoneCacheInv, BwriteCacheInv, ReleasesleepCacheInv, BrelseCacheInv
     DEF CacheStep
<1> QED
  BY <1>1, <1>2, BgetHitCacheInv, BgetMissCacheInv, LogWriteCacheInv, IdeintrCacheInv DEF CacheNext

(* In every reachable state of the buffer cache each buffer counts the        *)
(* processes that have it, a block is in one buffer at most, the process that *)
(* has locked a buffer finds there the block it asked for, and a buffer is in *)
(* the disk's queue exactly while the process that locked it sleeps for it.   *)
THEOREM CacheIsSound == CacheSpec => []BuffersSound
<1>1. ASSUME CacheInv PROVE BuffersSound
  <2>1. CacheTypeOK
    <3>1. \A b \in Buffer : buf[b].lock \in User \cup {Nobody}
      BY <1>1, Fields DEF CacheInv, CacheShape
    <3> QED
      BY <1>1, <3>1 DEF CacheInv, CacheShape, RefInv, CacheTypeOK
  <2>2. HeldIsWanted
    <3>1. ASSUME NEW p \in User, at[p] \in Holding
          PROVE  buf[bp[p]].lock = p /\ buf[bp[p]].block = want[p]
      <4>1. bp[p] \in Buffer
        BY <1>1, <3>1 DEF CacheInv, CacheShape, RefInv
      <4> QED
        BY <1>1, <3>1, <4>1 DEF CacheInv, BlockInv, LockInv
    <3> QED
      BY <3>1 DEF HeldIsWanted
  <2>3. QueueOnce
    <3>1. \A b \in Buffer : b \in ToSet(queue) <=> \E p \in Asleep("io", b) : buf[b].lock = p
      BY <1>1 DEF CacheInv, QueueInv, LockInv, Asleep
    <3> QED
      BY <1>1, <3>1 DEF CacheInv, QueueInv, QueueOnce
  <2> QED
    BY <1>1, <2>1, <2>2, <2>3 DEF CacheInv, BlockInv, BuffersSound
<1> QED
  BY <1>1, InitCacheInv, NextCacheInv, PTL DEF CacheSpec

-----------------------------------------------------------------------------
(* What the cache shows of a block: the buffer with the block and its         *)
(* contents, or else the disk.                                                *)

USE DEF GoodBlock

LEMMA Chosen ==
  ASSUME NEW f, NEW k, NEW b \in Buffer, f[b].block = k, f[b].valid,
         \A c \in Buffer : f[c].block = k => c = b
  PROVE  /\ \E c \in {c \in Buffer : f[c].block = k} : f[c].valid
         /\ (CHOOSE c \in {c \in Buffer : f[c].block = k} : f[c].valid) = b
<1>1. \E c \in {c \in Buffer : f[c].block = k} : f[c].valid
  OBVIOUS
<1>2. \A c \in {c \in Buffer : f[c].block = k} : c = b
  OBVIOUS
<1> QED
  BY <1>1, <1>2

LEMMA Seen ==
  ASSUME OneBuffer, NEW k \in GoodBlock, NEW b \in Buffer, buf[b].block = k, buf[b].valid
  PROVE  Visible[k] = buf[b].data /\ InUse[k] = buf[b].lock
<1>1. \A c \in Buffer : buf[c].block = k => c = b
  BY DEF OneBuffer
<1>2. /\ \E c \in Cached(k) : buf[c].valid
      /\ (CHOOSE c \in Cached(k) : buf[c].valid) = b
  BY <1>1, Chosen DEF Cached
<1> QED
  BY <1>2 DEF Visible, InUse

LEMMA SeenNext ==
  ASSUME OneBuffer', NEW k \in GoodBlock, NEW b \in Buffer, buf'[b].block = k, buf'[b].valid
  PROVE  Visible'[k] = buf'[b].data /\ InUse'[k] = buf'[b].lock
<1>1. \A c \in Buffer : buf'[c].block = k => c = b
  BY DEF OneBuffer
<1>2. /\ \E c \in Cached(k)' : buf'[c].valid
      /\ (CHOOSE c \in Cached(k)' : buf'[c].valid) = b
  BY <1>1, Chosen DEF Cached
<1> QED
  BY <1>2 DEF Visible, InUse

LEMMA Unseen ==
  ASSUME NEW k \in GoodBlock, \A b \in Buffer : buf[b].block = k => ~buf[b].valid
  PROVE  Visible[k] = platter[k] /\ InUse[k] = Nobody
BY DEF Visible, InUse, Cached

LEMMA UnseenNext ==
  ASSUME NEW k \in GoodBlock, \A b \in Buffer : buf'[b].block = k => ~buf'[b].valid
  PROVE  Visible'[k] = platter'[k] /\ InUse'[k] = Nobody
BY DEF Visible, InUse, Cached

(* A block whose buffer and place on the disk a step leaves alone.            *)
LEMMA SameBlock ==
  ASSUME OneBuffer, OneBuffer', NEW k \in GoodBlock, platter'[k] = platter[k],
         \A c \in Buffer :
           /\ buf[c].block = k /\ buf[c].valid <=> buf'[c].block = k /\ buf'[c].valid
           /\ buf[c].block = k /\ buf[c].valid =>
                buf'[c].data = buf[c].data /\ buf'[c].lock = buf[c].lock
  PROVE  Visible'[k] = Visible[k] /\ InUse'[k] = InUse[k]
<1>1. CASE \E b \in Buffer : buf[b].block = k /\ buf[b].valid
  <2>1. PICK b \in Buffer : buf[b].block = k /\ buf[b].valid
    BY <1>1
  <2>2. Visible[k] = buf[b].data /\ InUse[k] = buf[b].lock
    BY <2>1, Seen
  <2>3. Visible'[k] = buf'[b].data /\ InUse'[k] = buf'[b].lock
    BY <2>1, SeenNext
  <2> QED
    BY <2>1, <2>2, <2>3
<1>2. CASE \A b \in Buffer : buf[b].block = k => ~buf[b].valid
  BY <1>2, Unseen, UnseenNext
<1> QED
  BY <1>1, <1>2

LEMMA Everywhere ==
  /\ Visible = [k \in GoodBlock |-> Visible[k]] /\ Visible' = [k \in GoodBlock |-> Visible'[k]]
  /\ InUse = [k \in GoodBlock |-> InUse[k]] /\ InUse' = [k \in GoodBlock |-> InUse'[k]]
BY DEF Visible, InUse

LEMMA Stutter ==
  ASSUME \A k \in GoodBlock : Visible'[k] = Visible[k] /\ InUse'[k] = InUse[k]
  PROVE  Visible' = Visible /\ InUse' = InUse
<1>1. [k \in GoodBlock |-> Visible'[k]] = [k \in GoodBlock |-> Visible[k]]
      /\ [k \in GoodBlock |-> InUse'[k]] = [k \in GoodBlock |-> InUse[k]]
  OBVIOUS
<1> QED
  BY <1>1, Everywhere

(* A step that keeps the block, the contents and the lock of every buffer.    *)
LEMMA SameBuffers ==
  ASSUME CacheInv, CacheInv', platter' = platter,
         \A c \in Buffer : /\ buf'[c].block = buf[c].block /\ buf'[c].lock = buf[c].lock
                           /\ buf'[c].data = buf[c].data /\ (buf'[c].valid <=> buf[c].valid)
  PROVE  Visible' = Visible /\ InUse' = InUse
<1>1. OneBuffer /\ OneBuffer'
  BY DEF CacheInv, BlockInv
<1>2. \A k \in GoodBlock : Visible'[k] = Visible[k] /\ InUse'[k] = InUse[k]
  BY <1>1, SameBlock
<1> QED
  BY <1>2, Stutter

LEMMA AcquiresleepStores ==
  ASSUME CacheInv, CacheInv', NEW p \in User, Acquiresleep(p)
  PROVE  [Blocks!StoreNext]_<<Visible, InUse>>
<1>0. PICK b \in Buffer : b = bp[p]
  BY DEF Acquiresleep, CacheInv, CacheShape, RefInv
<1>1. platter' = platter /\ OneBuffer /\ OneBuffer'
  BY DEF Acquiresleep, CacheInv, BlockInv
<1>2. CASE buf[b].lock # Nobody
  <2>1. buf' = buf
    BY <1>0, <1>2 DEF Acquiresleep
  <2> QED
    BY <1>1, <2>1, SameBuffers
<1>3. CASE buf[b].lock = Nobody
  <2>1. buf' = [buf EXCEPT ![b].lock = p] /\ CacheShape /\ p \in User \cup {Nobody}
    BY <1>0, <1>3 DEF Acquiresleep, CacheInv
  <2>2. \A c \in Buffer :
          /\ buf'[c].block = buf[c].block /\ buf'[c].valid = buf[c].valid
          /\ buf'[c].data = buf[c].data
          /\ buf'[c].lock = IF c = b THEN p ELSE buf[c].lock
    BY ONLY <2>1, NewLock, ZenonT(90)
  <2>3. PICK k \in BlockNo : k = buf[b].block
    BY <1>0 DEF Acquiresleep, CacheInv, BlockInv, CacheShape, RefInv
  <2>4. \A j \in GoodBlock \ {k} : Visible'[j] = Visible[j] /\ InUse'[j] = InUse[j]
    BY <1>1, <2>2, <2>3, SameBlock
  <2>5. CASE buf[b].valid /\ k \in GoodBlock
    <3>1. Visible[k] = buf[b].data /\ InUse[k] = Nobody
      BY <1>1, <1>3, <2>3, <2>5, Seen
    <3>2. Visible'[k] = buf[b].data /\ InUse'[k] = p
      BY <1>1, <2>2, <2>3, <2>5, SeenNext
    <3>3. Visible' = Visible
      BY <2>4, <3>1, <3>2, Everywhere
    <3>4. InUse' = [InUse EXCEPT ![k] = p]
      BY <2>4, <3>2, Everywhere
    <3> QED
      BY <2>5, <3>1, <3>3, <3>4 DEF Blocks!StoreNext, Blocks!Hold
  <2>6. CASE ~buf[b].valid /\ k \in GoodBlock
    <3>1. Visible'[k] = Visible[k] /\ InUse'[k] = InUse[k]
      <4>1. \A c \in Buffer : buf[c].block = k => c = b
        BY <1>1, <2>3 DEF OneBuffer
      <4> QED
        BY <1>1, <2>2, <2>6, <4>1, Unseen, UnseenNext
    <3> QED
      BY <2>4, <3>1, Stutter
  <2> QED
    BY <2>4, <2>5, <2>6, Stutter
<1> QED
  BY <1>2, <1>3

LEMMA LogWriteStores ==
  ASSUME CacheInv, CacheInv', NEW p \in User, LogWrite(p)
  PROVE  [Blocks!StoreNext]_<<Visible, InUse>>
<1>0. PICK b \in Buffer : b = bp[p]
  BY DEF LogWrite, CacheInv, CacheShape, RefInv
<1>1. platter' = platter /\ OneBuffer /\ OneBuffer' /\ CacheShape
      /\ at[p] = "use" /\ buf[b].lock = p /\ buf[b].valid
  BY <1>0 DEF LogWrite, CacheInv, BlockInv, LockInv, DataInv
<1>2. PICK x \in Contents : buf' = [buf EXCEPT ![b].data = x, ![b].dirty = TRUE]
  BY <1>0 DEF LogWrite
<1>3. /\ \A c \in Buffer \ {b} : buf'[c] = buf[c]
      /\ buf'[b].block = buf[b].block /\ buf'[b].lock = buf[b].lock
      /\ (buf'[b].valid <=> buf[b].valid) /\ buf'[b].data = x
  BY <1>1, <1>2, DirtyData, ZenonT(90)
<1>4. PICK k \in BlockNo : k = buf[b].block
  BY <1>0 DEF LogWrite, CacheInv, BlockInv, CacheShape, RefInv
<1>5. \A j \in GoodBlock \ {k} : Visible'[j] = Visible[j] /\ InUse'[j] = InUse[j]
  <2>1. ASSUME NEW j \in GoodBlock \ {k}, NEW c \in Buffer
        PROVE  /\ buf[c].block = j /\ buf[c].valid <=> buf'[c].block = j /\ buf'[c].valid
               /\ buf[c].block = j /\ buf[c].valid =>
                    buf'[c].data = buf[c].data /\ buf'[c].lock = buf[c].lock
    BY <1>3, <1>4
  <2> QED
    BY <1>1, <2>1, SameBlock
<1>6. CASE k \in GoodBlock
  <2>1. Visible'[k] = x /\ InUse'[k] = p
    BY <1>1, <1>3, <1>4, <1>6, SeenNext
  <2>2. InUse[k] = p
    BY <1>1, <1>4, <1>6, Seen
  <2>3. Visible' = [Visible EXCEPT ![k] = x]
    BY <1>5, <2>1, Everywhere
  <2>4. InUse' = InUse
    BY <1>5, <2>1, <2>2, Everywhere
  <2> QED
    BY <1>6, <2>2, <2>3, <2>4 DEF Blocks!StoreNext, Blocks!Update
<1> QED
  BY <1>5, <1>6, Stutter

LEMMA ReleasesleepStores ==
  ASSUME CacheInv, CacheInv', NEW p \in User, Releasesleep(p)
  PROVE  [Blocks!StoreNext]_<<Visible, InUse>>
<1>0. PICK b \in Buffer : b = bp[p]
  BY DEF Releasesleep, CacheInv, CacheShape, RefInv
<1>1. platter' = platter /\ OneBuffer /\ OneBuffer' /\ CacheShape /\ Nobody \in User \cup {Nobody}
      /\ at[p] = "use" /\ buf[b].lock = p /\ buf[b].valid
  BY <1>0 DEF Releasesleep, CacheInv, BlockInv, LockInv, DataInv
<1>2. buf' = [buf EXCEPT ![b].lock = Nobody]
  BY <1>0 DEF Releasesleep
<1>3. \A c \in Buffer :
        /\ buf'[c].block = buf[c].block /\ buf'[c].valid = buf[c].valid
        /\ buf'[c].data = buf[c].data
        /\ buf'[c].lock = IF c = b THEN Nobody ELSE buf[c].lock
  BY ONLY <1>1, <1>2, NewLock, ZenonT(90)
<1>4. PICK k \in BlockNo : k = buf[b].block
  BY <1>0 DEF Releasesleep, CacheInv, BlockInv, CacheShape, RefInv
<1>5. \A j \in GoodBlock \ {k} : Visible'[j] = Visible[j] /\ InUse'[j] = InUse[j]
  BY <1>1, <1>3, <1>4, SameBlock
<1>6. CASE k \in GoodBlock
  <2>1. Visible'[k] = buf[b].data /\ InUse'[k] = Nobody
    BY <1>1, <1>3, <1>4, <1>6, SeenNext
  <2>2. Visible[k] = buf[b].data /\ InUse[k] = p
    BY <1>1, <1>4, <1>6, Seen
  <2>3. InUse' = [InUse EXCEPT ![k] = Nobody]
    BY <1>5, <2>1, Everywhere
  <2>4. Visible' = Visible
    BY <1>5, <2>1, <2>2, Everywhere
  <2> QED
    BY <1>6, <2>2, <2>3, <2>4 DEF Blocks!StoreNext, Blocks!Give
<1> QED
  BY <1>5, <1>6, Stutter

(* A block that is recycled was unlocked and is on the disk.                  *)
LEMMA BgetMissStores ==
  ASSUME CacheInv, CacheInv', NEW p \in User, NEW k \in BlockNo, BgetMiss(p, k)
  PROVE  Visible' = Visible /\ InUse' = InUse
<1>1. platter' = platter /\ OneBuffer /\ OneBuffer' /\ CacheShape
      /\ \A c \in Buffer : buf[c].block # k
  BY ZenonT(90) DEF BgetMiss, Cached, CacheInv, BlockInv
<1>2. CASE Unused = {}
  <2>1. buf' = buf
    BY <1>2 DEF BgetMiss
  <2> QED
    BY <1>1, <2>1, SameBuffers
<1>3. CASE Unused # {}
  <2>1. PICK b \in Buffer :
          /\ LeastRecent(b)
          /\ buf' = [buf EXCEPT ![b].block = k, ![b].valid = FALSE,
                                ![b].dirty = FALSE, ![b].ref = 1]
    BY <1>3, ZenonT(90) DEF BgetMiss
  <2>2. /\ \A c \in Buffer \ {b} : buf'[c] = buf[c]
        /\ buf'[b].block = k /\ ~buf'[b].valid
    BY <1>1, <2>1, NewBlock, ZenonT(90)
  <2>3. buf[b].ref = 0 /\ ~buf[b].dirty
    BY <2>1 DEF LeastRecent, Unused
  <2>4. buf[b].lock = Nobody
    <3>1. \A q \in User : bp[q] # b
      BY <2>3, NoHolders DEF CacheInv
    <3>2. \A q \in User : buf[b].lock # q
      BY <3>1 DEF CacheInv, LockInv
    <3>3. buf[b].lock \in User \cup {Nobody}
      BY <1>1, Fields DEF CacheShape
    <3> QED
      BY <3>2, <3>3
  <2>5. ASSUME NEW j \in GoodBlock PROVE Visible'[j] = Visible[j] /\ InUse'[j] = InUse[j]
    <3>1. CASE j = k
      BY <1>1, <2>2, <3>1, Unseen, UnseenNext
    <3>2. CASE j # k /\ buf[b].block = j /\ buf[b].valid
      <4>1. Visible[j] = platter[j] /\ InUse[j] = Nobody
        BY <1>1, <2>3, <2>4, <3>2, Seen DEF CacheInv, DataInv
      <4>2. \A c \in Buffer : buf[c].block = j => c = b
        BY <1>1, <3>2 DEF OneBuffer
      <4>3. \A c \in Buffer : buf'[c].block = j => ~buf'[c].valid
        BY <2>2, <3>2, <4>2
      <4> QED
        BY <1>1, <4>1, <4>3, UnseenNext
    <3>3. CASE j # k /\ ~(buf[b].block = j /\ buf[b].valid)
      <4>1. ASSUME NEW c \in Buffer
            PROVE  /\ buf[c].block = j /\ buf[c].valid <=> buf'[c].block = j /\ buf'[c].valid
                   /\ buf[c].block = j /\ buf[c].valid =>
                        buf'[c].data = buf[c].data /\ buf'[c].lock = buf[c].lock
        BY <2>2, <3>3
      <4> QED
        BY <1>1, <4>1, SameBlock
    <3> QED
      BY <3>1, <3>2, <3>3
  <2> QED
    BY <2>5, Stutter, ZenonT(90)
<1> QED
  BY <1>2, <1>3, ZenonT(90)

(* A request that was a read ends with the process holding the block, a       *)
(* write changes only what the disk has.                                      *)
LEMMA IdeintrStores ==
  ASSUME CacheInv, CacheInv', Ideintr
  PROVE  [Blocks!StoreNext]_<<Visible, InUse>>
<1>1. PICK b, x, o : Answered(b, x, o)
  BY DiskAnswers
<1> USE DEF Answered
<1>2. OneBuffer /\ OneBuffer'
  BY DEF CacheInv, BlockInv
<1>3. PICK k \in BlockNo : k = buf[b].block
  BY <1>1
<1>4. ASSUME NEW j \in GoodBlock \ {k} PROVE Visible'[j] = Visible[j] /\ InUse'[j] = InUse[j]
  <2>1. ASSUME NEW c \in Buffer
        PROVE  /\ buf[c].block = j /\ buf[c].valid <=> buf'[c].block = j /\ buf'[c].valid
               /\ buf[c].block = j /\ buf[c].valid =>
                    buf'[c].data = buf[c].data /\ buf'[c].lock = buf[c].lock
    BY <1>1, <1>3, <1>4, SMTT(60)
  <2>2. platter'[j] = platter[j]
    BY <1>1, <1>3
  <2> QED
    BY <1>2, <2>1, <2>2, SameBlock
<1>5. k \in GoodBlock => Visible'[k] = x /\ InUse'[k] = o
  BY <1>1, <1>2, <1>3, SeenNext, SMTT(60)
<1>6. CASE k \in GoodBlock /\ buf[b].dirty
  <2>1. Visible[k] = x /\ InUse[k] = o
    BY <1>1, <1>2, <1>3, <1>6, Seen
  <2> QED
    BY <1>4, <1>5, <1>6, <2>1, Stutter
<1>7. CASE k \in GoodBlock /\ ~buf[b].dirty
  <2>1. \A c \in Buffer : buf[c].block = k => c = b
    BY <1>1, <1>2, <1>3 DEF OneBuffer
  <2>2. Visible[k] = x /\ InUse[k] = Nobody
    BY <1>1, <1>3, <1>7, <2>1, Unseen, ZenonT(90)
  <2>3. Visible' = Visible
    BY <1>4, <1>5, <1>7, <2>2, Everywhere
  <2>4. InUse' = [InUse EXCEPT ![k] = o]
    BY <1>4, <1>5, <1>7, Everywhere
  <2> QED
    BY <1>1, <1>7, <2>2, <2>3, <2>4 DEF Blocks!StoreNext, Blocks!Hold
<1> QED
  BY <1>4, <1>6, <1>7, Stutter

LEMMA OtherFields ==
  ASSUME buf \in [Buffer -> BufRec], NEW b \in Buffer, NEW n, buf' = [buf EXCEPT ![b].ref = n]
  PROVE  \A c \in Buffer : /\ buf'[c].block = buf[c].block /\ buf'[c].lock = buf[c].lock
                            /\ buf'[c].data = buf[c].data /\ (buf'[c].valid <=> buf[c].valid)
<1>1. \A c \in Buffer : buf'[c] = IF c = b THEN [buf[c] EXCEPT !.ref = n] ELSE buf[c]
  OBVIOUS
<1>2. \A r \in BufRec : LET s == [r EXCEPT !.ref = n] IN
        s.block = r.block /\ s.lock = r.lock /\ s.data = r.data /\ (s.valid <=> r.valid)
  BY DEF BufRec
<1> QED
  BY <1>1, <1>2

LEMMA BgetHitStores ==
  ASSUME CacheInv, CacheInv', NEW p \in User, NEW k \in BlockNo, BgetHit(p, k)
  PROVE  Visible' = Visible /\ InUse' = InUse
<1>1. PICK b \in Buffer : buf' = [buf EXCEPT ![b].ref = @ + 1]
  BY DEF BgetHit, Cached
<1>2. platter' = platter /\ buf \in [Buffer -> BufRec]
  BY DEF BgetHit, CacheInv, CacheShape
<1>3. \A c \in Buffer : /\ buf'[c].block = buf[c].block /\ buf'[c].lock = buf[c].lock
                        /\ buf'[c].data = buf[c].data /\ (buf'[c].valid <=> buf[c].valid)
  BY <1>1, <1>2, OtherFields
<1> QED
  BY <1>2, <1>3, SameBuffers

LEMMA BrelseStores ==
  ASSUME CacheInv, CacheInv', NEW p \in User, Brelse(p)
  PROVE  Visible' = Visible /\ InUse' = InUse
<1>1. PICK b \in Buffer : buf' = [buf EXCEPT ![b].ref = @ - 1]
  BY ZenonT(90) DEF Brelse, CacheInv, CacheShape, RefInv
<1>2. platter' = platter /\ buf \in [Buffer -> BufRec]
  BY DEF Brelse, CacheInv, CacheShape
<1>3. \A c \in Buffer : /\ buf'[c].block = buf[c].block /\ buf'[c].lock = buf[c].lock
                        /\ buf'[c].data = buf[c].data /\ (buf'[c].valid <=> buf[c].valid)
  BY <1>1, <1>2, OtherFields
<1> QED
  BY <1>2, <1>3, SameBuffers

(* The cache with its locks and the disk's queue implements a store of the    *)
(* blocks the disk can read and write: whatever is recycled, held back for    *)
(* the log or on its way to the disk, a process that has such a block reads   *)
(* the last contents written, and nobody else changes it meanwhile, whatever  *)
(* becomes of the requests for other blocks (ideintr() tells nobody).         *)
THEOREM CacheImplementsStore == CacheSpec => CacheIsStore
<1>1. CacheInit => Blocks!StoreInit
  <2> SUFFICES ASSUME CacheInit PROVE Blocks!StoreInit
    OBVIOUS
  <2>1. \A k \in GoodBlock : Visible[k] = platter[k] /\ InUse[k] = Nobody
    BY Unseen DEF CacheInit
  <2>2. platter \in [BlockNo -> Contents]
    BY InitCacheInv DEF CacheInv, CacheShape
  <2> QED
    BY <2>1, <2>2, Everywhere DEF Blocks!StoreInit
<1>2. ASSUME CacheInv, [CacheNext]_cacheVars PROVE [Blocks!StoreNext]_<<Visible, InUse>>
  <2>1. CacheInv'
    BY <1>2, NextCacheInv
  <2>2. ASSUME UNCHANGED <<buf, platter>> PROVE Visible' = Visible /\ InUse' = InUse
    BY <2>2 DEF Visible, InUse, Cached
  <2>3. ASSUME UNCHANGED cacheVars PROVE Visible' = Visible /\ InUse' = InUse
    BY <2>2, <2>3 DEF cacheVars
  <2>4. ASSUME NEW p \in User, CacheStep(p) \/ LogWrite(p)
        PROVE  [Blocks!StoreNext]_<<Visible, InUse>>
    <3>1. CASE Iderw(p) \/ IderwDone(p)
      BY <2>2, <3>1 DEF Iderw, IderwDone
    <3>2. CASE Bwrite(p)
      BY <1>2, <2>2, <3>2, BwriteCacheInv DEF Bwrite
    <3> QED
      BY <1>2, <2>1, <2>4, <3>1, <3>2, AcquiresleepStores, ReleasesleepStores, BrelseStores,
         LogWriteStores DEF CacheStep
  <2> QED
    BY <1>2, <2>1, <2>3, <2>4, BgetHitStores, BgetMissStores, IdeintrStores DEF CacheNext
<1>3. CacheSpec => []CacheInv
  BY InitCacheInv, NextCacheInv, PTL DEF CacheSpec
<1> QED
  BY <1>1, <1>2, <1>3, PTL DEF CacheSpec, CacheIsStore, Blocks!StoreSpec

=============================================================================
