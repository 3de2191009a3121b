---------------------------- MODULE FsDisk_proofs ----------------------------
(* What the functions of fs.c make of a disk, for any sizes: bmap(), itrunc() *)
(* and ialloc() keep blocks and inodes accounted for (Safe, Sound); a path    *)
(* leads to an allocated inode; and an entry that comes or goes with its      *)
(* links keeps the tree of directories (Tree).                                *)
EXTENDS FsDisk, FiniteSetTheorems, WellFoundedInduction, TLAPS

-----------------------------------------------------------------------------
(* Least elements, and functions that are defined step by step.               *)

(* Induction on the natural numbers: what is not empty has a least element.   *)
LEMMA LeastOf ==
  ASSUME NEW T \in SUBSET Nat, T # {}
  PROVE  \E m \in T : \A n \in T : m <= n
<1> DEFINE Below == {0..n : n \in T}
<1>1. IsWellFoundedOn(StrictSubsetOrdering(Nat), FiniteSubsetsOf(Nat))
  BY FS_StrictSubsetOrderingWellFounded
<1>2. Below \subseteq FiniteSubsetsOf(Nat)
  <2>1. ASSUME NEW n \in T PROVE 0..n \in FiniteSubsetsOf(Nat)
    <3>1. IsFiniteSet(0..n)
      BY FS_Interval
    <3>2. 0..n \subseteq Nat
      OBVIOUS
    <3> QED
      BY <3>1, <3>2 DEF FiniteSubsetsOf
  <2> QED
    BY <2>1
<1>3. Below # {}
  BY ZenonT(90)
<1>4. PICK s \in Below : \A r \in Below : ~ (<<r, s>> \in StrictSubsetOrdering(Nat))
  <2> HIDE DEF Below
  <2> QED
  BY <1>1, <1>2, <1>3, WFMin
<1>5. PICK m \in T : s = 0..m
  OBVIOUS
<1>6. ASSUME NEW n \in T PROVE m <= n
  <2>1. ~ (<<0..n, 0..m>> \in StrictSubsetOrdering(Nat))
    BY ZenonT(90), <1>4, <1>5
  <2>2. ~(0..n \subseteq 0..m /\ 0..n # 0..m)
    <3>1. 0..n \in SUBSET Nat /\ 0..m \in SUBSET Nat
      OBVIOUS
    <3> QED
    BY <2>1, <3>1 DEF StrictSubsetOrdering
  <2>3. CASE n < m
    <3>1. 0..n \subseteq 0..m
      BY <2>3
    <3>2. m \in 0..m /\ m \notin 0..n
      BY <2>3
    <3> QED
      BY <3>1, <3>2, <2>2
  <2> QED
    BY <2>3
<1> QED
  BY <1>6

LEMMA MinOf ==
  ASSUME NEW S \in SUBSET Nat, S # {}
  PROVE  Min(S) \in S
BY LeastOf, ZenonT(90) DEF Min

(* What holds first and after every step holds throughout.                    *)
LEMMA StepByStep ==
  ASSUME NEW N \in Nat, NEW W, NEW g, g[0] \in W[0],
         \A n \in 1..N : g[n - 1] \in W[n - 1] => g[n] \in W[n]
  PROVE  \A n \in 0..N : g[n] \in W[n]
<1> DEFINE T == {n \in 0..N : g[n] \notin W[n]}
<1> SUFFICES ASSUME T # {} PROVE FALSE
  OBVIOUS
<1>1. T \in SUBSET Nat
  OBVIOUS
<1>2. PICK m \in T : \A n \in T : m <= n
  <2> HIDE DEF T
  <2> QED
    BY ZenonT(90), <1>1, LeastOf
<1>3. m \in 1..N /\ m - 1 \in 0..N
  BY <1>2
<1>4. m - 1 \notin T
  BY <1>2, <1>3
<1> QED
  BY <1>2, <1>3, <1>4

(* There is a function that starts with a and takes the steps G.              *)
StepsIn(N, W, G) == \A n \in 1..N : \A v \in W[n - 1] : G[n][v] \in W[n]

Takes(f, N, W, G) ==
  /\ f = [n \in 0..N |-> f[n]]
  /\ \A n \in 1..N : f[n - 1] \in W[n - 1] /\ f[n] = G[n][f[n - 1]]

LEMMA StepsExist ==
  ASSUME NEW N \in Nat, NEW W, NEW a \in W[0], NEW G, StepsIn(N, W, G)
  PROVE  \E f : Takes(f, N, W, G) /\ f[0] = a
<1> USE DEF StepsIn, Takes
<1> DEFINE Good(m, f) == /\ f = [n \in 0..m |-> f[n]] /\ f[0] = a /\ f[m] \in W[m]
                         /\ \A n \in 1..m : f[n - 1] \in W[n - 1] /\ f[n] = G[n][f[n - 1]]
           T == {m \in 0..N : ~\E f : Good(m, f)}
<1>1. T \in SUBSET Nat
  OBVIOUS
<1>2. T = {}
  <2> SUFFICES ASSUME T # {} PROVE FALSE
    OBVIOUS
  <2>1. PICK m \in T : \A n \in T : m <= n
    <3> HIDE DEF T
    <3> QED
      BY <1>1, LeastOf
  <2>2. m # 0
    <3> SUFFICES ASSUME m = 0 PROVE FALSE
      OBVIOUS
    <3> DEFINE f == [n \in 0..0 |-> a]
    <3>1. Good(0, f)
      OBVIOUS
    <3> HIDE DEF Good, f
    <3> QED
      BY <2>1, <3>1
  <2>3. m \in 1..N /\ m - 1 \in 0..N /\ m - 1 \notin T
    BY SMTT(60), <2>1, <2>2
  <2>4. PICK f : Good(m - 1, f)
    <3> HIDE DEF Good
    <3> QED
      BY <2>3
  <2> DEFINE h == [n \in 0..m |-> IF n = m THEN G[m][f[m - 1]] ELSE f[n]]
  <2>5. \A n \in 0..(m - 1) : h[n] = f[n]
    BY <2>3
  <2>6. h[m] = G[m][f[m - 1]] /\ h[m] \in W[m]
    BY <2>3, <2>4
  <2>7. h = [n \in 0..m |-> h[n]]
    OBVIOUS
  <2> HIDE DEF h
  <2>8. \A n \in 1..m : h[n - 1] \in W[n - 1] /\ h[n] = G[n][h[n - 1]]
    <3> TAKE n \in 1..m
    <3>1. CASE n = m
      <4>1. h[m - 1] = f[m - 1] /\ f[m - 1] \in W[m - 1]
        BY <2>3, <2>4, <2>5
      <4> QED
        BY <2>6, <3>1, <4>1
    <3>2. CASE n # m
      <4>1. n \in 1..(m - 1) /\ n - 1 \in 0..(m - 1) /\ n \in 0..(m - 1)
        BY SMTT(60), <2>3, <3>2
      <4>2. f[n - 1] \in W[n - 1] /\ f[n] = G[n][f[n - 1]]
        BY ZenonT(90), <2>4, <4>1
      <4> QED
        BY <2>5, <4>1, <4>2
    <3> QED
      BY <3>1, <3>2
  <2>9. h[0] = a
    BY SMTT(60), <2>3, <2>4, <2>5
  <2>10. Good(m, h)
    BY ZenonT(90), <2>6, <2>7, <2>8, <2>9
  <2> HIDE DEF Good
  <2> QED
    BY <2>1, <2>10
<1>3. PICK f : Good(N, f)
  <2> HIDE DEF Good
  <2> QED
    BY <1>2
<1> QED
  BY ZenonT(90), <1>3

-----------------------------------------------------------------------------
(* The tree: types, link counts and directories.                              *)

(* An inode and a disk have their fields.                                     *)
IsInode(ip) ==
  /\ ip = [type |-> ip.type, nlink |-> ip.nlink, data |-> ip.data, blocks |-> ip.blocks, ind |-> ip.ind]
  /\ ip.nlink \in Int /\ IsSeq(ip.data)

IsDisk(d) ==
  /\ d = [ino |-> d.ino, used |-> d.used, panic |-> d.panic]
  /\ d.ino = [i \in Inum |-> d.ino[i]]
  /\ \A i \in Inum : IsInode(d.ino[i])

(* Nothing but the blocks differs.                                            *)
SameInode(d, e, i) ==
  /\ e.ino[i].type = d.ino[i].type /\ e.ino[i].nlink = d.ino[i].nlink /\ e.ino[i].data = d.ino[i].data

LEMMA PanicIs ==
  ASSUME NEW d, IsDisk(d), NEW why, why # "no"
  PROVE  IsDisk(Panic(d, why)) /\ Panic(d, why).panic # "no" /\ Panic(d, why).ino = d.ino
         /\ Panic(d, why).used = d.used
BY DEF IsDisk, Panic

LEMMA IupdateIs ==
  ASSUME NEW d, IsDisk(d), NEW i \in Inum, NEW ip, IsInode(ip)
  PROVE  LET e == Iupdate(d, i, ip) IN
         /\ IsDisk(e) /\ e.panic = d.panic /\ e.used = d.used
         /\ \A j \in Inum : e.ino[j] = IF j = i THEN ip ELSE d.ino[j]
<1> DEFINE x == [d.ino EXCEPT ![i] = ip]
           e == Iupdate(d, i, ip)
<1>1. d = [ino |-> d.ino, used |-> d.used, panic |-> d.panic] /\ d.ino = [j \in Inum |-> d.ino[j]]
      /\ \A j \in Inum : IsInode(d.ino[j])
  BY DEF IsDisk
<1>2. x = [j \in Inum |-> x[j]] /\ \A j \in Inum : x[j] = IF j = i THEN ip ELSE d.ino[j]
  BY <1>1
<1>3. e = [d EXCEPT !.ino = x]
  BY DEF Iupdate
<1> HIDE DEF x, e
<1>4. e = [ino |-> x, used |-> d.used, panic |-> d.panic]
  BY <1>1, <1>3
<1>5. e.ino = x /\ e.used = d.used /\ e.panic = d.panic
  BY <1>4
<1>6. IsDisk(e)
  BY <1>1, <1>2, <1>4, <1>5 DEF IsDisk
<1> QED BY <1>2, <1>5, <1>6 DEF e

LEMMA AddLinksIs ==
  ASSUME NEW d, IsDisk(d), NEW i \in Inum, NEW n \in Int
  PROVE  LET e == AddLinks(d, i, n) IN
         /\ IsDisk(e) /\ e.panic = d.panic
         /\ \A j \in Inum : e.ino[j].type = d.ino[j].type /\ e.ino[j].data = d.ino[j].data
         /\ \A j \in Inum : e.ino[j].nlink = IF j = i THEN d.ino[j].nlink + n ELSE d.ino[j].nlink
<1> DEFINE ip == [d.ino[i] EXCEPT !.nlink = @ + n]
<1>1. IsInode(d.ino[i])
  BY DEF IsDisk
<1>2. ip.type = d.ino[i].type /\ ip.nlink = d.ino[i].nlink + n /\ ip.data = d.ino[i].data /\ IsInode(ip)
  BY <1>1 DEF IsInode
<1>3. AddLinks(d, i, n) = Iupdate(d, i, ip)
  BY DEF AddLinks
<1> HIDE DEF ip
<1> QED BY SMTT(60), <1>2, <1>3, IupdateIs

Typed(d) ==
  /\ IsDisk(d)
  /\ \A i \in Inum : LET ip == d.ino[i] IN
       /\ ip.type \in {"none", "dir", "file", "dev"} /\ ip.nlink \in Nat
       /\ Len(ip.data) <= MAXFILE * BSIZE
       /\ ip.type = "none" => ip.nlink = 0 /\ ip.data = <<>>

(* What is in a lost directory, or in one without links, is lost; and nothing *)
(* is in a directory that has no name.                                        *)
Orphans(d, L) ==
  \A dp \in Dirs(d) : dp \in L \/ d.ino[dp].nlink = 0 =>
    \A k \in Entries(d, dp) : d.ino[dp].data[k].inum \in L

Nameless(d, L) == \A dp \in Dirs(d) \ (L \cup {ROOTINO}) : Names(d, dp) = {} => Entries(d, dp) = {}

Tree(d, L) ==
  /\ Typed(d) /\ LinkCounts(d, L) /\ Directories(d) /\ TreeShape(d, L)
  /\ Orphans(d, L) /\ Nameless(d, L)

Sub(d, i) == IF i \in Dirs(d) THEN Subdirs(d, i) ELSE {}
Own(i)    == IF i = ROOTINO THEN 1 ELSE 0

NameIn(d, dp, k, i) == dp \in Dirs(d) /\ k \in Entries(d, dp) /\ d.ino[dp].data[k].inum = i

LEMMA NamesAre ==
  ASSUME NEW d, NEW i
  PROVE  /\ \A x \in Names(d, i) : x = <<x[1], x[2]>>
         /\ \A dp, k : <<dp, k>> \in Names(d, i) <=> NameIn(d, dp, k, i)
BY DEF Names, NameIn

(* Two sets of names are told apart by their pairs.                           *)
LEMMA NamesEqual ==
  ASSUME NEW S, NEW T, \A x \in S : x = <<x[1], x[2]>>, \A x \in T : x = <<x[1], x[2]>>,
         \A a, b : <<a, b>> \in S <=> <<a, b>> \in T
  PROVE  S = T
<1>1. ASSUME NEW x \in S PROVE x \in T
  <2>1. PICK a, b : x = <<a, b>>
    OBVIOUS
  <2> QED
    BY <2>1
<1>2. ASSUME NEW x \in T PROVE x \in S
  <2>1. PICK a, b : x = <<a, b>>
    OBVIOUS
  <2> QED
    BY <2>1
<1> QED
  BY <1>1, <1>2

LEMMA NamesSame ==
  ASSUME NEW d, NEW e, NEW i, \A dp, k : NameIn(e, dp, k, i) <=> NameIn(d, dp, k, i)
  PROVE  Names(e, i) = Names(d, i)
<1>1. (\A x \in Names(e, i) : x = <<x[1], x[2]>>) /\ \A x \in Names(d, i) : x = <<x[1], x[2]>>
  BY NamesAre
<1>2. \A dp, k : <<dp, k>> \in Names(e, i) <=> <<dp, k>> \in Names(d, i)
  BY ZenonT(90), NamesAre
<1> QED
  BY <1>1, <1>2, NamesEqual

WithName(S, a, b)    == S \cup {<<a, b>>}
WithoutName(S, a, b) == S \ {<<a, b>>}

LEMMA NamesMore ==
  ASSUME NEW d, NEW e, NEW i, NEW a, NEW b,
         \A dp, k : NameIn(e, dp, k, i) <=> NameIn(d, dp, k, i) \/ (dp = a /\ k = b)
  PROVE  Names(e, i) = WithName(Names(d, i), a, b)
<1> DEFINE T == Names(d, i) \cup {<<a, b>>}
<1>1. \A x \in Names(e, i) : x = <<x[1], x[2]>>
  BY NamesAre
<1>2. \A x \in T : x = <<x[1], x[2]>>
  BY NamesAre
<1>3. \A dp, k : <<dp, k>> \in Names(e, i) <=> <<dp, k>> \in T
  <2>1. \A dp, k : <<dp, k>> = <<a, b>> <=> dp = a /\ k = b
    OBVIOUS
  <2> QED
    BY ZenonT(90), <2>1, NamesAre
<1> HIDE DEF T
<1>4. Names(e, i) = T
  BY <1>1, <1>2, <1>3, NamesEqual
<1> QED
  BY <1>4 DEF T, WithName

LEMMA NamesLess ==
  ASSUME NEW d, NEW e, NEW i, NEW a, NEW b,
         \A dp, k : NameIn(e, dp, k, i) <=> NameIn(d, dp, k, i) /\ ~(dp = a /\ k = b)
  PROVE  Names(e, i) = WithoutName(Names(d, i), a, b)
<1> DEFINE T == Names(d, i) \ {<<a, b>>}
<1>1. \A x \in Names(e, i) : x = <<x[1], x[2]>>
  BY NamesAre
<1>2. \A x \in T : x = <<x[1], x[2]>>
  BY NamesAre
<1>3. \A dp, k : <<dp, k>> \in Names(e, i) <=> <<dp, k>> \in T
  <2>1. \A dp, k : <<dp, k>> = <<a, b>> <=> dp = a /\ k = b
    OBVIOUS
  <2> QED
    BY ZenonT(90), <2>1, NamesAre
<1> HIDE DEF T
<1>4. Names(e, i) = T
  BY <1>1, <1>2, <1>3, NamesEqual
<1> QED
  BY <1>4 DEF T, WithoutName

LEMMA SizeIs ==
  ASSUME NEW d, Typed(d), NEW i \in Inum
  PROVE  Size(d, i) \in Nat /\ Size(d, i) <= MAXFILE * BSIZE /\ IsSeq(d.ino[i].data)
<1>1. IsSeq(d.ino[i].data) /\ Len(d.ino[i].data) <= MAXFILE * BSIZE
  BY ZenonT(90) DEF Typed, IsDisk, IsInode
<1>2. ASSUME NEW x, IsSeq(x) PROVE Len(x) \in Nat
  BY <1>2 DEF IsSeq
<1> QED
  BY <1>1, <1>2 DEF Size

LEMMA NamesFinite ==
  ASSUME NEW d, Typed(d), NEW i \in Inum
  PROVE  /\ IsFiniteSet(Names(d, i)) /\ Cardinality(Names(d, i)) \in Nat
         /\ IsFiniteSet(Sub(d, i)) /\ Cardinality(Sub(d, i)) \in Nat
<1> DEFINE max == MAXFILE * BSIZE
<1>1. max \in Nat
  BY DiskAssumption DEF MAXFILE
<1>2. \A j \in Inum : Len(d.ino[j].data) \in Nat /\ Len(d.ino[j].data) <= max
  BY DEF Typed, IsDisk, IsInode, IsSeq
<1> HIDE DEF max
<1>3. IsFiniteSet(1..max) /\ IsFiniteSet(Inum)
  BY <1>1, FS_Interval, DiskAssumption DEF Inum
<1>4. IsFiniteSet(Inum \X (1..max))
  BY ZenonT(90), <1>3, FS_Product
<1>5. \A j \in Inum : Entries(d, j) \subseteq 1..max
  BY <1>1, <1>2 DEF Entries, Size
<1>6. Names(d, i) \in SUBSET (Inum \X (1..max))
  BY <1>5, NamesAre DEF Dirs, NameIn
<1>7. Sub(d, i) \in SUBSET (1..max)
  BY <1>5 DEF Sub, Subdirs
<1>8. IsFiniteSet(Names(d, i)) /\ IsFiniteSet(Sub(d, i))
  BY ZenonT(90), <1>3, <1>4, <1>6, <1>7, FS_Subset
<1> QED
  BY <1>8, FS_CardinalityType

LEMMA LinksAre ==
  ASSUME NEW d, NEW i
  PROVE  Links(d, i) = Cardinality(Names(d, i)) + Cardinality(Sub(d, i)) + Own(i)
BY DEF Links, Sub, Own

(* Only files and devices differ, and in their data alone.                    *)
LEMMA SameTree ==
  ASSUME NEW d, NEW L, Tree(d, L), NEW e, Typed(e),
         \A i \in Inum : e.ino[i].type = d.ino[i].type /\ e.ino[i].nlink = d.ino[i].nlink,
         \A i \in Inum : d.ino[i].type = "dir" => e.ino[i].data = d.ino[i].data
  PROVE  /\ Tree(e, L)
         /\ \A i \in Inum : Names(e, i) = Names(d, i)
<1>1. Dirs(e) = Dirs(d) /\ Allocated(e) = Allocated(d)
  BY DEF Dirs, Allocated, FreeInodes
<1>2. \A dp \in Dirs(d) : Entries(e, dp) = Entries(d, dp) /\ Size(e, dp) = Size(d, dp) /\ dp \in Inum
  BY ZenonT(90) DEF Dirs, Entries, Size
<1>3. \A dp \in Dirs(d) : e.ino[dp].data = d.ino[dp].data /\ e.ino[dp].nlink = d.ino[dp].nlink
  BY DEF Dirs
<1>4. ASSUME NEW i PROVE Names(e, i) = Names(d, i) /\ Sub(e, i) = Sub(d, i)
  <2>1. \A dp, k : NameIn(e, dp, k, i) <=> NameIn(d, dp, k, i)
    BY <1>1, <1>2, <1>3 DEF NameIn
  <2>2. Names(e, i) = Names(d, i)
    BY <2>1, NamesSame
  <2>3. Sub(e, i) = Sub(d, i)
    BY ZenonT(90), <1>1, <1>2, <1>3 DEF Sub, Subdirs
  <2> QED
    BY <2>2, <2>3
<1>5. LinkCounts(e, L)
  BY <1>1, <1>4, LinksAre DEF Tree, LinkCounts, Allocated
<1>6. Directories(e) /\ TreeShape(e, L) /\ Orphans(e, L) /\ Nameless(e, L)
  BY SMTT(60), <1>1, <1>2, <1>3, <1>4 DEF Tree, Directories, TreeShape, Orphans, Nameless
<1> QED
  BY <1>4, <1>5, <1>6 DEF Tree

(* More inodes are lost: directories among them had been removed.             *)
LEMMA MoreLost ==
  ASSUME NEW d, NEW L, Tree(d, L), NEW X,
         \A dp \in X \cap Dirs(d) : dp \in L \/ d.ino[dp].nlink = 0
  PROVE  Tree(d, L \cup X)
BY DEF Tree, LinkCounts, TreeShape, Orphans, Nameless

(* An inode without a type or a name does not matter.                         *)
LEMMA FewerLost ==
  ASSUME NEW d, NEW L, Tree(d, L)
  PROVE  Tree(d, L \ FreeInodes(d))
<1>1. \A i \in Allocated(d) : i \in L <=> i \in L \ FreeInodes(d)
  BY DEF Allocated
<1>2. \A dp \in Dirs(d) : dp \in Allocated(d)
  BY DEF Dirs, Allocated, FreeInodes
<1>3. \A dp \in Dirs(d) : \A k \in Entries(d, dp) : d.ino[dp].data[k].inum \in Allocated(d)
  BY DEF Tree, Directories
<1>4. LinkCounts(d, L \ FreeInodes(d))
  BY <1>1 DEF Tree, LinkCounts
<1>5. TreeShape(d, L \ FreeInodes(d)) /\ Nameless(d, L \ FreeInodes(d))
  BY <1>1, <1>2 DEF Tree, TreeShape, Nameless
<1>6. Orphans(d, L \ FreeInodes(d))
  BY <1>1, <1>2, <1>3 DEF Tree, Orphans
<1> QED
  BY <1>4, <1>5, <1>6 DEF Tree

(* ialloc(): inode i, so far free, is a file, or a directory with nothing in  *)
(* it; it has no name yet.                                                    *)
LEMMA NewInode ==
  ASSUME NEW d, NEW L, Tree(d, L), NEW i \in Inum, d.ino[i].type = "none", NEW e, Typed(e),
         \A j \in Inum \ {i} : SameInode(d, e, j),
         e.ino[i].nlink = 0, e.ino[i].type # "none",
         e.ino[i].type = "dir" =>
           /\ Size(e, i) = 2 /\ e.ino[i].data[1] = Dirent(".", i)
           /\ e.ino[i].data[2].name = ".." /\ e.ino[i].data[2].inum \in Inum
  PROVE  /\ Tree(e, L)
         /\ \A j \in Inum : Names(e, j) = Names(d, j)
         /\ Names(e, i) = {} /\ i # ROOTINO
<1>1. i # ROOTINO /\ i \notin Dirs(d) /\ i \notin Allocated(d)
  BY DEF Tree, Directories, Dirs, Allocated, FreeInodes
<1>2. /\ Dirs(e) = Dirs(d) \cup (IF e.ino[i].type = "dir" THEN {i} ELSE {})
      /\ Allocated(e) = Allocated(d) \cup {i}
  BY DEF Dirs, Allocated, FreeInodes, SameInode
<1>3. \A dp \in Dirs(d) : /\ Entries(e, dp) = Entries(d, dp) /\ e.ino[dp].data = d.ino[dp].data
                          /\ e.ino[dp].nlink = d.ino[dp].nlink /\ Size(e, dp) = Size(d, dp)
  BY ZenonT(90), <1>1 DEF Dirs, Entries, Size, SameInode
<1>4. i \in Dirs(e) => Entries(e, i) = {}
  BY DEF Dirs, Entries, Dirent
<1>5. ASSUME NEW j PROVE Names(e, j) = Names(d, j)
  <2>1. \A dp, k : NameIn(e, dp, k, j) <=> NameIn(d, dp, k, j)
    BY <1>1, <1>2, <1>3, <1>4 DEF NameIn
  <2> QED
    BY <2>1, NamesSame
<1>6. \A dp \in Dirs(d) : \A k \in Entries(d, dp) : d.ino[dp].data[k].inum \in Allocated(d) \ {dp, ROOTINO}
  BY DEF Tree, Directories
<1>7. Names(e, i) = {}
  <2>1. \A dp, k : ~NameIn(d, dp, k, i)
    BY <1>1, <1>6 DEF NameIn
  <2>2. \A dp, k : <<dp, k>> \notin Names(d, i)
    BY ZenonT(90), <2>1, NamesAre
  <2>3. Names(d, i) = {}
    BY <2>2, NamesAre
  <2> QED
    BY <1>5, <2>3
<1>8. ASSUME NEW j, j # i PROVE Sub(e, j) = Sub(d, j)
  <2>1. CASE j \in Dirs(d)
    <3>1. Entries(e, j) = Entries(d, j) /\ e.ino[j].data = d.ino[j].data
      BY <1>3, <2>1
    <3>2. \A k \in Entries(d, j) : d.ino[j].data[k].inum # i
      BY SMTT(60), <1>1, <1>6, <2>1
    <3>3. Subdirs(e, j) = Subdirs(d, j)
      BY <1>2, <3>1, <3>2 DEF Subdirs
    <3> QED
      BY <1>2, <2>1, <3>3 DEF Sub
  <2>2. CASE j \notin Dirs(d)
    BY <1>2, <1>8, <2>2 DEF Sub
  <2> QED
    BY <2>1, <2>2
<1>9. Sub(e, i) = {}
  BY <1>4 DEF Sub, Subdirs
<1>10. LinkCounts(e, L)
  <2>1. ASSUME NEW j \in Allocated(d)
        PROVE  Links(e, j) = Links(d, j) /\ e.ino[j].nlink = d.ino[j].nlink
    BY <1>1, <1>5, <1>8, LinksAre DEF Allocated, SameInode
  <2>2. Links(e, i) = 0
    BY SMTT(60), <1>1, <1>7, <1>9, LinksAre, FS_EmptySet DEF Own
  <2> QED
    BY <1>2, <2>1, <2>2 DEF Tree, LinkCounts
<1>11. Directories(e)
  BY SMTT(60), <1>1, <1>2, <1>3, <1>4, <1>6 DEF Tree, Directories, Dirs
<1>12. TreeShape(e, L)
  BY SMTT(60), <1>1, <1>2, <1>3, <1>5, <1>7 DEF Tree, TreeShape
<1>13. Orphans(e, L) /\ Nameless(e, L)
  BY <1>1, <1>2, <1>3, <1>4, <1>5 DEF Tree, Orphans, Nameless
<1> QED
  BY SMTT(60), <1>1, <1>5, <1>7, <1>10, <1>11, <1>12, <1>13 DEF Tree

(* iput(): inode i, without links, is freed.                                  *)
LEMMA InodeFreed ==
  ASSUME NEW d, NEW L, Tree(d, L), NEW i \in Inum, d.ino[i].nlink = 0, d.ino[i].type # "none",
         NEW e, Typed(e), \A j \in Inum \ {i} : SameInode(d, e, j), e.ino[i].type = "none"
  PROVE  /\ Tree(e, L)
         /\ \A j \in Inum \ L : Names(e, j) = Names(d, j)
<1>1. Names(d, i) = {} /\ Sub(d, i) = {} /\ i # ROOTINO
  <2>1. i \in Allocated(d)
    BY DEF Allocated, FreeInodes
  <2>2. d.ino[i].nlink >= Cardinality(Names(d, i)) + Cardinality(Sub(d, i)) + Own(i)
    BY <2>1, LinksAre DEF Tree, LinkCounts
  <2>3. /\ IsFiniteSet(Names(d, i)) /\ Cardinality(Names(d, i)) \in Nat
        /\ IsFiniteSet(Sub(d, i)) /\ Cardinality(Sub(d, i)) \in Nat
    BY NamesFinite DEF Tree
  <2>4. Cardinality(Names(d, i)) = 0 /\ Cardinality(Sub(d, i)) = 0 /\ i # ROOTINO
    BY <2>2, <2>3 DEF Own
  <2> QED
    BY <2>3, <2>4, FS_EmptySet
<1>2. Dirs(e) = Dirs(d) \ {i} /\ Allocated(e) = Allocated(d) \ {i}
  BY DEF Dirs, Allocated, FreeInodes, SameInode
<1>3. \A dp \in Dirs(e) : /\ Entries(e, dp) = Entries(d, dp) /\ e.ino[dp].data = d.ino[dp].data
                          /\ e.ino[dp].nlink = d.ino[dp].nlink /\ Size(e, dp) = Size(d, dp)
                          /\ dp \in Dirs(d) /\ dp # i
  BY SMTT(60), <1>2 DEF Dirs, Entries, Size, SameInode
<1>4. \A dp, k, j : NameIn(e, dp, k, j) <=> NameIn(d, dp, k, j) /\ dp # i
  BY <1>2, <1>3 DEF NameIn
<1>5. ASSUME NEW j \in Inum \ L PROVE Names(e, j) = Names(d, j)
  <2>1. \A k : ~NameIn(d, i, k, j)
    BY DEF Tree, Orphans, NameIn
  <2>2. \A dp, k : NameIn(e, dp, k, j) <=> NameIn(d, dp, k, j)
    BY <1>4, <2>1
  <2> QED
    BY <2>2, NamesSame
<1>6. ASSUME NEW j \in Inum
      PROVE  Cardinality(Names(e, j)) <= Cardinality(Names(d, j)) /\ Cardinality(Names(e, j)) \in Nat
  <2>1. Names(e, j) \in SUBSET Names(d, j)
    <3>1. \A dp, k : <<dp, k>> \in Names(e, j) => <<dp, k>> \in Names(d, j)
      BY <1>4, NamesAre
    <3>2. \A x \in Names(e, j) : x = <<x[1], x[2]>>
      BY NamesAre
    <3>3. ASSUME NEW x \in Names(e, j) PROVE x \in Names(d, j)
      <4>1. PICK a, b : x = <<a, b>>
        BY <3>2
      <4> QED
        BY <3>1, <4>1
    <3> QED
      BY <3>3
  <2>2. IsFiniteSet(Names(d, j))
    BY NamesFinite DEF Tree
  <2> QED
    BY <2>1, <2>2, FS_Subset, NamesFinite
<1>7. \A dp \in Dirs(e) : \A k \in Entries(e, dp) : d.ino[dp].data[k].inum # i
  <2>1. \A dp, k : ~NameIn(d, dp, k, i)
    BY ZenonT(90), <1>1, NamesAre
  <2> QED
    BY <1>3, <2>1 DEF NameIn
<1>8. \A j : j # i => Sub(e, j) = Sub(d, j)
  BY ZenonT(90), <1>2, <1>3, <1>7 DEF Sub, Subdirs
<1>9. LinkCounts(e, L)
  <2>1. ASSUME NEW j \in Allocated(e)
        PROVE  e.ino[j].nlink >= Links(e, j) /\ (j \notin L => e.ino[j].nlink = Links(e, j))
    <3>1. j \in Allocated(d) /\ j # i /\ j \in Inum /\ e.ino[j].nlink = d.ino[j].nlink
      BY <1>2 DEF Allocated, SameInode
    <3>2. d.ino[j].nlink >= Links(d, j) /\ (j \notin L => d.ino[j].nlink = Links(d, j)) /\ d.ino[j].nlink \in Nat
      BY <3>1 DEF Tree, LinkCounts, Typed
    <3>3. /\ Links(d, j) = Cardinality(Names(d, j)) + Cardinality(Sub(d, j)) + Own(j)
          /\ Links(e, j) = Cardinality(Names(e, j)) + Cardinality(Sub(d, j)) + Own(j)
      BY <1>8, <3>1, LinksAre
    <3>4. Cardinality(Names(d, j)) \in Nat /\ Cardinality(Sub(d, j)) \in Nat /\ Own(j) \in Nat
      BY <3>1, NamesFinite DEF Tree, Own
    <3> QED
      BY <1>5, <1>6, <3>1, <3>2, <3>3, <3>4
  <2> QED
    BY <2>1 DEF LinkCounts
<1>10. Directories(e)
  BY SMTT(60), <1>1, <1>2, <1>3, <1>7 DEF Tree, Directories
<1>11. TreeShape(e, L)
  BY <1>2, <1>3, <1>5 DEF Tree, TreeShape, Dirs
<1>12. Orphans(e, L) /\ Nameless(e, L)
  BY <1>2, <1>3, <1>5 DEF Tree, Orphans, Nameless, Dirs
<1> QED
  BY <1>5, <1>9, <1>10, <1>11, <1>12 DEF Tree

(* An entry for inode i at slot s of directory dp: e has it where d had none, *)
(* and the links it makes; d has it where e has none, and the links that go   *)
(* with it.  An inode that may get an entry, and what an entry loses.         *)
EntryAt(d, e, dp, i, s) ==
  /\ s \in Nat /\ s >= 3 /\ s \notin Entries(d, dp)
  /\ \A k \in Nat : k \in 1..Size(e, dp) <=> k \in 1..Size(d, dp) \/ k = s
  /\ \A k \in 1..Size(e, dp) : k # s => e.ino[dp].data[k] = d.ino[dp].data[k]
  /\ e.ino[dp].data[s].inum = i

LinksUp(d, e, dp, i) ==
  \A j \in Inum : /\ e.ino[j].type = d.ino[j].type
                  /\ j # dp => e.ino[j].data = d.ino[j].data
                  /\ e.ino[j].nlink = d.ino[j].nlink + (IF j = i THEN 1 ELSE 0)
                                      + (IF j = dp /\ i \in Dirs(d) THEN 1 ELSE 0)

EntryGone(d, e, dp, s) ==
  /\ Size(e, dp) = Size(d, dp)
  /\ \A k \in 1..Size(e, dp) : k # s => e.ino[dp].data[k] = d.ino[dp].data[k]
  /\ e.ino[dp].data[s].inum = 0

LinksDown(d, e, dp, i) ==
  \A j \in Inum : /\ e.ino[j].type = d.ino[j].type
                  /\ j # dp => e.ino[j].data = d.ino[j].data
                  /\ e.ino[j].nlink = d.ino[j].nlink - (IF j = i THEN 1 ELSE 0)
                                      - (IF j = dp /\ i \in Dirs(d) THEN 1 ELSE 0)

MayEnter(d, dp, i) ==
  /\ i \in Allocated(d) /\ i # dp /\ i # ROOTINO
  /\ i \in Dirs(d) => Names(d, i) = {} /\ Entries(d, i) = {} /\ d.ino[i].data[2].inum = dp

LostBy(d, L, dp, i) == L \cup (IF dp \in L \/ d.ino[dp].nlink = 0 THEN {dp, i} ELSE {})

NamesButOf(d, e, i) == \A j \in Inum : j # i => Names(e, j) = Names(d, j)

(* dirlink(): directory dp gets an entry for inode i, whose count goes up;    *)
(* if dp had been removed, both are lost.                                     *)
LEMMA NewEntry ==
  ASSUME NEW d, NEW L, Tree(d, L), NEW dp \in Dirs(d), NEW i, MayEnter(d, dp, i),
         NEW s, NEW e, Typed(e), EntryAt(d, e, dp, i, s), LinksUp(d, e, dp, i)
  PROVE  Tree(e, LostBy(d, L, dp, i)) /\ NamesButOf(d, e, i) /\ Names(e, i) # {}
<1>a. /\ i \in Allocated(d) /\ i # dp /\ i # ROOTINO
      /\ i \in Dirs(d) => Names(d, i) = {} /\ Entries(d, i) = {} /\ d.ino[i].data[2].inum = dp
  BY DEF MayEnter
<1>b. /\ s \in Nat /\ s >= 3 /\ s \notin Entries(d, dp)
      /\ \A k \in Nat : k \in 1..Size(e, dp) <=> k \in 1..Size(d, dp) \/ k = s
      /\ \A k \in 1..Size(e, dp) : k # s => e.ino[dp].data[k] = d.ino[dp].data[k]
      /\ e.ino[dp].data[s].inum = i
  BY DEF EntryAt
<1>c. \A j \in Inum : /\ e.ino[j].type = d.ino[j].type
                      /\ j # dp => e.ino[j].data = d.ino[j].data
                      /\ e.ino[j].nlink = d.ino[j].nlink + (IF j = i THEN 1 ELSE 0)
                                          + (IF j = dp /\ i \in Dirs(d) THEN 1 ELSE 0)
  BY DEF LinksUp
<1> DEFINE X == IF dp \in L \/ d.ino[dp].nlink = 0 THEN {dp, i} ELSE {}
<1>1. dp \in Inum /\ i \in Inum /\ i # 0
  BY <1>a DEF Dirs, Allocated, Inum
<1>2. Dirs(e) = Dirs(d) /\ Allocated(e) = Allocated(d)
  BY <1>c DEF Dirs, Allocated, FreeInodes
<1>3. \A a \in Dirs(d) : a # dp => /\ Entries(e, a) = Entries(d, a) /\ e.ino[a].data = d.ino[a].data
                                  /\ Size(e, a) = Size(d, a)
  BY ZenonT(90), <1>c DEF Dirs, Entries, Size
<1>4. Size(e, dp) \in Nat /\ Size(d, dp) \in Nat /\ Size(d, dp) >= 2 /\ s \in 1..Size(e, dp)
  <2>1. Size(e, dp) \in Nat /\ Size(d, dp) \in Nat /\ Size(d, dp) >= 2
    BY <1>1, SizeIs DEF Tree, Directories
  <2> QED
    BY <1>b, <2>1
<1>5. Entries(e, dp) = Entries(d, dp) \cup {s}
  <2>1. ASSUME NEW k \in Entries(e, dp) PROVE k \in Entries(d, dp) \cup {s}
    BY <1>b, <1>4 DEF Entries
  <2>2. ASSUME NEW k \in Entries(d, dp) PROVE k \in Entries(e, dp)
    <3>1. k \in Nat /\ k >= 3 /\ k <= Size(d, dp) /\ k # s /\ d.ino[dp].data[k].inum # 0
      BY <1>b, <1>4 DEF Entries
    <3>2. k \in 1..Size(e, dp)
      BY <1>b, <1>4, <3>1
    <3>3. e.ino[dp].data[k] = d.ino[dp].data[k]
      BY <1>b, <3>1, <3>2
    <3> QED
      BY <1>4, <3>1, <3>2, <3>3 DEF Entries
  <2>3. s \in Entries(e, dp)
    BY <1>b, <1>1, <1>4 DEF Entries
  <2> QED
    BY <2>1, <2>2, <2>3
<1>6. \A k \in Entries(d, dp) : e.ino[dp].data[k] = d.ino[dp].data[k]
  <2>1. \A k \in Entries(d, dp) : k \in 1..Size(e, dp) /\ k # s
    BY <1>b, <1>4, <1>5 DEF Entries
  <2> QED
    BY <1>b, <2>1
<1>7. e.ino[dp].data[1] = d.ino[dp].data[1] /\ e.ino[dp].data[2] = d.ino[dp].data[2]
  BY <1>b, <1>4
<1>8. ASSUME NEW a, NEW k, NEW j
      PROVE  NameIn(e, a, k, j) <=> NameIn(d, a, k, j) \/ (a = dp /\ k = s /\ j = i)
  <2>1. CASE a = dp
    BY <1>b, <1>2, <1>5, <1>6, <2>1 DEF NameIn
  <2>2. CASE a # dp
    <3>1. a \in Dirs(d) => Entries(e, a) = Entries(d, a) /\ e.ino[a].data = d.ino[a].data
      BY <1>3, <2>2
    <3> QED
      BY <1>2, <2>2, <3>1 DEF NameIn
  <2> QED
    BY <2>1, <2>2
<1>9. ASSUME NEW j, j # i PROVE Names(e, j) = Names(d, j)
  BY <1>8, <1>9, NamesSame
<1>10. Names(e, i) = Names(d, i) \cup {<<dp, s>>} /\ <<dp, s>> \notin Names(d, i)
  <2>1. \A a, k : NameIn(e, a, k, i) <=> NameIn(d, a, k, i) \/ (a = dp /\ k = s)
    BY <1>8
  <2>2. Names(e, i) = Names(d, i) \cup {<<dp, s>>}
    <3>1. Names(e, i) = WithName(Names(d, i), dp, s)
      BY <2>1, NamesMore
    <3> QED
      BY <3>1 DEF WithName
  <2>3. ~NameIn(d, dp, s, i)
    BY <1>b DEF NameIn
  <2> QED
    BY <2>2, <2>3, NamesAre
<1>11. ASSUME NEW j, j # dp PROVE Sub(e, j) = Sub(d, j)
  BY ZenonT(90), <1>2, <1>3, <1>11 DEF Sub, Subdirs
<1>12. Sub(e, dp) = Sub(d, dp) \cup (IF i \in Dirs(d) THEN {s} ELSE {}) /\ s \notin Sub(d, dp)
  <2>1. Subdirs(e, dp) = Subdirs(d, dp) \cup (IF i \in Dirs(d) THEN {s} ELSE {})
    BY <1>b, <1>2, <1>5, <1>6 DEF Subdirs
  <2> QED
    BY <1>b, <1>2, <2>1 DEF Sub, Subdirs
<1>13. ASSUME NEW j \in Inum
       PROVE  /\ Cardinality(Names(e, j)) = Cardinality(Names(d, j)) + (IF j = i THEN 1 ELSE 0)
              /\ Cardinality(Sub(e, j)) = Cardinality(Sub(d, j)) + (IF j = dp /\ i \in Dirs(d) THEN 1 ELSE 0)
              /\ Cardinality(Names(d, j)) \in Nat /\ Cardinality(Sub(d, j)) \in Nat
  <2>1. /\ IsFiniteSet(Names(d, j)) /\ Cardinality(Names(d, j)) \in Nat
        /\ IsFiniteSet(Sub(d, j)) /\ Cardinality(Sub(d, j)) \in Nat
    BY NamesFinite DEF Tree
  <2>2. Cardinality(Names(e, j)) = Cardinality(Names(d, j)) + (IF j = i THEN 1 ELSE 0)
    <3>1. CASE j = i
      BY SMTT(60), <1>10, <2>1, <3>1, FS_AddElement
    <3>2. CASE j # i
      BY <1>9, <2>1, <3>2
    <3> QED
      BY <3>1, <3>2
  <2>3. Cardinality(Sub(e, j)) = Cardinality(Sub(d, j)) + (IF j = dp /\ i \in Dirs(d) THEN 1 ELSE 0)
    <3>1. CASE j = dp /\ i \in Dirs(d)
      BY <1>12, <2>1, <3>1, FS_AddElement
    <3>2. CASE ~(j = dp /\ i \in Dirs(d))
      <4>1. Sub(e, j) = Sub(d, j)
        BY <1>11, <1>12, <3>2
      <4> QED
        BY <2>1, <3>2, <4>1
    <3> QED
      BY <3>1, <3>2
  <2> QED
    BY <2>1, <2>2, <2>3
<1>14. LinkCounts(e, L)
  <2>1. ASSUME NEW j \in Allocated(d)
        PROVE  e.ino[j].nlink >= Links(e, j) /\ (j \notin L => e.ino[j].nlink = Links(e, j))
    <3>1. j \in Inum
      BY DEF Allocated
    <3>2. /\ d.ino[j].nlink >= Links(d, j) /\ (j \notin L => d.ino[j].nlink = Links(d, j))
          /\ d.ino[j].nlink \in Nat /\ Own(j) \in Nat
      BY <3>1 DEF Tree, LinkCounts, Typed, Own
    <3>3. /\ Links(d, j) = Cardinality(Names(d, j)) + Cardinality(Sub(d, j)) + Own(j)
          /\ Links(e, j) = Cardinality(Names(e, j)) + Cardinality(Sub(e, j)) + Own(j)
      BY LinksAre
    <3>4. e.ino[j].nlink = d.ino[j].nlink + (IF j = i THEN 1 ELSE 0) + (IF j = dp /\ i \in Dirs(d) THEN 1 ELSE 0)
      BY SMTT(60), <1>c, <3>1
    <3> QED
      BY <1>13, <3>1, <3>2, <3>3, <3>4
  <2> QED
    BY <1>2, <2>1 DEF LinkCounts
<1>15. Directories(e)
  <2>1. ASSUME NEW a \in Dirs(d)
        PROVE  /\ Size(e, a) >= 2 /\ e.ino[a].data[1] = d.ino[a].data[1] /\ e.ino[a].data[2] = d.ino[a].data[2]
               /\ \A k \in Entries(e, a) : e.ino[a].data[k].inum \in Allocated(d) \ {a, ROOTINO}
    <3>1. Size(d, a) >= 2 /\ \A k \in Entries(d, a) : d.ino[a].data[k].inum \in Allocated(d) \ {a, ROOTINO}
      BY DEF Tree, Directories
    <3>2. CASE a = dp
      <4>1. Size(e, dp) >= 2
        BY <1>b, <1>4
      <4> QED
        BY SMTT(60), <1>a, <1>b, <1>5, <1>6, <1>7, <3>1, <3>2, <4>1
    <3>3. CASE a # dp
      BY <1>3, <3>1, <3>3
    <3> QED
      BY <3>2, <3>3
  <2> QED
    BY SMTT(60), <1>2, <2>1 DEF Tree, Directories
<1>16. TreeShape(e, L)
  <2>1. \A a \in Dirs(d) : e.ino[a].data[2] = d.ino[a].data[2]
    BY <1>3, <1>7
  <2>2. ASSUME i \in Dirs(d) PROVE Names(e, i) = {<<dp, s>>} /\ <<dp, s>>[1] = dp
    BY <1>a, <1>10, <2>2
  <2> QED
    BY SMTT(60), <1>a, <1>2, <1>9, <2>1, <2>2 DEF Tree, TreeShape
<1>17. LinkCounts(e, L \cup X) /\ TreeShape(e, L \cup X)
  BY <1>14, <1>16 DEF LinkCounts, TreeShape
<1>18. \A j \in Dirs(d) : e.ino[j].nlink = 0 => d.ino[j].nlink = 0
  <2>1. \A j \in Inum : d.ino[j].nlink \in Nat
    BY SMTT(60) DEF Tree, Typed
  <2> QED
    BY <1>c, <2>1 DEF Dirs
<1>19. Orphans(e, L \cup X)
  <2> SUFFICES ASSUME NEW a \in Dirs(d), a \in L \cup X \/ e.ino[a].nlink = 0, NEW k \in Entries(e, a)
               PROVE  e.ino[a].data[k].inum \in L \cup X
    BY <1>2 DEF Orphans
  <2>1. a \in X => a = i \/ a = dp
    OBVIOUS
  <2>2. a = dp => X = {dp, i}
    BY <1>18
  <2>3. a # i
    <3> SUFFICES ASSUME a = i PROVE FALSE
      OBVIOUS
    <3>1. Entries(e, i) = {}
      BY <1>a, <1>3
    <3> QED
      BY <3>1
  <2>4. a \in L \/ d.ino[a].nlink = 0
    BY <1>18, <2>1, <2>3
  <2>5. \A n \in Entries(d, a) : d.ino[a].data[n].inum \in L
    BY SMTT(60), <2>4 DEF Tree, Orphans
  <2>6. CASE a = dp
    <3>1. CASE k = s
      BY <1>b, <2>2, <2>6, <3>1
    <3>2. CASE k # s
      BY <1>5, <1>6, <2>5, <2>6, <3>2
    <3> QED
      BY <3>1, <3>2
  <2>7. CASE a # dp
    BY <1>3, <2>5, <2>7
  <2> QED
    BY SMTT(60), <2>6, <2>7
<1>20. Nameless(e, L \cup X)
  <2> SUFFICES ASSUME NEW a \in Dirs(d), a \notin L \cup X, a # ROOTINO, Names(e, a) = {}
               PROVE  Entries(e, a) = {}
    BY <1>2 DEF Nameless
  <2>1. a # i
    BY <1>10
  <2>2. Names(d, a) = {} /\ Entries(d, a) = {}
    BY <1>9, <2>1 DEF Tree, Nameless
  <2>3. a # dp
    <3> SUFFICES ASSUME a = dp PROVE FALSE
      OBVIOUS
    <3>1. d.ino[a].nlink # 0 /\ a \in Allocated(d) /\ a \in Inum
      BY DEF Dirs, Allocated, FreeInodes
    <3>2. d.ino[a].nlink = Cardinality(Names(d, a)) + Cardinality(Sub(d, a)) + Own(a)
      BY <3>1, LinksAre DEF Tree, LinkCounts
    <3>3. Sub(d, a) = {}
      BY <2>2 DEF Sub, Subdirs
    <3>4. Cardinality(Names(d, a)) = 0 /\ Cardinality(Sub(d, a)) = 0
      BY <2>2, <3>3, FS_EmptySet
    <3> QED
      BY <3>1, <3>2, <3>4 DEF Own
  <2> QED
    BY <1>3, <2>2, <2>3
<1> HIDE DEF X
<1>21. Tree(e, L \cup X)
  BY SMTT(60), <1>15, <1>17, <1>19, <1>20 DEF Tree
<1> QED
  BY <1>9, <1>10, <1>21 DEF X, LostBy, NamesButOf

(* What an entry names has that link, and a directory one of its subdirectory.*)
LEMMA EntryLinks ==
  ASSUME NEW d, NEW L, Tree(d, L), NEW dp \in Dirs(d), NEW s \in Entries(d, dp)
  PROVE  LET i == d.ino[dp].data[s].inum IN
         /\ i \in Allocated(d) /\ i \in Inum /\ i # dp /\ i # ROOTINO
         /\ d.ino[i].nlink >= 1
         /\ i \in Dirs(d) => d.ino[dp].nlink >= 1
         /\ i \in Dirs(d) /\ dp \notin L => d.ino[dp].nlink >= 2
         /\ <<dp, s>> \in Names(d, i) /\ (i \in Dirs(d) => s \in Sub(d, dp))
<1> DEFINE i == d.ino[dp].data[s].inum
<1>1. i \in Allocated(d) /\ i \in Inum /\ i # dp /\ i # ROOTINO /\ dp \in Inum /\ dp \in Allocated(d)
  BY DEF Tree, Directories, Allocated, Dirs, FreeInodes
<1>2. <<dp, s>> \in Names(d, i) /\ (i \in Dirs(d) => s \in Sub(d, dp))
  <2>1. NameIn(d, dp, s, i)
    BY DEF NameIn
  <2> QED
    BY <2>1, NamesAre DEF Sub, Subdirs
<1> HIDE DEF i
<1>3. ASSUME NEW j \in {i, dp}
      PROVE  /\ d.ino[j].nlink >= Cardinality(Names(d, j)) + Cardinality(Sub(d, j)) + Own(j)
             /\ j \notin L => d.ino[j].nlink = Cardinality(Names(d, j)) + Cardinality(Sub(d, j)) + Own(j)
             /\ d.ino[j].nlink \in Nat /\ Own(j) \in Nat
             /\ IsFiniteSet(Names(d, j)) /\ Cardinality(Names(d, j)) \in Nat
             /\ IsFiniteSet(Sub(d, j)) /\ Cardinality(Sub(d, j)) \in Nat
  <2>1. j \in Allocated(d) /\ j \in Inum
    BY <1>1
  <2>2. d.ino[j].nlink >= Links(d, j) /\ (j \notin L => d.ino[j].nlink = Links(d, j)) /\ d.ino[j].nlink \in Nat
    BY <2>1 DEF Tree, LinkCounts, Typed
  <2> QED
    BY <2>1, <2>2, LinksAre, NamesFinite DEF Tree, Own
<1>4. Cardinality(Names(d, i)) >= 1
  BY <1>2, <1>3, FS_EmptySet
<1>5. i \in Dirs(d) => Cardinality(Sub(d, dp)) >= 1
  BY <1>2, <1>3, FS_EmptySet
<1>6. ASSUME dp \notin L PROVE Cardinality(Names(d, dp)) >= 1 \/ dp = ROOTINO
  <2>1. dp # ROOTINO => Names(d, dp) # {}
    BY <1>6 DEF Tree, Nameless
  <2> QED
    BY <1>3, <2>1, FS_EmptySet
<1>7. d.ino[i].nlink >= 1
  BY <1>3, <1>4
<1>8. i \in Dirs(d) => d.ino[dp].nlink >= 1
  BY <1>3, <1>5
<1>9. i \in Dirs(d) /\ dp \notin L => d.ino[dp].nlink >= 2
  BY SMTT(60), <1>3, <1>5, <1>6 DEF Own
<1> QED
  BY SMTT(60), <1>1, <1>2, <1>7, <1>8, <1>9 DEF i

(* unlink(): an entry of dp goes, and a link of what it named; a directory    *)
(* that goes was empty.                                                       *)
LEMMA EntryRemoved ==
  ASSUME NEW d, NEW L, Tree(d, L), NEW dp \in Dirs(d), NEW s \in Entries(d, dp),
         NEW i, i = d.ino[dp].data[s].inum, i \in Dirs(d) => Entries(d, i) = {},
         NEW e, Typed(e), EntryGone(d, e, dp, s), LinksDown(d, e, dp, i)
  PROVE  Tree(e, L) /\ NamesButOf(d, e, i)
<1>b. /\ Size(e, dp) = Size(d, dp)
      /\ \A k \in 1..Size(e, dp) : k # s => e.ino[dp].data[k] = d.ino[dp].data[k]
      /\ e.ino[dp].data[s].inum = 0
  BY DEF EntryGone
<1>c. \A j \in Inum : /\ e.ino[j].type = d.ino[j].type
                      /\ j # dp => e.ino[j].data = d.ino[j].data
                      /\ e.ino[j].nlink = d.ino[j].nlink - (IF j = i THEN 1 ELSE 0)
                                          - (IF j = dp /\ i \in Dirs(d) THEN 1 ELSE 0)
  BY ONLY SMTT(60), LinksDown(d, e, dp, i) DEF LinksDown
<1>1. /\ i \in Allocated(d) /\ i \in Inum /\ i # dp /\ i # ROOTINO
      /\ i \in Dirs(d) /\ dp \notin L => d.ino[dp].nlink >= 2
      /\ <<dp, s>> \in Names(d, i) /\ (i \in Dirs(d) => s \in Sub(d, dp))
  BY EntryLinks
<1>2. Dirs(e) = Dirs(d) /\ Allocated(e) = Allocated(d) /\ dp \in Inum
  BY ONLY dp \in Dirs(d), <1>c DEF Dirs, Allocated, FreeInodes
<1>3. \A a \in Dirs(d) : a # dp => /\ Entries(e, a) = Entries(d, a) /\ e.ino[a].data = d.ino[a].data
                                  /\ Size(e, a) = Size(d, a)
  BY ONLY ZenonT(90), <1>c DEF Dirs, Entries, Size
<1>4. Size(d, dp) \in Nat /\ Size(d, dp) >= 2 /\ s \in 3..Size(d, dp)
  BY ONLY dp \in Dirs(d), s \in Entries(d, dp), Tree(d, L), <1>2, SizeIs DEF Tree, Directories, Entries
<1>5. Entries(e, dp) = Entries(d, dp) \ {s}
  BY ONLY SMTT(60), <1>b, <1>4 DEF Entries
<1>6. \A k \in Entries(e, dp) : e.ino[dp].data[k] = d.ino[dp].data[k]
  BY <1>b, <1>4, <1>5 DEF Entries
<1>7. e.ino[dp].data[1] = d.ino[dp].data[1] /\ e.ino[dp].data[2] = d.ino[dp].data[2]
  BY <1>b, <1>4
<1>8. ASSUME NEW a, NEW k, NEW j
      PROVE  NameIn(e, a, k, j) <=> NameIn(d, a, k, j) /\ ~(a = dp /\ k = s)
  <2>1. CASE a = dp
    BY <1>2, <1>5, <1>6, <2>1 DEF NameIn
  <2>2. CASE a # dp
    <3>1. a \in Dirs(d) => Entries(e, a) = Entries(d, a) /\ e.ino[a].data = d.ino[a].data
      BY <1>3, <2>2
    <3> QED
      BY <1>2, <2>2, <3>1 DEF NameIn
  <2> QED
    BY <2>1, <2>2
<1>9. ASSUME NEW j, j # i PROVE Names(e, j) = Names(d, j)
  <2>1. ~NameIn(d, dp, s, j)
    BY <1>9 DEF NameIn
  <2>2. \A a, k : NameIn(e, a, k, j) <=> NameIn(d, a, k, j)
    BY <1>8, <2>1
  <2> QED
    BY <2>2, NamesSame
<1>10. Names(e, i) = Names(d, i) \ {<<dp, s>>}
  <2>1. \A a, k : NameIn(e, a, k, i) <=> NameIn(d, a, k, i) /\ ~(a = dp /\ k = s)
    BY <1>8
  <2>2. Names(e, i) = WithoutName(Names(d, i), dp, s)
    BY SMTT(60), <2>1, NamesLess
  <2> QED
    BY <2>2 DEF WithoutName
<1>11. ASSUME NEW j, j # dp PROVE Sub(e, j) = Sub(d, j)
  BY ZenonT(90), <1>2, <1>3, <1>11 DEF Sub, Subdirs
<1>12. Sub(e, dp) = Sub(d, dp) \ (IF i \in Dirs(d) THEN {s} ELSE {})
  <2>1. Subdirs(e, dp) = Subdirs(d, dp) \ (IF i \in Dirs(d) THEN {s} ELSE {})
    BY <1>2, <1>5, <1>6 DEF Subdirs
  <2> QED
    BY <1>2, <2>1 DEF Sub, Subdirs
<1>13. ASSUME NEW j \in Inum
       PROVE  /\ Cardinality(Names(e, j)) = Cardinality(Names(d, j)) - (IF j = i THEN 1 ELSE 0)
              /\ Cardinality(Sub(e, j)) = Cardinality(Sub(d, j)) - (IF j = dp /\ i \in Dirs(d) THEN 1 ELSE 0)
              /\ Cardinality(Names(d, j)) \in Nat /\ Cardinality(Sub(d, j)) \in Nat
  <2>1. /\ IsFiniteSet(Names(d, j)) /\ Cardinality(Names(d, j)) \in Nat
        /\ IsFiniteSet(Sub(d, j)) /\ Cardinality(Sub(d, j)) \in Nat
    BY SMTT(60), NamesFinite DEF Tree
  <2>2. Cardinality(Names(e, j)) = Cardinality(Names(d, j)) - (IF j = i THEN 1 ELSE 0)
    <3>1. CASE j = i
      <4>1. <<dp, s>> \in Names(d, j) /\ Names(e, j) = Names(d, j) \ {<<dp, s>>}
        BY <1>1, <1>10, <3>1
      <4> QED
        BY ONLY ZenonT(90), <2>1, <3>1, <4>1, FS_RemoveElement
    <3>2. CASE j # i
      BY SMTT(60), <1>9, <2>1, <3>2
    <3> QED
      BY <3>1, <3>2
  <2>3. Cardinality(Sub(e, j)) = Cardinality(Sub(d, j)) - (IF j = dp /\ i \in Dirs(d) THEN 1 ELSE 0)
    <3>1. CASE j = dp /\ i \in Dirs(d)
      BY <1>1, <1>12, <2>1, <3>1, FS_RemoveElement
    <3>2. CASE ~(j = dp /\ i \in Dirs(d))
      <4>1. Sub(e, j) = Sub(d, j)
        BY SMTT(60), <1>11, <1>12, <3>2
      <4> QED
        BY <2>1, <3>2, <4>1
    <3> QED
      BY SMTT(60), <3>1, <3>2
  <2> QED
    BY <2>1, <2>2, <2>3
<1>14. LinkCounts(e, L)
  <2>1. ASSUME NEW j \in Allocated(d)
        PROVE  e.ino[j].nlink >= Links(e, j) /\ (j \notin L => e.ino[j].nlink = Links(e, j))
    <3>1. j \in Inum
      BY SMTT(60) DEF Allocated
    <3>2. /\ d.ino[j].nlink >= Links(d, j) /\ (j \notin L => d.ino[j].nlink = Links(d, j))
          /\ d.ino[j].nlink \in Nat /\ Own(j) \in Nat
      BY <3>1 DEF Tree, LinkCounts, Typed, Own
    <3>3. /\ Links(d, j) = Cardinality(Names(d, j)) + Cardinality(Sub(d, j)) + Own(j)
          /\ Links(e, j) = Cardinality(Names(e, j)) + Cardinality(Sub(e, j)) + Own(j)
      BY SMTT(60), LinksAre
    <3>4. e.ino[j].nlink = d.ino[j].nlink - (IF j = i THEN 1 ELSE 0) - (IF j = dp /\ i \in Dirs(d) THEN 1 ELSE 0)
      BY SMTT(60), <1>c, <3>1
    <3> QED
      BY <1>13, <3>1, <3>2, <3>3, <3>4
  <2> QED
    BY <1>2, <2>1 DEF LinkCounts
<1>15. Directories(e)
  <2>1. ASSUME NEW a \in Dirs(d)
        PROVE  /\ Size(e, a) >= 2 /\ e.ino[a].data[1] = d.ino[a].data[1] /\ e.ino[a].data[2] = d.ino[a].data[2]
               /\ \A k \in Entries(e, a) : e.ino[a].data[k].inum \in Allocated(d) \ {a, ROOTINO}
    <3>1. Size(d, a) >= 2 /\ \A k \in Entries(d, a) : d.ino[a].data[k].inum \in Allocated(d) \ {a, ROOTINO}
      BY SMTT(60) DEF Tree, Directories
    <3>2. CASE a = dp
      BY SMTT(60), <1>b, <1>5, <1>6, <1>7, <3>1, <3>2
    <3>3. CASE a # dp
      BY SMTT(60), <1>3, <3>1, <3>3
    <3> QED
      BY <3>2, <3>3
  <2> QED
    BY SMTT(60), <1>2, <2>1 DEF Tree, Directories
<1>16. TreeShape(e, L)
  <2>1. \A a \in Dirs(d) : e.ino[a].data[2] = d.ino[a].data[2]
    BY <1>3, <1>7
  <2>2. \A a \in Dirs(d) \ L : a # ROOTINO => \A x \in Names(d, a) : Names(d, a) = {x} /\ d.ino[a].data[2].inum = x[1]
    BY SMTT(60) DEF Tree, TreeShape
  <2>3. ASSUME i \in Dirs(d) \ L PROVE Names(e, i) = {}
    BY SMTT(60), <1>1, <1>10, <2>2, <2>3
  <2> QED
    BY SMTT(60), <1>1, <1>2, <1>9, <2>1, <2>3 DEF Tree, TreeShape
<1>17. Orphans(e, L)
  <2> SUFFICES ASSUME NEW a \in Dirs(d), a \in L \/ e.ino[a].nlink = 0, NEW k \in Entries(e, a)
               PROVE  e.ino[a].data[k].inum \in L
    BY SMTT(60), <1>2 DEF Orphans
  <2>1. a # i
    <3> SUFFICES ASSUME a = i PROVE FALSE
      BY Zenon
    <3>1. Entries(e, i) = {}
      BY <1>1, <1>3
    <3> QED
      BY <3>1
  <2>2. a \in L \/ d.ino[a].nlink = 0
    <3>1. a \in Inum /\ d.ino[a].nlink \in Nat
      BY DEF Dirs, Tree, Typed
    <3>2. CASE a = dp
      BY ONLY SMTT(60), a \in L \/ e.ino[a].nlink = 0, <1>c, <1>1, <2>1, <3>1, <3>2
    <3>3. CASE a # dp
      BY <1>c, <2>1, <3>1, <3>3
    <3> QED
      BY SMTT(60), <3>2, <3>3
  <2>3. \A n \in Entries(d, a) : d.ino[a].data[n].inum \in L
    BY <2>2 DEF Tree, Orphans
  <2>4. CASE a = dp
    BY <1>5, <1>6, <2>3, <2>4
  <2>5. CASE a # dp
    BY <1>3, <2>3, <2>5
  <2> QED
    BY SMTT(60), <2>4, <2>5
<1>18. Nameless(e, L)
  <2> SUFFICES ASSUME NEW a \in Dirs(d), a \notin L, a # ROOTINO, Names(e, a) = {}
               PROVE  Entries(e, a) = {}
    BY <1>2 DEF Nameless
  <2>1. Entries(d, a) = {}
    BY <1>9 DEF Tree, Nameless
  <2> QED
    BY <1>3, <1>5, <2>1
<1> QED
  BY SMTT(60), <1>9, <1>14, <1>15, <1>16, <1>17, <1>18 DEF Tree, NamesButOf

-----------------------------------------------------------------------------
(* What the operations do to types, link counts and data.                     *)

LEMMA MaxIs ==
  ASSUME NEW a \in Int, NEW b \in Int
  PROVE  Max({a, b}) = IF a >= b THEN a ELSE b
<1> DEFINE m == IF a >= b THEN a ELSE b
<1>1. m \in {a, b} /\ \A y \in {a, b} : m >= y
  OBVIOUS
<1>2. \A x \in {a, b} : (\A y \in {a, b} : x >= y) => x = m
  OBVIOUS
<1> HIDE DEF m
<1>3. Max({a, b}) = m
  BY <1>1, <1>2 DEF Max
<1> QED
  BY <1>3 DEF m

LEMMA MinIs ==
  ASSUME NEW a \in Int, NEW b \in Int
  PROVE  Min({a, b}) = IF a <= b THEN a ELSE b
<1> DEFINE m == IF a <= b THEN a ELSE b
<1>1. m \in {a, b} /\ \A y \in {a, b} : m <= y
  OBVIOUS
<1>2. \A x \in {a, b} : (\A y \in {a, b} : x <= y) => x = m
  OBVIOUS
<1> HIDE DEF m
<1>3. Min({a, b}) = m
  BY <1>1, <1>2 DEF Min
<1> QED
  BY <1>3 DEF m

LEMMA SeqIs ==
  ASSUME NEW s, IsSeq(s)
  PROVE  Len(s) \in Nat /\ s = [k \in 1..Len(s) |-> s[k]] /\ DOMAIN s = 1..Len(s)
BY DEF IsSeq

LEMMA FcnIsSeq ==
  ASSUME NEW n \in Nat, NEW s, s = [k \in 1..n |-> s[k]]
  PROVE  IsSeq(s) /\ Len(s) = n
<1>1. DOMAIN s = 1..n
  OBVIOUS
<1> DEFINE T == {s[k] : k \in DOMAIN s}
<1>2. \A k \in 1..n : s[k] \in T
  BY <1>1
<1> HIDE DEF T
<1>3. s \in [1..n -> T]
  BY <1>2
<1>4. s \in Seq(T)
  BY <1>3
<1>5. Len(s) = n
  BY <1>1
<1> QED
  BY <1>4, <1>5 DEF IsSeq, T

(* An inode is given other blocks, or other data, or another type.            *)
WithBlocks(ip, x, y) == [ip EXCEPT !.blocks = x, !.ind = y]
WithData(ip, x)      == [ip EXCEPT !.data = x]
WithType(ip, x)      == [ip EXCEPT !.type = x]

LEMMA InodeWith ==
  ASSUME NEW ip, IsInode(ip), NEW x, NEW y
  PROVE  /\ LET jp == WithBlocks(ip, x, y) IN
              /\ IsInode(jp) /\ jp.type = ip.type /\ jp.nlink = ip.nlink /\ jp.data = ip.data
              /\ jp.blocks = x /\ jp.ind = y
         /\ IsSeq(x) => LET jp == WithData(ip, x) IN
              /\ IsInode(jp) /\ jp.type = ip.type /\ jp.nlink = ip.nlink /\ jp.data = x
              /\ jp.blocks = ip.blocks /\ jp.ind = ip.ind
         /\ LET jp == WithType(ip, x) IN
              /\ IsInode(jp) /\ jp.type = x /\ jp.nlink = ip.nlink /\ jp.data = ip.data
              /\ jp.blocks = ip.blocks /\ jp.ind = ip.ind
<1>1. ip = [type |-> ip.type, nlink |-> ip.nlink, data |-> ip.data, blocks |-> ip.blocks, ind |-> ip.ind]
      /\ ip.nlink \in Int /\ IsSeq(ip.data)
  BY DEF IsInode
<1>2. WithBlocks(ip, x, y) = [type |-> ip.type, nlink |-> ip.nlink, data |-> ip.data, blocks |-> x, ind |-> y]
  <2> DEFINE a == [ip EXCEPT !.blocks = x]
  <2>1. a = [type |-> ip.type, nlink |-> ip.nlink, data |-> ip.data, blocks |-> x, ind |-> ip.ind]
    BY <1>1
  <2>2. WithBlocks(ip, x, y) = [a EXCEPT !.ind = y]
    BY DEF WithBlocks
  <2> HIDE DEF a
  <2>3. [a EXCEPT !.ind = y] = [type |-> ip.type, nlink |-> ip.nlink, data |-> ip.data, blocks |-> x, ind |-> y]
    BY <2>1
  <2> QED
    BY <2>2, <2>3
<1>3. WithData(ip, x) = [type |-> ip.type, nlink |-> ip.nlink, data |-> x, blocks |-> ip.blocks, ind |-> ip.ind]
  BY <1>1 DEF WithData
<1>4. WithType(ip, x) = [type |-> x, nlink |-> ip.nlink, data |-> ip.data, blocks |-> ip.blocks, ind |-> ip.ind]
  BY <1>1 DEF WithType
<1> QED
  BY <1>1, <1>2, <1>3, <1>4 DEF IsInode

(* bmap(): blocks are added.                                                  *)
LEMMA GrowIs ==
  ASSUME NEW d, IsDisk(d), NEW i \in Inum, NEW size
  PROVE  LET e == Grow(d, i, size) IN
         /\ IsDisk(e) /\ (e.panic = "no" => d.panic = "no")
         /\ \A j \in Inum : SameInode(d, e, j)
<1> DEFINE ip     == d.ino[i]
           have   == Len(ip.blocks)
           need   == Max({have, CeilDiv(size, BSIZE)}) - have
           indir  == ip.ind = 0 /\ have + need > NDIRECT
           before == Max({0, NDIRECT - have})
           n      == need + (IF indir THEN 1 ELSE 0)
           taken  == Balloc(d, n)
           x      == ip.blocks \o IF indir THEN RemoveAt(taken, before + 1) ELSE taken
           y      == IF indir THEN taken[before + 1] ELSE ip.ind
           u      == d.used \cup ToSet(taken)
           d1     == [d EXCEPT !.used = u]
           jp     == WithBlocks(ip, x, y)
           e      == Grow(d, i, size)
<1>1. e = IF Cardinality(FreeBlocks(d)) < n THEN Panic(d, "balloc: out of blocks") ELSE Iupdate(d1, i, jp)
  BY DEF Grow, WithBlocks
<1>2. IsInode(ip)
  BY DEF IsDisk
<1> HIDE DEF e, x, y, u, n, taken, have, need, indir, before
<1>3. IsDisk(d1) /\ d1.panic = d.panic /\ d1.ino = d.ino
  BY DEF IsDisk
<1> HIDE DEF d1, ip
<1>4. IsInode(jp) /\ jp.type = ip.type /\ jp.nlink = ip.nlink /\ jp.data = ip.data
  BY <1>2, InodeWith
<1> HIDE DEF jp
<1>5. CASE e = Panic(d, "balloc: out of blocks")
  <2>0. "balloc: out of blocks" # "no"
    OBVIOUS
  <2>1. PICK why : why = "balloc: out of blocks" /\ why # "no"
    BY <2>0, ZenonT(90)
  <2>2. IsDisk(e) /\ e.panic # "no" /\ e.ino = d.ino
    BY ZenonT(90), <1>5, <2>1, PanicIs
  <2> QED
    BY <2>2 DEF e, SameInode
<1>6. CASE e = Iupdate(d1, i, jp)
  <2>1. IsDisk(e) /\ e.panic = d1.panic /\ \A j \in Inum : e.ino[j] = IF j = i THEN jp ELSE d1.ino[j]
    BY <1>3, <1>4, <1>6, IupdateIs
  <2> QED
    BY <1>3, <1>4, <2>1 DEF SameInode, ip, e
<1> QED
  BY ZenonT(90), <1>1, <1>5, <1>6

(* writei(): units u are in the file from off on.                             *)
LEMMA WriteiIs ==
  ASSUME NEW d, IsDisk(d), NEW i \in Inum, NEW off \in Nat, NEW u, IsSeq(u)
  PROVE  LET e == Writei(d, i, off, u) IN
         /\ IsDisk(e) /\ (e.panic = "no" => d.panic = "no")
         /\ \A j \in Inum \ {i} : SameInode(d, e, j)
         /\ e.ino[i].type = d.ino[i].type /\ e.ino[i].nlink = d.ino[i].nlink
         /\ Size(e, i) = IF off + Len(u) > Size(d, i) THEN off + Len(u) ELSE Size(d, i)
         /\ \A k \in 1..Size(e, i) : e.ino[i].data[k] =
              IF k > off /\ k <= off + Len(u) THEN u[k - off] ELSE d.ino[i].data[k]
<1> DEFINE end == off + Len(u)
           g == Grow(d, i, end)
           n == Max({end, Size(d, i)})
           x == [k \in 1..n |-> IF k \in (off + 1)..end THEN u[k - off] ELSE d.ino[i].data[k]]
           jp == WithData(g.ino[i], x)
           e == Writei(d, i, off, u)
<1>1. e = Iupdate(g, i, jp)
  BY DEF Writei, WithData
<1>2. Len(u) \in Nat /\ end \in Nat
  BY SeqIs
<1>3. Size(d, i) \in Nat
  BY SeqIs DEF IsDisk, IsInode, Size
<1>4. n = (IF end > Size(d, i) THEN end ELSE Size(d, i)) /\ n \in Nat
  BY <1>2, <1>3, MaxIs
<1>5. IsDisk(g) /\ (g.panic = "no" => d.panic = "no") /\ \A j \in Inum : SameInode(d, g, j)
  BY GrowIs
<1> HIDE DEF g, e, n
<1>6. IsSeq(x) /\ Len(x) = n
  BY <1>4, FcnIsSeq
<1>7. \A k \in 1..n : x[k] = IF k > off /\ k <= end THEN u[k - off] ELSE d.ino[i].data[k]
  BY <1>2, <1>4
<1> HIDE DEF x, end
<1>8. IsInode(g.ino[i])
  BY <1>5 DEF IsDisk
<1>9. IsInode(jp) /\ jp.type = g.ino[i].type /\ jp.nlink = g.ino[i].nlink /\ jp.data = x
  BY <1>6, <1>8, InodeWith
<1> HIDE DEF jp
<1>10. IsDisk(e) /\ e.panic = g.panic /\ \A j \in Inum : e.ino[j] = IF j = i THEN jp ELSE g.ino[j]
  BY <1>1, <1>5, <1>9, IupdateIs
<1>11. \A j \in Inum \ {i} : SameInode(d, e, j)
  BY <1>5, <1>10 DEF SameInode
<1>12. e.ino[i].type = d.ino[i].type /\ e.ino[i].nlink = d.ino[i].nlink /\ e.ino[i].data = x
  BY <1>5, <1>9, <1>10 DEF SameInode
<1>13. Size(e, i) = n
  BY <1>6, <1>12 DEF Size
<1> QED
  BY <1>4, <1>5, <1>7, <1>10, <1>11, <1>12, <1>13 DEF e, end

(* itrunc() and iput(): an inode without links and references is freed.       *)
LEMMA ItruncIs ==
  ASSUME NEW d, IsDisk(d), NEW i \in Inum
  PROVE  LET e == Itrunc(d, i) IN
         /\ IsDisk(e) /\ (e.panic = "no" => d.panic = "no")
         /\ \A j \in Inum \ {i} : SameInode(d, e, j)
         /\ e.ino[i].type = d.ino[i].type /\ e.ino[i].nlink = d.ino[i].nlink
         /\ e.panic = "no" => e.ino[i].data = <<>>
<1> DEFINE ip == d.ino[i]
           u  == d.used \ BlocksOf(ip)
           d1 == [d EXCEPT !.used = u]
           a  == WithData(ip, <<>>)
           jp == WithBlocks(a, <<>>, 0)
           e  == Itrunc(d, i)
<1>1. e = IF BlocksOf(ip) \subseteq d.used THEN Iupdate(d1, i, jp) ELSE Panic(d, "freeing free block")
  BY DEF Itrunc, WithData, WithBlocks
<1>2. IsInode(ip) /\ IsSeq(<<>>)
  BY DEF IsDisk, IsSeq
<1> HIDE DEF e, u
<1>3. IsDisk(d1) /\ d1.panic = d.panic /\ d1.ino = d.ino
  BY DEF IsDisk
<1> HIDE DEF d1, ip
<1>4. IsInode(a) /\ a.type = ip.type /\ a.nlink = ip.nlink /\ a.data = <<>>
  BY <1>2, InodeWith
<1> HIDE DEF a
<1>5. IsInode(jp) /\ jp.type = a.type /\ jp.nlink = a.nlink /\ jp.data = a.data
  BY <1>4, InodeWith
<1> HIDE DEF jp
<1>6. CASE e = Panic(d, "freeing free block")
  <2>0. "freeing free block" # "no"
    OBVIOUS
  <2>1. PICK why : why = "freeing free block" /\ why # "no"
    BY <2>0, ZenonT(90)
  <2>2. IsDisk(e) /\ e.panic # "no" /\ e.ino = d.ino
    BY ZenonT(90), <1>6, <2>1, PanicIs
  <2> QED
    BY <2>2 DEF e, SameInode
<1>7. CASE e = Iupdate(d1, i, jp)
  <2>1. IsDisk(e) /\ e.panic = d1.panic /\ \A j \in Inum : e.ino[j] = IF j = i THEN jp ELSE d1.ino[j]
    BY <1>3, <1>5, <1>7, IupdateIs
  <2> QED
    BY <1>3, <1>4, <1>5, <2>1 DEF SameInode, ip, e
<1> QED
  BY ZenonT(90), <1>1, <1>6, <1>7

LEMMA IputIs ==
  ASSUME NEW d, IsDisk(d), NEW i \in Inum, NEW referenced \in BOOLEAN
  PROVE  LET e == Iput(d, i, referenced)
             frees == d.ino[i].nlink = 0 /\ d.ino[i].type # "none" /\ ~referenced IN
         /\ IsDisk(e) /\ (e.panic = "no" => d.panic = "no")
         /\ ~frees => e = d
         /\ \A j \in Inum \ {i} : SameInode(d, e, j)
         /\ frees /\ e.panic = "no" =>
              e.ino[i].type = "none" /\ e.ino[i].nlink = 0 /\ e.ino[i].data = <<>>
<1> DEFINE frees == d.ino[i].nlink = 0 /\ d.ino[i].type # "none" /\ ~referenced
           t  == Itrunc(d, i)
           jp == WithType(t.ino[i], "none")
           e  == Iput(d, i, referenced)
<1>1. e = IF frees THEN Iupdate(t, i, jp) ELSE d
  BY DEF Iput, WithType
<1>2. /\ IsDisk(t) /\ (t.panic = "no" => d.panic = "no")
      /\ \A j \in Inum \ {i} : SameInode(d, t, j)
      /\ t.ino[i].nlink = d.ino[i].nlink
      /\ t.panic = "no" => t.ino[i].data = <<>>
  BY ItruncIs
<1> HIDE DEF t, e
<1>3. IsInode(t.ino[i])
  BY <1>2 DEF IsDisk
<1>4. IsInode(jp) /\ jp.type = "none" /\ jp.nlink = t.ino[i].nlink /\ jp.data = t.ino[i].data
  BY <1>3, InodeWith
<1> HIDE DEF jp
<1>5. CASE frees
  <2>1. IsDisk(e) /\ e.panic = t.panic /\ \A j \in Inum : e.ino[j] = IF j = i THEN jp ELSE t.ino[j]
    BY <1>1, <1>2, <1>4, <1>5, IupdateIs
  <2> QED
    BY <1>2, <1>4, <1>5, <2>1 DEF SameInode, e
<1>6. CASE ~frees
  BY <1>1, <1>6 DEF e, SameInode
<1> QED
  BY <1>5, <1>6

(* ialloc(): the first free inode, if there is one.                           *)
LEMMA IallocIs ==
  ASSUME NEW d, IsDisk(d), NEW type
  PROVE  LET r == Ialloc(d, type) IN
         /\ IsDisk(r.d) /\ (r.d.panic = "no" => d.panic = "no" /\ r.ip # 0)
         /\ r.ip # 0 =>
              /\ r.ip \in Inum /\ d.ino[r.ip].type = "none" /\ r.d.panic = d.panic
              /\ \A j \in Inum : r.d.ino[j] = IF j = r.ip THEN WithType(FreeInode, type) ELSE d.ino[j]
              /\ \A j \in Inum \ {r.ip} : SameInode(d, r.d, j)
              /\ r.d.ino[r.ip].type = type /\ r.d.ino[r.ip].nlink = 0 /\ r.d.ino[r.ip].data = <<>>
<1> DEFINE r == Ialloc(d, type)
           i == Min(FreeInodes(d))
           jp == WithType(FreeInode, type)
<1>1. CASE FreeInodes(d) = {}
  <2>0. "ialloc: no inodes" # "no"
    OBVIOUS
  <2>1. PICK why : why = "ialloc: no inodes" /\ why # "no"
    BY <2>0, ZenonT(90)
  <2>2. r.d = Panic(d, why) /\ r.ip = 0
    BY ZenonT(90), <1>1, <2>1 DEF Ialloc
  <2> HIDE DEF r
  <2>3. IsDisk(r.d) /\ r.d.panic # "no"
    BY ZenonT(90), <2>1, <2>2, PanicIs
  <2> QED
    BY <2>2, <2>3 DEF r
<1>2. CASE FreeInodes(d) # {}
  <2>1. FreeInodes(d) \in SUBSET Nat
    BY DiskAssumption DEF FreeInodes, Inum
  <2>2. i \in FreeInodes(d)
    BY <1>2, <2>1, MinOf
  <2>3. r.d = Iupdate(d, i, jp) /\ r.ip = i
    BY ZenonT(90), <1>2 DEF Ialloc, WithType
  <2>4. i \in Inum /\ d.ino[i].type = "none" /\ i # 0
    BY <2>2 DEF FreeInodes, Inum
  <2>5. IsInode(FreeInode)
    BY DEF IsInode, FreeInode, IsSeq
  <2>6. IsInode(jp) /\ jp.type = type /\ jp.nlink = FreeInode.nlink /\ jp.data = FreeInode.data
    BY <2>5, InodeWith
  <2>7. FreeInode.nlink = 0 /\ FreeInode.data = <<>>
    BY DEF FreeInode
  <2> HIDE DEF r, i, jp
  <2>8. IsDisk(r.d) /\ r.d.panic = d.panic /\ \A j \in Inum : r.d.ino[j] = IF j = i THEN jp ELSE d.ino[j]
    BY <2>3, <2>4, <2>6, IupdateIs
  <2>9. IsDisk(r.d) /\ r.d.panic = d.panic /\ r.ip = i /\ r.ip # 0
    BY <2>3, <2>4, <2>8
  <2>10. \A j \in Inum \ {r.ip} : SameInode(d, r.d, j)
    BY <2>3, <2>8 DEF SameInode
  <2>11. r.d.ino[r.ip].type = type /\ r.d.ino[r.ip].nlink = 0 /\ r.d.ino[r.ip].data = <<>>
    BY <2>3, <2>4, <2>6, <2>7, <2>8
  <2> QED
    BY <2>3, <2>4, <2>8, <2>9, <2>10, <2>11 DEF r, jp
<1> QED
  BY <1>1, <1>2

(* dirlink(): the first empty entry is found, or the end.                     *)
LEMMA EmptySlotIs ==
  ASSUME NEW d, IsDisk(d), NEW dp \in Inum
  PROVE  LET s == EmptySlot(d, dp) IN
         /\ s \in Nat /\ s >= 1 /\ s <= Size(d, dp) + 1
         /\ s <= Size(d, dp) => d.ino[dp].data[s].inum = 0
<1> DEFINE S == {k \in 1..Size(d, dp) : d.ino[dp].data[k].inum = 0} \cup {Size(d, dp) + 1}
<1>1. Size(d, dp) \in Nat
  BY SeqIs DEF IsDisk, IsInode, Size
<1>2. S \in SUBSET Nat /\ S # {}
  BY <1>1
<1>3. \A x \in S : /\ x \in Nat /\ x >= 1 /\ x <= Size(d, dp) + 1
                   /\ x <= Size(d, dp) => d.ino[dp].data[x].inum = 0
  BY <1>1
<1>4. EmptySlot(d, dp) = Min(S)
  BY DEF EmptySlot
<1> HIDE DEF S
<1>5. Min(S) \in S
  BY <1>2, MinOf
<1> QED
  BY <1>3, <1>4, <1>5

LEMMA DirlinkIs ==
  ASSUME NEW d, IsDisk(d), NEW dp \in Inum, NEW name, NEW i
  PROVE  LET e == Dirlink(d, dp, name, i)
             s == EmptySlot(d, dp) IN
         /\ IsDisk(e) /\ (e.panic = "no" => d.panic = "no")
         /\ \A j \in Inum \ {dp} : SameInode(d, e, j)
         /\ e.ino[dp].type = d.ino[dp].type /\ e.ino[dp].nlink = d.ino[dp].nlink
         /\ e.panic = "no" =>
              /\ s <= MAXFILE * BSIZE
              /\ Size(e, dp) = IF s > Size(d, dp) THEN s ELSE Size(d, dp)
              /\ \A k \in 1..Size(e, dp) : k # s => e.ino[dp].data[k] = d.ino[dp].data[k]
              /\ e.ino[dp].data[s] = Dirent(name, i)
<1> DEFINE s == EmptySlot(d, dp)
           u == <<Dirent(name, i)>>
           w == Writei(d, dp, s - 1, u)
           e == Dirlink(d, dp, name, i)
<1>1. e = IF CanWrite(d, dp, s - 1, 1) THEN w ELSE Panic(d, "dirlink")
  BY DEF Dirlink
<1>2. s \in Nat /\ s >= 1 /\ s <= Size(d, dp) + 1
  BY EmptySlotIs
<1>3. Size(d, dp) \in Nat
  BY SeqIs DEF IsDisk, IsInode, Size
<1>4. IsSeq(u) /\ Len(u) = 1 /\ u[1] = Dirent(name, i)
  <2>1. u = [k \in 1..1 |-> u[k]]
    OBVIOUS
  <2>2. u[1] = Dirent(name, i)
    OBVIOUS
  <2> HIDE DEF u
  <2> QED
    BY ZenonT(90), <2>1, <2>2, FcnIsSeq
<1> HIDE DEF e, w, u, s
<1>5. CASE e = Panic(d, "dirlink")
  <2>0. "dirlink" # "no"
    OBVIOUS
  <2>1. PICK why : why = "dirlink" /\ why # "no"
    BY <2>0, ZenonT(90)
  <2>2. IsDisk(e) /\ e.panic # "no" /\ e.ino = d.ino
    BY <1>5, <2>1, PanicIs
  <2> QED
    BY <2>2 DEF e, SameInode
<1>6. CASE e = w /\ CanWrite(d, dp, s - 1, 1)
  <2>1. s - 1 \in Nat
    BY <1>2
  <2>2. /\ IsDisk(w) /\ (w.panic = "no" => d.panic = "no")
        /\ \A j \in Inum \ {dp} : SameInode(d, w, j)
        /\ w.ino[dp].type = d.ino[dp].type /\ w.ino[dp].nlink = d.ino[dp].nlink
        /\ Size(w, dp) = IF (s - 1) + Len(u) > Size(d, dp) THEN (s - 1) + Len(u) ELSE Size(d, dp)
        /\ \A k \in 1..Size(w, dp) : w.ino[dp].data[k] =
             IF k > s - 1 /\ k <= (s - 1) + Len(u) THEN u[k - (s - 1)] ELSE d.ino[dp].data[k]
    <3>1. PICK off \in Nat : off = s - 1
      BY <2>1
    <3>2. w = Writei(d, dp, off, u)
      BY <3>1 DEF w
    <3>3. LET x == Writei(d, dp, off, u) IN
          /\ IsDisk(x) /\ (x.panic = "no" => d.panic = "no")
          /\ \A j \in Inum \ {dp} : SameInode(d, x, j)
          /\ x.ino[dp].type = d.ino[dp].type /\ x.ino[dp].nlink = d.ino[dp].nlink
          /\ Size(x, dp) = IF off + Len(u) > Size(d, dp) THEN off + Len(u) ELSE Size(d, dp)
          /\ \A k \in 1..Size(x, dp) : x.ino[dp].data[k] =
               IF k > off /\ k <= off + Len(u) THEN u[k - off] ELSE d.ino[dp].data[k]
      <4>1. IsSeq(u)
        BY <1>4
      <4> QED
        BY ONLY IsDisk(d), dp \in Inum, off \in Nat, <4>1, WriteiIs
    <3> QED
      BY <3>1, <3>2, <3>3
  <2>3. Size(w, dp) = IF s > Size(d, dp) THEN s ELSE Size(d, dp)
    BY <1>2, <1>4, <2>2
  <2>4. \A k \in 1..Size(w, dp) : k # s => w.ino[dp].data[k] = d.ino[dp].data[k]
    BY <1>2, <1>3, <1>4, <2>2, <2>3
  <2>5. w.ino[dp].data[s] = u[1]
    <3>1. s \in 1..Size(w, dp)
      BY <1>2, <1>3, <2>3
    <3>2. s > s - 1 /\ s <= (s - 1) + Len(u) /\ s - (s - 1) = 1
      BY <1>2, <1>4
    <3> QED
      BY <2>2, <3>1, <3>2
  <2>6. s <= MAXFILE * BSIZE
    <3>1. MAXFILE * BSIZE \in Nat
      BY DiskAssumption DEF MAXFILE
    <3> QED
      BY <1>2, <1>6, <3>1 DEF CanWrite
  <2> QED
    BY <1>4, <1>6, <2>2, <2>3, <2>4, <2>5, <2>6 DEF e, s
<1> QED
  BY <1>1, <1>5, <1>6

-----------------------------------------------------------------------------
(* Blocks.                                                                    *)

LEMMA DivGrows ==
  ASSUME NEW a \in Nat, NEW b \in Nat, a <= b, NEW m \in Nat \ {0}
  PROVE  a \div m \in Nat /\ b \div m \in Nat /\ a \div m <= b \div m
<1> DEFINE q == a \div m
           r == b \div m
<1>1. q \in Nat /\ m * q <= a
  OBVIOUS
<1>2. r \in Nat /\ b < m * r + m
  OBVIOUS
<1> HIDE DEF q, r
<1>3. ASSUME r < q PROVE FALSE
  <2>1. PICK k \in Nat : q = r + 1 + k
    <3>1. q - r - 1 \in Nat /\ q = r + 1 + (q - r - 1)
      BY <1>1, <1>2, <1>3
    <3> QED
      BY <3>1
  <2>2. m * q = m * r + m + m * k
    BY <1>2, <2>1
  <2>3. m * k \in Nat /\ m * r \in Nat
    BY <1>2, <2>1
  <2> QED
    BY <1>1, <1>2, <2>2, <2>3
<1> QED
  BY <1>1, <1>2, <1>3 DEF q, r

LEMMA CeilDivGrows ==
  ASSUME NEW a \in Nat, NEW b \in Nat, a <= b
  PROVE  /\ CeilDiv(a, BSIZE) \in Nat /\ CeilDiv(b, BSIZE) \in Nat
         /\ CeilDiv(a, BSIZE) <= CeilDiv(b, BSIZE)
<1>1. a + BSIZE - 1 \in Nat /\ b + BSIZE - 1 \in Nat /\ a + BSIZE - 1 <= b + BSIZE - 1 /\ BSIZE \in Nat \ {0}
  BY DiskAssumption
<1> QED
  BY <1>1, DivGrows DEF CeilDiv

(* A sequence of n different elements of S.                                   *)
Distinct(S, n) ==
  {s \in Seq(S) : /\ Len(s) = n /\ \A a, b \in 1..n : s[a] = s[b] => a = b
                  /\ IsFiniteSet(ToSet(s)) /\ Cardinality(ToSet(s)) <= n}

LEMMA OneMoreBlock ==
  ASSUME NEW S \in SUBSET Nat, NEW n \in Nat, NEW s \in Distinct(S, n), IsFiniteSet(S), Cardinality(S) > n
  PROVE  Append(s, Min(S \ ToSet(s))) \in Distinct(S, n + 1)
<1> DEFINE x == Min(S \ ToSet(s))
           t == Append(s, x)
<1>1. /\ s \in Seq(S) /\ Len(s) = n /\ \A a, b \in 1..n : s[a] = s[b] => a = b
      /\ IsFiniteSet(ToSet(s)) /\ Cardinality(ToSet(s)) <= n
  BY DEF Distinct
<1>2. S \ ToSet(s) # {}
  <2> SUFFICES ASSUME S \ ToSet(s) = {} PROVE FALSE
    OBVIOUS
  <2>1. S \subseteq ToSet(s)
    OBVIOUS
  <2>2. Cardinality(S) <= Cardinality(ToSet(s))
    BY <1>1, <2>1, FS_Subset
  <2>3. Cardinality(S) \in Nat /\ Cardinality(ToSet(s)) \in Nat
    BY <1>1, FS_CardinalityType
  <2> QED
    BY <1>1, <2>2, <2>3
<1>3. x \in S /\ x \notin ToSet(s)
  <2>1. S \ ToSet(s) \in SUBSET Nat
    BY ZenonT(90)
  <2>2. x \in S \ ToSet(s)
    BY <1>2, <2>1, MinOf
  <2> QED
    BY <2>2
<1> HIDE DEF x
<1>4. t \in Seq(S) /\ Len(t) = n + 1 /\ t[n + 1] = x /\ \A a \in 1..n : t[a] = s[a]
  BY <1>1, <1>3
<1>5. \A a \in 1..n : s[a] \in ToSet(s)
  BY <1>1 DEF ToSet
<1>6. \A a, b \in 1..(n + 1) : t[a] = t[b] => a = b
  <2> HIDE DEF t
  <2> QED
    BY <1>1, <1>3, <1>4, <1>5
<1>7. ToSet(t) = ToSet(s) \cup {x}
  <2>1. DOMAIN t = 1..(n + 1) /\ DOMAIN s = 1..n
    BY <1>1, <1>4
  <2> HIDE DEF t
  <2> QED
    BY <1>4, <2>1 DEF ToSet
<1>8. IsFiniteSet(ToSet(t)) /\ Cardinality(ToSet(t)) <= n + 1
  <2>1. IsFiniteSet(ToSet(s) \cup {x}) /\ Cardinality(ToSet(s) \cup {x}) = Cardinality(ToSet(s)) + 1
    BY <1>1, <1>3, FS_AddElement
  <2>2. Cardinality(ToSet(s)) \in Nat
    BY <1>1, FS_CardinalityType
  <2> HIDE DEF t
  <2> QED
    BY <1>1, <1>7, <2>1, <2>2
<1> HIDE DEF t
<1>9. t \in Distinct(S, n + 1)
  BY <1>4, <1>6, <1>8 DEF Distinct
<1> QED
  BY <1>9 DEF t, x

(* balloc(), n times: n different free blocks, if there are as many.          *)
LEMMA BallocIs ==
  ASSUME NEW d, NEW n \in Nat, n <= Cardinality(FreeBlocks(d))
  PROVE  Balloc(d, n) \in Distinct(FreeBlocks(d), n)
<1> DEFINE S == FreeBlocks(d)
           W == [k \in 0..n |-> Distinct(S, k)]
           G == [k \in 1..n |-> [s \in W[k - 1] |-> Append(s, Min(S \ ToSet(s)))]]
           w == CHOOSE taken : taken = [k \in 0..n |->
                  IF k = 0 THEN <<>> ELSE Append(taken[k - 1], Min(FreeBlocks(d) \ ToSet(taken[k - 1])))]
<1>1. S \in SUBSET Nat /\ IsFiniteSet(S)
  <2>1. IsFiniteSet(Block) /\ Block \in SUBSET Nat
    BY DiskAssumption, FS_Interval DEF Block
  <2> QED
    BY ZenonT(90), <2>1, FS_Subset DEF FreeBlocks
<1>2. <<>> \in W[0]
  <2>1. ToSet(<<>>) = {}
    BY DEF ToSet
  <2>2. IsFiniteSet(ToSet(<<>>)) /\ Cardinality(ToSet(<<>>)) <= 0
    BY <2>1, FS_EmptySet
  <2>3. <<>> \in Distinct(S, 0)
    BY <2>2 DEF Distinct
  <2> QED
    BY <2>3
<1>3. ASSUME NEW k \in 1..n, NEW s \in W[k - 1]
      PROVE  G[k][s] = Append(s, Min(S \ ToSet(s))) /\ G[k][s] \in W[k]
  <2>1. k - 1 \in 0..n /\ k - 1 \in Nat /\ k \in 0..n /\ Cardinality(S) > k - 1
    <3>1. Cardinality(S) \in Nat
      BY <1>1, FS_CardinalityType
    <3> QED
      BY <3>1
  <2>2. PICK m \in Nat : m = k - 1
    BY <2>1
  <2>3. s \in Distinct(S, m) /\ Cardinality(S) > m
    BY <2>1, <2>2
  <2> HIDE DEF S
  <2>4. Append(s, Min(S \ ToSet(s))) \in Distinct(S, m + 1)
    BY <1>1, <2>3, OneMoreBlock
  <2>5. G[k][s] = Append(s, Min(S \ ToSet(s)))
    OBVIOUS
  <2>6. W[k] = Distinct(S, m + 1)
    BY <2>1, <2>2
  <2> QED
    BY <2>4, <2>5, <2>6
<1> HIDE DEF W, G
<1>4. PICK f : /\ f = [k \in 0..n |-> f[k]] /\ f[0] = <<>>
               /\ \A k \in 1..n : f[k - 1] \in W[k - 1] /\ f[k] = G[k][f[k - 1]]
  <2>1. StepsIn(n, W, G)
    BY ZenonT(90), <1>3 DEF StepsIn
  <2>2. PICK nil : nil = <<>>
    BY ZenonT(90)
  <2>3. nil \in W[0]
    BY <1>2, <2>2
  <2>4. \E f : Takes(f, n, W, G) /\ f[0] = nil
    BY <2>1, <2>3, StepsExist
  <2> QED
    BY <2>2, <2>4 DEF Takes
<1>5. f = [k \in 0..n |-> IF k = 0 THEN <<>> ELSE Append(f[k - 1], Min(FreeBlocks(d) \ ToSet(f[k - 1])))]
  <2>1. ASSUME NEW k \in 0..n
        PROVE  f[k] = IF k = 0 THEN <<>> ELSE Append(f[k - 1], Min(FreeBlocks(d) \ ToSet(f[k - 1])))
    <3>1. CASE k = 0
      BY <1>4, <3>1
    <3>2. CASE k # 0
      <4>1. k \in 1..n
        BY <3>2
      <4>2. f[k] = Append(f[k - 1], Min(S \ ToSet(f[k - 1])))
        BY ZenonT(90), <1>3, <1>4, <4>1
      <4> QED
        BY <3>2, <4>2
    <3> QED
      BY <3>1, <3>2
  <2> HIDE DEF S
  <2> QED
    BY ZenonT(90), <1>4, <2>1
<1>6. w = [k \in 0..n |-> IF k = 0 THEN <<>> ELSE Append(w[k - 1], Min(FreeBlocks(d) \ ToSet(w[k - 1])))]
  BY <1>5, ZenonT(90)
<1>7. Balloc(d, n) = w[n]
  BY ZenonT(90) DEF Balloc
<1> HIDE DEF w
<1>8. w[0] \in W[0]
  BY <1>2, <1>6
<1>9. \A k \in 1..n : w[k - 1] \in W[k - 1] => w[k] \in W[k]
  <2> TAKE k \in 1..n
  <2>1. k \in 0..n /\ k # 0
    OBVIOUS
  <2>2. w[k] = Append(w[k - 1], Min(S \ ToSet(w[k - 1])))
    BY ZenonT(90), <1>6, <2>1
  <2> HIDE DEF S
  <2> QED
    BY ZenonT(90), <1>3, <2>2
<1>10. w[n] \in W[n]
  <2>1. \A k \in 0..n : w[k] \in W[k]
    BY <1>8, <1>9, StepByStep
  <2> QED
    BY <2>1
<1>11. W[n] = Distinct(S, n)
  BY DEF W
<1> QED
  BY <1>7, <1>10, <1>11

(* The blocks of an inode are those its size calls for.                       *)
BlocksSound(ip) ==
  /\ ip.blocks \in Seq(Block) /\ ip.ind \in Block \cup {0}
  /\ Len(ip.blocks) = CeilDiv(Len(ip.data), BSIZE)
  /\ \A a, b \in 1..Len(ip.blocks) : ip.blocks[a] = ip.blocks[b] => a = b
  /\ ip.ind \notin ToSet(ip.blocks)
  /\ ip.ind # 0 <=> Len(ip.blocks) > NDIRECT

InodeSound(ip) ==
  /\ IsInode(ip) /\ BlocksSound(ip)
  /\ ip.type \in {"none", "dir", "file", "dev"} /\ ip.nlink \in Nat
  /\ Len(ip.data) <= MAXFILE * BSIZE
  /\ ip.type = "none" => ip = FreeInode

Sound(d) ==
  /\ IsDisk(d) /\ d.used \subseteq Block
  /\ \A i \in Inum : InodeSound(d.ino[i])
  /\ \A b : b \in d.used <=> \E i \in Inum : b \in BlocksOf(d.ino[i])
  /\ \A i, j \in Inum : i # j => BlocksOf(d.ino[i]) \cap BlocksOf(d.ino[j]) = {}

LEMMA FreeIsBlank ==
  /\ FreeInode.type = "none" /\ FreeInode.nlink = 0 /\ FreeInode.data = <<>>
  /\ FreeInode.blocks = <<>> /\ FreeInode.ind = 0
BY DEF FreeInode

LEMMA SoundIs ==
  ASSUME NEW d
  PROVE  Sound(d) <=> DiskTypes(d) /\ BlocksAccounted(d)
<1> DEFINE R(ip) == [type : {"none", "dir", "file", "dev"}, nlink : Nat, data : {ip.data},
                     blocks : Seq(Block), ind : Block \cup {0}]
           T(ip) == /\ ip \in R(ip) /\ IsSeq(ip.data) /\ Len(ip.data) <= MAXFILE * BSIZE
                    /\ ip.type = "none" => ip = FreeInode
           B(ip) == /\ Len(ip.blocks) = CeilDiv(Len(ip.data), BSIZE)
                    /\ IsInjective(ip.blocks) /\ ip.ind \notin ToSet(ip.blocks)
                    /\ ip.ind # 0 <=> Len(ip.blocks) > NDIRECT
<1>1. ASSUME NEW ip PROVE InodeSound(ip) <=> T(ip) /\ B(ip)
  <2>1. ip.blocks \in Seq(Block) =>
          (IsInjective(ip.blocks) <=> \A a, b \in 1..Len(ip.blocks) : ip.blocks[a] = ip.blocks[b] => a = b)
    BY DEF IsInjective
  <2>2. ip \in R(ip) <=>
          /\ ip = [type |-> ip.type, nlink |-> ip.nlink, data |-> ip.data, blocks |-> ip.blocks, ind |-> ip.ind]
          /\ ip.type \in {"none", "dir", "file", "dev"} /\ ip.nlink \in Nat
          /\ ip.blocks \in Seq(Block) /\ ip.ind \in Block \cup {0}
    OBVIOUS
  <2> HIDE DEF R
  <2> QED
    BY <2>1, <2>2 DEF InodeSound, IsInode, BlocksSound
<1>2. (\A i \in Inum : InodeSound(d.ino[i])) <=>
        (\A i \in Inum : T(d.ino[i])) /\ \A i \in Inum : B(d.ino[i])
  <2> HIDE DEF T, B
  <2> QED
    BY <1>1
<1>3. DiskTypes(d) <=> /\ d = [ino |-> d.ino, used |-> d.used, panic |-> d.panic] /\ d.used \subseteq Block
                       /\ d.ino = [i \in Inum |-> d.ino[i]]
                       /\ \A i \in Inum : T(d.ino[i])
  BY DEF DiskTypes
<1>4. BlocksAccounted(d) <=>
        /\ \A b : b \in d.used <=> \E i \in Inum : b \in BlocksOf(d.ino[i])
        /\ \A i, j \in Inum : i # j => BlocksOf(d.ino[i]) \cap BlocksOf(d.ino[j]) = {}
        /\ \A i \in Inum : B(d.ino[i])
  <2>1. d.used = UNION {BlocksOf(d.ino[i]) : i \in Inum}
        <=> \A b : b \in d.used <=> \E i \in Inum : b \in BlocksOf(d.ino[i])
    OBVIOUS
  <2>2. BlocksAccounted(d) <=>
          /\ d.used = UNION {BlocksOf(d.ino[i]) : i \in Inum}
          /\ \A i, j \in Inum : i # j => BlocksOf(d.ino[i]) \cap BlocksOf(d.ino[j]) = {}
          /\ \A i \in Inum : B(d.ino[i])
    BY DEF BlocksAccounted
  <2> HIDE DEF B
  <2> QED
    BY ZenonT(90), <2>1, <2>2
<1> HIDE DEF T, B
<1>5. IsDisk(d) <=> /\ d = [ino |-> d.ino, used |-> d.used, panic |-> d.panic]
                    /\ d.ino = [i \in Inum |-> d.ino[i]]
                    /\ \A i \in Inum : IsInode(d.ino[i])
  BY DEF IsDisk
<1>6. \A i \in Inum : InodeSound(d.ino[i]) => IsInode(d.ino[i])
  BY DEF InodeSound
<1> QED
  BY ZenonT(90), <1>2, <1>3, <1>4, <1>5, <1>6 DEF Sound

LEMMA SoundTyped ==
  ASSUME NEW d, Sound(d)
  PROVE  IsDisk(d) /\ Typed(d)
BY FreeIsBlank DEF Sound, InodeSound, Typed

WithUsed(d, u) == [d EXCEPT !.used = u]

(* Inode i becomes ip, and its blocks those of ip: kept ones, or free ones.   *)
LEMMA SoundUpdate ==
  ASSUME NEW d, Sound(d), NEW i \in Inum, NEW ip, InodeSound(ip), NEW u,
         \A b : b \in u <=> (b \in d.used /\ b \notin BlocksOf(d.ino[i])) \/ b \in BlocksOf(ip),
         \A b \in BlocksOf(ip) : b \notin d.used \/ b \in BlocksOf(d.ino[i])
  PROVE  LET e == Iupdate(WithUsed(d, u), i, ip) IN
         Sound(e) /\ e.panic = d.panic
<1> DEFINE c == WithUsed(d, u)
           e == Iupdate(c, i, ip)
<1>1. IsDisk(d)
  BY DEF Sound
<1>2. IsDisk(c) /\ c.panic = d.panic /\ c.ino = d.ino /\ c.used = u
  BY <1>1 DEF IsDisk, WithUsed
<1> HIDE DEF c
<1>3. IsDisk(e) /\ e.panic = d.panic /\ e.used = u /\ \A j \in Inum : e.ino[j] = IF j = i THEN ip ELSE d.ino[j]
  BY <1>2, IupdateIs DEF InodeSound
<1> HIDE DEF e
<1>4. BlocksOf(ip) \subseteq Block
  <2>1. ip.blocks \in Seq(Block) /\ ip.ind \in Block \cup {0}
    BY DEF InodeSound, BlocksSound
  <2> QED
    BY <2>1 DEF BlocksOf, ToSet
<1>5. e.used \subseteq Block
  BY <1>3, <1>4 DEF Sound
<1>6. \A j \in Inum : InodeSound(e.ino[j])
  BY <1>3 DEF Sound
<1>7. \A j \in Inum : BlocksOf(e.ino[j]) = IF j = i THEN BlocksOf(ip) ELSE BlocksOf(d.ino[j])
  BY <1>3
<1>8. ASSUME NEW b PROVE b \in e.used <=> \E j \in Inum : b \in BlocksOf(e.ino[j])
  <2>1. b \in d.used <=> \E j \in Inum : b \in BlocksOf(d.ino[j])
    BY DEF Sound
  <2>2. \A j \in Inum : j # i => BlocksOf(d.ino[i]) \cap BlocksOf(d.ino[j]) = {}
    BY DEF Sound
  <2> QED
    BY <1>3, <1>7, <2>1, <2>2
<1>9. ASSUME NEW j \in Inum, NEW k \in Inum, j # k
      PROVE  BlocksOf(e.ino[j]) \cap BlocksOf(e.ino[k]) = {}
  <2>1. \A m, n \in Inum : m # n => BlocksOf(d.ino[m]) \cap BlocksOf(d.ino[n]) = {}
    BY DEF Sound
  <2>2. \A n \in Inum : n # i => BlocksOf(ip) \cap BlocksOf(d.ino[n]) = {}
    <3>1. \A n \in Inum : \A b \in BlocksOf(d.ino[n]) : b \in d.used
      BY DEF Sound
    <3> QED
      BY <2>1, <3>1
  <2> QED
    BY <1>7, <1>9, <2>1, <2>2
<1> QED
  BY <1>3, <1>5, <1>6, <1>8, <1>9 DEF Sound, e, c

LEMMA ConcatIs ==
  ASSUME NEW S, NEW x \in Seq(S), NEW y \in Seq(S)
  PROVE  /\ x \o y \in Seq(S) /\ Len(x \o y) = Len(x) + Len(y)
         /\ \A k \in 1..(Len(x) + Len(y)) : (x \o y)[k] = IF k <= Len(x) THEN x[k] ELSE y[k - Len(x)]
OBVIOUS

LEMMA RemoveAtIs ==
  ASSUME NEW S, NEW s \in Seq(S), NEW n \in Nat, Len(s) = n + 1, NEW b \in 1..(n + 1)
  PROVE  /\ RemoveAt(s, b) \in Seq(S) /\ Len(RemoveAt(s, b)) = n
         /\ \A k \in 1..n : RemoveAt(s, b)[k] = IF k < b THEN s[k] ELSE s[k + 1]
<1> DEFINE x == SubSeq(s, 1, b - 1)
           y == SubSeq(s, b + 1, Len(s))
<1>1. x \in Seq(S) /\ Len(x) = b - 1 /\ \A k \in 1..(b - 1) : x[k] = s[k]
  OBVIOUS
<1>2. y \in Seq(S) /\ Len(y) = n + 1 - b /\ \A k \in 1..(n + 1 - b) : y[k] = s[b + k]
  OBVIOUS
<1>3. RemoveAt(s, b) = x \o y
  BY DEF RemoveAt
<1> HIDE DEF x, y
<1>4. x \o y \in Seq(S) /\ Len(x \o y) = n
      /\ \A k \in 1..n : (x \o y)[k] = IF k <= b - 1 THEN x[k] ELSE y[k - (b - 1)]
  <2>1. Len(x) + Len(y) = n
    BY SMTT(60), <1>1, <1>2
  <2>2. x \o y \in Seq(S) /\ Len(x \o y) = Len(x) + Len(y)
        /\ \A k \in 1..(Len(x) + Len(y)) : (x \o y)[k] = IF k <= Len(x) THEN x[k] ELSE y[k - Len(x)]
    BY ZenonT(90), <1>1, <1>2, ConcatIs
  <2> QED
    BY <1>1, <2>1, <2>2
<1>5. ASSUME NEW k \in 1..n PROVE (x \o y)[k] = IF k < b THEN s[k] ELSE s[k + 1]
  <2>1. CASE k < b
    BY <1>1, <1>4, <2>1
  <2>2. CASE ~(k < b)
    <3>1. k - (b - 1) \in 1..(n + 1 - b) /\ b + (k - (b - 1)) = k + 1
      BY <2>2
    <3>2. y[k - (b - 1)] = s[k + 1]
      BY <1>2, <3>1
    <3> QED
      BY <1>4, <2>2, <3>2
  <2> QED
    BY ZenonT(90), <2>1, <2>2
<1> QED
  BY <1>3, <1>4, <1>5

(* Different elements s, outside the blocks v, are added to them; one of them *)
(* may be set apart.                                                          *)
Different(x, n) == Len(x) = n /\ \A a, b \in 1..n : x[a] = x[b] => a = b

LEMMA BlocksAdded ==
  ASSUME NEW v \in Seq(Block), NEW h \in Nat, Different(v, h),
         NEW n \in Nat, NEW S \in SUBSET Block, NEW s \in Distinct(S, n), ToSet(v) \cap S = {}
  PROVE  LET x == v \o s IN
         /\ x \in Seq(Block) /\ Different(x, h + n)
         /\ ToSet(x) = ToSet(v) \cup ToSet(s) /\ ToSet(s) \subseteq S
<1> USE DEF Different
<1> DEFINE x == v \o s
<1>1. s \in Seq(S) /\ Len(s) = n /\ \A a, b \in 1..n : s[a] = s[b] => a = b
  BY DEF Distinct
<1>2. s \in Seq(Block)
  BY <1>1
<1>3. x \in Seq(Block) /\ Len(x) = h + n
      /\ \A k \in 1..(h + n) : x[k] = IF k <= h THEN v[k] ELSE s[k - h]
  BY SMTT(60), <1>1, <1>2
<1>4. \A k \in 1..h : v[k] \in ToSet(v)
  BY DEF ToSet
<1>5. \A k \in 1..n : s[k] \in S
  BY <1>1
<1> HIDE DEF x
<1>6. ASSUME NEW a \in 1..(h + n), NEW b \in 1..(h + n), x[a] = x[b] PROVE a = b
  <2>1. CASE a <= h /\ b <= h
    BY <1>3, <1>6, <2>1
  <2>2. CASE a <= h /\ ~(b <= h)
    <3>1. b - h \in 1..n /\ x[a] = v[a] /\ x[b] = s[b - h] /\ a \in 1..h
      BY <1>3, <2>2
    <3> QED
      BY ZenonT(90), <1>4, <1>5, <1>6, <3>1
  <2>3. CASE ~(a <= h) /\ b <= h
    <3>1. a - h \in 1..n /\ x[b] = v[b] /\ x[a] = s[a - h] /\ b \in 1..h
      BY <1>3, <2>3
    <3> QED
      BY <1>4, <1>5, <1>6, <3>1
  <2>4. CASE ~(a <= h) /\ ~(b <= h)
    <3>1. a - h \in 1..n /\ b - h \in 1..n /\ s[a - h] = s[b - h]
      BY <1>3, <1>6, <2>4
    <3>2. a - h = b - h
      BY <1>1, <3>1
    <3> QED
      BY <3>2
  <2> QED
    BY <2>1, <2>2, <2>3, <2>4
<1>7. ToSet(x) = ToSet(v) \cup ToSet(s)
  <2>1. ASSUME NEW k \in 1..(h + n) PROVE x[k] \in ToSet(v) \cup ToSet(s)
    <3>1. CASE k <= h
      BY <1>3, <1>4, <3>1
    <3>2. CASE ~(k <= h)
      <4>1. k - h \in DOMAIN s /\ x[k] = s[k - h]
        BY SMTT(60), <1>1, <1>3, <3>2
      <4> QED
        BY <4>1 DEF ToSet
    <3> QED
      BY <3>1, <3>2
  <2>2. ASSUME NEW k \in 1..h PROVE v[k] \in ToSet(x)
    <3>1. k \in DOMAIN x /\ v[k] = x[k]
      BY <1>3
    <3> QED
      BY <3>1 DEF ToSet
  <2>3. ASSUME NEW k \in 1..n PROVE s[k] \in ToSet(x)
    <3>1. h + k \in 1..(h + n) /\ ~(h + k <= h) /\ (h + k) - h = k
      OBVIOUS
    <3>2. h + k \in DOMAIN x /\ s[k] = x[h + k]
      BY <1>3, <3>1
    <3> QED
      BY <3>2 DEF ToSet
  <2>4. DOMAIN x = 1..(h + n) /\ DOMAIN v = 1..h /\ DOMAIN s = 1..n
    BY <1>1, <1>3
  <2> QED
    BY <2>1, <2>2, <2>3, <2>4 DEF ToSet
<1>8. ToSet(s) \subseteq S
  BY <1>1 DEF ToSet
<1> QED
  BY ZenonT(90), <1>3, <1>6, <1>7, <1>8 DEF x

LEMMA OneSetApart ==
  ASSUME NEW n \in Nat, NEW S \in SUBSET Nat, IsFiniteSet(S), NEW s \in Distinct(S, n + 1), NEW b \in 1..(n + 1)
  PROVE  LET r == RemoveAt(s, b) IN
         /\ s[b] \in S /\ r \in Distinct(S, n)
         /\ ToSet(s) = ToSet(r) \cup {s[b]} /\ s[b] \notin ToSet(r)
<1> DEFINE r == RemoveAt(s, b)
<1>1. /\ s \in Seq(S) /\ Len(s) = n + 1 /\ \A i, j \in 1..(n + 1) : s[i] = s[j] => i = j
      /\ IsFiniteSet(ToSet(s)) /\ Cardinality(ToSet(s)) <= n + 1
  BY DEF Distinct
<1>2. r \in Seq(S) /\ Len(r) = n /\ \A k \in 1..n : r[k] = IF k < b THEN s[k] ELSE s[k + 1]
  BY ZenonT(90), <1>1, RemoveAtIs
<1> HIDE DEF r
<1>3. ASSUME NEW i \in 1..n, NEW j \in 1..n, r[i] = r[j] PROVE i = j
  <2>1. PICK k \in 1..(n + 1) : r[i] = s[k] /\ k = IF i < b THEN i ELSE i + 1
    BY <1>2
  <2>2. PICK m \in 1..(n + 1) : r[j] = s[m] /\ m = IF j < b THEN j ELSE j + 1
    BY <1>2
  <2>3. k = m
    BY ZenonT(90), <1>1, <1>3, <2>1, <2>2
  <2> QED
    BY <2>1, <2>2, <2>3
<1>4. DOMAIN r = 1..n /\ DOMAIN s = 1..(n + 1)
  BY <1>1, <1>2
<1>5. s[b] \notin ToSet(r)
  <2>1. ASSUME NEW i \in 1..n PROVE r[i] # s[b]
    <3>1. PICK k \in 1..(n + 1) : r[i] = s[k] /\ k = IF i < b THEN i ELSE i + 1
      BY <1>2
    <3>2. k # b
      BY <3>1
    <3> QED
      BY <1>1, <3>1, <3>2
  <2> QED
    BY <1>4, <2>1 DEF ToSet
<1>6. ToSet(s) = ToSet(r) \cup {s[b]}
  <2>1. ASSUME NEW i \in 1..n PROVE r[i] \in ToSet(s)
    <3>1. PICK k \in 1..(n + 1) : r[i] = s[k]
      BY <1>2
    <3> QED
      BY <1>4, <3>1 DEF ToSet
  <2>2. ASSUME NEW k \in 1..(n + 1), k # b PROVE s[k] \in ToSet(r)
    <3>1. PICK i \in 1..n : k = IF i < b THEN i ELSE i + 1
      <4>1. CASE k < b
        <5>1. k \in 1..n
          BY <4>1
        <5> QED
          BY <4>1, <5>1
      <4>2. CASE k > b
        <5>1. k - 1 \in 1..n /\ ~(k - 1 < b) /\ k = (k - 1) + 1
          BY <4>2
        <5> QED
          BY <5>1
      <4> QED
        BY <2>2, <4>1, <4>2
    <3>2. r[i] = s[k]
      BY <1>2, <3>1
    <3> QED
      BY <1>4, <3>2 DEF ToSet
  <2>3. s[b] \in ToSet(s)
    BY <1>4 DEF ToSet
  <2> QED
    BY <1>4, <2>1, <2>2, <2>3 DEF ToSet
<1>7. IsFiniteSet(ToSet(r)) /\ Cardinality(ToSet(r)) <= n
  <2>1. IsFiniteSet(ToSet(r))
    <3>1. ToSet(r) \subseteq ToSet(s)
      BY <1>6
    <3> QED
      BY <1>1, <3>1, FS_Subset
  <2>2. Cardinality(ToSet(r) \cup {s[b]}) = Cardinality(ToSet(r)) + 1
    BY ZenonT(90), <1>5, <2>1, FS_AddElement
  <2>3. Cardinality(ToSet(r)) \in Nat
    BY <2>1, FS_CardinalityType
  <2>4. Cardinality(ToSet(s)) = Cardinality(ToSet(r)) + 1
    BY <1>6, <2>2
  <2> QED
    BY <1>1, <2>1, <2>3, <2>4
<1>8. s[b] \in S
  BY <1>1
<1> QED
  BY <1>2, <1>3, <1>5, <1>6, <1>7, <1>8 DEF Distinct, r

(* What bmap() makes of the blocks x and the indirect block y of an inode     *)
(* with the blocks in own: new blocks, free until now, are added to own.      *)
Grown(d, own, x, y, len, new) ==
  /\ x \in Seq(Block) /\ y \in Block \cup {0} /\ Different(x, len)
  /\ y \notin ToSet(x) /\ (y # 0 <=> len > NDIRECT)
  /\ ToSet(x) \cup (IF y = 0 THEN {} ELSE {y}) = own \cup new
  /\ new \subseteq Block /\ new \cap d.used = {}

LEMMA GrowBlocks ==
  ASSUME NEW d, Sound(d), NEW i \in Inum, NEW size \in Nat
  PROVE  LET g  == Grow(d, i, size)
             ip == d.ino[i] IN
         \/ g = Panic(d, "balloc: out of blocks")
         \/ \E x, y, new :
              /\ g = Iupdate(WithUsed(d, d.used \cup new), i, WithBlocks(ip, x, y))
              /\ Grown(d, BlocksOf(ip), x, y,
                       IF Len(ip.blocks) >= CeilDiv(size, BSIZE) THEN Len(ip.blocks) ELSE CeilDiv(size, BSIZE), new)
<1> DEFINE ip     == d.ino[i]
           v      == ip.blocks
           have   == Len(ip.blocks)
           ceil   == CeilDiv(size, BSIZE)
           len    == IF have >= ceil THEN have ELSE ceil
           need   == Max({have, ceil}) - have
           indir  == ip.ind = 0 /\ have + need > NDIRECT
           before == Max({0, NDIRECT - have})
           n      == need + (IF indir THEN 1 ELSE 0)
           S      == FreeBlocks(d)
           taken  == Balloc(d, n)
           x      == v \o IF indir THEN RemoveAt(taken, before + 1) ELSE taken
           y      == IF indir THEN taken[before + 1] ELSE ip.ind
           g      == Grow(d, i, size)
<1>1. g = IF Cardinality(S) < n THEN Panic(d, "balloc: out of blocks")
          ELSE Iupdate(WithUsed(d, d.used \cup ToSet(taken)), i, WithBlocks(ip, x, y))
  BY DEF Grow, WithBlocks, WithUsed
<1> HIDE DEF g
<1>2. /\ v \in Seq(Block) /\ ip.ind \in Block \cup {0} /\ have \in Nat /\ Different(v, have)
      /\ ip.ind \notin ToSet(v) /\ (ip.ind # 0 <=> have > NDIRECT)
  BY DEF Sound, InodeSound, BlocksSound, Different
<1>3. ceil \in Nat
  BY CeilDivGrows
<1>4. BlocksOf(ip) = ToSet(v) \cup (IF ip.ind = 0 THEN {} ELSE {ip.ind}) /\ BlocksOf(ip) \subseteq d.used
  BY DEF Sound, BlocksOf
<1> HIDE DEF ip, v, have, ceil
<1>5. need \in Nat /\ have + need = len /\ len \in Nat
  BY <1>2, <1>3, MaxIs
<1>6. NDIRECT \in Nat /\ 0 \notin Block
  BY DiskAssumption DEF Block
<1>7. S \in SUBSET Block /\ S \in SUBSET Nat /\ IsFiniteSet(S) /\ Cardinality(S) \in Nat /\ S \cap d.used = {}
  <2>1. IsFiniteSet(Block) /\ Block \in SUBSET Nat
    BY DiskAssumption, FS_Interval DEF Block
  <2>2. IsFiniteSet(S)
    BY <2>1, FS_Subset DEF FreeBlocks
  <2> QED
    BY ZenonT(90), <2>1, <2>2, FS_CardinalityType DEF FreeBlocks
<1> HIDE DEF need, len, S
<1>8. n \in Nat
  BY <1>5
<1>9. CASE Cardinality(S) < n
  BY ZenonT(90), <1>1, <1>9 DEF g
<1>10. ASSUME ~(Cardinality(S) < n), indir
       PROVE  Grown(d, BlocksOf(ip), x, y, len, ToSet(taken))
  <2>1. n = need + 1 /\ ip.ind = 0 /\ have <= NDIRECT /\ len > NDIRECT
    BY <1>2, <1>5, <1>6, <1>10
  <2>2. before = NDIRECT - have
    <3>1. NDIRECT - have \in Nat
      BY <1>2, <1>6, <2>1
    <3>2. PICK m \in Nat : m = NDIRECT - have
      BY <3>1
    <3>3. Max({0, m}) = m
      BY MaxIs
    <3> QED
      BY <3>2, <3>3
  <2>3. before + 1 \in 1..(need + 1)
    BY <1>2, <1>5, <1>6, <2>1, <2>2
  <2>4. taken \in Distinct(S, need + 1)
    <3>1. n <= Cardinality(S)
      BY <1>7, <1>8, <1>10
    <3> HIDE DEF n
    <3>2. taken \in Distinct(S, n)
      BY <1>8, <3>1, BallocIs DEF S
    <3> QED
      BY <2>1, <3>2
  <2> HIDE DEF n, taken, before
  <2>5. PICK b \in 1..(need + 1) : b = before + 1
    BY <2>3
  <2>6. PICK r : r = RemoveAt(taken, b)
    OBVIOUS
  <2>7. /\ taken[b] \in S /\ r \in Distinct(S, need)
        /\ ToSet(taken) = ToSet(r) \cup {taken[b]} /\ taken[b] \notin ToSet(r)
    BY <1>5, <1>7, <2>4, <2>6, OneSetApart
  <2>8. x = v \o r /\ y = taken[b]
    BY <1>10, <2>5, <2>6
  <2> HIDE DEF x, y
  <2>9. ToSet(v) \cap S = {}
    BY <1>4, <1>7
  <2>10. /\ x \in Seq(Block) /\ Different(x, len)
         /\ ToSet(x) = ToSet(v) \cup ToSet(r) /\ ToSet(r) \subseteq S
    BY ZenonT(90), <1>2, <1>5, <1>7, <2>7, <2>8, <2>9, BlocksAdded
  <2>11. y \in Block /\ y # 0 /\ y \notin ToSet(x)
    BY ZenonT(90), <1>6, <1>7, <2>7, <2>8, <2>9, <2>10
  <2>12. ToSet(x) \cup {y} = BlocksOf(ip) \cup ToSet(taken)
    BY <1>4, <2>1, <2>7, <2>8, <2>10
  <2>13. ToSet(taken) \subseteq S
    BY <2>7, <2>10
  <2> HIDE DEF indir
  <2> QED
    BY ZenonT(90), <1>7, <2>1, <2>10, <2>11, <2>12, <2>13 DEF Grown
<1>11. ASSUME ~(Cardinality(S) < n), ~indir
       PROVE  Grown(d, BlocksOf(ip), x, y, len, ToSet(taken))
  <2>1. n = need /\ (ip.ind # 0 <=> len > NDIRECT)
    BY <1>2, <1>5, <1>6, <1>11
  <2>2. taken \in Distinct(S, need)
    <3>1. n <= Cardinality(S)
      BY <1>7, <1>8, <1>11
    <3> HIDE DEF n
    <3>2. taken \in Distinct(S, n)
      BY <1>8, <3>1, BallocIs DEF S
    <3> QED
      BY <2>1, <3>2
  <2> HIDE DEF n, taken
  <2>3. x = v \o taken /\ y = ip.ind
    BY <1>11
  <2> HIDE DEF x, y
  <2>4. ToSet(v) \cap S = {}
    BY <1>4, <1>7
  <2>5. /\ x \in Seq(Block) /\ Different(x, len)
        /\ ToSet(x) = ToSet(v) \cup ToSet(taken) /\ ToSet(taken) \subseteq S
    BY ZenonT(90), <1>2, <1>5, <1>7, <2>2, <2>3, <2>4, BlocksAdded
  <2>6. y \notin ToSet(x)
    BY <1>2, <1>4, <1>6, <1>7, <2>3, <2>5
  <2>7. ToSet(x) \cup (IF y = 0 THEN {} ELSE {y}) = BlocksOf(ip) \cup ToSet(taken)
    BY <1>4, <2>3, <2>5
  <2> HIDE DEF indir
  <2> QED
    BY ZenonT(90), <1>2, <1>7, <2>1, <2>3, <2>5, <2>6, <2>7 DEF Grown
<1> HIDE DEF n, taken, x, y, indir
<1> QED
  BY ZenonT(90), <1>1, <1>9, <1>10, <1>11 DEF g, ip, v, have, ceil, len

(* A disk is sound, or one of these panics has stopped the kernel.            *)
Panics == {"no", "ialloc: no inodes", "balloc: out of blocks", "dirlink",
           "ilock: no type", "iput: sleeps on its own lock"}

Safe(d) == IsDisk(d) /\ d.panic \in Panics /\ (d.panic = "no" => Sound(d))

LEMMA SafePanic ==
  ASSUME NEW d, Safe(d), NEW why \in Panics \ {"no"}
  PROVE  Safe(Panic(d, why))
<1>1. IsDisk(Panic(d, why)) /\ Panic(d, why).panic # "no"
  BY PanicIs DEF Safe
<1>2. Panic(d, why).panic \in {d.panic, why}
  BY DEF Panic, Safe, IsDisk
<1> QED
  BY <1>1, <1>2 DEF Safe

(* Inode i becomes ip, with the same blocks.                                  *)
LEMMA SafeUpdate ==
  ASSUME NEW d, Safe(d), NEW i \in Inum, NEW ip, IsInode(ip),
         d.panic = "no" => InodeSound(ip) /\ BlocksOf(ip) = BlocksOf(d.ino[i])
  PROVE  Safe(Iupdate(d, i, ip))
<1> DEFINE e == Iupdate(d, i, ip)
<1>1. IsDisk(e) /\ e.panic = d.panic
  BY IupdateIs DEF Safe
<1>2. ASSUME d.panic = "no" PROVE Sound(e)
  <2>1. Sound(d) /\ InodeSound(ip) /\ BlocksOf(ip) = BlocksOf(d.ino[i])
    BY <1>2 DEF Safe
  <2>2. d = WithUsed(d, d.used)
    BY DEF Safe, IsDisk, WithUsed
  <2>3. PICK u : u = d.used
    OBVIOUS
  <2>4. e = Iupdate(WithUsed(d, u), i, ip)
    BY <2>2, <2>3
  <2>5. /\ \A b : b \in u <=> (b \in d.used /\ b \notin BlocksOf(d.ino[i])) \/ b \in BlocksOf(ip)
        /\ \A b \in BlocksOf(ip) : b \notin d.used \/ b \in BlocksOf(d.ino[i])
    BY <2>1, <2>3 DEF Sound
  <2> HIDE DEF e
  <2>6. Sound(Iupdate(WithUsed(d, u), i, ip))
    BY <2>1, <2>5, SoundUpdate
  <2> QED
    BY <2>4, <2>6
<1> HIDE DEF e
<1>3. Safe(e)
  BY <1>1, <1>2 DEF Safe
<1> QED
  BY <1>3 DEF e

LEMMA AddLinksSafe ==
  ASSUME NEW d, Safe(d), NEW i \in Inum, NEW n \in Int,
         d.panic = "no" => d.ino[i].type # "none" /\ d.ino[i].nlink + n >= 0
  PROVE  Safe(AddLinks(d, i, n))
<1> DEFINE jp == [d.ino[i] EXCEPT !.nlink = @ + n]
<1>1. IsInode(d.ino[i])
  BY DEF Safe, IsDisk
<1>2. /\ IsInode(jp) /\ jp.type = d.ino[i].type /\ jp.nlink = d.ino[i].nlink + n /\ jp.data = d.ino[i].data
      /\ jp.blocks = d.ino[i].blocks /\ jp.ind = d.ino[i].ind
  BY <1>1 DEF IsInode
<1>3. AddLinks(d, i, n) = Iupdate(d, i, jp)
  BY DEF AddLinks
<1> HIDE DEF jp
<1>4. ASSUME d.panic = "no" PROVE InodeSound(jp) /\ BlocksOf(jp) = BlocksOf(d.ino[i])
  <2>1. InodeSound(d.ino[i])
    BY <1>4 DEF Safe, Sound
  <2>2. jp.nlink \in Nat /\ jp.type # "none"
    BY <1>2, <1>4, <2>1 DEF InodeSound
  <2> QED
    BY ZenonT(90), <1>2, <2>1, <2>2 DEF InodeSound, BlocksSound, BlocksOf
<1> QED
  BY <1>2, <1>3, <1>4, SafeUpdate

(* itrunc() and iput(): no block of a file is free already.                   *)
LEMMA IputSafe ==
  ASSUME NEW d, Safe(d), NEW i \in Inum, NEW referenced \in BOOLEAN
  PROVE  Safe(Iput(d, i, referenced)) /\ Iput(d, i, referenced).panic = d.panic
<1> DEFINE frees == d.ino[i].nlink = 0 /\ d.ino[i].type # "none" /\ ~referenced
           ip == d.ino[i]
           t  == Itrunc(d, i)
           kp == WithType(t.ino[i], "none")
           e  == Iput(d, i, referenced)
<1>1. e = IF frees THEN Iupdate(t, i, kp) ELSE d
  BY DEF Iput, WithType
<1>2. IsDisk(e)
  BY IputIs DEF Safe
<1> HIDE DEF e
<1>3. CASE ~frees
  BY <1>1, <1>3 DEF e
<1>4. CASE frees /\ d.panic # "no"
  <2>1. IsDisk(d)
    BY DEF Safe
  <2>2. t.panic = d.panic /\ IsDisk(t)
    <3> DEFINE u  == d.used \ BlocksOf(ip)
               d1 == [d EXCEPT !.used = u]
               a  == WithData(ip, <<>>)
               jp == WithBlocks(a, <<>>, 0)
    <3>1. t = IF BlocksOf(ip) \subseteq d.used THEN Iupdate(d1, i, jp) ELSE Panic(d, "freeing free block")
      BY DEF Itrunc, WithData, WithBlocks
    <3>2. Panic(d, "freeing free block") = d
      BY <1>4 DEF Panic
    <3>3. Iupdate(d1, i, jp).panic = d1.panic /\ d1.panic = d.panic
      <4> HIDE DEF u
      <4>1. d1 = [ino |-> d.ino, used |-> u, panic |-> d.panic]
        BY <2>1 DEF IsDisk
      <4> HIDE DEF d1, jp
      <4> QED
        BY <4>1 DEF Iupdate
    <3>4. IsDisk(t)
      BY <2>1, ItruncIs
    <3> QED
      BY ZenonT(90), <3>1, <3>2, <3>3, <3>4
  <2> HIDE DEF t
  <2>3. IsInode(t.ino[i])
    BY <2>2 DEF IsDisk
  <2>4. IsInode(kp)
    BY <2>3, InodeWith
  <2> HIDE DEF kp
  <2>5. e.panic = t.panic
    BY <1>1, <1>4, <2>2, <2>4, IupdateIs
  <2> QED
    BY <1>2, <1>4, <2>2, <2>5 DEF Safe, e
<1>5. CASE frees /\ d.panic = "no"
  <2>1. Sound(d) /\ InodeSound(ip) /\ BlocksOf(ip) \subseteq d.used
    <3>1. Sound(d)
      BY <1>5 DEF Safe
    <3> QED
      BY ZenonT(90), <3>1 DEF Sound
  <2> DEFINE u  == d.used \ BlocksOf(ip)
             a  == WithData(ip, <<>>)
             jp == WithBlocks(a, <<>>, 0)
  <2>2. t = Iupdate(WithUsed(d, u), i, jp)
    BY <2>1 DEF Itrunc, WithData, WithBlocks, WithUsed
  <2>3. IsSeq(<<>>) /\ IsInode(ip)
    BY <2>1 DEF IsSeq, InodeSound
  <2> HIDE DEF u, t, ip
  <2>4. IsInode(a) /\ a.type = ip.type /\ a.nlink = ip.nlink /\ a.data = <<>>
    BY <2>3, InodeWith
  <2> HIDE DEF a
  <2>5. IsInode(jp) /\ jp.type = ip.type /\ jp.nlink = ip.nlink /\ jp.data = <<>> /\ jp.blocks = <<>> /\ jp.ind = 0
    BY <2>4, InodeWith
  <2> HIDE DEF jp
  <2>6. CeilDiv(0, BSIZE) = 0
    <3>1. BSIZE \in Nat \ {0}
      BY DiskAssumption
    <3>2. (0 + BSIZE - 1) \div BSIZE = 0
      BY <3>1
    <3> QED
      BY <3>2 DEF CeilDiv
  <2>7. BlocksSound(jp) /\ BlocksOf(jp) = {}
    <3>1. Len(<<>>) = 0 /\ ToSet(<<>>) = {}
      BY DEF ToSet
    <3>2. NDIRECT \in Nat
      BY DiskAssumption
    <3> QED
      BY <2>5, <2>6, <3>1, <3>2 DEF BlocksSound, BlocksOf
  <2>8. InodeSound(jp)
    <3>1. Len(jp.data) = 0 /\ 0 <= MAXFILE * BSIZE
      BY <2>5, DiskAssumption DEF MAXFILE
    <3>2. jp.type # "none" /\ jp.type \in {"none", "dir", "file", "dev"} /\ jp.nlink \in Nat
      BY <1>5, <2>1, <2>5 DEF InodeSound, ip
    <3> QED
      BY <2>5, <2>7, <3>1, <3>2 DEF InodeSound
  <2>9. Sound(Iupdate(WithUsed(d, u), i, jp)) /\ Iupdate(WithUsed(d, u), i, jp).panic = d.panic
    <3>1. \A b : b \in u <=> (b \in d.used /\ b \notin BlocksOf(d.ino[i])) \/ b \in BlocksOf(jp)
      BY <2>7 DEF u, ip
    <3>2. \A b \in BlocksOf(jp) : b \notin d.used \/ b \in BlocksOf(d.ino[i])
      BY <2>7
    <3> QED
      BY <2>1, <2>8, <3>1, <3>2, SoundUpdate
  <2>10. Sound(t) /\ t.panic = "no" /\ t.ino[i] = jp
    <3>1. IsDisk(WithUsed(d, u)) /\ WithUsed(d, u).ino = d.ino
      BY <2>1 DEF Sound, IsDisk, WithUsed
    <3>2. t.ino[i] = jp
      BY <2>2, <2>5, <3>1, IupdateIs
    <3> QED
      BY <1>5, <2>2, <2>9, <3>2
  <2>11. Safe(t)
    BY ZenonT(90), <2>10 DEF Safe, Sound, Panics
  <2>12. kp = FreeInode
    <3>1. /\ IsInode(kp) /\ kp.type = "none" /\ kp.nlink = jp.nlink /\ kp.data = jp.data
          /\ kp.blocks = jp.blocks /\ kp.ind = jp.ind
      BY <2>5, <2>10, InodeWith
    <3>2. kp.nlink = 0
      BY <1>5, <2>5, <3>1 DEF ip
    <3> HIDE DEF kp
    <3> QED
      BY <2>5, <3>1, <3>2 DEF IsInode, FreeInode
  <2>13. InodeSound(kp) /\ BlocksOf(kp) = BlocksOf(t.ino[i])
    <3>1. BlocksOf(kp) = {} /\ BlocksSound(kp) /\ IsInode(kp)
      <4>1. kp.blocks = jp.blocks /\ kp.ind = jp.ind /\ kp.data = jp.data
        BY <2>5, <2>12, FreeIsBlank
      <4>2. IsInode(kp)
        BY <2>5, <2>10, InodeWith
      <4> HIDE DEF kp
      <4> QED
        BY <2>7, <4>1, <4>2 DEF BlocksSound, BlocksOf
    <3> HIDE DEF kp
    <3>2. kp.type = "none" /\ kp.nlink = 0 /\ Len(kp.data) = 0 /\ 0 <= MAXFILE * BSIZE
      BY <2>12, FreeIsBlank, DiskAssumption DEF MAXFILE
    <3> QED
      BY <2>7, <2>10, <2>12, <3>1, <3>2 DEF InodeSound
  <2> HIDE DEF kp
  <2>14. Safe(Iupdate(t, i, kp))
    BY <2>11, <2>13, SafeUpdate DEF InodeSound
  <2>15. Iupdate(t, i, kp).panic = t.panic
    BY <2>11, <2>13, IupdateIs DEF Safe, InodeSound
  <2> QED
    BY <1>1, <1>5, <2>10, <2>14, <2>15 DEF e
<1> QED
  BY <1>3, <1>4, <1>5

LEMMA IupdateTwice ==
  ASSUME NEW d, IsDisk(d), NEW i \in Inum, NEW ip, NEW jp
  PROVE  Iupdate(Iupdate(d, i, ip), i, jp) = Iupdate(d, i, jp)
<1> DEFINE x == [d.ino EXCEPT ![i] = ip]
           c == Iupdate(d, i, ip)
<1>1. d = [ino |-> d.ino, used |-> d.used, panic |-> d.panic] /\ d.ino = [j \in Inum |-> d.ino[j]]
  BY DEF IsDisk
<1>2. x = [j \in Inum |-> IF j = i THEN ip ELSE d.ino[j]]
  BY <1>1
<1>3. [x EXCEPT ![i] = jp] = [d.ino EXCEPT ![i] = jp]
  BY ZenonT(90), <1>1, <1>2
<1> HIDE DEF x
<1>4. c = [ino |-> x, used |-> d.used, panic |-> d.panic]
  BY <1>1 DEF Iupdate, x
<1> HIDE DEF c
<1>5. Iupdate(c, i, jp) = [ino |-> [x EXCEPT ![i] = jp], used |-> d.used, panic |-> d.panic]
  BY <1>4 DEF Iupdate
<1>6. Iupdate(d, i, jp) = [ino |-> [d.ino EXCEPT ![i] = jp], used |-> d.used, panic |-> d.panic]
  BY <1>1 DEF Iupdate
<1> QED
  BY <1>3, <1>5, <1>6 DEF c

LEMMA GrowPanics ==
  ASSUME NEW d, IsDisk(d), NEW i \in Inum, NEW size
  PROVE  Grow(d, i, size).panic \in {d.panic, "balloc: out of blocks"}
         /\ (d.panic # "no" => Grow(d, i, size).panic = d.panic)
<1>1. \E u, jp : Grow(d, i, size) \in {Panic(d, "balloc: out of blocks"), Iupdate(WithUsed(d, u), i, jp)}
  BY ZenonT(90) DEF Grow, WithUsed
<1>2. PICK u, jp : Grow(d, i, size) \in {Panic(d, "balloc: out of blocks"), Iupdate(WithUsed(d, u), i, jp)}
  BY ZenonT(90), <1>1
<1>3. Iupdate(WithUsed(d, u), i, jp).panic = d.panic
  <2>1. WithUsed(d, u) = [ino |-> d.ino, used |-> u, panic |-> d.panic]
    BY DEF IsDisk, WithUsed
  <2> QED
    BY <2>1 DEF Iupdate
<1>4. /\ Panic(d, "balloc: out of blocks").panic \in {d.panic, "balloc: out of blocks"}
      /\ d.panic # "no" => Panic(d, "balloc: out of blocks").panic = d.panic
  BY ZenonT(90) DEF Panic, IsDisk
<1> QED
  BY ZenonT(90), <1>2, <1>3, <1>4

LEMMA WriteiSafe ==
  ASSUME NEW d, Safe(d), NEW i \in Inum, NEW off \in Nat, NEW u, IsSeq(u),
         d.panic = "no" => d.ino[i].type # "none" /\ off + Len(u) <= MAXFILE * BSIZE
  PROVE  Safe(Writei(d, i, off, u))
<1> DEFINE end == off + Len(u)
           g == Grow(d, i, end)
           n == Max({end, Size(d, i)})
           v == [k \in 1..n |-> IF k \in (off + 1)..end THEN u[k - off] ELSE d.ino[i].data[k]]
           kp == WithData(g.ino[i], v)
           e == Writei(d, i, off, u)
<1>1. e = Iupdate(g, i, kp)
  BY DEF Writei, WithData
<1>2. Len(u) \in Nat /\ end \in Nat
  BY SeqIs
<1>3. Size(d, i) \in Nat
  BY SeqIs DEF Safe, IsDisk, IsInode, Size
<1>4. n = (IF end > Size(d, i) THEN end ELSE Size(d, i)) /\ n \in Nat
  BY <1>2, <1>3, MaxIs
<1>5. IsDisk(g) /\ (g.panic = "no" => d.panic = "no") /\ \A j \in Inum : SameInode(d, g, j)
  BY GrowIs DEF Safe
<1>6. IsDisk(e)
  BY WriteiIs DEF Safe
<1> HIDE DEF e, n
<1>7. IsSeq(v) /\ Len(v) = n
  BY <1>4, FcnIsSeq
<1> HIDE DEF v
<1>8. IsInode(kp)
  BY <1>5, <1>7, InodeWith DEF IsDisk
<1>9. e.panic = g.panic
  <2> HIDE DEF g, kp
  <2> QED
    BY <1>1, <1>5, <1>8, IupdateIs
<1>10. g.panic \in {d.panic, "balloc: out of blocks"}
  BY ZenonT(90), GrowPanics DEF Safe
<1>11. ASSUME g.panic = "no" PROVE Sound(e)
  <2>1. d.panic = "no"
    BY <1>5, <1>11
  <2>2. Sound(d) /\ d.ino[i].type # "none" /\ end <= MAXFILE * BSIZE
    BY <2>1 DEF Safe
  <2> DEFINE ip == d.ino[i]
  <2>3. InodeSound(ip) /\ IsDisk(d) /\ BlocksOf(ip) \subseteq d.used
    BY <2>2 DEF Sound
  <2>4. g # Panic(d, "balloc: out of blocks")
    <3>1. Panic(d, "balloc: out of blocks").panic # "no"
      <4>0. "balloc: out of blocks" # "no"
        OBVIOUS
      <4>1. PICK why : why = "balloc: out of blocks" /\ why # "no"
        BY <4>0, ZenonT(90)
      <4> QED
        BY ZenonT(90), <2>3, <4>1, PanicIs
    <3> QED
      BY ZenonT(90), <1>11, <3>1
  <2> DEFINE len == IF Len(ip.blocks) >= CeilDiv(end, BSIZE) THEN Len(ip.blocks) ELSE CeilDiv(end, BSIZE)
  <2>5. PICK x, y, new : /\ g = Iupdate(WithUsed(d, d.used \cup new), i, WithBlocks(ip, x, y))
                         /\ Grown(d, BlocksOf(ip), x, y, len, new)
    <3> HIDE DEF end
    <3> QED
      BY ZenonT(90), <1>2, <2>2, <2>4, GrowBlocks
  <2> DEFINE c == WithUsed(d, d.used \cup new)
             jp == WithBlocks(ip, x, y)
  <2>6. len = CeilDiv(n, BSIZE)
    <3>1. Len(ip.blocks) = CeilDiv(Size(d, i), BSIZE)
      BY <2>3 DEF InodeSound, BlocksSound, Size
    <3> HIDE DEF end
    <3>2. CASE end > Size(d, i)
      <4>1. CeilDiv(Size(d, i), BSIZE) <= CeilDiv(end, BSIZE) /\ CeilDiv(Size(d, i), BSIZE) \in Nat
            /\ CeilDiv(end, BSIZE) \in Nat
        BY <1>2, <1>3, <3>2, CeilDivGrows
      <4> QED
        BY <1>4, <3>1, <3>2, <4>1
    <3>3. CASE ~(end > Size(d, i))
      <4>1. CeilDiv(end, BSIZE) <= CeilDiv(Size(d, i), BSIZE) /\ CeilDiv(Size(d, i), BSIZE) \in Nat
            /\ CeilDiv(end, BSIZE) \in Nat
        BY <1>2, <1>3, <3>3, CeilDivGrows
      <4> QED
        BY <1>4, <3>1, <3>3, <4>1
    <3> QED
      BY <3>2, <3>3
  <2> HIDE DEF len, ip, g, end
  <2>7. /\ x \in Seq(Block) /\ y \in Block \cup {0} /\ Different(x, len)
        /\ y \notin ToSet(x) /\ (y # 0 <=> len > NDIRECT)
        /\ ToSet(x) \cup (IF y = 0 THEN {} ELSE {y}) = BlocksOf(ip) \cup new
        /\ new \subseteq Block /\ new \cap d.used = {}
    BY <2>5 DEF Grown
  <2>8. IsInode(ip)
    BY <2>3 DEF InodeSound
  <2>9. IsInode(jp) /\ jp.type = ip.type /\ jp.nlink = ip.nlink /\ jp.blocks = x /\ jp.ind = y
    BY <2>8, InodeWith
  <2>10. IsDisk(c) /\ c.panic = d.panic /\ c.ino = d.ino /\ c.used = d.used \cup new
    <3>1. PICK w : w = d.used \cup new
      BY ZenonT(90)
    <3>2. IsDisk(WithUsed(d, w)) /\ WithUsed(d, w).panic = d.panic /\ WithUsed(d, w).ino = d.ino
          /\ WithUsed(d, w).used = w
      BY <2>3 DEF IsDisk, WithUsed
    <3> QED
      BY ZenonT(90), <3>1, <3>2
  <2> HIDE DEF c, jp
  <2>11. g.ino[i] = jp
    BY <2>5, <2>9, <2>10, IupdateIs DEF c, jp
  <2>12. /\ kp.type = ip.type /\ kp.nlink = ip.nlink /\ kp.data = v
         /\ kp.blocks = x /\ kp.ind = y
    BY <1>7, <2>9, <2>11, InodeWith
  <2>13. e = Iupdate(c, i, kp)
    <3>1. g = Iupdate(c, i, jp)
      BY <2>5 DEF c, jp
    <3> HIDE DEF kp
    <3> QED
      BY <1>1, <2>10, <3>1, IupdateTwice
  <2> HIDE DEF kp
  <2>14. BlocksOf(kp) = BlocksOf(ip) \cup new
    BY <2>7, <2>12 DEF BlocksOf
  <2>15. BlocksSound(kp)
    BY <1>7, <2>6, <2>7, <2>12 DEF BlocksSound, Different
  <2>16. InodeSound(kp)
    <3>1. n <= MAXFILE * BSIZE
      <4>1. Size(d, i) <= MAXFILE * BSIZE
        BY <2>3 DEF InodeSound, Size, ip
      <4> QED
        BY <1>4, <2>2, <4>1
    <3>2. ip.type \in {"none", "dir", "file", "dev"} /\ ip.type # "none" /\ ip.nlink \in Nat
      BY <2>2, <2>3 DEF InodeSound, ip
    <3> QED
      BY <1>7, <1>8, <2>12, <2>15, <3>1, <3>2 DEF InodeSound, kp
  <2>17. Sound(Iupdate(c, i, kp))
    <3>1. PICK w : w = d.used \cup new
      OBVIOUS
    <3>2. /\ \A b : b \in w <=> (b \in d.used /\ b \notin BlocksOf(d.ino[i])) \/ b \in BlocksOf(kp)
          /\ \A b \in BlocksOf(kp) : b \notin d.used \/ b \in BlocksOf(d.ino[i])
      BY <2>3, <2>7, <2>14, <3>1 DEF ip
    <3>3. Sound(Iupdate(WithUsed(d, w), i, kp))
      BY <2>2, <2>16, <3>2, SoundUpdate
    <3> QED
      BY <3>1, <3>3 DEF c
  <2> QED
    BY <2>13, <2>17
<1>12. e.panic \in Panics
  BY ZenonT(90), <1>9, <1>10 DEF Safe, Panics
<1>13. Safe(e)
  BY <1>6, <1>9, <1>11, <1>12 DEF Safe
<1> QED
  BY <1>13 DEF e

(* dirlink() and ialloc() *)
LEMMA DirlinkSafe ==
  ASSUME NEW d, Safe(d), NEW dp \in Inum, d.panic = "no" => d.ino[dp].type # "none", NEW name, NEW i
  PROVE  Safe(Dirlink(d, dp, name, i))
<1> DEFINE s == EmptySlot(d, dp)
           u == <<Dirent(name, i)>>
<1>1. Dirlink(d, dp, name, i) = IF CanWrite(d, dp, s - 1, 1) THEN Writei(d, dp, s - 1, u) ELSE Panic(d, "dirlink")
  BY DEF Dirlink
<1>2. IsSeq(u) /\ Len(u) = 1
  <2>1. u = [k \in 1..1 |-> u[k]]
    OBVIOUS
  <2> HIDE DEF u
  <2> QED
    BY ZenonT(90), <2>1, FcnIsSeq
<1>3. s \in Nat /\ s >= 1
  BY EmptySlotIs DEF Safe
<1> HIDE DEF s, u
<1>4. ASSUME CanWrite(d, dp, s - 1, 1) PROVE Safe(Writei(d, dp, s - 1, u))
  <2>1. PICK off \in Nat : off = s - 1
    BY <1>3
  <2>2. off + Len(u) <= MAXFILE * BSIZE
    BY <1>2, <1>4, <2>1 DEF CanWrite
  <2>3. Safe(Writei(d, dp, off, u))
    BY ZenonT(90), <1>2, <2>2, WriteiSafe
  <2> QED
    BY <2>1, <2>3
<1>5. Safe(Panic(d, "dirlink"))
  <2>1. "dirlink" \in Panics \ {"no"}
    BY DEF Panics
  <2>2. PICK why : why = "dirlink" /\ why \in Panics \ {"no"}
    BY <2>1, ZenonT(90)
  <2> QED
    BY <2>2, SafePanic
<1> QED
  BY <1>1, <1>4, <1>5

LEMMA IallocSafe ==
  ASSUME NEW d, Safe(d), NEW type \in {"dir", "file", "dev"}
  PROVE  Safe(Ialloc(d, type).d)
<1> DEFINE i == Min(FreeInodes(d))
           jp == WithType(FreeInode, type)
<1>1. CASE FreeInodes(d) = {}
  <2>1. "ialloc: no inodes" \in Panics \ {"no"}
    BY DEF Panics
  <2>2. PICK why : why = "ialloc: no inodes" /\ why \in Panics \ {"no"}
    BY <2>1, ZenonT(90)
  <2>3. Ialloc(d, type).d = Panic(d, why)
    BY ZenonT(90), <1>1, <2>2 DEF Ialloc
  <2> QED
    BY ZenonT(90), <2>2, <2>3, SafePanic
<1>2. CASE FreeInodes(d) # {}
  <2>1. i \in FreeInodes(d)
    <3>1. FreeInodes(d) \in SUBSET Nat
      BY DiskAssumption DEF FreeInodes, Inum
    <3> QED
      BY <1>2, <3>1, MinOf
  <2>2. Ialloc(d, type).d = Iupdate(d, i, jp)
    BY ZenonT(90), <1>2 DEF Ialloc, WithType
  <2> HIDE DEF i
  <2>3. i \in Inum /\ d.ino[i].type = "none"
    BY <2>1 DEF FreeInodes
  <2>4. IsInode(FreeInode)
    BY DEF IsInode, FreeInode, IsSeq
  <2>5. /\ IsInode(jp) /\ jp.type = type /\ jp.nlink = FreeInode.nlink /\ jp.data = FreeInode.data
        /\ jp.blocks = FreeInode.blocks /\ jp.ind = FreeInode.ind
    BY <2>4, InodeWith
  <2> HIDE DEF jp
  <2>6. ASSUME d.panic = "no" PROVE InodeSound(jp) /\ BlocksOf(jp) = BlocksOf(d.ino[i])
    <3>1. d.ino[i] = FreeInode /\ InodeSound(d.ino[i])
      BY <2>3, <2>6 DEF Safe, Sound, InodeSound
    <3>2. BlocksOf(jp) = BlocksOf(d.ino[i]) /\ BlocksSound(jp)
      BY <2>5, <3>1 DEF BlocksOf, BlocksSound, InodeSound
    <3>3. jp.type # "none" /\ jp.type \in {"none", "dir", "file", "dev"}
      BY <2>5
    <3> QED
      BY <2>5, <3>1, <3>2, <3>3 DEF InodeSound
  <2> QED
    BY <2>2, <2>3, <2>5, <2>6, SafeUpdate
<1> QED
  BY <1>1, <1>2

-----------------------------------------------------------------------------
(* Path names.                                                                *)

LEMMA DirlookupIs ==
  ASSUME NEW d, Typed(d), Directories(d), NEW dp \in Dirs(d), NEW name
  PROVE  LET x == Dirlookup(d, dp, name)
             s == Min(Slots(d, dp, name)) IN
         /\ x \in Inum \cup {0}
         /\ x # 0 => s \in 1..Size(d, dp) /\ d.ino[dp].data[s].inum = x
         /\ x # 0 /\ name \notin {".", ".."} => s \in Entries(d, dp) /\ x \in Allocated(d)
<1> DEFINE S == Slots(d, dp, name)
           x == Dirlookup(d, dp, name)
           s == Min(S)
<1>1. /\ Size(d, dp) >= 2 /\ d.ino[dp].data[1] = Dirent(".", dp)
      /\ d.ino[dp].data[2].name = ".." /\ d.ino[dp].data[2].inum \in Inum
      /\ \A k \in Entries(d, dp) : d.ino[dp].data[k].inum \in Allocated(d) \ {dp, ROOTINO}
      /\ dp \in Inum /\ Size(d, dp) \in Nat
  BY SizeIs DEF Directories, Dirs
<1>2. x = IF S = {} THEN 0 ELSE d.ino[dp].data[s].inum
  BY DEF Dirlookup
<1>3. S \in SUBSET Nat
  BY <1>1 DEF Slots
<1> HIDE DEF x
<1>4. CASE S = {}
  BY <1>2, <1>4 DEF x
<1>5. CASE S # {}
  <2>1. s \in S
    BY <1>3, <1>5, MinOf
  <2> HIDE DEF s
  <2>2. s \in 1..Size(d, dp) /\ d.ino[dp].data[s].inum # 0 /\ d.ino[dp].data[s].name = name
    BY <2>1 DEF Slots
  <2>3. x = d.ino[dp].data[s].inum
    BY <1>2, <1>5
  <2>4. CASE s = 1
    <3>1. Dirent(".", dp).name = "." /\ Dirent(".", dp).inum = dp
      BY DEF Dirent
    <3>2. name = "." /\ x = dp
      BY <1>1, <2>2, <2>3, <2>4, <3>1
    <3> QED
      BY <1>1, <2>2, <2>3, <3>2 DEF x, s
  <2>5. CASE s = 2
    <3>1. name = ".." /\ x \in Inum
      BY <1>1, <2>2, <2>3, <2>5
    <3> QED
      BY <2>2, <2>3, <3>1 DEF x, s
  <2>6. CASE s # 1 /\ s # 2
    <3>1. s \in Entries(d, dp)
      BY <1>1, <2>2, <2>6 DEF Entries
    <3>2. x \in Allocated(d) /\ x \in Inum
      BY <1>1, <2>3, <3>1 DEF Allocated
    <3> QED
      BY <2>2, <2>3, <3>1, <3>2 DEF x, s
  <2> QED
    BY <2>4, <2>5, <2>6
<1> QED
  BY <1>4, <1>5

Reached == Inum \cup {0, Broken}

LEMMA LookupStepIs ==
  ASSUME NEW d, Typed(d), Directories(d), NEW ip \in Reached, NEW name
  PROVE  LookupStep(d, ip, name) \in Reached
<1>1. CASE ip \in {0, Broken}
  BY <1>1 DEF LookupStep, Reached
<1>2. CASE ip \notin {0, Broken}
  <2>1. ip \in Inum
    BY <1>2 DEF Reached
  <2>2. d.ino[ip].type = "dir" => Dirlookup(d, ip, Trunc(name)) \in Inum \cup {0}
    BY <2>1, DirlookupIs DEF Dirs
  <2>3. d.ino[ip].type \in {"none", "dir", "file", "dev"}
    BY <2>1 DEF Typed
  <2> QED
    BY <1>2, <2>2, <2>3 DEF LookupStep, Reached
<1> QED
  BY <1>1, <1>2

(* namex(): every step leads to an inode, to nothing, or to one without type. *)
LEMMA FollowIs ==
  ASSUME NEW d, Typed(d), Directories(d), NEW ip \in Reached, NEW names, Len(names) \in Nat
  PROVE  Follow(d, ip, names) \in Reached
<1> DEFINE N == Len(names)
           W == [n \in 0..N |-> Reached]
           G == [n \in 1..N |-> [v \in Reached |-> LookupStep(d, v, names[n])]]
           w == CHOOSE walk : walk = [n \in 0..N |-> IF n = 0 THEN ip ELSE LookupStep(d, walk[n - 1], names[n])]
<1>1. N \in Nat /\ ip \in W[0]
  OBVIOUS
<1>2. ASSUME NEW n \in 1..N, NEW v \in W[n - 1]
      PROVE  v \in Reached /\ G[n][v] = LookupStep(d, v, names[n]) /\ G[n][v] \in W[n]
  <2>1. n - 1 \in 0..N /\ n \in 0..N
    BY <1>1
  <2>2. v \in Reached
    BY <2>1
  <2> QED
    BY <2>1, <2>2, LookupStepIs
<1>3. StepsIn(N, W, G)
  BY ZenonT(90), <1>2 DEF StepsIn
<1> HIDE DEF W, G, N
<1>4. PICK f : Takes(f, N, W, G) /\ f[0] = ip
  BY <1>1, <1>3, StepsExist
<1>5. f = [n \in 0..N |-> IF n = 0 THEN ip ELSE LookupStep(d, f[n - 1], names[n])]
  <2>1. ASSUME NEW n \in 0..N PROVE f[n] = IF n = 0 THEN ip ELSE LookupStep(d, f[n - 1], names[n])
    <3>1. CASE n = 0
      BY <1>4, <3>1
    <3>2. CASE n # 0
      <4>1. n \in 1..N
        BY <1>1, <3>2
      <4>2. f[n] = LookupStep(d, f[n - 1], names[n])
        BY ZenonT(90), <1>2, <1>4, <4>1 DEF Takes
      <4> QED
        BY <3>2, <4>2
    <3> QED
      BY <3>1, <3>2
  <2> QED
    BY ZenonT(90), <1>4, <2>1 DEF Takes
<1>6. w = [n \in 0..N |-> IF n = 0 THEN ip ELSE LookupStep(d, w[n - 1], names[n])]
  BY <1>5, ZenonT(90)
<1>7. Follow(d, ip, names) = w[N]
  BY ZenonT(90) DEF Follow, N
<1> HIDE DEF w
<1>8. w[0] \in W[0]
  BY <1>1, <1>6
<1>9. \A n \in 1..N : w[n - 1] \in W[n - 1] => w[n] \in W[n]
  <2> TAKE n \in 1..N
  <2>1. n \in 0..N /\ n # 0
    BY <1>1
  <2>2. w[n] = LookupStep(d, w[n - 1], names[n])
    BY ZenonT(90), <1>6, <2>1
  <2> QED
    BY ZenonT(90), <1>2, <2>2
<1>10. w[N] \in W[N]
  <2>1. \A n \in 0..N : w[n] \in W[n]
    BY ZenonT(90), <1>1, <1>8, <1>9, StepByStep
  <2> QED
    BY <1>1, <2>1
<1>11. W[N] = Reached
  BY <1>1 DEF W
<1> QED
  BY <1>7, <1>10, <1>11

LEMMA ElemsIs ==
  ASSUME NEW path, IsSeq(path)
  PROVE  Len(Elems(path)) \in Nat /\ (Elems(path) # <<>> => Len(Front(Elems(path))) \in Nat)
<1>1. PICK T : path \in Seq(T)
  BY DEF IsSeq
<1>2. Elems(path) \in Seq(T)
  BY <1>1 DEF Elems, IsAbsolute
<1>3. ASSUME NEW s \in Seq(T), s # <<>> PROVE Len(Front(s)) \in Nat
  <2>1. Len(s) \in Nat /\ Len(s) >= 1
    BY <1>3
  <2>2. SubSeq(s, 1, Len(s) - 1) \in Seq(T)
    BY <1>3, <2>1
  <2> QED
    BY <2>2 DEF Front
<1> QED
  BY <1>2, <1>3

LEMMA NameiIs ==
  ASSUME NEW d, Typed(d), Directories(d), NEW c \in Inum, NEW path, IsSeq(path)
  PROVE  /\ Namei(d, c, path) \in Allocated(d) \cup {0, Broken}
         /\ NameiParent(d, c, path) \in Dirs(d) \cup {0, Broken}
<1>1. StartOf(c, path) \in Reached
  BY DEF StartOf, Reached, Directories, Dirs
<1>2. Len(Elems(path)) \in Nat /\ (Elems(path) # <<>> => Len(Front(Elems(path))) \in Nat)
  BY ElemsIs
<1>3. Namei(d, c, path) \in Allocated(d) \cup {0, Broken}
  <2> DEFINE ip == Follow(d, StartOf(c, path), Elems(path))
  <2>1. ip \in Reached
    BY <1>1, <1>2, FollowIs
  <2>2. Namei(d, c, path) = IF ip > 0 /\ d.ino[ip].type = "none" THEN Broken ELSE ip
    BY DEF Namei
  <2> HIDE DEF ip
  <2> QED
    BY <2>1, <2>2, DiskAssumption DEF Reached, Allocated, FreeInodes, Inum
<1>4. NameiParent(d, c, path) \in Dirs(d) \cup {0, Broken}
  <2>1. CASE Elems(path) = <<>>
    BY <2>1 DEF NameiParent
  <2>2. CASE Elems(path) # <<>>
    <3> DEFINE dp == Follow(d, StartOf(c, path), Front(Elems(path)))
    <3>1. dp \in Reached
      BY <1>1, <1>2, <2>2, FollowIs
    <3>2. NameiParent(d, c, path) =
            CASE dp \in {0, Broken}      -> dp
              [] d.ino[dp].type = "none" -> Broken
              [] OTHER -> IF d.ino[dp].type = "dir" THEN dp ELSE 0
      BY <2>2 DEF NameiParent
    <3> HIDE DEF dp
    <3>3. CASE dp \in {0, Broken}
      <4>1. dp \in {0, Broken} /\ d.ino[dp].type = "none" => NameiParent(d, c, path) \in {dp, Broken}
        BY <3>2
      <4>2. dp \in {0, Broken} /\ d.ino[dp].type # "none" => NameiParent(d, c, path) = dp
        BY <3>2
      <4> QED
        BY <3>3, <4>1, <4>2
    <3>4. CASE dp \notin {0, Broken}
      <4>1. dp \in Inum
        BY <3>1, <3>4 DEF Reached
      <4> QED
        BY <3>2, <3>4, <4>1 DEF Dirs
    <3> QED
      BY <3>3, <3>4
  <2> QED
    BY <2>1, <2>2
<1> QED
  BY <1>3, <1>4

-----------------------------------------------------------------------------
(* What the calls make of the tree.                                           *)

(* A panic leaves the disk as it is.                                          *)
LEMMA PanicKeeps ==
  ASSUME NEW d, NEW L, Sound(d), Tree(d, L), d.panic = "no", NEW why \in Panics \ {"no"}
  PROVE  LET e == Panic(d, why) IN
         /\ Sound(e) /\ e.panic = why /\ Tree(e, L) /\ e.ino = d.ino
         /\ \A i \in Inum : Names(e, i) = Names(d, i)
<1> DEFINE e == Panic(d, why)
<1>1. IsDisk(d) /\ IsDisk(e) /\ e.ino = d.ino /\ e.used = d.used
  BY SoundTyped, PanicIs
<1>2. e.panic = why
  <2>1. e = [d EXCEPT !.panic = why]
    BY DEF Panic
  <2> HIDE DEF e
  <2> QED
    BY <1>1, <2>1 DEF IsDisk
<1> HIDE DEF e
<1>3. Sound(e)
  BY <1>1 DEF Sound
<1>4. Typed(e)
  BY <1>3, SoundTyped
<1>5. Tree(e, L) /\ \A i \in Inum : Names(e, i) = Names(d, i)
  BY <1>1, <1>4, SameTree
<1> QED
  BY <1>1, <1>2, <1>3, <1>5 DEF e

(* What has links and is not lost has a name.                                 *)
LEMMA LinkedHasName ==
  ASSUME NEW d, NEW L, Tree(d, L), NEW i \in Allocated(d) \ L, i # ROOTINO, d.ino[i].nlink # 0
  PROVE  Names(d, i) # {}
<1> SUFFICES ASSUME Names(d, i) = {} PROVE FALSE
  OBVIOUS
<1>1. d.ino[i].nlink = Cardinality(Names(d, i)) + Cardinality(Sub(d, i)) + Own(i)
  BY LinksAre DEF Tree, LinkCounts
<1>2. Sub(d, i) = {}
  BY DEF Tree, Nameless, Sub, Subdirs
<1>3. Cardinality(Names(d, i)) = 0 /\ Cardinality(Sub(d, i)) = 0
  BY <1>2, FS_EmptySet
<1> QED
  BY <1>1, <1>3 DEF Own

(* Nothing goes: what was allocated keeps its type, its size and its names,   *)
(* and what is new has a name.                                                *)
Extends(d, e) ==
  /\ \A i \in Allocated(d) : /\ i \in Allocated(e) /\ e.ino[i].type = d.ino[i].type
                             /\ Size(e, i) \in Nat /\ Size(e, i) >= Size(d, i)
  /\ \A i \in Allocated(e) : Names(e, i) # {} \/ (i \in Allocated(d) /\ Names(e, i) = Names(d, i))

(* create(): a new inode i, which will get a name in dp.                      *)
WithLinks(ip, n) == [ip EXCEPT !.nlink = n]

BornIn(d, e, dp, i) ==
  /\ \A j \in Inum \ {i, dp} : SameInode(d, e, j)
  /\ e.ino[i].nlink = 1 /\ e.ino[i].type # "none"
  /\ e.ino[i].type = "dir" =>
       /\ Size(e, i) = 2 /\ e.ino[i].data[1] = Dirent(".", i)
       /\ e.ino[i].data[2] = Dirent("..", dp)
  /\ e.ino[dp].type = "dir"
  /\ e.ino[dp].nlink = d.ino[dp].nlink + (IF e.ino[i].type = "dir" THEN 1 ELSE 0)

LEMMA Named ==
  ASSUME NEW d, NEW L, Tree(d, L), NEW dp \in Dirs(d), NEW i \in Inum, d.ino[i].type = "none",
         NEW s, NEW e, Typed(e), BornIn(d, e, dp, i), EntryAt(d, e, dp, i, s)
  PROVE  Tree(e, LostBy(d, L, dp, i)) /\ Extends(d, e)
<1>a. /\ s \in Nat /\ s >= 3 /\ s \notin Entries(d, dp)
      /\ \A k \in Nat : k \in 1..Size(e, dp) <=> k \in 1..Size(d, dp) \/ k = s
      /\ \A k \in 1..Size(e, dp) : k # s => e.ino[dp].data[k] = d.ino[dp].data[k]
      /\ e.ino[dp].data[s].inum = i
  BY DEF EntryAt
<1>b. /\ \A j \in Inum \ {i, dp} : SameInode(d, e, j)
      /\ e.ino[i].nlink = 1 /\ e.ino[i].type # "none"
      /\ e.ino[i].type = "dir" =>
           /\ Size(e, i) = 2 /\ e.ino[i].data[1] = Dirent(".", i)
           /\ e.ino[i].data[2] = Dirent("..", dp)
      /\ e.ino[dp].type = "dir"
      /\ e.ino[dp].nlink = d.ino[dp].nlink + (IF e.ino[i].type = "dir" THEN 1 ELSE 0)
  BY DEF BornIn
<1> USE <1>a, <1>b
<1> DEFINE ip == WithLinks(e.ino[i], 0)
           m  == Iupdate(d, i, ip)
<1>1. IsDisk(d) /\ IsInode(e.ino[i]) /\ dp \in Inum /\ d.ino[dp].type = "dir" /\ dp # i
  BY ZenonT(90) DEF Tree, Typed, IsDisk, Dirs
<1>2. ip.type = e.ino[i].type /\ ip.nlink = 0 /\ ip.data = e.ino[i].data /\ IsInode(ip)
  BY <1>1 DEF IsInode, WithLinks
<1> HIDE DEF ip
<1>3. IsDisk(m) /\ \A j \in Inum : m.ino[j] = IF j = i THEN ip ELSE d.ino[j]
  BY <1>1, <1>2, IupdateIs
<1> HIDE DEF m
<1>4. Typed(m)
  BY SMTT(60), <1>2, <1>3 DEF Typed, Tree
<1>5. \A j \in Inum \ {i} : SameInode(d, m, j) /\ Size(m, j) = Size(d, j)
  BY <1>3 DEF SameInode, Size
<1>6. m.ino[i].nlink = 0 /\ m.ino[i].type = e.ino[i].type /\ m.ino[i].data = e.ino[i].data
      /\ Size(m, i) = Size(e, i)
  BY SMTT(60), <1>2, <1>3 DEF Size
<1>7. /\ Tree(m, L)
      /\ \A j \in Inum : Names(m, j) = Names(d, j)
      /\ Names(m, i) = {} /\ i # ROOTINO
  <2>1. m.ino[i].type = "dir" =>
           /\ Size(m, i) = 2 /\ m.ino[i].data[1] = Dirent(".", i)
           /\ m.ino[i].data[2].name = ".." /\ m.ino[i].data[2].inum \in Inum
    BY <1>1, <1>6 DEF Dirent
  <2> QED
    BY SMTT(60), <1>4, <1>5, <1>6, <2>1, NewInode
<1>8. dp \in Dirs(m) /\ i \in Allocated(m) /\ Entries(m, dp) = Entries(d, dp)
  BY SMTT(60), <1>1, <1>3, <1>6 DEF Dirs, Allocated, FreeInodes, Entries, Size
<1>9. i \in Dirs(m) <=> e.ino[i].type = "dir"
  BY <1>6 DEF Dirs
<1>10. i \in Dirs(m) => Names(m, i) = {} /\ Entries(m, i) = {} /\ m.ino[i].data[2].inum = dp
  BY <1>6, <1>7, <1>9 DEF Entries, Dirent
<1>11. \A j \in Inum : /\ e.ino[j].type = m.ino[j].type
                       /\ j # dp => e.ino[j].data = m.ino[j].data
                       /\ e.ino[j].nlink = m.ino[j].nlink + (IF j = i THEN 1 ELSE 0)
                                             + (IF j = dp /\ i \in Dirs(m) THEN 1 ELSE 0)
  <2> TAKE j \in Inum
  <2>1. CASE j = i
    BY <1>1, <1>6, <2>1
  <2>2. CASE j = dp
    <3>1. m.ino[dp].nlink \in Nat /\ m.ino[dp] = d.ino[dp]
      BY <1>1, <1>3, <1>4 DEF Typed
    <3> QED
      BY <1>1, <1>9, <2>2, <3>1
  <2>3. CASE j # i /\ j # dp
    <3>1. m.ino[j].nlink \in Nat /\ SameInode(d, e, j) /\ m.ino[j] = d.ino[j]
      BY <1>3, <1>4, <2>3 DEF Typed
    <3> QED
      BY <2>3, <3>1 DEF SameInode
  <2> QED
    BY <2>1, <2>2, <2>3
<1>12. m.ino[dp] = d.ino[dp] /\ Size(m, dp) = Size(d, dp)
  BY <1>1, <1>3 DEF Size
<1>13. Tree(e, LostBy(m, L, dp, i)) /\ NamesButOf(m, e, i) /\ Names(e, i) # {}
  <2>1. EntryAt(m, e, dp, i, s)
    BY <1>8, <1>12 DEF EntryAt
  <2>2. LinksUp(m, e, dp, i)
    BY <1>11 DEF LinksUp
  <2>3. MayEnter(m, dp, i)
    BY <1>1, <1>7, <1>8, <1>10 DEF MayEnter
  <2> QED
    BY ONLY Typed(e), <1>7, <1>8, <2>1, <2>2, <2>3, NewEntry
<1>14. Extends(d, e)
  <2>1. ASSUME NEW j \in Allocated(d)
        PROVE  j \in Allocated(e) /\ e.ino[j].type = d.ino[j].type /\ Size(e, j) >= Size(d, j) /\ Size(e, j) \in Nat
    <3>1. j \in Inum /\ j # i
      BY DEF Allocated, FreeInodes
    <3>2. e.ino[j].type = d.ino[j].type
      BY <1>3, <1>11, <3>1
    <3>3. Size(e, j) \in Nat /\ Size(d, j) \in Nat
      BY <3>1, SizeIs DEF Tree
    <3>4. CASE j = dp
      <4>1. Size(e, dp) >= Size(d, dp)
        <5> SUFFICES ASSUME Size(e, dp) < Size(d, dp) PROVE FALSE
          BY <3>3, <3>4
        <5>1. Size(d, dp) \in 1..Size(d, dp)
          BY <3>3, <3>4
        <5>2. Size(d, dp) \in 1..Size(e, dp)
          BY <3>3, <3>4, <5>1
        <5> QED
          BY <3>3, <3>4, <5>2
      <4> QED
        BY <3>1, <3>2, <3>3, <3>4, <4>1 DEF Allocated, FreeInodes
    <3>5. CASE j # dp
      <4>1. e.ino[j].data = d.ino[j].data
        BY <3>1, <3>5 DEF SameInode
      <4>2. Size(e, j) = Size(d, j)
        BY <4>1 DEF Size
      <4> QED
        BY <3>1, <3>2, <3>3, <4>2 DEF Allocated, FreeInodes
    <3> QED
      BY <3>4, <3>5
  <2>2. ASSUME NEW j \in Allocated(e), j # i
        PROVE  j \in Allocated(d) /\ Names(e, j) = Names(d, j)
    <3>1. j \in Inum /\ e.ino[j].type # "none"
      BY DEF Allocated, FreeInodes
    <3>2. e.ino[j].type = d.ino[j].type
      BY <1>3, <1>11, <2>2, <3>1
    <3> QED
      BY <1>7, <1>13, <2>2, <3>1, <3>2 DEF Allocated, FreeInodes, NamesButOf
  <2> QED
    BY <1>13, <2>1, <2>2 DEF Extends
<1> QED
  BY <1>12, <1>13, <1>14 DEF LostBy

(* dirlink() to directory dp of d, which e has in the same state: the entry   *)
(* goes where there was none.                                                 *)
LEMMA DirlinkEntry ==
  ASSUME NEW d, Typed(d), Directories(d), NEW dp \in Dirs(d), NEW c, IsDisk(c), c.ino[dp].data = d.ino[dp].data,
         NEW name, NEW i, Dirlink(c, dp, name, i).panic = "no"
  PROVE  \E s : EntryAt(d, Dirlink(c, dp, name, i), dp, i, s)
<1> DEFINE e == Dirlink(c, dp, name, i)
           s == EmptySlot(c, dp)
<1>1. dp \in Inum /\ Size(d, dp) \in Nat /\ Size(d, dp) >= 2 /\ Size(c, dp) = Size(d, dp)
  BY SizeIs DEF Dirs, Directories, Size
<1>2. /\ s \in Nat /\ s >= 1 /\ s <= Size(c, dp) + 1
      /\ s <= Size(c, dp) => c.ino[dp].data[s].inum = 0
  BY <1>1, EmptySlotIs
<1>3. s # 1 /\ s # 2
  <2>1. d.ino[dp].data[1] = Dirent(".", dp) /\ d.ino[dp].data[2].inum \in Inum
    BY DEF Directories
  <2>3. Dirent(".", dp).inum = dp
    BY DEF Dirent
  <2>2. dp # 0 /\ 0 \notin Inum
    BY <1>1, DiskAssumption DEF Inum
  <2> QED
    BY <1>1, <1>2, <2>1, <2>2, <2>3
<1>4. s \notin Entries(d, dp)
  BY <1>1, <1>2 DEF Entries
<1>5. /\ Size(e, dp) = IF s > Size(c, dp) THEN s ELSE Size(c, dp)
      /\ \A k \in 1..Size(e, dp) : k # s => e.ino[dp].data[k] = c.ino[dp].data[k]
      /\ e.ino[dp].data[s] = Dirent(name, i)
  BY <1>1, DirlinkIs
<1> HIDE DEF e, s
<1>6. e.ino[dp].data[s].inum = i
  BY <1>5 DEF Dirent
<1>7. EntryAt(d, e, dp, i, s)
  BY <1>1, <1>2, <1>3, <1>4, <1>5, <1>6 DEF EntryAt
<1> QED
  BY <1>7 DEF e

(* The first two entries of a new directory.                                  *)
LEMMA DotEntries ==
  ASSUME NEW d, IsDisk(d), NEW i \in Inum, d.ino[i].data = <<>>, NEW dp
  PROVE  LET e == Dirlink(Dirlink(d, i, ".", i), i, "..", dp) IN
         /\ IsDisk(e) /\ (e.panic = "no" => d.panic = "no")
         /\ \A j \in Inum \ {i} : SameInode(d, e, j)
         /\ e.ino[i].type = d.ino[i].type /\ e.ino[i].nlink = d.ino[i].nlink
         /\ e.panic = "no" =>
              Size(e, i) = 2 /\ e.ino[i].data[1] = Dirent(".", i) /\ e.ino[i].data[2] = Dirent("..", dp)
<1> DEFINE c == Dirlink(d, i, ".", i)
           e == Dirlink(c, i, "..", dp)
           s == EmptySlot(d, i)
           t == EmptySlot(c, i)
<1>1. PICK dot, dots : dot = "." /\ dots = ".."
  BY ZenonT(90)
<1>2. /\ IsDisk(c) /\ (c.panic = "no" => d.panic = "no")
      /\ \A j \in Inum \ {i} : SameInode(d, c, j)
      /\ c.ino[i].type = d.ino[i].type /\ c.ino[i].nlink = d.ino[i].nlink
      /\ c.panic = "no" =>
           /\ Size(c, i) = IF s > Size(d, i) THEN s ELSE Size(d, i)
           /\ c.ino[i].data[s] = Dirent(".", i)
  <2>1. LET x == Dirlink(d, i, dot, i) IN
        /\ IsDisk(x) /\ (x.panic = "no" => d.panic = "no")
        /\ \A j \in Inum \ {i} : SameInode(d, x, j)
        /\ x.ino[i].type = d.ino[i].type /\ x.ino[i].nlink = d.ino[i].nlink
        /\ x.panic = "no" =>
             /\ Size(x, i) = IF s > Size(d, i) THEN s ELSE Size(d, i)
             /\ x.ino[i].data[s] = Dirent(dot, i)
    BY DirlinkIs
  <2> QED
    BY <1>1, <2>1
<1>3. Size(d, i) = 0 /\ s = 1
  <2>1. Size(d, i) = 0
    BY DEF Size
  <2>2. s \in Nat /\ s >= 1 /\ s <= Size(d, i) + 1
    BY EmptySlotIs
  <2> HIDE DEF s
  <2> QED
    BY <2>1, <2>2
<1> HIDE DEF c, s
<1>4. c.panic = "no" => Size(c, i) = 1 /\ c.ino[i].data[1] = Dirent(".", i)
  BY <1>2, <1>3
<1>5. /\ IsDisk(e) /\ (e.panic = "no" => c.panic = "no")
      /\ \A j \in Inum \ {i} : SameInode(c, e, j)
      /\ e.ino[i].type = c.ino[i].type /\ e.ino[i].nlink = c.ino[i].nlink
      /\ e.panic = "no" =>
           /\ Size(e, i) = IF t > Size(c, i) THEN t ELSE Size(c, i)
           /\ \A k \in 1..Size(e, i) : k # t => e.ino[i].data[k] = c.ino[i].data[k]
           /\ e.ino[i].data[t] = Dirent("..", dp)
  <2>1. LET x == Dirlink(c, i, dots, dp) IN
        /\ IsDisk(x) /\ (x.panic = "no" => c.panic = "no")
        /\ \A j \in Inum \ {i} : SameInode(c, x, j)
        /\ x.ino[i].type = c.ino[i].type /\ x.ino[i].nlink = c.ino[i].nlink
        /\ x.panic = "no" =>
             /\ Size(x, i) = IF t > Size(c, i) THEN t ELSE Size(c, i)
             /\ \A k \in 1..Size(x, i) : k # t => x.ino[i].data[k] = c.ino[i].data[k]
             /\ x.ino[i].data[t] = Dirent(dots, dp)
    BY <1>2, DirlinkIs
  <2> QED
    BY <1>1, <2>1
<1>6. c.panic = "no" => t = 2
  <2>1. /\ t \in Nat /\ t >= 1 /\ t <= Size(c, i) + 1
        /\ t <= Size(c, i) => c.ino[i].data[t].inum = 0
    BY <1>2, EmptySlotIs
  <2>2. Dirent(".", i).inum = i /\ i # 0
    BY DiskAssumption DEF Dirent, Inum
  <2> HIDE DEF t
  <2> QED
    BY <1>4, <2>1, <2>2
<1> HIDE DEF e, t
<1>7. \A j \in Inum \ {i} : SameInode(d, e, j)
  BY <1>2, <1>5 DEF SameInode
<1>8. e.panic = "no" =>
        Size(e, i) = 2 /\ e.ino[i].data[1] = Dirent(".", i) /\ e.ino[i].data[2] = Dirent("..", dp)
  BY <1>4, <1>5, <1>6
<1> QED
  BY <1>2, <1>5, <1>7, <1>8 DEF c, e

=============================================================================
