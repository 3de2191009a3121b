------------------------------ MODULE Fs_proofs ------------------------------
(* The calls of sysfile.c and file.c, fork(), exit() and a crash keep the     *)
(* tables of files, the blocks of the disk and the tree of directories, for   *)
(* any number of processes, files and descriptors, any disk and any calls.    *)
EXTENDS Fs, FsDisk_proofs

-----------------------------------------------------------------------------
(* Part 1: descriptors and open files.                                        *)

Refs(of, f) == {pf \in Proc \X Fd : of[pf[1]][pf[2]] = f}

FdTable(of) == of \in [Proc -> [Fd -> File \cup {0}]]

LEMMA RefsFinite ==
  ASSUME NEW of, NEW f
  PROVE  IsFiniteSet(Refs(of, f)) /\ Cardinality(Refs(of, f)) \in Nat
<1>1. IsFiniteSet(Fd)
  BY FS_Interval, FsAssumption DEF Fd
<1>2. IsFiniteSet(Proc \X Fd)
  BY <1>1, FS_Product, FsAssumption
<1>3. Refs(of, f) \in SUBSET (Proc \X Fd)
  BY DEF Refs
<1>4. IsFiniteSet(Refs(of, f))
  BY <1>2, <1>3, FS_Subset
<1> QED
  BY <1>4, FS_CardinalityType

SetFd(of, p, fd, v) == [of EXCEPT ![p][fd] = v]

(* A descriptor is set to v.                                                  *)
LEMMA FdSet ==
  ASSUME NEW of, FdTable(of), NEW p \in Proc, NEW fd \in Fd, NEW v \in File \cup {0}
  PROVE  LET nf == SetFd(of, p, fd, v) IN
         /\ FdTable(nf)
         /\ nf[p][fd] = v
         /\ \A r \in Proc, e \in Fd : <<r, e>> # <<p, fd>> => nf[r][e] = of[r][e]
         /\ \A f : Refs(nf, f) = IF f = v THEN Refs(of, f) \cup {<<p, fd>>} ELSE Refs(of, f) \ {<<p, fd>>}
<1> DEFINE nf == SetFd(of, p, fd, v)
<1>1. FdTable(nf)
  BY DEF FdTable, SetFd
<1>2. \A r \in Proc, e \in Fd : nf[r][e] = IF r = p /\ e = fd THEN v ELSE of[r][e]
  BY DEF FdTable, SetFd
<1> HIDE DEF nf
<1>3. \A r \in Proc, e \in Fd : <<r, e>> # <<p, fd>> => nf[r][e] = of[r][e]
  BY <1>2
<1>4. ASSUME NEW f
      PROVE  Refs(nf, f) = IF f = v THEN Refs(of, f) \cup {<<p, fd>>} ELSE Refs(of, f) \ {<<p, fd>>}
  BY <1>2 DEF Refs
<1> QED
  BY <1>1, <1>2, <1>3, <1>4 DEF nf

(* A closed descriptor is given file k; an open one is closed.                *)
LEMMA FdOpened ==
  ASSUME NEW of, FdTable(of), NEW p \in Proc, NEW fd \in Fd, NEW k \in File, of[p][fd] = 0
  PROVE  \A f \in File : Cardinality(Refs(SetFd(of, p, fd, k), f)) =
           Cardinality(Refs(of, f)) + IF f = k THEN 1 ELSE 0
<1> TAKE f \in File
<1>1. <<p, fd>> \notin Refs(of, f)
  BY DEF Refs, File
<1>2. Refs(SetFd(of, p, fd, k), f) = IF f = k THEN Refs(of, f) \cup {<<p, fd>>} ELSE Refs(of, f)
  <2> DEFINE nf == SetFd(of, p, fd, k)
  <2>1. nf = SetFd(of, p, fd, k) /\ k \in File \cup {0}
    OBVIOUS
  <2> HIDE DEF nf
  <2>2. Refs(nf, f) = IF f = k THEN Refs(of, f) \cup {<<p, fd>>} ELSE Refs(of, f) \ {<<p, fd>>}
    BY <2>1, FdSet
  <2>3. Refs(nf, f) = IF f = k THEN Refs(of, f) \cup {<<p, fd>>} ELSE Refs(of, f)
    BY <1>1, <2>2
  <2> QED
    BY <2>1, <2>3
<1> HIDE DEF Refs
<1>3. IsFiniteSet(Refs(of, f))
  BY RefsFinite
<1>4. CASE f = k
  <2>1. Cardinality(Refs(of, f) \cup {<<p, fd>>}) = Cardinality(Refs(of, f)) + 1
    BY ZenonT(90), <1>1, <1>3, FS_AddElement
  <2> QED
    BY <1>2, <1>4, <2>1
<1>5. CASE f # k
  BY <1>2, <1>5, RefsFinite
<1> QED
  BY <1>4, <1>5

LEMMA FdClosed ==
  ASSUME NEW of, FdTable(of), NEW p \in Proc, NEW fd \in Fd, of[p][fd] # 0
  PROVE  /\ of[p][fd] \in File
         /\ Cardinality(Refs(of, of[p][fd])) > 0
         /\ \A f \in File : Cardinality(Refs(SetFd(of, p, fd, 0), f)) =
              Cardinality(Refs(of, f)) - IF f = of[p][fd] THEN 1 ELSE 0
<1> DEFINE k == of[p][fd]
<1>1. k \in File
  BY DEF FdTable
<1>2. <<p, fd>> \in Refs(of, k)
  BY DEF Refs
<1>3. Cardinality(Refs(of, k)) > 0
  BY <1>2, RefsFinite, FS_EmptySet
<1>4. ASSUME NEW f \in File
      PROVE  Cardinality(Refs(SetFd(of, p, fd, 0), f)) = Cardinality(Refs(of, f)) - IF f = k THEN 1 ELSE 0
  <2>1. f # 0
    BY DEF File
  <2>2. Refs(SetFd(of, p, fd, 0), f) = Refs(of, f) \ {<<p, fd>>}
    <3> DEFINE nf == SetFd(of, p, fd, 0)
    <3>1. nf = SetFd(of, p, fd, 0) /\ 0 \in File \cup {0}
      OBVIOUS
    <3> HIDE DEF nf
    <3>2. Refs(nf, f) = IF f = 0 THEN Refs(of, f) \cup {<<p, fd>>} ELSE Refs(of, f) \ {<<p, fd>>}
      BY <3>1, FdSet
    <3>3. Refs(nf, f) = Refs(of, f) \ {<<p, fd>>}
      BY <2>1, <3>2
    <3> QED
      BY <3>1, <3>3
  <2>3. <<p, fd>> \in Refs(of, f) <=> f = k
    BY DEF Refs
  <2>4. IsFiniteSet(Refs(of, f))
    BY RefsFinite
  <2>5. Cardinality(Refs(of, f) \ {<<p, fd>>}) =
          IF <<p, fd>> \in Refs(of, f) THEN Cardinality(Refs(of, f)) - 1 ELSE Cardinality(Refs(of, f))
    BY ZenonT(90), <2>4, FS_RemoveElement
  <2>6. Cardinality(Refs(of, f)) \in Nat
    BY RefsFinite
  <2>7. Cardinality(Refs(of, f) \ {<<p, fd>>}) = Cardinality(Refs(of, f)) - IF f = k THEN 1 ELSE 0
    <3> HIDE DEF Refs, k
    <3> QED
      BY <2>3, <2>5, <2>6
  <2> QED
    BY <2>2, <2>7
<1> QED
  BY <1>1, <1>3, <1>4

CopyRow(of, p, r) == [of EXCEPT ![r] = of[p]]
Copies(of, p, f)  == Cardinality({fd \in Fd : of[p][fd] = f})

(* fork(): the row of p is copied to the empty row of r.                      *)
LEMMA FdCopied ==
  ASSUME NEW of, FdTable(of), NEW p \in Proc, NEW r \in Proc, \A fd \in Fd : of[r][fd] = 0
  PROVE  LET nf == CopyRow(of, p, r) IN
         /\ FdTable(nf)
         /\ \A s \in Proc, fd \in Fd : nf[s][fd] = IF s = r THEN of[p][fd] ELSE of[s][fd]
         /\ \A f \in File : Copies(of, p, f) \in Nat
         /\ \A f \in File : Cardinality(Refs(nf, f)) = Cardinality(Refs(of, f)) + Copies(of, p, f)
<1> DEFINE nf == CopyRow(of, p, r)
<1>1. FdTable(nf) /\ \A s \in Proc, fd \in Fd : nf[s][fd] = IF s = r THEN of[p][fd] ELSE of[s][fd]
  BY DEF FdTable, CopyRow
<1> HIDE DEF nf
<1>2. ASSUME NEW f \in File
      PROVE  /\ Cardinality({fd \in Fd : of[p][fd] = f}) \in Nat
             /\ Cardinality(Refs(nf, f)) =
                  Cardinality(Refs(of, f)) + Cardinality({fd \in Fd : of[p][fd] = f})
  <2> DEFINE S == {fd \in Fd : of[p][fd] = f}
             T == {pf \in Refs(nf, f) : pf[1] = r}
             h == [fd \in S |-> <<r, fd>>]
  <2>1. IsFiniteSet(S)
    <3>1. IsFiniteSet(Fd)
      BY FS_Interval, FsAssumption DEF Fd
    <3> QED
      BY <3>1, FS_Subset
  <2>2. h \in Bijection(S, T)
    <3>1. \A fd \in S : <<r, fd>> \in T
      BY <1>1 DEF Refs
    <3>2. \A pf \in T : pf[2] \in S /\ pf = <<r, pf[2]>>
      BY <1>1 DEF Refs
    <3>3. h \in [S -> T]
      BY <3>1
    <3>4. \A a, b \in S : h[a] = h[b] => a = b
      OBVIOUS
    <3>5. \A t \in T : \E a \in S : h[a] = t
      BY <3>2
    <3> HIDE DEF h, S, T
    <3> QED
      BY <3>3, <3>4, <3>5, ZenonT(90) DEF Bijection, Injection, Surjection, IsInjective
  <2>3. IsFiniteSet(T) /\ Cardinality(T) = Cardinality(S)
    <3>1. ExistsBijection(S, T)
      BY <2>2, ZenonT(90) DEF ExistsBijection
    <3> HIDE DEF S, T
    <3> QED
      BY <2>1, <3>1, FS_Bijection
  <2>4. Refs(nf, f) = Refs(of, f) \cup T /\ Refs(of, f) \cap T = {}
    <3>1. f # 0
      BY DEF File
    <3> QED
      BY <1>1, <3>1 DEF Refs
  <2>5. Cardinality(S) \in Nat
    BY <2>1, FS_CardinalityType
  <2> HIDE DEF S, T, h
  <2>6. Cardinality(Refs(nf, f)) = Cardinality(Refs(of, f)) + Cardinality(T) - Cardinality(Refs(of, f) \cap T)
    BY <2>3, <2>4, RefsFinite, FS_Union
  <2>7. Cardinality(Refs(of, f) \cap T) = 0
    BY <2>4, FS_EmptySet
  <2>8. Cardinality(Refs(nf, f)) = Cardinality(Refs(of, f)) + Cardinality(S)
    BY <2>3, <2>5, <2>6, <2>7, RefsFinite
  <2> QED
    BY <2>5, <2>8 DEF S
<1> QED
  BY <1>1, <1>2 DEF nf, Copies

(* The table of open files counts the descriptors.                            *)
OpenFile(r) == "ref" \in DOMAIN r /\ r.ref \in Nat

FilesInv(g, of) ==
  /\ g = [f \in File |-> g[f]]
  /\ FdTable(of)
  /\ \A f \in File : OpenFile(g[f])
  /\ \A f \in File : g[f].ref = Cardinality(Refs(of, f))
  /\ \A f \in File : g[f].ref = 0 => g[f] = NoFile

SetFile(g, k, r) == [g EXCEPT ![k] = r]
LessOne(r)       == IF r.ref > 1 THEN [r EXCEPT !.ref = r.ref - 1] ELSE NoFile
OneMore(r)       == [r EXCEPT !.ref = r.ref + 1]

LEMMA SetFileIs ==
  ASSUME NEW g, g = [f \in File |-> g[f]], NEW k \in File, NEW r
  PROVE  /\ SetFile(g, k, r) = [f \in File |-> SetFile(g, k, r)[f]]
         /\ \A f \in File : SetFile(g, k, r)[f] = IF f = k THEN r ELSE g[f]
BY DEF SetFile

LEMMA FilesOpened ==
  ASSUME NEW g, NEW of, FilesInv(g, of), NEW p \in Proc, NEW fd \in Fd, of[p][fd] = 0,
         NEW k \in File, g[k].ref = 0, NEW r, OpenFile(r), r.ref = 1
  PROVE  FilesInv(SetFile(g, k, r), SetFd(of, p, fd, k))
<1> DEFINE h == SetFile(g, k, r)
           nf == SetFd(of, p, fd, k)
<1>1. FdTable(nf)
  BY FdSet DEF FilesInv
<1>2. \A f \in File : Cardinality(Refs(nf, f)) = Cardinality(Refs(of, f)) + IF f = k THEN 1 ELSE 0
  BY FdOpened DEF FilesInv
<1>3. h = [f \in File |-> h[f]] /\ \A f \in File : h[f] = IF f = k THEN r ELSE g[f]
  BY SetFileIs DEF FilesInv
<1> HIDE DEF h, nf
<1>4. \A f \in File : Cardinality(Refs(of, f)) \in Nat
  BY RefsFinite
<1>6. OpenFile(g[k]) /\ \A f \in File : OpenFile(g[f]) /\ g[f].ref = Cardinality(Refs(of, f))
                                   /\ (g[f].ref = 0 => g[f] = NoFile)
  BY DEF FilesInv
<1>5. ASSUME NEW f \in File
      PROVE  OpenFile(h[f]) /\ h[f].ref = Cardinality(Refs(nf, f)) /\ (h[f].ref = 0 => h[f] = NoFile)
  <2>1. CASE f = k
    BY <1>2, <1>3, <1>6, <2>1
  <2>2. CASE f # k
    <3>1. Cardinality(Refs(nf, f)) = Cardinality(Refs(of, f))
      BY ONLY SMTT(60), <1>2, <1>4, <2>2, f \in File
    <3> QED
      BY ONLY <1>3, <1>6, <2>2, <3>1, f \in File
  <2> QED
    BY <2>1, <2>2
<1> QED
  BY <1>1, <1>3, <1>5 DEF FilesInv, h, nf

LEMMA FilesDropped ==
  ASSUME NEW g, NEW of, FilesInv(g, of), NEW p \in Proc, NEW fd \in Fd, of[p][fd] # 0
  PROVE  FilesInv(SetFile(g, of[p][fd], LessOne(g[of[p][fd]])), SetFd(of, p, fd, 0))
<1> DEFINE k == of[p][fd]
           h == SetFile(g, k, LessOne(g[k]))
           nf == SetFd(of, p, fd, 0)
<1>1. FdTable(nf)
  BY FdSet DEF FilesInv
<1>2. /\ k \in File /\ Cardinality(Refs(of, k)) > 0
      /\ \A f \in File : Cardinality(Refs(nf, f)) = Cardinality(Refs(of, f)) - IF f = k THEN 1 ELSE 0
  BY FdClosed DEF FilesInv
<1>3. h = [f \in File |-> h[f]] /\ \A f \in File : h[f] = IF f = k THEN LessOne(g[k]) ELSE g[f]
  BY <1>2, SetFileIs DEF FilesInv
<1>4. \A f \in File : Cardinality(Refs(of, f)) \in Nat
  BY RefsFinite
<1>5. /\ OpenFile(LessOne(g[k])) /\ LessOne(g[k]).ref = g[k].ref - 1
      /\ LessOne(g[k]).ref = 0 => LessOne(g[k]) = NoFile
  <2>1. OpenFile(g[k]) /\ g[k].ref > 0
    BY <1>2 DEF FilesInv
  <2> HIDE DEF k
  <2> QED
    BY <2>1 DEF OpenFile, LessOne, NoFile
<1> HIDE DEF h, nf, k
<1>6. ASSUME NEW f \in File
      PROVE  OpenFile(h[f]) /\ h[f].ref = Cardinality(Refs(nf, f)) /\ (h[f].ref = 0 => h[f] = NoFile)
  BY <1>2, <1>3, <1>4, <1>5 DEF FilesInv
<1> QED
  BY <1>1, <1>3, <1>6 DEF FilesInv, h, nf, k

LEMMA FilesShared ==
  ASSUME NEW g, NEW of, FilesInv(g, of), NEW p \in Proc, NEW fd \in Fd, of[p][fd] = 0, NEW k \in File
  PROVE  FilesInv(SetFile(g, k, OneMore(g[k])), SetFd(of, p, fd, k))
<1> DEFINE h == SetFile(g, k, OneMore(g[k]))
           nf == SetFd(of, p, fd, k)
<1>1. FdTable(nf)
  BY FdSet DEF FilesInv
<1>2. \A f \in File : Cardinality(Refs(nf, f)) = Cardinality(Refs(of, f)) + IF f = k THEN 1 ELSE 0
  BY FdOpened DEF FilesInv
<1>3. h = [f \in File |-> h[f]] /\ \A f \in File : h[f] = IF f = k THEN OneMore(g[k]) ELSE g[f]
  BY SetFileIs DEF FilesInv
<1>4. \A f \in File : Cardinality(Refs(of, f)) \in Nat
  BY RefsFinite
<1>5. OpenFile(OneMore(g[k])) /\ OneMore(g[k]).ref = g[k].ref + 1 /\ g[k].ref \in Nat
  BY DEF FilesInv, OpenFile, OneMore
<1> HIDE DEF h, nf
<1>6. ASSUME NEW f \in File
      PROVE  OpenFile(h[f]) /\ h[f].ref = Cardinality(Refs(nf, f)) /\ (h[f].ref = 0 => h[f] = NoFile)
  BY <1>2, <1>3, <1>4, <1>5 DEF FilesInv
<1> QED
  BY <1>1, <1>3, <1>6 DEF FilesInv, h, nf

(* An offset moves: only that of an open file.                                *)
LEMMA FilesMoved ==
  ASSUME NEW g, NEW of, FilesInv(g, of), NEW k \in File, g[k].ref # 0, NEW n
  PROVE  FilesInv([g EXCEPT ![k].off = n], of)
<1> DEFINE r == [g[k] EXCEPT !.off = n]
           h == [g EXCEPT ![k] = r]
<1>1. h = [f \in File |-> h[f]] /\ \A f \in File : h[f] = IF f = k THEN r ELSE g[f]
  BY DEF FilesInv
<1>2. OpenFile(r) /\ r.ref = g[k].ref
  BY DEF FilesInv, OpenFile
<1>3. [g EXCEPT ![k].off = n] = h
  BY DEF FilesInv
<1> HIDE DEF h, r
<1> QED
  BY <1>1, <1>2, <1>3 DEF FilesInv

LEMMA FilesCopied ==
  ASSUME NEW g, NEW of, FilesInv(g, of), NEW p \in Proc, NEW s \in Proc, \A fd \in Fd : of[s][fd] = 0,
         NEW h, h = [f \in File |-> [g[f] EXCEPT !.ref = g[f].ref + Copies(of, p, f)]]
  PROVE  FilesInv(h, CopyRow(of, p, s))
<1> DEFINE nf == CopyRow(of, p, s)
           copies == [f \in File |-> Copies(of, p, f)]
<1>1. /\ FdTable(nf) /\ \A f \in File : copies[f] \in Nat
      /\ \A f \in File : Cardinality(Refs(nf, f)) = Cardinality(Refs(of, f)) + copies[f]
  BY FdCopied DEF FilesInv
<1>2. h = [f \in File |-> h[f]] /\ \A f \in File : h[f] = [g[f] EXCEPT !.ref = g[f].ref + copies[f]]
  OBVIOUS
<1> HIDE DEF nf, copies
<1>3. ASSUME NEW f \in File
      PROVE  OpenFile(h[f]) /\ h[f].ref = g[f].ref + copies[f] /\ (h[f].ref = 0 => h[f] = NoFile)
  <2>1. OpenFile(g[f]) /\ g[f] = g[f]
    BY DEF FilesInv
  <2> HIDE DEF FilesInv
  <2>2. h[f] = [g[f] EXCEPT !.ref = g[f].ref + copies[f]] /\ copies[f] \in Nat
    BY <1>1, <1>2
  <2>3. OpenFile(h[f]) /\ h[f].ref = g[f].ref + copies[f]
    BY <2>1, <2>2 DEF OpenFile
  <2>4. g[f].ref = 0 => g[f] = NoFile
    BY DEF FilesInv
  <2>5. h[f].ref = 0 => h[f] = NoFile
    BY <2>1, <2>2, <2>3, <2>4 DEF NoFile, OpenFile
  <2> QED
    BY <2>2, <2>3, <2>5
<1>4. ASSUME NEW f \in File
      PROVE  h[f].ref = Cardinality(Refs(nf, f))
  BY SMTT(60), <1>1, <1>3 DEF FilesInv
<1> QED
  BY ZenonT(90), <1>1, <1>2, <1>3, <1>4 DEF FilesInv, nf

(* A process that is not there has no descriptor and does nothing; a write    *)
(* under way has a descriptor for its file.                                   *)
RowsInv(of, c, b) ==
  /\ c = [p \in Proc |-> c[p]] /\ b = [p \in Proc |-> b[p]]
  /\ \A p \in Proc : c[p] = 0 => b[p] = Idle /\ \A fd \in Fd : of[p][fd] = 0
  /\ \A p \in Proc : b[p].do = "write" =>
       {"do", "f", "u"} \subseteq DOMAIN b[p] /\ b[p].f \in File /\ \E fd \in Fd : of[p][fd] = b[p].f

TablesInv == FilesInv(file, ofile) /\ RowsInv(ofile, cwd, busy)

(* Only the row of a process that is there and does not write changes.        *)
LEMMA RowsChanged ==
  ASSUME NEW of, NEW c, NEW b, RowsInv(of, c, b), NEW p \in Proc, c[p] # 0, b[p].do # "write",
         NEW nf, \A s \in Proc, fd \in Fd : s # p => nf[s][fd] = of[s][fd]
  PROVE  RowsInv(nf, c, b)
BY DEF RowsInv

LEMMA RowsMoved ==
  ASSUME NEW of, NEW c, NEW b, RowsInv(of, c, b), NEW p \in Proc, NEW i, i # 0
  PROVE  RowsInv(of, [c EXCEPT ![p] = i], b)
BY DEF RowsInv

LEMMA RowsBusy ==
  ASSUME NEW of, NEW c, NEW b, RowsInv(of, c, b), NEW p \in Proc,
         NEW x, c[p] # 0 \/ x = Idle, x.do = "write" =>
                  {"do", "f", "u"} \subseteq DOMAIN x /\ x.f \in File /\ \E fd \in Fd : of[p][fd] = x.f
  PROVE  RowsInv(of, c, [b EXCEPT ![p] = x])
BY DEF RowsInv

LEMMA OpenIsFile ==
  ASSUME NEW g, NEW of, FilesInv(g, of), NEW p \in Proc, NEW fd \in Fd, of[p][fd] # 0
  PROVE  of[p][fd] \in File /\ g[of[p][fd]].ref # 0
BY FdClosed DEF FilesInv

LEMMA FreeIsFree ==
  ASSUME NEW p \in Proc
  PROVE  /\ FreeFd(p) # {} => Min(FreeFd(p)) \in Fd /\ ofile[p][Min(FreeFd(p))] = 0
         /\ FreeFile(file) # {} => Min(FreeFile(file)) \in File /\ file[Min(FreeFile(file))].ref = 0
         /\ Absent # {} => Min(Absent) \in Proc /\ cwd[Min(Absent)] = 0
         /\ Fd \ FreeFd(p) # {} => Min(Fd \ FreeFd(p)) \in Fd /\ ofile[p][Min(Fd \ FreeFd(p))] # 0
<1>1. FreeFd(p) \in SUBSET Nat /\ Fd \ FreeFd(p) \in SUBSET Nat
  BY FsAssumption DEF FreeFd, Fd
<1>2. FreeFile(file) \in SUBSET Nat
  BY FsAssumption DEF FreeFile, File
<1>3. Absent \in SUBSET Nat
  BY ZenonT(90), FsAssumption DEF Absent
<1>4. FreeFd(p) # {} => Min(FreeFd(p)) \in FreeFd(p)
  BY <1>1, MinOf
<1>5. FreeFile(file) # {} => Min(FreeFile(file)) \in FreeFile(file)
  BY <1>2, MinOf
<1>6. Absent # {} => Min(Absent) \in Absent
  BY <1>3, MinOf
<1>7. Fd \ FreeFd(p) # {} => Min(Fd \ FreeFd(p)) \in Fd \ FreeFd(p)
  BY <1>1, MinOf
<1> QED
  BY <1>4, <1>5, <1>6, <1>7 DEF FreeFd, FreeFile, Absent

LEMMA TwoFree ==
  ASSUME NEW S \in SUBSET Nat, IsFiniteSet(S), Cardinality(S) >= 2
  PROVE  /\ S # {} /\ S \ {Min(S)} # {}
         /\ Min(S) \in S /\ Min(S \ {Min(S)}) \in S /\ Min(S \ {Min(S)}) # Min(S)
<1>1. S # {}
  BY FS_EmptySet
<1>2. S \ {Min(S)} # {}
  <2> SUFFICES ASSUME S \ {Min(S)} = {} PROVE FALSE
    OBVIOUS
  <2>1. S = {Min(S)}
    BY <1>1
  <2>2. Cardinality({Min(S)}) = 1
    BY SMTT(60), FS_Singleton
  <2>3. Cardinality(S) = 1
    BY <2>1, <2>2, ZenonT(90)
  <2> QED
    BY <2>3
<1>3. S \ {Min(S)} \in SUBSET Nat
  BY ZenonT(90)
<1>4. Min(S \ {Min(S)}) \in S \ {Min(S)}
  BY <1>2, <1>3, MinOf
<1> QED
  BY <1>1, <1>2, <1>4, MinOf

LEMMA NothingOpen ==
  LET g == [f \in File |-> NoFile]
      of == [p \in Proc |-> [fd \in Fd |-> 0]]
  IN  FilesInv(g, of)
<1> DEFINE g == [f \in File |-> NoFile]
           of == [p \in Proc |-> [fd \in Fd |-> 0]]
<1>1. FdTable(of)
  BY DEF FdTable
<1>2. ASSUME NEW f \in File PROVE Refs(of, f) = {}
  BY DEF Refs, File
<1>3. \A f \in File : OpenFile(g[f]) /\ g[f].ref = 0 /\ g[f] = NoFile
  BY DEF OpenFile, NoFile
<1>4. g = [f \in File |-> g[f]]
  OBVIOUS
<1> HIDE DEF g, of
<1>5. \A f \in File : Cardinality(Refs(of, f)) = 0
  BY <1>2, FS_EmptySet
<1> QED
  BY <1>1, <1>3, <1>4, <1>5 DEF FilesInv, g, of

LEMMA InitTables == Init => TablesInv
<1> SUFFICES ASSUME Init PROVE TablesInv
  OBVIOUS
<1>1. FilesInv(file, ofile)
  BY NothingOpen DEF Init
<1>2. RowsInv(ofile, cwd, busy)
  BY FsAssumption DEF Init, RowsInv, Idle, ROOTINO
<1> QED
  BY <1>1, <1>2 DEF TablesInv

LEMMA CallTables ==
  ASSUME TablesInv, NEW p \in Proc, NEW c \in Calls, Do(p, c)
  PROVE  TablesInv'
<1>1. FilesInv(file, ofile) /\ RowsInv(ofile, cwd, busy)
  BY DEF TablesInv
<1>2. Ready(p) => cwd[p] # 0 /\ busy[p] = Idle /\ busy[p].do # "write"
  BY DEF Ready, Idle
<1>3. CASE UNCHANGED <<file, ofile, cwd, busy>>
  BY <1>1, <1>3 DEF TablesInv
(* A descriptor is added, or taken away.                                      *)
<1>4. ASSUME NEW fd \in Fd, NEW v \in File \cup {0}, Ready(p),
             ofile' = SetFd(ofile, p, fd, v), UNCHANGED <<cwd, busy>>
      PROVE  RowsInv(ofile', cwd', busy')
  <2>1. \A s \in Proc, e \in Fd : s # p => ofile'[s][e] = ofile[s][e]
    BY <1>1, <1>4, FdSet DEF FilesInv
  <2> QED
    BY <1>1, <1>2, <1>4, <2>1, RowsChanged
<1>5. CASE c.op = "open" /\ SysOpen(p, c.path, c.mode)
  <2> DEFINE k == Min(FreeFile(file))
             fd == Min(FreeFd(p))
             t == OpenTarget(p, c.path, c.mode)
             r == [ref |-> 1, type |-> "inode", ip |-> t.ip, off |-> 0,
                   r |-> "wronly" \notin c.mode, w |-> c.mode \cap {"wronly", "rdwr"} # {}]
  <2>1. Ready(p) /\ UNCHANGED <<cwd, busy>>
    BY <1>5 DEF SysOpen
  <2>2. CASE /\ FreeFile(file) # {} /\ FreeFd(p) # {}
             /\ file' = SetFile(file, k, r) /\ ofile' = SetFd(ofile, p, fd, k)
    <3>1. OpenFile(r) /\ r.ref = 1
      BY DEF OpenFile
    <3>2. k \in File /\ file[k].ref = 0 /\ fd \in Fd /\ ofile[p][fd] = 0
      BY ZenonT(90), <2>2, FreeIsFree
    <3> HIDE DEF k, fd, r
    <3>3. FilesInv(file', ofile')
      BY <1>1, <2>2, <3>1, <3>2, FilesOpened
    <3> QED
      BY <1>4, <2>1, <2>2, <3>2, <3>3 DEF TablesInv
  <2>3. CASE UNCHANGED <<file, ofile>>
    BY <1>3, <2>1, <2>3
  <2> QED
    BY <1>5, <2>2, <2>3 DEF SysOpen, SetFile, SetFd
<1>6. CASE c.op = "mkdir" /\ SysMkdir(p, c.path)
  BY <1>3, <1>6 DEF SysMkdir, Make
<1>7. CASE c.op = "mknod" /\ SysMknod(p, c.path)
  BY <1>3, <1>7 DEF SysMknod, Make
<1>8. CASE c.op = "link" /\ SysLink(p, c.path, c.new)
  BY ZenonT(90), <1>3, <1>8 DEF SysLink, NoType, Halts, Fails
<1>9. CASE c.op = "unlink" /\ SysUnlink(p, c.path)
  BY ZenonT(90), <1>3, <1>9 DEF SysUnlink, NoType, Halts, Fails
<1>10. CASE c.op = "chdir" /\ SysChdir(p, c.path)
  <2> DEFINE ip == Namei(disk, cwd[p], c.path)
  <2>1. CASE ip \notin {0, Broken} /\ cwd' = [cwd EXCEPT ![p] = ip] /\ UNCHANGED <<file, ofile, busy>>
    <3> HIDE DEF ip
    <3> QED
      BY ZenonT(90), <1>1, <2>1, RowsMoved DEF TablesInv
  <2> HIDE DEF TablesInv
  <2> QED
    BY ZenonT(90), <1>3, <1>10, <2>1 DEF SysChdir, NoType, Halts, Fails
<1>11. CASE c.op = "close" /\ SysClose(p, c.fd)
  <2> DEFINE k == ofile[p][c.fd]
  <2>1. CASE ~IsOpen(p, c.fd)
    BY <1>3, <1>11, <2>1 DEF SysClose, Fails
  <2>2. CASE IsOpen(p, c.fd)
    <3>1. /\ Ready(p) /\ c.fd \in Fd /\ k # 0 /\ UNCHANGED <<cwd, busy>>
          /\ ofile' = SetFd(ofile, p, c.fd, 0) /\ file' = SetFile(file, k, LessOne(file[k]))
      BY <1>11, <2>2 DEF SysClose, IsOpen, SetFd, SetFile, LessOne, Dropped
    <3>2. FilesInv(file', ofile')
      BY <1>1, <3>1, FilesDropped
    <3> QED
      BY <1>4, <3>1, <3>2 DEF TablesInv
  <2> QED
    BY <2>1, <2>2
<1>12. CASE c.op = "dup" /\ SysDup(p, c.fd)
  <2> DEFINE k == ofile[p][c.fd]
             fd == Min(FreeFd(p))
  <2>1. CASE ~IsOpen(p, c.fd) \/ FreeFd(p) = {}
    BY <1>3, <1>12, <2>1 DEF SysDup, Fails
  <2>2. CASE IsOpen(p, c.fd) /\ FreeFd(p) # {}
    <3>1. /\ Ready(p) /\ UNCHANGED <<cwd, busy>>
          /\ ofile' = SetFd(ofile, p, fd, k) /\ file' = SetFile(file, k, OneMore(file[k]))
      BY <1>12, <2>2 DEF SysDup, SetFd, SetFile, OneMore
    <3>2. c.fd \in Fd /\ k # 0 /\ fd \in Fd /\ ofile[p][fd] = 0
      BY ZenonT(90), <2>2, FreeIsFree DEF IsOpen
    <3>3. k \in File
      BY <1>1, <3>2, OpenIsFile
    <3> HIDE DEF fd, k
    <3>4. FilesInv(file', ofile')
      BY <1>1, <3>1, <3>2, <3>3, FilesShared
    <3> QED
      BY <1>4, <3>1, <3>2, <3>3, <3>4 DEF TablesInv
  <2> QED
    BY <2>1, <2>2
<1>13. CASE c.op = "pipe" /\ SysPipe(p)
  <2> DEFINE rf == Min(FreeFile(file))
             wf == Min(FreeFile(file) \ {rf})
             fd0 == Min(FreeFd(p))
             fd1 == Min(FreeFd(p) \ {fd0})
             end(r) == [NoFile EXCEPT !.ref = 1, !.type = "pipe", !.r = r, !.w = ~r]
  <2>1. CASE Cardinality(FreeFile(file)) < 2 \/ Cardinality(FreeFd(p)) < 2
    BY <1>3, <1>13, <2>1 DEF SysPipe, Fails
  <2>2. CASE ~(Cardinality(FreeFile(file)) < 2 \/ Cardinality(FreeFd(p)) < 2)
    <3>1. /\ Ready(p) /\ UNCHANGED <<cwd, busy>>
          /\ file' = [file EXCEPT ![rf] = end(TRUE), ![wf] = end(FALSE)]
          /\ ofile' = [ofile EXCEPT ![p][fd0] = rf, ![p][fd1] = wf]
      BY ZenonT(90), <1>13, <2>2 DEF SysPipe
    <3>2. /\ FreeFd(p) \in SUBSET Nat /\ IsFiniteSet(FreeFd(p)) /\ Cardinality(FreeFd(p)) >= 2
          /\ FreeFile(file) \in SUBSET Nat /\ IsFiniteSet(FreeFile(file)) /\ Cardinality(FreeFile(file)) >= 2
      <4>1. IsFiniteSet(Fd) /\ IsFiniteSet(File)
        BY FS_Interval, FsAssumption DEF Fd, File
      <4>2. FreeFd(p) \in SUBSET Fd /\ FreeFile(file) \in SUBSET File
        BY DEF FreeFd, FreeFile
      <4>3. IsFiniteSet(FreeFd(p)) /\ IsFiniteSet(FreeFile(file))
        BY <4>1, <4>2, FS_Subset
      <4>4. Fd \in SUBSET Nat /\ File \in SUBSET Nat
        BY FsAssumption DEF Fd, File
      <4>5. Cardinality(FreeFd(p)) >= 2 /\ Cardinality(FreeFile(file)) >= 2
        BY <2>2, <4>3, FS_CardinalityType
      <4> QED
        BY ZenonT(90), <4>2, <4>3, <4>4, <4>5
    <3>3. rf \in FreeFile(file) /\ wf \in FreeFile(file) /\ wf # rf
      BY <3>2, TwoFree
    <3>4. fd0 \in FreeFd(p) /\ fd1 \in FreeFd(p) /\ fd1 # fd0
      BY <3>2, TwoFree
    <3>5. /\ OpenFile(end(TRUE)) /\ end(TRUE).ref = 1
          /\ OpenFile(end(FALSE)) /\ end(FALSE).ref = 1
      BY DEF OpenFile, NoFile
    <3>6. PICK a, b : a = end(TRUE) /\ b = end(FALSE)
      BY ZenonT(90)
    <3> HIDE DEF rf, wf, fd0, fd1, end
    <3> DEFINE g1 == SetFile(file, rf, a)
               o1 == SetFd(ofile, p, fd0, rf)
    <3>7. /\ rf \in File /\ wf \in File /\ file[rf].ref = 0 /\ file[wf].ref = 0
          /\ fd0 \in Fd /\ fd1 \in Fd /\ ofile[p][fd0] = 0 /\ ofile[p][fd1] = 0
      BY <3>3, <3>4 DEF FreeFile, FreeFd
    <3>8. FilesInv(g1, o1)
      BY ZenonT(90), <1>1, <3>5, <3>6, <3>7, FilesOpened
    <3>9. g1[wf].ref = 0 /\ o1[p][fd1] = 0
      <4>1. g1[wf] = file[wf]
        BY <1>1, <3>3, <3>7, SetFileIs DEF FilesInv
      <4>2. o1[p][fd1] = ofile[p][fd1]
        BY <1>1, <3>4, <3>7, FdSet DEF FilesInv
      <4> QED
        BY <3>7, <4>1, <4>2
    <3>10. FilesInv(SetFile(g1, wf, b), SetFd(o1, p, fd1, wf))
      <4> HIDE DEF g1, o1
      <4> QED
        BY ZenonT(90), <3>5, <3>6, <3>7, <3>8, <3>9, FilesOpened
    <3>11. file' = SetFile(g1, wf, b) /\ ofile' = SetFd(o1, p, fd1, wf)
      BY <3>1, <3>6 DEF SetFile, SetFd
    <3>12. \A s \in Proc, e \in Fd : s # p => ofile'[s][e] = ofile[s][e]
      <4>1. \A s \in Proc, e \in Fd : s # p => o1[s][e] = ofile[s][e]
        BY <1>1, <3>7, FdSet DEF FilesInv
      <4>2. FdTable(o1)
        BY <3>8 DEF FilesInv
      <4> HIDE DEF o1
      <4>3. \A s \in Proc, e \in Fd : s # p => ofile'[s][e] = o1[s][e]
        BY ONLY SMTT(60), <4>2, <3>7, <3>11, p \in Proc, FdSet
      <4> QED
        BY <4>1, <4>3
    <3>13. RowsInv(ofile', cwd', busy')
      <4>1. UNCHANGED <<cwd, busy>> /\ cwd[p] # 0 /\ busy[p].do # "write"
        BY <1>2, <3>1
      <4> QED
        BY <1>1, <3>12, <4>1, RowsChanged
    <3> HIDE DEF g1, o1
    <3> QED
      BY <3>10, <3>11, <3>13 DEF TablesInv
  <2> QED
    BY <2>1, <2>2
<1>14. CASE c.op = "fstat" /\ SysFstat(p, c.fd)
  BY SMTT(60), <1>3, <1>14 DEF SysFstat
<1>15. CASE c.op = "read" /\ SysRead(p, c.fd, c.n)
  <2> DEFINE k == ofile[p][c.fd]
             u == Readi(disk, file[k].ip, file[k].off, c.n)
  <2>1. CASE UNCHANGED <<ofile, cwd, busy>> /\ IsOpen(p, c.fd) /\ file' = [file EXCEPT ![k].off = @ + Len(u)]
    <3>1. k \in File /\ file[k].ref # 0
      BY <1>1, <2>1, OpenIsFile DEF IsOpen
    <3> HIDE DEF k, u
    <3>2. FilesInv(file', ofile)
      BY ZenonT(90), <1>1, <2>1, <3>1, FilesMoved
    <3> QED
      BY SMTT(60), <1>1, <2>1, <3>2 DEF TablesInv
  <2> QED
    BY <1>3, <1>15, <2>1 DEF SysRead, Fails
<1>16. CASE c.op = "write" /\ SysWrite(p, c.fd, c.data)
  <2> DEFINE x == [do |-> "write", f |-> ofile[p][c.fd], u |-> c.data, n |-> Len(c.data)]
  <2>1. CASE Ready(p) /\ UNCHANGED <<file, ofile, cwd>> /\ IsOpen(p, c.fd) /\ busy' = [busy EXCEPT ![p] = x]
    <3>1. {"do", "f", "u"} \subseteq DOMAIN x /\ x.f \in File /\ \E fd \in Fd : ofile[p][fd] = x.f
      BY <1>1, <2>1, OpenIsFile DEF IsOpen
    <3> HIDE DEF x
    <3>2. RowsInv(ofile, cwd, busy')
      BY ZenonT(90), <1>1, <1>2, <2>1, <3>1, RowsBusy
    <3> QED
      BY <1>1, <2>1, <3>2 DEF TablesInv
  <2> QED
    BY <1>3, <1>16, <2>1 DEF SysWrite, Fails
<1>17. CASE c.op = "fork" /\ Fork(p)
  <2> DEFINE s == Min(Absent)
  <2>1. /\ Ready(p) /\ UNCHANGED busy /\ cwd' = [cwd EXCEPT ![s] = cwd[p]]
        /\ ofile' = CopyRow(ofile, p, s)
        /\ file' = [f \in File |-> [file[f] EXCEPT !.ref = file[f].ref + Copies(ofile, p, f)]]
    BY <1>17 DEF Fork, CopyRow, Copies, Shared
  <2>2. s \in Proc /\ cwd[s] = 0
    BY ZenonT(90), <1>17, FreeIsFree DEF Fork
  <2> HIDE DEF s
  <2>3. busy[s] = Idle /\ \A fd \in Fd : ofile[s][fd] = 0
    BY <1>1, <2>2 DEF RowsInv
  <2>4. FilesInv(file', ofile')
    BY <1>1, <2>1, <2>2, <2>3, FilesCopied
  <2>5. \A r \in Proc, fd \in Fd : ofile'[r][fd] = IF r = s THEN ofile[p][fd] ELSE ofile[r][fd]
    BY <1>1, <2>1, <2>2, <2>3, FdCopied DEF FilesInv
  <2>6. RowsInv(ofile', cwd, busy) => RowsInv(ofile', cwd', busy')
    BY ZenonT(90), <1>2, <2>1, <2>2, RowsMoved
  <2>7. RowsInv(ofile', cwd', busy')
    BY <1>1, <1>2, <2>1, <2>2, <2>3, <2>5 DEF RowsInv, Idle
  <2> QED
    BY <2>4, <2>7 DEF TablesInv
<1>18. CASE c.op = "exit" /\ Exit(p)
  <2> DEFINE x == [do |-> "exit"]
  <2>1. x.do # "write" /\ Ready(p) /\ busy' = [busy EXCEPT ![p] = x] /\ UNCHANGED <<file, ofile, cwd>>
    BY <1>18 DEF Exit
  <2> HIDE DEF x
  <2>2. RowsInv(ofile, cwd, busy')
    BY ZenonT(90), <1>1, <1>2, <2>1, RowsBusy
  <2> QED
    BY <1>1, <2>1, <2>2 DEF TablesInv
<1> QED
  BY SMTT(60), <1>5, <1>6, <1>7, <1>8, <1>9, <1>10, <1>11, <1>12, <1>13, <1>14, <1>15, <1>16, <1>17, <1>18 DEF Do

LEMMA WriteTables ==
  ASSUME TablesInv, NEW p \in Proc, WriteTxn(p)
  PROVE  TablesInv'
<1> DEFINE b == busy[p]
           n1 == Min({MAXWRITE, Len(b.u)})
           x == [b EXCEPT !.u = SubSeq(@, n1 + 1, Len(@))]
<1>1. FilesInv(file, ofile) /\ RowsInv(ofile, cwd, busy)
  BY DEF TablesInv
<1>2. b.do = "write" /\ {"do", "f", "u"} \subseteq DOMAIN b /\ b.f \in File /\ \E fd \in Fd : ofile[p][fd] = b.f
  BY <1>1 DEF RowsInv, WriteTxn
<1>3. cwd[p] # 0
  BY <1>1, <1>2 DEF RowsInv, Idle
<1>4. CASE UNCHANGED <<file, ofile, cwd, busy>>
  BY <1>4, <1>1 DEF TablesInv
<1>5. CASE UNCHANGED <<file, ofile, cwd>> /\ busy' = [busy EXCEPT ![p] = Idle]
  <2>1. RowsInv(ofile, cwd, busy')
    BY ZenonT(90), <1>1, <1>5, RowsBusy DEF Idle
  <2> QED
    BY <1>1, <1>5, <2>1 DEF TablesInv
<1>6. CASE /\ UNCHANGED <<ofile, cwd>>
           /\ file' = [file EXCEPT ![b.f].off = @ + n1] /\ busy' = [busy EXCEPT ![p] = x]
  <2>1. b.f \in File /\ file[b.f].ref # 0
    <3>1. PICK fd \in Fd : ofile[p][fd] = b.f
      BY <1>2
    <3>2. ofile[p][fd] # 0
      BY <1>2, <3>1 DEF File
    <3> QED
      BY <1>1, <3>1, <3>2, OpenIsFile
  <2>2. FilesInv(file', ofile)
    BY ZenonT(90), <1>1, <1>6, <2>1, FilesMoved
  <2>3. x.do = "write" /\ {"do", "f", "u"} \subseteq DOMAIN x /\ x.f = b.f
    BY <1>2
  <2> HIDE DEF x
  <2>4. RowsInv(ofile, cwd, busy')
    BY ZenonT(90), <1>1, <1>2, <1>3, <1>6, <2>3, RowsBusy
  <2> QED
    BY <1>6, <2>2, <2>4 DEF TablesInv
<1> QED
  BY ZenonT(90), <1>4, <1>5, <1>6 DEF WriteTxn, Halts

LEMMA ExitTables ==
  ASSUME TablesInv, NEW p \in Proc, ExitStep(p)
  PROVE  TablesInv'
<1> DEFINE fds == Fd \ FreeFd(p)
           fd == Min(fds)
           k == ofile[p][fd]
<1>1. FilesInv(file, ofile) /\ RowsInv(ofile, cwd, busy)
  BY DEF TablesInv
<1>2. busy[p].do # "write" /\ cwd[p] # 0
  BY <1>1 DEF ExitStep, RowsInv, Idle
<1>3. CASE fds # {}
  <2>1. /\ UNCHANGED <<cwd, busy>>
        /\ ofile' = SetFd(ofile, p, fd, 0) /\ file' = SetFile(file, k, LessOne(file[k]))
    BY ZenonT(90), <1>3 DEF ExitStep, SetFd, SetFile, LessOne, Dropped
  <2>2. fd \in Fd /\ k # 0
    BY <1>3, FreeIsFree
  <2> HIDE DEF fd
  <2>3. FilesInv(file', ofile')
    BY <1>1, <2>1, <2>2, FilesDropped
  <2>4. \A s \in Proc, e \in Fd : s # p => ofile'[s][e] = ofile[s][e]
    BY <1>1, <2>1, <2>2, FdSet DEF FilesInv
  <2>5. RowsInv(ofile', cwd', busy')
    BY <1>1, <1>2, <2>1, <2>4, RowsChanged
  <2> QED
    BY <2>3, <2>5 DEF TablesInv
<1>4. CASE fds = {}
  <2>1. /\ UNCHANGED <<file, ofile>>
        /\ cwd' = [cwd EXCEPT ![p] = 0] /\ busy' = [busy EXCEPT ![p] = Idle]
    BY <1>4 DEF ExitStep
  <2>2. \A e \in Fd : ofile[p][e] = 0
    BY <1>4 DEF FreeFd
  <2>3. RowsInv(ofile, cwd', busy')
    BY ZenonT(90), <1>1, <2>1, <2>2 DEF RowsInv, Idle
  <2> QED
    BY <1>1, <2>1, <2>3 DEF TablesInv
<1> QED
  BY <1>3, <1>4

LEMMA CrashTables ==
  ASSUME Crash
  PROVE  TablesInv'
<1>1. FilesInv(file', ofile')
  BY NothingOpen DEF Crash
<1>2. RowsInv(ofile', cwd', busy')
  BY FsAssumption DEF Crash, RowsInv, Idle, ROOTINO
<1> QED
  BY <1>1, <1>2 DEF TablesInv

-----------------------------------------------------------------------------
(* Part 2: the disk, and what refers to it.                                   *)

(* An open file of an inode: it is allocated, a file or a device if it can be *)
(* written, and the offset is not beyond its end.                             *)
HasFields(r) == {"ref", "type", "ip", "off", "r", "w"} \subseteq DOMAIN r
MayWrite(r)  == r.w

OpenOn(d, r) ==
  /\ HasFields(r)
  /\ r.type = "inode" => /\ r.ref > 0 /\ r.ip \in Allocated(d)
                         /\ r.off \in Nat /\ r.off <= Size(d, r.ip)
                         /\ MayWrite(r) => r.ip \notin Dirs(d)

Writing(g, x) == IsSeq(x.u) /\ g[x.f].type = "inode" /\ MayWrite(g[x.f])

HeldInv(d, g, c, b) ==
  /\ \A p \in Proc : c[p] # 0 => c[p] \in Dirs(d)
  /\ \A f \in File : OpenOn(d, g[f])
  /\ \A p \in Proc : b[p].do = "write" => Writing(g, b[p])

Holds(g, c, i) == FileHolds(g, i) \/ CwdHolds(c, i)

SysInv(d, L, g, c, b) ==
  Sound(d) /\ d.panic \in Panics /\ Tree(d, L) /\ HeldInv(d, g, c, b)

(* A transaction with result e is committed, or stops the kernel.             *)
After(d, e)          == IF e.panic = "no" THEN e ELSE Panic(d, e.panic)
LostAfter(d, L, X)   == (L \cup X) \ FreeInodes(d)

LEMMA SameHeld ==
  ASSUME NEW d, NEW e, NEW g, NEW c, NEW b, HeldInv(d, g, c, b),
         \A i \in Allocated(d) : Holds(g, c, i) =>
           /\ i \in Allocated(e) /\ e.ino[i].type = d.ino[i].type
           /\ Size(d, i) \in Nat /\ Size(e, i) \in Nat /\ Size(e, i) >= Size(d, i)
  PROVE  HeldInv(e, g, c, b)
<1>1. ASSUME NEW p \in Proc, c[p] # 0 PROVE c[p] \in Dirs(e)
  <2>1. c[p] \in Dirs(d) /\ c[p] \in Allocated(d) /\ c[p] \in Inum
    BY <1>1 DEF HeldInv, Dirs, Allocated, FreeInodes
  <2>2. Holds(g, c, c[p])
    BY DEF Holds, CwdHolds
  <2> QED
    BY <2>1, <2>2 DEF Dirs
<1>2. ASSUME NEW f \in File PROVE OpenOn(e, g[f])
  <2> DEFINE r == g[f]
  <2>1. OpenOn(d, r)
    BY DEF HeldInv
  <2>2. CASE r.type = "inode"
    <3>1. r.ref > 0 /\ r.ip \in Allocated(d) /\ r.off \in Nat /\ r.off <= Size(d, r.ip)
          /\ (MayWrite(r) => r.ip \notin Dirs(d))
      BY <2>1, <2>2 DEF OpenOn
    <3>2. Holds(g, c, r.ip)
      BY <2>2, <3>1 DEF Holds, FileHolds
    <3>3. /\ r.ip \in Allocated(e) /\ e.ino[r.ip].type = d.ino[r.ip].type
          /\ Size(d, r.ip) \in Nat /\ Size(e, r.ip) \in Nat /\ Size(e, r.ip) >= Size(d, r.ip)
      BY <3>1, <3>2
    <3>4. r.ip \in Dirs(e) <=> r.ip \in Dirs(d)
      BY <3>3 DEF Dirs
    <3>5. r.off <= Size(e, r.ip)
      BY <3>1, <3>3
    <3>6. HasFields(r)
      BY <2>1 DEF OpenOn
    <3>7. OpenOn(e, r)
      <4> HIDE DEF r
      <4> QED
        BY ONLY <3>1, <3>3, <3>4, <3>5, <3>6 DEF OpenOn
    <3> QED
      BY <3>7
  <2>3. CASE r.type # "inode"
    BY <2>1, <2>3 DEF OpenOn
  <2> QED
    BY <2>2, <2>3
<1> QED
  BY <1>1, <1>2 DEF HeldInv

LEMMA ExtendsKeeps ==
  ASSUME NEW d, NEW e, NEW g, NEW c, NEW b, Typed(d), Extends(d, e), HeldInv(d, g, c, b)
  PROVE  HeldInv(e, g, c, b)
<1>1. \A i \in Allocated(d) : Size(d, i) \in Nat
  BY SizeIs DEF Allocated
<1> QED
  BY <1>1, SameHeld DEF Extends

LEMMA CommitKeeps ==
  ASSUME NEW d, NEW L, NEW e, NEW X, NEW g, NEW c, NEW b,
         Sound(d), d.panic = "no", Tree(d, L), Safe(e),
         \A dp \in X \cap Dirs(d) : dp \in L \/ d.ino[dp].nlink = 0,
         e.panic = "no" => Tree(e, L \cup X) /\ HeldInv(e, g, c, b),
         e.panic # "no" => HeldInv(d, g, c, b)
  PROVE  SysInv(After(d, e), LostAfter(After(d, e), L, X), g, c, b)
<1> DEFINE dd == After(d, e)
           LL == LostAfter(dd, L, X)
<1>1. /\ Sound(dd) /\ dd.panic \in Panics /\ Tree(dd, L \cup X) /\ HeldInv(dd, g, c, b)
  <2>1. CASE e.panic = "no"
    BY <2>1 DEF After, Safe
  <2>2. CASE e.panic # "no"
    <3>1. e.panic \in Panics \ {"no"}
      BY <2>2 DEF Safe
    <3>2. /\ Sound(Panic(d, e.panic)) /\ Panic(d, e.panic).panic = e.panic /\ Panic(d, e.panic).ino = d.ino
          /\ \A i \in Inum : Names(Panic(d, e.panic), i) = Names(d, i)
      BY <3>1, PanicKeeps
    <3>3. Tree(d, L \cup X)
      BY MoreLost
    <3>4. Tree(Panic(d, e.panic), L \cup X)
      BY <3>1, <3>3, PanicKeeps
    <3>5. dd = Panic(d, e.panic)
      BY <2>2 DEF After
    <3> HIDE DEF dd
    <3>6. Allocated(dd) = Allocated(d) /\ \A i : Size(dd, i) = Size(d, i)
      BY <3>2, <3>5 DEF Allocated, FreeInodes, Size
    <3>7. HeldInv(dd, g, c, b)
      <4>1. \A i \in Allocated(d) : Size(d, i) \in Nat
        BY SoundTyped, SizeIs DEF Allocated
      <4>2. \A i \in Allocated(d) : dd.ino[i].type = d.ino[i].type
        BY <3>2, <3>5
      <4> QED
        BY <2>2, <3>6, <4>1, <4>2, SameHeld
    <3> QED
      BY <3>1, <3>2, <3>4, <3>5, <3>7
  <2> QED
    BY <2>1, <2>2
<1> HIDE DEF dd
<1>2. Tree(dd, LL)
  BY <1>1, FewerLost DEF LostAfter
<1> QED
  BY <1>1, <1>2 DEF SysInv, dd

(* iput() of inode i: it is freed, which happens only if it has no links and  *)
(* nothing refers to it, or it stays.                                         *)
Put(d, e, g, c, i) ==
  /\ \A j \in Inum \ {i} : SameInode(d, e, j)
  /\ \/ SameInode(d, e, i)
     \/ d.ino[i].nlink = 0 /\ ~Holds(g, c, i) /\ e.ino[i].type = "none"

LEMMA PutKeeps ==
  ASSUME NEW d, NEW L, Tree(d, L), NEW i \in Allocated(d), NEW g, NEW c, NEW b,
         HeldInv(d, g, c, b), NEW e, Typed(e), Put(d, e, g, c, i)
  PROVE  Tree(e, L) /\ HeldInv(e, g, c, b)
<1>1. i \in Inum /\ d.ino[i].type # "none"
  BY DEF Allocated, FreeInodes
<1>2. \A j \in Inum : Size(d, j) \in Nat
  BY SizeIs DEF Tree
<1>6. \A j \in Inum \ {i} : SameInode(d, e, j)
  BY DEF Put
<1>3. CASE d.ino[i].nlink = 0 /\ ~Holds(g, c, i) /\ e.ino[i].type = "none"
  <2>1. Tree(e, L) /\ \A j \in Inum \ L : Names(e, j) = Names(d, j)
    BY <1>1, <1>3, <1>6, InodeFreed
  <2>2. Allocated(e) = Allocated(d) \ {i}
    BY <1>1, <1>3, <1>6 DEF Allocated, FreeInodes, SameInode
  <2>3. HeldInv(e, g, c, b)
    <3>1. ASSUME NEW j \in Allocated(d), Holds(g, c, j)
          PROVE  /\ j \in Allocated(e) /\ e.ino[j].type = d.ino[j].type
                 /\ Size(d, j) \in Nat /\ Size(e, j) \in Nat /\ Size(e, j) >= Size(d, j)
      <4>1. j # i /\ j \in Inum
        BY <1>3, <3>1 DEF Allocated
      <4>2. SameInode(d, e, j)
        BY <1>6, <4>1
      <4>3. Size(e, j) = Size(d, j)
        BY <4>2 DEF SameInode, Size
      <4>4. Size(d, j) \in Nat
        BY <1>2, <4>1
      <4>5. j \in Allocated(e) /\ e.ino[j].type = d.ino[j].type
        BY <2>2, <4>1, <4>2 DEF SameInode
      <4> QED
        BY <4>3, <4>4, <4>5
    <3> QED
      BY <3>1, SameHeld
  <2> QED
    BY <2>1, <2>3
<1>4. CASE SameInode(d, e, i)
  <2>1. \A j \in Inum : SameInode(d, e, j)
    BY <1>4, <1>6
  <2>2. Tree(e, L) /\ \A j \in Inum : Names(e, j) = Names(d, j)
    BY <2>1, SameTree DEF SameInode
  <2>3. Allocated(e) = Allocated(d)
    BY <2>1 DEF Allocated, FreeInodes, SameInode
  <2>4. HeldInv(e, g, c, b)
    <3>1. ASSUME NEW j \in Allocated(d)
          PROVE  /\ j \in Allocated(e) /\ e.ino[j].type = d.ino[j].type
                 /\ Size(d, j) \in Nat /\ Size(e, j) \in Nat /\ Size(e, j) >= Size(d, j)
      <4>1. j \in Inum /\ SameInode(d, e, j)
        BY <2>1 DEF Allocated
      <4>2. Size(e, j) = Size(d, j) /\ e.ino[j].type = d.ino[j].type
        BY <4>1 DEF SameInode, Size
      <4>3. Size(d, j) \in Nat
        BY <1>2, <4>1
      <4> QED
        BY <2>3, <4>2, <4>3
    <3> QED
      BY <3>1, SameHeld
  <2> QED
    BY <2>2, <2>4
<1> QED
  BY <1>3, <1>4 DEF Put

-----------------------------------------------------------------------------
(* create(): c is disk d with the new inode i of directory dp, which has no   *)
(* entry for it yet.                                                          *)
NewFor(d, c, dp, i, type) ==
  /\ IsDisk(c) /\ Safe(c)
  /\ \A j \in Inum \ {i, dp} : SameInode(d, c, j)
  /\ c.ino[dp].type = "dir" /\ c.ino[dp].data = d.ino[dp].data
  /\ c.ino[dp].nlink = d.ino[dp].nlink + (IF type = "dir" THEN 1 ELSE 0)
  /\ c.ino[i].type = type /\ c.ino[i].nlink = 1
  /\ type = "dir" /\ c.panic = "no" =>
       Size(c, i) = 2 /\ c.ino[i].data[1] = Dirent(".", i) /\ c.ino[i].data[2] = Dirent("..", dp)

DirMade(d, dp, i) == Dirlink(Dirlink(AddLinks(d, dp, 1), i, ".", i), i, "..", dp)

LEMMA DirMadeIs ==
  ASSUME NEW d, Safe(d), d.panic = "no", NEW dp \in Inum, NEW i \in Inum, i # dp,
         d.ino[dp].type = "dir", d.ino[i].type = "dir", d.ino[i].data = <<>>
  PROVE  LET c == DirMade(d, dp, i) IN
         /\ IsDisk(c) /\ Safe(c)
         /\ \A j \in Inum \ {i, dp} : SameInode(d, c, j)
         /\ c.ino[dp].type = "dir" /\ c.ino[dp].data = d.ino[dp].data
         /\ c.ino[dp].nlink = d.ino[dp].nlink + 1
         /\ c.ino[i].type = "dir" /\ c.ino[i].nlink = d.ino[i].nlink
         /\ c.panic = "no" =>
              Size(c, i) = 2 /\ c.ino[i].data[1] = Dirent(".", i) /\ c.ino[i].data[2] = Dirent("..", dp)
<1> DEFINE a == AddLinks(d, dp, 1)
           b == Dirlink(a, i, ".", i)
           c == Dirlink(b, i, "..", dp)
<1>1. PICK dot, dots : dot = "." /\ dots = ".."
  BY ZenonT(90)
<1>2. PICK one : one = 1 /\ one \in Int
  OBVIOUS
<1>3. IsDisk(d) /\ Sound(d) /\ Typed(d)
  BY SoundTyped DEF Safe
<1>4. d.ino[dp].nlink \in Nat
  BY <1>3 DEF Typed
<1>5. /\ IsDisk(a) /\ a.panic = d.panic
      /\ \A j \in Inum : a.ino[j].type = d.ino[j].type /\ a.ino[j].data = d.ino[j].data
      /\ \A j \in Inum : a.ino[j].nlink = IF j = dp THEN d.ino[j].nlink + 1 ELSE d.ino[j].nlink
  BY <1>2, <1>3, AddLinksIs
<1>6. Safe(a)
  <2>1. d.ino[dp].type # "none" /\ d.ino[dp].nlink + one >= 0
    BY <1>2, <1>4
  <2>2. Safe(AddLinks(d, dp, one))
    BY <1>2, <2>1, AddLinksSafe
  <2> QED
    BY <1>2, <2>2
<1> HIDE DEF a
<1>7. Safe(b) /\ IsDisk(b) /\ b.ino[i].type = "dir"
  <2>1. a.ino[i].type # "none" /\ a.ino[i].type = "dir"
    BY <1>5
  <2>2. Safe(Dirlink(a, i, dot, i))
    BY <1>6, <2>1, DirlinkSafe
  <2>3. LET x == Dirlink(a, i, dot, i) IN IsDisk(x) /\ x.ino[i].type = a.ino[i].type
    BY <1>5, DirlinkIs
  <2> QED
    BY <1>1, <2>1, <2>2, <2>3
<1>8. /\ IsDisk(c) /\ (c.panic = "no" => a.panic = "no")
      /\ \A j \in Inum \ {i} : SameInode(a, c, j)
      /\ c.ino[i].type = a.ino[i].type /\ c.ino[i].nlink = a.ino[i].nlink
      /\ c.panic = "no" =>
           Size(c, i) = 2 /\ c.ino[i].data[1] = Dirent(".", i) /\ c.ino[i].data[2] = Dirent("..", dp)
  <2>1. a.ino[i].data = <<>>
    BY <1>5
  <2> QED
    BY <1>5, <2>1, DotEntries
<1> HIDE DEF b
<1>9. Safe(c)
  <2>1. b.ino[i].type # "none"
    BY <1>7
  <2>2. Safe(Dirlink(b, i, dots, dp))
    BY <1>7, <2>1, DirlinkSafe
  <2> QED
    BY <1>1, <2>2
<1>10. c = DirMade(d, dp, i)
  BY DEF DirMade, a, b
<1> HIDE DEF c
<1>11. \A j \in Inum \ {i, dp} : SameInode(d, c, j)
  BY <1>5, <1>8 DEF SameInode
<1>12. /\ c.ino[dp].type = "dir" /\ c.ino[dp].data = d.ino[dp].data
       /\ c.ino[dp].nlink = d.ino[dp].nlink + 1
  BY <1>5, <1>8 DEF SameInode
<1>13. c.ino[i].type = "dir" /\ c.ino[i].nlink = d.ino[i].nlink
  BY <1>5, <1>8
<1> QED
  BY <1>8, <1>9, <1>10, <1>11, <1>12, <1>13

(* The disk create() has before it writes the name.                           *)
Prepared(d, dp, i, type) ==
  LET d1 == AddLinks(Ialloc(d, type).d, i, 1)
  IN  IF type # "dir" THEN d1 ELSE DirMade(d1, dp, i)

LEMMA PreparedIs ==
  ASSUME NEW d, Sound(d), d.panic = "no", NEW dp \in Dirs(d), NEW type \in {"dir", "file", "dev"},
         NEW i, i = Ialloc(d, type).ip, i # 0
  PROVE  i \in Inum /\ d.ino[i].type = "none" /\ i # dp /\ NewFor(d, Prepared(d, dp, i, type), dp, i, type)
<1> DEFINE n == Ialloc(d, type).d
           a == AddLinks(n, i, 1)
           c == Prepared(d, dp, i, type)
<1>1. IsDisk(d) /\ Typed(d) /\ Safe(d) /\ dp \in Inum /\ d.ino[dp].type = "dir"
  BY SoundTyped DEF Safe, Panics, Dirs
<1>2. /\ IsDisk(n) /\ i \in Inum /\ d.ino[i].type = "none" /\ n.panic = "no"
      /\ \A j \in Inum \ {i} : SameInode(d, n, j)
      /\ n.ino[i].type = type /\ n.ino[i].nlink = 0 /\ n.ino[i].data = <<>>
  BY <1>1, IallocIs
<1>3. Safe(n)
  BY ZenonT(90), <1>1, IallocSafe
<1> HIDE DEF n
<1>4. i # dp
  BY <1>1, <1>2
<1>5. PICK one : one = 1 /\ one \in Int
  OBVIOUS
<1>6. /\ IsDisk(a) /\ a.panic = "no"
      /\ \A j \in Inum : a.ino[j].type = n.ino[j].type /\ a.ino[j].data = n.ino[j].data
      /\ \A j \in Inum : a.ino[j].nlink = IF j = i THEN n.ino[j].nlink + 1 ELSE n.ino[j].nlink
  <2>1. /\ IsDisk(AddLinks(n, i, one)) /\ AddLinks(n, i, one).panic = n.panic
        /\ \A j \in Inum : /\ AddLinks(n, i, one).ino[j].type = n.ino[j].type
                            /\ AddLinks(n, i, one).ino[j].data = n.ino[j].data
        /\ \A j \in Inum : AddLinks(n, i, one).ino[j].nlink =
                            IF j = i THEN n.ino[j].nlink + one ELSE n.ino[j].nlink
    BY ONLY <1>2, <1>5, AddLinksIs
  <2> QED
    BY ONLY <1>2, <1>5, <2>1
<1>7. Safe(a)
  <2>1. n.ino[i].type # "none" /\ n.ino[i].nlink + one >= 0
    BY <1>2, <1>5
  <2>2. Safe(AddLinks(n, i, one))
    BY <1>2, <1>3, <1>5, <2>1, AddLinksSafe
  <2> QED
    BY <1>5, <2>2
<1>8. c = IF type # "dir" THEN a ELSE DirMade(a, dp, i)
  BY DEF Prepared, n
<1> HIDE DEF a, c
<1>9. \A j \in Inum \ {i} : SameInode(d, a, j)
  BY <1>2, <1>6 DEF SameInode
<1>10. a.ino[i].type = type /\ a.ino[i].nlink = 1 /\ a.ino[i].data = <<>>
  BY <1>2, <1>6
<1>11. a.ino[dp].type = "dir" /\ a.ino[dp].data = d.ino[dp].data /\ a.ino[dp].nlink = d.ino[dp].nlink
       /\ d.ino[dp].nlink \in Nat
  BY <1>1, <1>4, <1>9 DEF SameInode, Typed
<1>12. CASE type = "dir"
  <2>1. c = DirMade(a, dp, i)
    BY SMTT(60), <1>8, <1>12
  <2>2. /\ IsDisk(c) /\ Safe(c)
        /\ \A j \in Inum \ {i, dp} : SameInode(a, c, j)
        /\ c.ino[dp].type = "dir" /\ c.ino[dp].data = a.ino[dp].data
        /\ c.ino[dp].nlink = a.ino[dp].nlink + 1
        /\ c.ino[i].type = "dir" /\ c.ino[i].nlink = a.ino[i].nlink
        /\ c.panic = "no" =>
             Size(c, i) = 2 /\ c.ino[i].data[1] = Dirent(".", i) /\ c.ino[i].data[2] = Dirent("..", dp)
    BY SMTT(60), <1>1, <1>2, <1>4, <1>6, <1>7, <1>10, <1>11, <1>12, <2>1, DirMadeIs
  <2>3. \A j \in Inum \ {i, dp} : SameInode(d, c, j)
    BY <1>9, <2>2 DEF SameInode
  <2>4. NewFor(d, c, dp, i, type)
    BY <1>10, <1>11, <1>12, <2>2, <2>3 DEF NewFor
  <2> QED
    BY <1>2, <1>4, <2>4 DEF c
<1>13. CASE type # "dir"
  <2>1. c = a
    BY <1>8, <1>13
  <2>2. NewFor(d, c, dp, i, type)
    BY <1>6, <1>7, <1>9, <1>10, <1>11, <1>13, <2>1 DEF NewFor
  <2> QED
    BY <1>2, <1>4, <2>2 DEF c
<1> QED
  BY <1>12, <1>13

(* What is named in dp is lost: dp was removed, or is lost itself.            *)
NamedIn(d, L, dp) == d.ino[dp].nlink = 0 \/ dp \in L

(* create() writes the name into dp.                                          *)
LEMMA NameWritten ==
  ASSUME NEW d, NEW L, Sound(d), Tree(d, L), NEW dp \in Dirs(d), NEW type \in {"dir", "file", "dev"},
         NEW i \in Inum, d.ino[i].type = "none", i # dp, NEW c, NewFor(d, c, dp, i, type), NEW name,
         NEW e, e = Dirlink(c, dp, name, i)
  PROVE  /\ Safe(e)
         /\ e.panic = "no" => /\ Tree(e, L \cup (IF NamedIn(d, L, dp) THEN {dp, i} ELSE {}))
                              /\ Extends(d, e) /\ e.ino[i].type = type
<1>1. dp \in Inum /\ IsDisk(c) /\ Safe(c) /\ Typed(d) /\ Directories(d) /\ c.ino[dp].data = d.ino[dp].data
  BY DEF NewFor, Tree, Dirs
<1>2. Safe(e)
  BY <1>1, DirlinkSafe DEF NewFor
<1>3. /\ (e.panic = "no" => c.panic = "no")
      /\ \A j \in Inum \ {dp} : SameInode(c, e, j)
      /\ e.ino[dp].type = c.ino[dp].type /\ e.ino[dp].nlink = c.ino[dp].nlink
  BY <1>1, DirlinkIs
<1>4. ASSUME e.panic = "no"
      PROVE  /\ Tree(e, L \cup (IF NamedIn(d, L, dp) THEN {dp, i} ELSE {}))
             /\ Extends(d, e) /\ e.ino[i].type = type
  <2>1. PICK s : EntryAt(d, e, dp, i, s)
    BY <1>1, <1>4, DirlinkEntry
  <2>2. Typed(e)
    BY <1>2, <1>4, SoundTyped DEF Safe
  <2>3. \A j \in Inum \ {i, dp} : SameInode(d, e, j)
    BY <1>3 DEF NewFor, SameInode
  <2>4. SameInode(c, e, i) /\ Size(e, i) = Size(c, i)
    BY <1>3 DEF SameInode, Size
  <2>5. e.ino[i].nlink = 1 /\ e.ino[i].type = type /\ type # "none"
    BY <2>4 DEF NewFor, SameInode
  <2>6. e.ino[i].type = "dir" =>
           /\ Size(e, i) = 2 /\ e.ino[i].data[1] = Dirent(".", i)
           /\ e.ino[i].data[2] = Dirent("..", dp)
    BY <1>3, <1>4, <2>4, <2>5 DEF NewFor, SameInode
  <2>7. /\ e.ino[dp].type = "dir"
        /\ e.ino[dp].nlink = d.ino[dp].nlink + (IF e.ino[i].type = "dir" THEN 1 ELSE 0)
    BY <1>3, <2>5 DEF NewFor
  <2>8. BornIn(d, e, dp, i)
    BY <2>3, <2>5, <2>6, <2>7 DEF BornIn
  <2>9. Tree(e, LostBy(d, L, dp, i)) /\ Extends(d, e)
    BY <1>1, <2>1, <2>2, <2>8, Named DEF NewFor
  <2> QED
    BY ZenonT(90), <2>5, <2>9 DEF NamedIn, LostBy
<1> QED
  BY <1>2, <1>4

(* create() leaves disk t.d; a name in a directory that was removed is lost.  *)
Creation(d, L, t, type) ==
  /\ Safe(t.d)
  /\ \A dq \in t.orphan \cap Dirs(d) : dq \in L \/ d.ino[dq].nlink = 0
  /\ t.d.panic = "no" =>
       /\ Tree(t.d, L \cup t.orphan) /\ Extends(d, t.d)
       /\ t.ip # 0 => t.ip \in Allocated(t.d)
       /\ t.ip # 0 /\ type # "dir" => t.ip \notin Dirs(t.d)

LEMMA NoExtension ==
  ASSUME NEW d, Typed(d)
  PROVE  Extends(d, d)
<1>1. \A i \in Allocated(d) : Size(d, i) \in Nat
  BY SizeIs DEF Allocated
<1> QED
  BY <1>1 DEF Extends

LEMMA CreatedIs ==
  ASSUME Sound(disk), disk.panic = "no", Tree(disk, lost), NEW p \in Proc, cwd[p] \in Inum,
         NEW path, IsSeq(path), NEW type \in {"dir", "file", "dev"}
  PROVE  Creation(disk, lost, Created(p, path, type), type)
<1> DEFINE dp   == NameiParent(disk, cwd[p], path)
           name == LastName(path)
           old  == Dirlookup(disk, dp, name)
           i    == Ialloc(disk, type).ip
           n    == Ialloc(disk, type).d
           c    == Prepared(disk, dp, i, type)
           e    == Dirlink(c, dp, name, i)
           t    == Created(p, path, type)
           x    == IF NamedIn(disk, lost, dp) THEN {dp, i} ELSE {}
           nil  == [d |-> disk, ip |-> 0, orphan |-> {}]
           bad  == [nil EXCEPT !.d = Panic(disk, "ilock: no type")]
<1>1. IsDisk(disk) /\ Typed(disk) /\ Safe(disk) /\ Directories(disk)
  BY SoundTyped DEF Safe, Panics, Tree
<1>2. dp \in Dirs(disk) \cup {0, Broken}
  BY <1>1, NameiIs
<1>3. t = CASE dp = 0      -> nil
            [] dp = Broken -> bad
            [] dp > 0 /\ old # 0 ->
                 IF disk.ino[old].type = "none" THEN bad
                 ELSE IF type = "file" /\ disk.ino[old].type = "file" THEN [nil EXCEPT !.ip = old]
                 ELSE nil
            [] OTHER ->
                 IF i = 0 THEN [nil EXCEPT !.d = n]
                 ELSE [d |-> e, ip |-> i, orphan |-> x]
  BY DEF Created, Prepared, DirMade, NamedIn, Removed
<1> HIDE DEF t
<1>4. Creation(disk, lost, nil, type)
  <2>1. nil.d = disk /\ nil.ip = 0 /\ nil.orphan = {}
    OBVIOUS
  <2> HIDE DEF nil
  <2>2. Tree(nil.d, lost \cup nil.orphan)
    BY <2>1
  <2> QED
    BY <1>1, <2>1, <2>2, NoExtension DEF Creation
<1>5. Creation(disk, lost, bad, type)
  <2>1. PICK why : why = "ilock: no type" /\ why \in Panics \ {"no"}
    <3>1. "ilock: no type" # "no"
      OBVIOUS
    <3> QED
      BY <3>1, ZenonT(90) DEF Panics
  <2>2. Safe(Panic(disk, why)) /\ Panic(disk, why).panic # "no"
    BY ZenonT(90), <1>1, <2>1, SafePanic, PanicIs
  <2>3. bad.d = Panic(disk, why) /\ bad.ip = 0 /\ bad.orphan = {}
    BY ZenonT(90), <2>1
  <2> HIDE DEF bad
  <2> QED
    BY <2>2, <2>3 DEF Creation
<1>6. old # 0 /\ dp \in Dirs(disk) => old \in Inum
  BY <1>1, DirlookupIs
<1>7. ASSUME i = 0
      PROVE  Creation(disk, lost, [nil EXCEPT !.d = n], type)
  <2>1. Safe(n) /\ n.panic # "no"
    BY ZenonT(90), <1>1, <1>7, IallocSafe, IallocIs
  <2>2. [nil EXCEPT !.d = n] = [d |-> n, ip |-> 0, orphan |-> {}]
    OBVIOUS
  <2> HIDE DEF n, nil
  <2>3. PICK r : r = [nil EXCEPT !.d = n] /\ r.d = n /\ r.ip = 0 /\ r.orphan = {}
    BY <2>2
  <2>4. Creation(disk, lost, r, type)
    BY <2>1, <2>3 DEF Creation
  <2> QED
    BY <2>3, <2>4
<1>8. ASSUME dp \in Dirs(disk), i # 0
      PROVE  Creation(disk, lost, [d |-> e, ip |-> i, orphan |-> x], type)
  <2>1. i \in Inum /\ disk.ino[i].type = "none" /\ i # dp /\ NewFor(disk, c, dp, i, type)
    BY <1>8, PreparedIs
  <2>2. /\ Safe(e)
        /\ e.panic = "no" => /\ Tree(e, lost \cup x) /\ Extends(disk, e) /\ e.ino[i].type = type
    <3> HIDE DEF c, dp, i, name, e
    <3>1. e = Dirlink(c, dp, name, i)
      BY DEF e
    <3> QED
      BY <1>8, <2>1, <3>1, NameWritten
  <2>7. x # {} => NamedIn(disk, lost, dp) /\ x = {dp, i}
    OBVIOUS
  <2> HIDE DEF e, c, i, n, dp, nil, bad, old, x
  <2> DEFINE r == [d |-> e, ip |-> i, orphan |-> x]
  <2>3. r.d = e /\ r.ip = i /\ r.orphan = x
    OBVIOUS
  <2> HIDE DEF r
  <2>4. \A dq \in r.orphan \cap Dirs(disk) : dq \in lost \/ disk.ino[dq].nlink = 0
    <3>1. i \notin Dirs(disk)
      BY <2>1 DEF Dirs
    <3> QED
      BY <2>3, <2>7, <3>1 DEF NamedIn
  <2>5. e.panic = "no" => i \in Allocated(e) /\ (type # "dir" => i \notin Dirs(e))
    BY <2>1, <2>2 DEF Allocated, FreeInodes, Dirs
  <2>6. Creation(disk, lost, r, type)
    BY <2>2, <2>3, <2>4, <2>5 DEF Creation
  <2> QED
    BY <2>6 DEF r
<1>9. ASSUME dp \in Dirs(disk), old # 0, disk.ino[old].type = "file"
      PROVE  Creation(disk, lost, [nil EXCEPT !.ip = old], type)
  <2>1. old \in Inum
    BY <1>6, <1>9
  <2>2. [nil EXCEPT !.ip = old] = [d |-> disk, ip |-> old, orphan |-> {}]
    OBVIOUS
  <2> HIDE DEF old, nil
  <2>3. PICK r : r = [nil EXCEPT !.ip = old] /\ r.d = disk /\ r.ip = old /\ r.orphan = {}
    BY <2>2
  <2>4. old \in Allocated(disk) /\ old \notin Dirs(disk)
    BY <1>9, <2>1 DEF Allocated, FreeInodes, Dirs
  <2>5. Tree(r.d, lost \cup r.orphan)
    BY <2>3
  <2>6. Creation(disk, lost, r, type)
    BY <1>1, <2>3, <2>4, <2>5, NoExtension DEF Creation
  <2> QED
    BY <2>3, <2>6
<1> HIDE DEF nil, bad, old, e, i, n, c, x, dp
<1>10. ASSUME dp = 0 PROVE Creation(disk, lost, t, type)
  BY <1>3, <1>4, <1>10 DEF Broken
<1>11. ASSUME dp = Broken PROVE Creation(disk, lost, t, type)
  BY <1>3, <1>5, <1>11 DEF Broken
<1>12. ASSUME dp \in Dirs(disk) PROVE Creation(disk, lost, t, type)
  <2>1. dp > 0 /\ dp # 0 /\ dp # Broken
    BY <1>12 DEF Dirs, Inum, Broken
  <2>2. CASE old # 0
    <3>1. t = IF disk.ino[old].type = "none" THEN bad
              ELSE IF type = "file" /\ disk.ino[old].type = "file" THEN [nil EXCEPT !.ip = old]
              ELSE nil
      BY <1>3, <2>1, <2>2
    <3> QED
      BY <1>4, <1>5, <1>9, <1>12, <2>2, <3>1
  <2>3. CASE old = 0
    <3>1. t = IF i = 0 THEN [nil EXCEPT !.d = n] ELSE [d |-> e, ip |-> i, orphan |-> x]
      BY <1>3, <2>1, <2>3
    <3>2. CASE i = 0
      BY <1>7, <3>1, <3>2
    <3>3. CASE i # 0
      BY <1>8, <1>12, <3>1, <3>3
    <3> QED
      BY <3>2, <3>3
  <2> QED
    BY <2>2, <2>3
<1> QED
  BY <1>2, <1>10, <1>11, <1>12 DEF t

-----------------------------------------------------------------------------
(* Open files and working directories come and go.                            *)

(* The kernel stops.                                                          *)
LEMMA HaltKeeps ==
  ASSUME NEW d, NEW L, NEW g, NEW c, NEW b, SysInv(d, L, g, c, b), d.panic = "no", NEW why \in Panics \ {"no"}
  PROVE  SysInv(Panic(d, why), L, g, c, b)
<1>1. Sound(d) /\ Tree(d, L) /\ HeldInv(d, g, c, b)
  BY DEF SysInv
<1> DEFINE e == Panic(d, why)
<1>2. /\ Sound(e) /\ e.panic = why /\ Tree(e, L) /\ e.ino = d.ino
      /\ \A i \in Inum : Names(e, i) = Names(d, i)
  BY <1>1, PanicKeeps
<1> HIDE DEF e
<1>3. Allocated(e) = Allocated(d) /\ \A i : Size(e, i) = Size(d, i)
  BY <1>2 DEF Allocated, FreeInodes, Size
<1>4. HeldInv(e, g, c, b)
  <2>1. \A i \in Allocated(d) : Size(d, i) \in Nat
    BY <1>1, SoundTyped, SizeIs DEF Allocated
  <2>2. \A i \in Allocated(d) : e.ino[i].type = d.ino[i].type
    BY <1>2
  <2> QED
    BY <1>1, <1>3, <2>1, <2>2, SameHeld
<1> QED
  BY <1>1, <1>2, <1>4 DEF SysInv, e

(* The files that are being written are open.                                 *)
Open(g, b) == \A p \in Proc : b[p].do = "write" => b[p].f \in File /\ g[b[p].f].ref # 0

(* open() and pipe(): file k, so far free, becomes r.                         *)
LEMMA OpenedKeeps ==
  ASSUME NEW d, NEW L, NEW g, NEW c, NEW b, HeldInv(d, g, c, b),
         g = [f \in File |-> g[f]], NEW k \in File, g[k].ref = 0, Open(g, b), NEW r, OpenOn(d, r)
  PROVE  LET h == SetFile(g, k, r) IN
         HeldInv(d, h, c, b)
<1> DEFINE h == SetFile(g, k, r)
<1>1. \A f \in File : h[f] = IF f = k THEN r ELSE g[f]
  BY SetFileIs
<1> HIDE DEF h
<1>2. HeldInv(d, h, c, b)
  <2>1. \A f \in File : OpenOn(d, h[f])
    BY <1>1 DEF HeldInv
  <2>2. \A p \in Proc : b[p].do = "write" => Writing(h, b[p])
    <3>1. \A p \in Proc : b[p].do = "write" => Writing(g, b[p]) /\ h[b[p].f] = g[b[p].f]
      BY <1>1 DEF HeldInv, Open
    <3> QED
      BY <3>1 DEF Writing
  <2> QED
    BY <2>1, <2>2 DEF HeldInv
<1> QED
  BY <1>2 DEF h

(* fileclose() of file k.                                                     *)
LEMMA DropKeeps ==
  ASSUME NEW d, NEW L, NEW g, NEW c, NEW b, HeldInv(d, g, c, b),
         g = [f \in File |-> g[f]], NEW k \in File, OpenFile(g[k]), g[k].ref # 0,
         NEW h, h = SetFile(g, k, LessOne(g[k])), Open(h, b)
  PROVE  HeldInv(d, h, c, b)
<1>1. \A f \in File : h[f] = IF f = k THEN LessOne(g[k]) ELSE g[f]
  BY SetFileIs
<1>2. OpenOn(d, g[k]) /\ HasFields(g[k])
  BY DEF HeldInv, OpenOn
<1>3. g[k].ref > 1 => /\ LessOne(g[k]).ref = g[k].ref - 1 /\ LessOne(g[k]).type = g[k].type
                      /\ LessOne(g[k]).ip = g[k].ip /\ LessOne(g[k]).off = g[k].off
                      /\ MayWrite(LessOne(g[k])) = MayWrite(g[k]) /\ HasFields(LessOne(g[k]))
  <2> DEFINE r == g[k]
  <2>1. OpenFile(r) /\ HasFields(r)
    BY <1>2
  <2> HIDE DEF r
  <2>2. r.ref > 1 => LessOne(r) = [r EXCEPT !.ref = r.ref - 1]
    BY DEF LessOne
  <2>3. PICK q : q = [r EXCEPT !.ref = r.ref - 1]
    BY ZenonT(90)
  <2>4. q.ref = r.ref - 1 /\ q.type = r.type /\ q.ip = r.ip /\ q.off = r.off /\ HasFields(q)
    BY <2>1, <2>3 DEF HasFields
  <2>5. q.w = r.w
    BY <2>1, <2>3 DEF HasFields
  <2>6. MayWrite(q) = MayWrite(r)
    BY <2>5 DEF MayWrite
  <2> QED
    BY ZenonT(90), <2>2, <2>3, <2>4, <2>6 DEF r
<1>4. ~(g[k].ref > 1) => LessOne(g[k]) = NoFile /\ g[k].ref = 1
  BY DEF LessOne, OpenFile
<1>5. NoFile.type = "none" /\ NoFile.ref = 0 /\ HasFields(NoFile)
  BY DEF NoFile, HasFields
<1>6. g[k].ref \in Nat
  BY DEF OpenFile
<1>7. HeldInv(d, h, c, b)
  <2>1. ASSUME NEW f \in File PROVE OpenOn(d, h[f])
    <3>1. CASE f # k
      BY <1>1, <3>1 DEF HeldInv
    <3>2. CASE f = k /\ g[k].ref > 1
      BY <1>1, <1>2, <1>3, <1>6, <3>2 DEF OpenOn
    <3>3. CASE f = k /\ ~(g[k].ref > 1)
      BY <1>1, <1>4, <1>5, <3>3 DEF OpenOn
    <3> QED
      BY <3>1, <3>2, <3>3
  <2>2. ASSUME NEW p \in Proc, b[p].do = "write" PROVE Writing(h, b[p])
    <3>1. Writing(g, b[p]) /\ b[p].f \in File /\ h[b[p].f].ref # 0
      BY <2>2 DEF HeldInv, Open
    <3>2. CASE b[p].f = k
      <4>1. g[k].ref > 1
        BY <1>1, <1>4, <1>5, <3>1, <3>2
      <4> QED
        BY ZenonT(90), <1>1, <1>3, <3>1, <3>2, <4>1 DEF Writing
    <3>3. CASE b[p].f # k
      BY <1>1, <3>1, <3>3 DEF Writing
    <3> QED
      BY <3>2, <3>3
  <2> QED
    BY <2>1, <2>2 DEF HeldInv
<1> QED
  BY <1>7

(* The working directory of p is another one, or none any more.               *)
LEMMA CwdKeeps ==
  ASSUME NEW d, NEW L, NEW g, NEW c, NEW b, HeldInv(d, g, c, b),
         c = [p \in Proc |-> c[p]], NEW p \in Proc, NEW i \in Dirs(d) \cup {0}, NEW a, a = [c EXCEPT ![p] = i]
  PROVE  HeldInv(d, g, a, b)
<1>1. \A s \in Proc : a[s] = IF s = p THEN i ELSE c[s]
  OBVIOUS
<1>2. HeldInv(d, g, a, b)
  BY <1>1 DEF HeldInv
<1> QED
  BY <1>2

(* What process p is in the middle of.                                        *)
LEMMA BusyKeeps ==
  ASSUME NEW d, NEW g, NEW c, NEW b, HeldInv(d, g, c, b), b = [p \in Proc |-> b[p]],
         NEW p \in Proc, NEW x, x.do = "write" => Writing(g, x)
  PROVE  HeldInv(d, g, c, [b EXCEPT ![p] = x])
BY DEF HeldInv

-----------------------------------------------------------------------------
(* The calls.                                                                 *)

TreeInv == SysInv(disk, lost, file, cwd, busy)

(* A transaction with result e, after which X is lost.                        *)
LEMMA LeavesKeeps ==
  ASSUME TreeInv, disk.panic = "no", NEW e, NEW X, Leaves(e, X), Safe(e),
         \A dp \in X \cap Dirs(disk) : dp \in lost \/ disk.ino[dp].nlink = 0,
         e.panic = "no" => /\ Tree(e, lost \cup X) /\ HeldInv(e, file', cwd', busy'),
         e.panic # "no" => HeldInv(disk, file', cwd', busy')
  PROVE  TreeInv'
<1>1. Sound(disk) /\ Tree(disk, lost)
  BY DEF TreeInv, SysInv
<1>2. PICK d, L, g, c, b : d = disk /\ L = lost /\ g = file' /\ c = cwd' /\ b = busy'
  OBVIOUS
<1>3. SysInv(After(d, e), LostAfter(After(d, e), L, X), g, c, b)
  BY ZenonT(90), <1>1, <1>2, CommitKeeps
<1>4. disk' = After(d, e) /\ lost' = LostAfter(After(d, e), L, X)
  BY <1>2 DEF Leaves, After, LostAfter
<1> QED
  BY <1>2, <1>3, <1>4 DEF TreeInv

(* The disk stays.                                                            *)
LEMMA SameDiskKeeps ==
  ASSUME TreeInv, UNCHANGED <<disk, lost>>,
         HeldInv(disk, file', cwd', busy')
  PROVE  TreeInv'
<1>1. Sound(disk) /\ disk.panic \in Panics /\ Tree(disk, lost)
  BY DEF TreeInv, SysInv
<1> QED
  BY <1>1 DEF TreeInv, SysInv

LEMMA FailsKeeps ==
  ASSUME TreeInv, NEW p, Fails(p)
  PROVE  TreeInv'
BY DEF Fails, TreeInv

LEMMA HaltsKeeps ==
  ASSUME TreeInv, disk.panic = "no", NEW why \in Panics \ {"no"}, Halts(why)
  PROVE  TreeInv'
<1>1. SysInv(Panic(disk, why), lost, file, cwd, busy)
  BY HaltKeeps DEF TreeInv
<1>2. disk' = Panic(disk, why) /\ UNCHANGED <<lost, file, cwd, busy>>
  BY DEF Halts
<1> QED
  BY <1>1, <1>2 DEF TreeInv

LEMMA NoTypeKeeps ==
  ASSUME TreeInv, disk.panic = "no", NoType
  PROVE  TreeInv'
<1>1. PICK why : why = "ilock: no type" /\ why \in Panics \ {"no"}
  <2>1. "ilock: no type" # "no"
    OBVIOUS
  <2> QED
    BY <2>1, ZenonT(90) DEF Panics
<1>2. Halts(why)
  BY ZenonT(90), <1>1 DEF NoType
<1> QED
  BY ZenonT(90), <1>1, <1>2, HaltsKeeps

(* What a process that makes a call can rely on.                              *)
LEMMA Running ==
  ASSUME TreeInv, TablesInv, NEW p \in Proc, Ready(p)
  PROVE  /\ disk.panic = "no" /\ Sound(disk) /\ Tree(disk, lost) /\ Safe(disk)
         /\ IsDisk(disk) /\ Typed(disk) /\ Directories(disk)
         /\ HeldInv(disk, file, cwd, busy)
         /\ cwd[p] \in Dirs(disk) /\ cwd[p] \in Inum /\ cwd[p] # 0 /\ busy[p] = Idle
<1>1. disk.panic = "no" /\ cwd[p] # 0 /\ busy[p] = Idle
  BY DEF Ready, Halted
<1>2. Sound(disk) /\ Tree(disk, lost) /\ HeldInv(disk, file, cwd, busy)
  BY DEF TreeInv, SysInv
<1>3. Safe(disk) /\ IsDisk(disk) /\ Typed(disk) /\ Directories(disk)
  BY <1>1, <1>2, SoundTyped DEF Safe, Panics, Tree
<1>4. cwd[p] \in Dirs(disk) /\ cwd[p] \in Inum
  BY <1>1, <1>2 DEF HeldInv, Dirs
<1> QED
  BY <1>1, <1>2, <1>3, <1>4

(* mkdir() and mknod()                                                        *)
LEMMA MakeKeeps ==
  ASSUME TreeInv, TablesInv, NEW p \in Proc, NEW path, IsSeq(path), NEW type \in {"dir", "dev"},
         Make(p, path, type)
  PROVE  TreeInv'
<1> DEFINE t == Created(p, path, type)
<1>1. Ready(p) /\ Leaves(t.d, t.orphan) /\ UNCHANGED <<file, cwd, busy>>
  BY DEF Make
<1>2. disk.panic = "no" /\ Sound(disk) /\ Tree(disk, lost) /\ Typed(disk) /\ cwd[p] \in Inum
      /\ HeldInv(disk, file, cwd, busy)
  BY <1>1, Running
<1>3. Creation(disk, lost, t, type)
  BY <1>2, CreatedIs
<1> HIDE DEF t
<1>4. Safe(t.d) /\ \A dq \in t.orphan \cap Dirs(disk) : dq \in lost \/ disk.ino[dq].nlink = 0
  BY <1>3 DEF Creation
<1>5. t.d.panic = "no" => Tree(t.d, lost \cup t.orphan) /\ Extends(disk, t.d)
  BY <1>3 DEF Creation
<1>6. t.d.panic = "no" => HeldInv(t.d, file, cwd, busy)
  BY ZenonT(90), <1>2, <1>5, ExtendsKeeps
<1> QED
  BY <1>1, <1>2, <1>4, <1>5, <1>6, LeavesKeeps

LEMMA OpenNow ==
  ASSUME TablesInv
  PROVE  Open(file, busy) /\ file = [f \in File |-> file[f]]
<1>1. FilesInv(file, ofile) /\ RowsInv(ofile, cwd, busy)
  BY DEF TablesInv
<1>2. ASSUME NEW p \in Proc, busy[p].do = "write"
      PROVE  busy[p].f \in File /\ file[busy[p].f].ref # 0
  <2>1. PICK fd \in Fd : busy[p].f \in File /\ ofile[p][fd] = busy[p].f
    BY <1>1, <1>2 DEF RowsInv
  <2>2. ofile[p][fd] # 0
    BY <2>1 DEF File
  <2> QED
    BY <1>1, <2>1, <2>2, OpenIsFile
<1> QED
  BY <1>1, <1>2 DEF Open, FilesInv

(* open()                                                                     *)
LEMMA TargetIs ==
  ASSUME Sound(disk), disk.panic = "no", Tree(disk, lost), NEW p \in Proc, cwd[p] \in Inum,
         NEW path, IsSeq(path), NEW mode
  PROVE  LET t == OpenTarget(p, path, mode) IN
         /\ Creation(disk, lost, t, "dir")
         /\ t.d.panic = "no" /\ t.ip # 0 /\ mode \cap {"wronly", "rdwr"} # {} => t.ip \notin Dirs(t.d)
<1> DEFINE t == OpenTarget(p, path, mode)
           ip == Namei(disk, cwd[p], path)
<1>1. IsDisk(disk) /\ Typed(disk) /\ Safe(disk) /\ Directories(disk)
  BY SoundTyped DEF Safe, Panics, Tree
<1>2. CASE "create" \in mode
  <2>1. t = Created(p, path, "file")
    BY <1>2 DEF OpenTarget
  <2> HIDE DEF t
  <2>2. PICK type : type = "file" /\ type \in {"dir", "file", "dev"}
    BY ZenonT(90)
  <2>3. Creation(disk, lost, Created(p, path, type), type)
    BY <2>2, CreatedIs
  <2>4. Creation(disk, lost, t, "file")
    BY <2>1, <2>2, <2>3
  <2>5. t.d.panic = "no" /\ t.ip # 0 => t.ip \notin Dirs(t.d)
    BY <2>4 DEF Creation
  <2>6. Creation(disk, lost, t, "dir")
    BY <2>4 DEF Creation
  <2> QED
    BY <2>5, <2>6 DEF t
<1>3. CASE "create" \notin mode
  <2>1. ip \in Allocated(disk) \cup {0, Broken}
    BY <1>1, NameiIs
  <2> DEFINE x == IF ip = Broken THEN Panic(disk, "ilock: no type") ELSE disk
             y == IF ip <= 0 THEN 0 ELSE IF disk.ino[ip].type = "dir" /\ mode # {} THEN 0 ELSE ip
  <2>2. t = [d |-> x, ip |-> y, orphan |-> {}]
    BY <1>3 DEF OpenTarget
  <2>3. y # 0 => ip \in Allocated(disk) /\ y = ip /\ ~(disk.ino[ip].type = "dir" /\ mode # {})
    <3> HIDE DEF ip
    <3> QED
      BY <2>1 DEF Broken
  <2>4. PICK why : why = "ilock: no type" /\ why \in Panics \ {"no"}
    <3>1. "ilock: no type" # "no"
      OBVIOUS
    <3> QED
      BY <3>1, ZenonT(90) DEF Panics
  <2>5. Safe(Panic(disk, why)) /\ Panic(disk, why).panic # "no"
    BY ZenonT(90), <1>1, <2>4, SafePanic, PanicIs
  <2>6. Safe(x) /\ (x.panic = "no" => x = disk)
    <3> HIDE DEF ip
    <3> QED
      BY ZenonT(90), <1>1, <2>4, <2>5
  <2> HIDE DEF x, y
  <2>7. t.d = x /\ t.ip = y /\ t.orphan = {}
    BY <2>2
  <2> HIDE DEF t, ip
  <2>8. Tree(disk, lost \cup t.orphan)
    BY <2>7
  <2>9. Creation(disk, lost, t, "dir")
    BY <1>1, <2>3, <2>6, <2>7, <2>8, NoExtension DEF Creation
  <2>10. t.d.panic = "no" /\ t.ip # 0 /\ mode # {} => t.ip \notin Dirs(t.d)
    BY <2>3, <2>6, <2>7 DEF Dirs
  <2> QED
    BY <2>9, <2>10 DEF t
<1> QED
  BY <1>2, <1>3

LEMMA OpenKeeps ==
  ASSUME TreeInv, TablesInv, NEW p \in Proc, NEW path, IsSeq(path), NEW mode, SysOpen(p, path, mode)
  PROVE  TreeInv'
<1> DEFINE t == OpenTarget(p, path, mode)
           k == Min(FreeFile(file))
           r == [ref |-> 1, type |-> "inode", ip |-> t.ip, off |-> 0,
                 r |-> "wronly" \notin mode, w |-> mode \cap {"wronly", "rdwr"} # {}]
           opens == t.d.panic = "no" /\ t.ip # 0 /\ FreeFile(file) # {} /\ FreeFd(p) # {}
<1>1. Ready(p) /\ Leaves(t.d, t.orphan) /\ UNCHANGED <<cwd, busy>>
  BY DEF SysOpen
<1>2. file' = IF opens THEN SetFile(file, k, r) ELSE file
  BY DEF SysOpen, SetFile
<1>3. disk.panic = "no" /\ Sound(disk) /\ Tree(disk, lost) /\ Typed(disk) /\ cwd[p] \in Inum
      /\ HeldInv(disk, file, cwd, busy)
  BY <1>1, Running
<1>4. /\ Creation(disk, lost, t, "dir")
      /\ t.d.panic = "no" /\ t.ip # 0 /\ mode \cap {"wronly", "rdwr"} # {} => t.ip \notin Dirs(t.d)
  BY <1>3, TargetIs
<1>5. FreeFile(file) # {} => k \in File /\ file[k].ref = 0
  BY ZenonT(90), FreeIsFree
<1>6. HasFields(r) /\ r.ref = 1 /\ r.type = "inode" /\ r.ip = t.ip /\ r.off = 0
      /\ (MayWrite(r) <=> mode \cap {"wronly", "rdwr"} # {})
  <2>1. r.w = (mode \cap {"wronly", "rdwr"} # {})
    OBVIOUS
  <2> QED
    BY ZenonT(90), <2>1 DEF HasFields, MayWrite
<1> HIDE DEF t, k, r
<1>7. Safe(t.d) /\ \A dq \in t.orphan \cap Dirs(disk) : dq \in lost \/ disk.ino[dq].nlink = 0
  BY <1>4 DEF Creation
<1>8. t.d.panic = "no" => /\ Tree(t.d, lost \cup t.orphan) /\ Extends(disk, t.d)
                          /\ (t.ip # 0 => t.ip \in Allocated(t.d))
  BY <1>4 DEF Creation
<1>9. t.d.panic = "no" => HeldInv(t.d, file, cwd, busy)
  BY ZenonT(90), <1>3, <1>8, ExtendsKeeps
<1>10. CASE opens
  <2>1. Typed(t.d) /\ t.ip \in Inum
    BY <1>7, <1>8, <1>10, SoundTyped DEF Safe, Allocated
  <2>2. Size(t.d, t.ip) \in Nat
    BY <2>1, SizeIs
  <2>3. OpenOn(t.d, r)
    BY <1>4, <1>6, <1>8, <1>10, <2>2 DEF OpenOn
  <2>4. HeldInv(t.d, file', cwd, busy)
    BY <1>2, <1>5, <1>9, <1>10, <2>3, OpenNow, OpenedKeeps
  <2> QED
    BY <1>1, <1>3, <1>7, <1>8, <1>10, <2>4, LeavesKeeps
<1>11. CASE ~opens
  <2>1. file' = file
    BY <1>2, <1>11
  <2> HIDE DEF opens
  <2> QED
    BY <1>1, <1>3, <1>7, <1>8, <1>9, <2>1, LeavesKeeps
<1> QED
  BY <1>10, <1>11

(* iput() of inode i with r: r says so at least if it is referred to.         *)
IsHeld(r, g, c, i) == r \in BOOLEAN /\ (Holds(g, c, i) => r)

LEMMA IputPuts ==
  ASSUME NEW d, Safe(d), NEW i \in Inum, d.ino[i].type # "none", NEW g, NEW c, NEW r, IsHeld(r, g, c, i),
         NEW e, e = Iput(d, i, r)
  PROVE  Safe(e) /\ e.panic = d.panic /\ (e.panic = "no" => Put(d, e, g, c, i))
<1>1. IsDisk(d) /\ r \in BOOLEAN
  BY DEF Safe, IsHeld
<1>2. Safe(e) /\ e.panic = d.panic
  BY <1>1, IputSafe
<1>3. LET x == Iput(d, i, r)
          frees == d.ino[i].nlink = 0 /\ d.ino[i].type # "none" /\ ~r IN
      /\ ~frees => x = d
      /\ \A j \in Inum \ {i} : SameInode(d, x, j)
      /\ frees /\ x.panic = "no" => x.ino[i].type = "none"
  BY <1>1, IputIs
<1>4. \A j \in Inum \ {i} : SameInode(d, e, j)
  BY <1>3
<1>5. CASE d.ino[i].nlink = 0 /\ ~r
  BY <1>2, <1>3, <1>4, <1>5 DEF Put, IsHeld
<1>6. CASE ~(d.ino[i].nlink = 0 /\ ~r)
  <2>1. e = d
    BY <1>3, <1>6
  <2> QED
    BY <1>2, <1>4, <2>1 DEF Put, SameInode
<1> QED
  BY <1>5, <1>6

LEMMA PutIs ==
  ASSUME NEW d, Safe(d), d.panic = "no", NEW L, Tree(d, L), NEW i \in Allocated(d), NEW g, NEW c, NEW b,
         HeldInv(d, g, c, b), NEW r, IsHeld(r, g, c, i), NEW e, e = Iput(d, i, r)
  PROVE  Safe(e) /\ e.panic = "no" /\ Tree(e, L) /\ HeldInv(e, g, c, b)
<1>1. i \in Inum /\ d.ino[i].type # "none"
  BY DEF Allocated, FreeInodes
<1>2. Safe(e) /\ e.panic = "no" /\ Put(d, e, g, c, i)
  BY <1>1, IputPuts
<1>3. Typed(e)
  BY <1>2, SoundTyped DEF Safe
<1> QED
  BY <1>2, <1>3, PutKeeps

-----------------------------------------------------------------------------
(* Descriptors, and processes.                                                *)

(* chdir() and the end of exit(): the working directory is put.               *)
LEMMA PutCwd ==
  ASSUME TreeInv, TablesInv, disk.panic = "no", NEW p \in Proc, cwd[p] # 0, NEW i \in Dirs(disk) \cup {0},
         cwd' = [cwd EXCEPT ![p] = i], UNCHANGED file, HeldInv(disk, file, cwd, busy'),
         NEW o \in BOOLEAN, Leaves(CwdLeft(p, o), {})
  PROVE  TreeInv'
<1> DEFINE j == cwd[p]
           referenced == FileHolds(file, j) \/ CwdHolds(cwd', j) \/ o
           e == Iput(disk, j, referenced)
<1>1. /\ Sound(disk) /\ Tree(disk, lost) /\ HeldInv(disk, file, cwd, busy) /\ Safe(disk)
  BY SoundTyped DEF TreeInv, SysInv, Safe
<1>2. j \in Dirs(disk) /\ j \in Inum /\ j \in Allocated(disk)
  BY <1>1 DEF HeldInv, Dirs, Allocated, FreeInodes
<1>3. cwd = [q \in Proc |-> cwd[q]]
  BY DEF TablesInv, RowsInv
<1>4. PICK a, b : a = cwd' /\ b = busy'
  OBVIOUS
<1>5. HeldInv(disk, file, a, b)
  <2> HIDE DEF j
  <2> QED
    BY ZenonT(90), <1>1, <1>3, <1>4, CwdKeeps
<1>6. IsHeld(referenced, file, a, j)
  BY <1>4 DEF IsHeld, Holds, FileHolds, CwdHolds
<1>7. Leaves(e, {})
  BY DEF CwdLeft
<1> HIDE DEF referenced, j
<1>8. /\ Safe(e) /\ e.panic = "no" /\ Tree(e, lost) /\ HeldInv(e, file, a, b)
  BY <1>1, <1>2, <1>5, <1>6, PutIs
<1> HIDE DEF e
<1>9. lost \cup {} = lost
  OBVIOUS
<1> QED
  BY ZenonT(90), <1>4, <1>7, <1>8, <1>9, LeavesKeeps

LEMMA ChdirKeeps ==
  ASSUME TreeInv, TablesInv, NEW p \in Proc, NEW path, IsSeq(path), SysChdir(p, path)
  PROVE  TreeInv'
<1> DEFINE ip == Namei(disk, cwd[p], path)
<1>1. Ready(p)
  BY DEF SysChdir
<1>2. disk.panic = "no" /\ Typed(disk) /\ Directories(disk) /\ cwd[p] \in Inum /\ cwd[p] # 0
      /\ HeldInv(disk, file, cwd, busy)
  BY <1>1, Running
<1>3. ip \in Allocated(disk) \cup {0, Broken}
  BY <1>2, NameiIs
<1>4. \/ NoType \/ Fails(p)
      \/ /\ ip \notin {0, Broken} /\ disk.ino[ip].type = "dir"
         /\ cwd' = [cwd EXCEPT ![p] = ip]
         /\ \E o \in OthersMayRefer(p) : Leaves(CwdLeft(p, o), {})
         /\ UNCHANGED <<file, busy>>
  <2>1. ip > 0 <=> ip \notin {0, Broken}
    <3> HIDE DEF ip
    <3> QED
      BY <1>3 DEF Allocated, Inum, Broken
  <2>2. CASE ip = Broken
    BY <2>2 DEF SysChdir
  <2>3. CASE ip = 0
    BY <2>3 DEF SysChdir, Broken
  <2>4. CASE ip \notin {0, Broken} /\ disk.ino[ip].type # "dir"
    BY <2>1, <2>4 DEF SysChdir
  <2>5. CASE ip \notin {0, Broken} /\ disk.ino[ip].type = "dir"
    BY <2>1, <2>5 DEF SysChdir
  <2> QED
    BY <2>2, <2>3, <2>4, <2>5
<1> HIDE DEF ip
<1>5. CASE /\ ip \notin {0, Broken} /\ disk.ino[ip].type = "dir"
           /\ cwd' = [cwd EXCEPT ![p] = ip]
           /\ \E o \in OthersMayRefer(p) : Leaves(CwdLeft(p, o), {})
           /\ UNCHANGED <<file, busy>>
  <2>1. ip \in Dirs(disk) \cup {0}
    BY <1>3, <1>5 DEF Allocated, Dirs
  <2>2. HeldInv(disk, file, cwd, busy')
    BY <1>2, <1>5
  <2>3. PICK o \in BOOLEAN : Leaves(CwdLeft(p, o), {})
    BY ZenonT(90), <1>5 DEF OthersMayRefer
  <2> QED
    BY ZenonT(90), <1>2, <1>5, <2>1, <2>2, <2>3, PutCwd
<1> QED
  BY <1>2, <1>4, <1>5, NoTypeKeeps, FailsKeeps

(* fileclose() of file k *)
LEMMA PutFile ==
  ASSUME TreeInv, TablesInv, TablesInv', disk.panic = "no", NEW k \in File, file[k].ref # 0,
         file' = Dropped(k), NEW o \in BOOLEAN, Leaves(DiskAfter(k, o), {}), UNCHANGED <<cwd, busy>>
  PROVE  TreeInv'
<1> DEFINE r == file[k]
           h == Dropped(k)
           e == DiskAfter(k, o)
           i == r.ip
           referenced == FileHolds(h, i) \/ CwdHolds(cwd, i) \/ o
<1>1. /\ Sound(disk) /\ Tree(disk, lost) /\ HeldInv(disk, file, cwd, busy) /\ Safe(disk) /\ IsDisk(disk)
  BY SoundTyped DEF TreeInv, SysInv, Safe
<1>2. file = [f \in File |-> file[f]] /\ OpenFile(file[k])
  BY DEF TablesInv, FilesInv
<1>3. h = SetFile(file, k, LessOne(file[k]))
  BY DEF Dropped, SetFile, LessOne
<1>4. Open(h, busy)
  <2>1. FilesInv(file', ofile') /\ RowsInv(ofile', cwd', busy')
    BY DEF TablesInv
  <2>2. ASSUME NEW p \in Proc, busy'[p].do = "write"
        PROVE  busy'[p].f \in File /\ file'[busy'[p].f].ref # 0
    <3>1. PICK fd \in Fd : busy'[p].f \in File /\ ofile'[p][fd] = busy'[p].f
      BY <2>1, <2>2 DEF RowsInv
    <3>2. ofile'[p][fd] # 0
      BY <3>1 DEF File
    <3> QED
      BY <2>1, <3>1, <3>2, OpenIsFile
  <2> QED
    BY <2>2 DEF Open
<1>5. HeldInv(disk, h, cwd, busy)
  <2> HIDE DEF h
  <2> QED
    BY <1>1, <1>2, <1>3, <1>4, DropKeeps
<1>6. e = IF r.ref = 1 /\ r.type = "inode" THEN Iput(disk, i, referenced) ELSE disk
  BY DEF DiskAfter
<1>7. IsHeld(referenced, h, cwd, i)
  BY DEF IsHeld, Holds, FileHolds, CwdHolds
<1>8. r.type = "inode" => i \in Allocated(disk) /\ i \in Inum /\ disk.ino[i].type # "none"
  BY <1>1 DEF HeldInv, OpenOn, Allocated, FreeInodes
<1>9. file' = h /\ Leaves(e, {}) /\ cwd' = cwd /\ busy' = busy
  OBVIOUS
<1> HIDE DEF referenced, h, e, r, i
<1>10. CASE r.ref = 1 /\ r.type = "inode"
  <2>1. e = Iput(disk, i, referenced)
    BY <1>6, <1>10
  <2>5. Safe(e) /\ e.panic = "no" /\ Tree(e, lost) /\ HeldInv(e, h, cwd, busy)
    BY <1>1, <1>5, <1>7, <1>8, <1>10, <2>1, PutIs
  <2>6. lost \cup {} = lost
    OBVIOUS
  <2> QED
    BY <1>9, <2>5, <2>6, LeavesKeeps
<1>11. CASE ~(r.ref = 1 /\ r.type = "inode")
  <2>1. e = disk
    BY <1>6, <1>11
  <2>2. lost \cup {} = lost
    OBVIOUS
  <2> QED
    BY <1>1, <1>5, <1>9, <2>1, <2>2, LeavesKeeps
<1> QED
  BY <1>10, <1>11

LEMMA CloseKeeps ==
  ASSUME TreeInv, TablesInv, TablesInv', NEW p \in Proc, NEW fd, SysClose(p, fd)
  PROVE  TreeInv'
<1>1. CASE ~IsOpen(p, fd)
  BY <1>1, FailsKeeps DEF SysClose
<1>2. CASE IsOpen(p, fd)
  <2> DEFINE k == ofile[p][fd]
  <2>1. /\ disk.panic = "no" /\ fd \in Fd /\ k # 0
        /\ file' = Dropped(k) /\ UNCHANGED <<cwd, busy>>
        /\ \E o \in OthersMayRefer(p) : Leaves(DiskAfter(k, o), {})
    BY <1>2 DEF SysClose, IsOpen, Ready, Halted
  <2>3. PICK o \in BOOLEAN : Leaves(DiskAfter(k, o), {})
    BY ZenonT(90), <2>1 DEF OthersMayRefer
  <2>2. k \in File /\ file[k].ref # 0
    BY <2>1, OpenIsFile DEF TablesInv
  <2> HIDE DEF k
  <2> QED
    BY <2>1, <2>2, <2>3, PutFile
<1> QED
  BY <1>1, <1>2

LEMMA ExitKeeps ==
  ASSUME TreeInv, TablesInv, TablesInv', NEW p \in Proc, ExitStep(p)
  PROVE  TreeInv'
<1> DEFINE fds == Fd \ FreeFd(p)
           fd  == Min(fds)
           k   == ofile[p][fd]
<1>1. disk.panic = "no" /\ busy[p].do = "exit"
  BY DEF ExitStep, Halted
<1>2. CASE fds # {}
  <2>1. /\ file' = Dropped(k) /\ UNCHANGED <<cwd, busy>>
        /\ \E o \in OthersMayRefer(p) : Leaves(DiskAfter(k, o), {})
    BY <1>2 DEF ExitStep
  <2>4. PICK o \in BOOLEAN : Leaves(DiskAfter(k, o), {})
    BY ZenonT(90), <2>1 DEF OthersMayRefer
  <2>2. fd \in Fd /\ k # 0
    BY <1>2, FreeIsFree
  <2>3. k \in File /\ file[k].ref # 0
    BY <2>2, OpenIsFile DEF TablesInv
  <2> HIDE DEF k
  <2> QED
    BY <1>1, <2>1, <2>3, <2>4, PutFile
<1>3. CASE fds = {}
  <2>1. /\ cwd' = [cwd EXCEPT ![p] = 0] /\ busy' = [busy EXCEPT ![p] = Idle] /\ UNCHANGED file
        /\ \E o \in OthersMayRefer(p) : Leaves(CwdLeft(p, o), {})
    BY <1>3 DEF ExitStep
  <2>2. cwd[p] # 0
    BY <1>1 DEF TablesInv, RowsInv, Idle
  <2>3. HeldInv(disk, file, cwd, busy')
    <3>1. HeldInv(disk, file, cwd, busy) /\ busy = [q \in Proc |-> busy[q]] /\ Idle.do # "write"
      BY DEF TreeInv, SysInv, TablesInv, RowsInv, Idle
    <3> QED
      BY <2>1, <3>1, BusyKeeps
  <2>4. PICK z : z = 0 /\ z \in Dirs(disk) \cup {0}
    OBVIOUS
  <2>5. cwd' = [cwd EXCEPT ![p] = z]
    BY <2>1, <2>4
  <2>6. PICK o \in BOOLEAN : Leaves(CwdLeft(p, o), {})
    BY ZenonT(90), <2>1 DEF OthersMayRefer
  <2> QED
    BY ZenonT(90), <1>1, <2>1, <2>2, <2>3, <2>4, <2>5, <2>6, PutCwd
<1> QED
  BY <1>2, <1>3

(* Only the counts and the offsets of open files change: dup(), fork(),       *)
(* read() and write().                                                        *)
SameFile(q, r) ==
  /\ HasFields(q) /\ q.type = r.type /\ q.ip = r.ip /\ MayWrite(q) = MayWrite(r)
  /\ r.ref > 0 => q.ref > 0

LEMMA SharedKeeps ==
  ASSUME NEW d, NEW g, NEW c, NEW b, HeldInv(d, g, c, b), Open(g, b),
         NEW h, \A f \in File : SameFile(h[f], g[f]),
         \A f \in File : g[f].type = "inode" => h[f].off \in Nat /\ h[f].off <= Size(d, g[f].ip)
  PROVE  HeldInv(d, h, c, b)
<1>1. \A f \in File : OpenOn(d, h[f])
  <2> TAKE f \in File
  <2>1. OpenOn(d, g[f]) /\ SameFile(h[f], g[f])
    BY DEF HeldInv
  <2>2. PICK q, r : q = h[f] /\ r = g[f]
    OBVIOUS
  <2>3. r.type = "inode" => q.off \in Nat /\ q.off <= Size(d, r.ip)
    BY <2>2
  <2>4. OpenOn(d, r) /\ SameFile(q, r)
    BY <2>1, <2>2
  <2>5. OpenOn(d, q)
    BY ONLY <2>3, <2>4 DEF OpenOn, SameFile
  <2> QED
    BY <2>2, <2>5
<1>2. ASSUME NEW p \in Proc, b[p].do = "write" PROVE Writing(h, b[p])
  <2>1. Writing(g, b[p]) /\ b[p].f \in File
    BY <1>2 DEF HeldInv, Open
  <2>2. SameFile(h[b[p].f], g[b[p].f])
    BY <2>1
  <2> QED
    BY <2>1, <2>2 DEF Writing, SameFile
<1>3. HeldInv(d, h, c, b)
  BY <1>1, <1>2 DEF HeldInv
<1> QED
  BY <1>3

(* The count of an open file, or its offset, becomes n.                       *)
WithRef(r, n) == [r EXCEPT !.ref = n]
WithOff(r, n) == [r EXCEPT !.off = n]

LEMMA WithRefIs ==
  ASSUME NEW r, HasFields(r), NEW n, r.ref > 0 => n > 0
  PROVE  SameFile(WithRef(r, n), r) /\ WithRef(r, n).off = r.off
<1> DEFINE q == WithRef(r, n)
<1>1. q.type = r.type /\ q.ip = r.ip /\ q.off = r.off /\ q.ref = n /\ DOMAIN q = DOMAIN r
  BY DEF WithRef, HasFields
<1>2. q.w = r.w
  BY DEF WithRef, HasFields
<1> HIDE DEF q
<1>3. MayWrite(q) = MayWrite(r)
  BY <1>2 DEF MayWrite
<1> QED
  BY <1>1, <1>3 DEF SameFile, HasFields, q

LEMMA WithOffIs ==
  ASSUME NEW r, HasFields(r), NEW n
  PROVE  SameFile(WithOff(r, n), r) /\ WithOff(r, n).off = n
<1> DEFINE q == WithOff(r, n)
<1>1. q.type = r.type /\ q.ip = r.ip /\ q.off = n /\ q.ref = r.ref /\ DOMAIN q = DOMAIN r
  BY DEF WithOff, HasFields
<1>2. q.w = r.w
  BY DEF WithOff, HasFields
<1> HIDE DEF q
<1>3. MayWrite(q) = MayWrite(r)
  BY <1>2 DEF MayWrite
<1> QED
  BY <1>1, <1>3 DEF SameFile, HasFields, q

(* The offset of file k becomes n, not beyond the end.                        *)
LEMMA MovedKeeps ==
  ASSUME NEW d, NEW g, NEW c, NEW b, HeldInv(d, g, c, b), Open(g, b),
         g = [f \in File |-> g[f]], NEW k \in File, NEW n, n \in Nat, n <= Size(d, g[k].ip)
  PROVE  LET h == SetFile(g, k, WithOff(g[k], n)) IN
         HeldInv(d, h, c, b)
<1> DEFINE h == SetFile(g, k, WithOff(g[k], n))
<1>1. \A f \in File : h[f] = IF f = k THEN WithOff(g[k], n) ELSE g[f]
  BY SetFileIs
<1> HIDE DEF h
<1>2. \A f \in File : OpenOn(d, g[f]) /\ HasFields(g[f])
  BY DEF HeldInv, OpenOn
<1>3. SameFile(WithOff(g[k], n), g[k]) /\ WithOff(g[k], n).off = n
  BY <1>2, WithOffIs
<1>4. \A f \in File : SameFile(h[f], g[f])
  BY <1>1, <1>2, <1>3 DEF SameFile
<1>5. \A f \in File : g[f].type = "inode" => h[f].off \in Nat /\ h[f].off <= Size(d, g[f].ip)
  BY <1>1, <1>2, <1>3 DEF OpenOn
<1>6. HeldInv(d, h, c, b)
  BY <1>4, <1>5, SharedKeeps
<1> QED
  BY <1>6 DEF h

LEMMA DupKeeps ==
  ASSUME TreeInv, TablesInv, NEW p \in Proc, NEW fd, SysDup(p, fd)
  PROVE  TreeInv'
<1>1. CASE ~IsOpen(p, fd) \/ FreeFd(p) = {}
  BY <1>1, FailsKeeps DEF SysDup
<1>2. CASE IsOpen(p, fd) /\ FreeFd(p) # {}
  <2> DEFINE k == ofile[p][fd]
  <2>1. /\ Ready(p) /\ fd \in Fd /\ k # 0
        /\ file' = SetFile(file, k, WithRef(file[k], file[k].ref + 1)) /\ UNCHANGED <<disk, cwd, busy, lost>>
    BY <1>2 DEF SysDup, IsOpen, SetFile, WithRef
  <2>2. k \in File /\ OpenFile(file[k]) /\ file = [f \in File |-> file[f]]
    BY <2>1, OpenIsFile DEF TablesInv, FilesInv
  <2>3. HeldInv(disk, file, cwd, busy)
    BY DEF TreeInv, SysInv
  <2> HIDE DEF k
  <2>4. \A f \in File : OpenOn(disk, file[f]) /\ HasFields(file[f])
    BY <2>3 DEF HeldInv, OpenOn
  <2>5. SameFile(WithRef(file[k], file[k].ref + 1), file[k]) /\ WithRef(file[k], file[k].ref + 1).off = file[k].off
    <3>1. PICK r, n : r = file[k] /\ n = file[k].ref + 1
      OBVIOUS
    <3>2. HasFields(r) /\ (r.ref > 0 => n > 0)
      BY <2>2, <2>4, <3>1 DEF OpenFile
    <3>3. SameFile(WithRef(r, n), r) /\ WithRef(r, n).off = r.off
      BY <3>2, WithRefIs
    <3> QED
      BY <3>1, <3>3
  <2>6. \A f \in File : file'[f] = IF f = k THEN WithRef(file[k], file[k].ref + 1) ELSE file[f]
    BY <2>1, <2>2, SetFileIs
  <2>7. \A f \in File : SameFile(file'[f], file[f]) /\ file'[f].off = file[f].off
    BY <2>4, <2>5, <2>6 DEF SameFile
  <2>8. \A f \in File : file[f].type = "inode" => file'[f].off \in Nat /\ file'[f].off <= Size(disk, file[f].ip)
    BY <2>4, <2>7 DEF OpenOn
  <2>9. HeldInv(disk, file', cwd, busy)
    BY <2>3, <2>7, <2>8, OpenNow, SharedKeeps
  <2> QED
    BY <2>1, <2>9, SameDiskKeeps
<1> QED
  BY <1>1, <1>2

(* fork(): the counts, and a working directory for the new process.           *)
LEMMA ForkKeeps ==
  ASSUME TreeInv, TablesInv, NEW p \in Proc, Fork(p)
  PROVE  TreeInv'
<1> DEFINE q == Min(Absent)
<1>1. /\ Ready(p) /\ Absent # {} /\ UNCHANGED <<disk, busy, lost>>
      /\ file' = [f \in File |-> WithRef(file[f], file[f].ref + Copies(ofile, p, f))]
      /\ cwd' = [cwd EXCEPT ![q] = cwd[p]]
  BY DEF Fork, WithRef, Copies, Shared
<1>2. q \in Proc /\ cwd[q] = 0
  BY ZenonT(90), <1>1, FreeIsFree
<1> HIDE DEF q
<1>3. HeldInv(disk, file, cwd, busy) /\ cwd[p] \in Dirs(disk)
  BY <1>1, Running
<1>4. \A f \in File : OpenOn(disk, file[f]) /\ HasFields(file[f])
  BY <1>3 DEF HeldInv, OpenOn
<1>5. FilesInv(file, ofile) /\ RowsInv(ofile, cwd, busy)
  BY DEF TablesInv
<1>6. \A f \in File : SameFile(file'[f], file[f]) /\ file'[f].off = file[f].off
  <2> TAKE f \in File
  <2>1. \A fd \in Fd : ofile[q][fd] = 0
    BY <1>2, <1>5 DEF RowsInv
  <2>2. Copies(ofile, p, f) \in Nat
    BY <1>2, <1>5, <2>1, FdCopied DEF FilesInv
  <2>3. PICK r, n : r = file[f] /\ n = file[f].ref + Copies(ofile, p, f)
    OBVIOUS
  <2>4. HasFields(r) /\ (r.ref > 0 => n > 0)
    BY <1>4, <1>5, <2>2, <2>3 DEF FilesInv, OpenFile
  <2>5. SameFile(WithRef(r, n), r) /\ WithRef(r, n).off = r.off
    BY <2>4, WithRefIs
  <2> QED
    BY <1>1, <2>3, <2>5
<1>7. \A f \in File : file[f].type = "inode" => file'[f].off \in Nat /\ file'[f].off <= Size(disk, file[f].ip)
  BY <1>4, <1>6 DEF OpenOn
<1>8. HeldInv(disk, file', cwd, busy)
  BY <1>3, <1>6, <1>7, OpenNow, SharedKeeps
<1>9. cwd = [s \in Proc |-> cwd[s]]
  BY <1>5 DEF RowsInv
<1>10. HeldInv(disk, file', cwd', busy)
  <2>1. PICK a, g, i : a = cwd' /\ g = file' /\ i = cwd[p] /\ i \in Dirs(disk) \cup {0}
    BY <1>3
  <2>2. HeldInv(disk, g, a, busy)
    BY ZenonT(90), <1>1, <1>2, <1>8, <1>9, <2>1, CwdKeeps
  <2> QED
    BY <2>1, <2>2
<1> QED
  BY <1>1, <1>10, SameDiskKeeps

(* pipe(): two files, neither of an inode.                                    *)
LEMMA PipeKeeps ==
  ASSUME TreeInv, TablesInv, NEW p \in Proc, SysPipe(p)
  PROVE  TreeInv'
<1> DEFINE rf == Min(FreeFile(file))
           wf == Min(FreeFile(file) \ {rf})
           end(r) == [NoFile EXCEPT !.ref = 1, !.type = "pipe", !.r = r, !.w = ~r]
<1>1. CASE Cardinality(FreeFile(file)) < 2 \/ Cardinality(FreeFd(p)) < 2
  BY <1>1, FailsKeeps DEF SysPipe
<1>2. CASE ~(Cardinality(FreeFile(file)) < 2 \/ Cardinality(FreeFd(p)) < 2)
  <2>1. UNCHANGED <<disk, lost, cwd, busy>> /\ file' = [file EXCEPT ![rf] = end(TRUE), ![wf] = end(FALSE)]
    BY ZenonT(90), <1>2 DEF SysPipe
  <2>2. /\ FreeFile(file) \in SUBSET Nat /\ IsFiniteSet(FreeFile(file)) /\ Cardinality(FreeFile(file)) >= 2
    <3>1. IsFiniteSet(File) /\ File \in SUBSET Nat
      BY FS_Interval, FsAssumption DEF File
    <3>2. FreeFile(file) \in SUBSET File
      BY DEF FreeFile
    <3>3. IsFiniteSet(FreeFile(file))
      BY <3>1, <3>2, FS_Subset
    <3>4. Cardinality(FreeFile(file)) >= 2
      BY <1>2, <3>3, FS_CardinalityType
    <3> QED
      BY ZenonT(90), <3>1, <3>2, <3>3, <3>4
  <2>3. rf \in FreeFile(file) /\ wf \in FreeFile(file) /\ wf # rf
    BY <2>2, TwoFree
  <2>4. PICK a, b : a = end(TRUE) /\ b = end(FALSE)
    BY ZenonT(90)
  <2>5. HasFields(a) /\ a.type = "pipe" /\ HasFields(b) /\ b.type = "pipe"
    BY <2>4 DEF HasFields, NoFile
  <2> HIDE DEF rf, wf, end
  <2>6. OpenOn(disk, a) /\ OpenOn(disk, b)
    BY <2>5 DEF OpenOn
  <2>7. rf \in File /\ wf \in File /\ file[rf].ref = 0 /\ file[wf].ref = 0
    BY <2>3 DEF FreeFile
  <2>8. HeldInv(disk, file, cwd, busy)
    BY DEF TreeInv, SysInv
  <2> DEFINE g == SetFile(file, rf, a)
  <2>9. file = [f \in File |-> file[f]] /\ Open(file, busy)
    BY OpenNow
  <2>10. g = [f \in File |-> g[f]] /\ \A f \in File : g[f] = IF f = rf THEN a ELSE file[f]
    BY <2>7, <2>9, SetFileIs
  <2>11. HeldInv(disk, g, cwd, busy)
    BY <2>6, <2>7, <2>8, <2>9, OpenedKeeps
  <2>12. file' = SetFile(g, wf, b)
    BY <2>1, <2>4 DEF SetFile
  <2> HIDE DEF g
  <2>13. g[wf].ref = 0 /\ Open(g, busy)
    BY <2>3, <2>7, <2>9, <2>10 DEF Open
  <2>14. HeldInv(disk, file', cwd, busy)
    BY <2>6, <2>7, <2>10, <2>11, <2>12, <2>13, OpenedKeeps
  <2> QED
    BY <2>1, <2>14, SameDiskKeeps
<1> QED
  BY <1>1, <1>2

LEMMA SubSeqIs ==
  ASSUME NEW s, IsSeq(s), NEW a \in Nat \ {0}, NEW b \in Nat, b <= Len(s)
  PROVE  LET t == SubSeq(s, a, b) IN
         IsSeq(t) /\ Len(t) = IF a <= b THEN b - a + 1 ELSE 0
<1> DEFINE t == SubSeq(s, a, b)
<1>1. PICK T : s \in Seq(T)
  BY DEF IsSeq
<1>2. t \in Seq(T) /\ Len(t) = IF a <= b THEN b - a + 1 ELSE 0
  BY <1>1
<1> HIDE DEF t
<1>3. IsSeq(t)
  <2>1. Len(t) \in Nat /\ t = [k \in 1..Len(t) |-> t[k]]
    BY <1>2
  <2> QED
    BY <2>1, FcnIsSeq
<1> QED
  BY <1>2, <1>3 DEF t

LEMMA ReadKeeps ==
  ASSUME TreeInv, TablesInv, NEW p \in Proc, NEW fd, NEW n \in Nat, SysRead(p, fd, n)
  PROVE  TreeInv'
<1> DEFINE k == ofile[p][fd]
           r == file[k]
           u == Readi(disk, r.ip, r.off, n)
<1>1. CASE Fails(p)
  BY <1>1, FailsKeeps
<1>2. CASE ~Fails(p)
  <2>1. /\ Ready(p) /\ fd \in Fd /\ k # 0 /\ r.type = "inode"
        /\ file' = [file EXCEPT ![k].off = @ + Len(u)] /\ UNCHANGED <<disk, cwd, busy, lost>>
    BY <1>2 DEF SysRead, IsOpen
  <2>2. k \in File /\ file = [f \in File |-> file[f]]
    BY <2>1, OpenIsFile DEF TablesInv, FilesInv
  <2>3. /\ HeldInv(disk, file, cwd, busy) /\ Typed(disk)
    BY SMTT(60), <2>1, Running
  <2>4. r.off \in Nat /\ r.off <= Size(disk, r.ip) /\ r.ip \in Inum
    BY <2>1, <2>2, <2>3 DEF HeldInv, OpenOn, Allocated
  <2>5. Size(disk, r.ip) \in Nat /\ IsSeq(disk.ino[r.ip].data)
    BY SMTT(60), <2>3, <2>4, SizeIs
  <2> DEFINE off == r.off
             m   == Min({off + n, Size(disk, r.ip)})
  <2>6. m \in Nat /\ m <= Size(disk, r.ip) /\ m >= off
    BY <2>4, <2>5, MinIs
  <2>7. u = SubSeq(disk.ino[r.ip].data, off + 1, m)
    BY DEF Readi
  <2>8. off + Len(u) = m
    <3>1. off \in Nat
      BY <2>4
    <3> HIDE DEF m, u, off, r
    <3>2. PICK s, a : s = disk.ino[r.ip].data /\ a = off + 1
      OBVIOUS
    <3>3. IsSeq(s) /\ a \in Nat \ {0} /\ m <= Len(s)
      BY <2>5, <2>6, <3>1, <3>2 DEF Size
    <3>4. Len(SubSeq(s, a, m)) = IF a <= m THEN m - a + 1 ELSE 0
      BY <2>6, <3>3, SubSeqIs
    <3>5. Len(u) = IF a <= m THEN m - a + 1 ELSE 0
      BY ZenonT(90), <2>7, <3>2, <3>4
    <3> QED
      BY SMTT(60), <2>6, <3>1, <3>2, <3>5
  <2>9. file' = SetFile(file, k, WithOff(r, off + Len(u)))
    <3> HIDE DEF u, k
    <3> QED
      BY <2>1 DEF SetFile, WithOff
  <2> HIDE DEF u, k, m
  <2>10. HeldInv(disk, file', cwd, busy)
    BY <2>2, <2>3, <2>6, <2>8, <2>9, OpenNow, MovedKeeps
  <2> QED
    BY <2>1, <2>10, SameDiskKeeps
<1> QED
  BY <1>1, <1>2

LEMMA WriteKeeps ==
  ASSUME TreeInv, TablesInv, NEW p \in Proc, NEW fd, NEW u, IsSeq(u), SysWrite(p, fd, u)
  PROVE  TreeInv'
<1> DEFINE k == ofile[p][fd]
           x == [do |-> "write", f |-> k, u |-> u, n |-> Len(u)]
<1>1. CASE Fails(p)
  BY <1>1, FailsKeeps
<1>2. CASE ~Fails(p)
  <2>1. /\ file[k].type = "inode" /\ MayWrite(file[k])
        /\ busy' = [busy EXCEPT ![p] = x] /\ UNCHANGED <<disk, file, cwd, lost>>
    BY <1>2 DEF SysWrite, MayWrite
  <2>2. x.u = u /\ x.f = k
    OBVIOUS
  <2> HIDE DEF x, k
  <2>3. Writing(file, x)
    BY <2>1, <2>2 DEF Writing
  <2>4. HeldInv(disk, file, cwd, busy) /\ busy = [q \in Proc |-> busy[q]]
    BY DEF TreeInv, SysInv, TablesInv, RowsInv
  <2>5. HeldInv(disk, file, cwd, busy')
    BY <2>1, <2>3, <2>4, BusyKeeps
  <2> QED
    BY <2>1, <2>4, <2>5, SameDiskKeeps
<1> QED
  BY <1>1, <1>2

LEMMA LeaveKeeps ==
  ASSUME TreeInv, TablesInv, NEW p \in Proc, Exit(p)
  PROVE  TreeInv'
<1> DEFINE x == [do |-> "exit"]
<1>1. x.do # "write" /\ busy' = [busy EXCEPT ![p] = x] /\ UNCHANGED <<disk, file, cwd, lost>>
  BY DEF Exit
<1> HIDE DEF x
<1>2. HeldInv(disk, file, cwd, busy) /\ busy = [q \in Proc |-> busy[q]]
  BY DEF TreeInv, SysInv, TablesInv, RowsInv
<1>3. HeldInv(disk, file, cwd, busy')
  BY <1>1, <1>2, BusyKeeps
<1> QED
  BY <1>1, <1>2, <1>3, SameDiskKeeps

(* filewrite(): a piece is written to a file at its offset, which moves on.   *)
LEMMA TxnKeeps ==
  ASSUME TreeInv, TablesInv, NEW p \in Proc, WriteTxn(p)
  PROVE  TreeInv'
<1> DEFINE b  == busy[p]
           n1 == Min({MAXWRITE, Len(b.u)})
           f  == file[b.f]
           i  == f.ip
           off == f.off
           v  == SubSeq(b.u, 1, n1)
           w  == SubSeq(b.u, n1 + 1, Len(b.u))
           d  == Writei(disk, i, off, v)
<1>1. disk.panic = "no" /\ b.do = "write"
  BY DEF WriteTxn, Halted
<1>2. /\ Sound(disk) /\ Tree(disk, lost) /\ HeldInv(disk, file, cwd, busy) /\ Safe(disk) /\ IsDisk(disk) /\ Typed(disk)
      /\ busy = [q \in Proc |-> busy[q]]
  BY SoundTyped DEF TreeInv, SysInv, Safe, TablesInv, RowsInv
<1>3. /\ b.f \in File /\ IsSeq(b.u) /\ f.type = "inode" /\ MayWrite(f) /\ {"do", "f", "u"} \subseteq DOMAIN b
      /\ f.ref > 0 /\ i \in Allocated(disk) /\ off \in Nat /\ off <= Size(disk, i) /\ i \notin Dirs(disk)
  BY SMTT(60), <1>1, <1>2 DEF HeldInv, Writing, OpenOn, TablesInv, RowsInv
<1>4. i \in Inum /\ disk.ino[i].type # "none" /\ disk.ino[i].type # "dir" /\ Size(disk, i) \in Nat
  BY <1>2, <1>3, SizeIs DEF Allocated, FreeInodes, Dirs
<1>5. CASE busy' = [busy EXCEPT ![p] = Idle] /\ UNCHANGED <<disk, file, cwd, lost>>
  <2>1. Idle.do # "write"
    BY DEF Idle
  <2>2. HeldInv(disk, file, cwd, busy')
    BY <1>2, <1>5, <2>1, BusyKeeps
  <2> QED
    BY <1>2, <1>5, <2>2, SameDiskKeeps
<1>6. CASE ~(busy' = [busy EXCEPT ![p] = Idle] /\ UNCHANGED <<disk, file, cwd, lost>>)
  <2>1. b.u # <<>> /\ CanWrite(disk, i, off, n1)
    BY ZenonT(90), <1>6 DEF WriteTxn
  <2>2. IF d.panic # "no" THEN Halts(d.panic)
        ELSE /\ Leaves(d, {})
             /\ file' = [file EXCEPT ![b.f].off = @ + n1]
             /\ busy' = [busy EXCEPT ![p].u = SubSeq(@, n1 + 1, Len(@))]
             /\ UNCHANGED cwd
    BY ZenonT(90), <1>6 DEF WriteTxn
  <2>3. Len(b.u) \in Nat \ {0}
    <3>1. PICK T : b.u \in Seq(T)
      BY <1>3 DEF IsSeq
    <3> HIDE DEF b
    <3> QED
      BY <2>1, <3>1
  <2>4. n1 \in Nat \ {0} /\ n1 <= Len(b.u)
    <3>1. PICK k : k = Len(b.u) /\ k \in Nat \ {0}
      BY <2>3
    <3>2. MAXWRITE \in Nat \ {0} /\ MAXWRITE \in Int /\ k \in Int
      BY <3>1, FsAssumption
    <3>3. Min({MAXWRITE, k}) = IF MAXWRITE <= k THEN MAXWRITE ELSE k
      BY ONLY <3>2, MinIs
    <3> QED
      BY <3>1, <3>2, <3>3
  <2> HIDE DEF n1, i, off
  <2>5. IsSeq(v) /\ Len(v) = n1 /\ IsSeq(w)
    <3>1. PICK s, one, m, n2 : s = b.u /\ one = 1 /\ m = Len(b.u) /\ n2 = n1 + 1
      BY ZenonT(90)
    <3>2. IsSeq(s) /\ one \in Nat \ {0} /\ n2 \in Nat \ {0} /\ m \in Nat /\ m <= Len(s) /\ n1 \in Nat /\ n1 <= Len(s)
      BY <1>3, <2>3, <2>4, <3>1
    <3>3. IsSeq(SubSeq(s, one, n1)) /\ Len(SubSeq(s, one, n1)) = IF one <= n1 THEN n1 - one + 1 ELSE 0
      BY <3>2, SubSeqIs
    <3>4. IsSeq(SubSeq(s, n2, m))
      BY <3>2, SubSeqIs
    <3> QED
      BY <2>4, <3>1, <3>3, <3>4
  <2>6. off + n1 <= MAXFILE * BSIZE
    BY SMTT(60), <2>1 DEF CanWrite
  <2> HIDE DEF v, w
  <2>7. Safe(d)
    BY SMTT(60), <1>2, <1>3, <1>4, <2>5, <2>6, WriteiSafe DEF i, off
  <2>8. /\ \A j \in Inum \ {i} : SameInode(disk, d, j)
        /\ d.ino[i].type = disk.ino[i].type /\ d.ino[i].nlink = disk.ino[i].nlink
        /\ Size(d, i) = IF off + n1 > Size(disk, i) THEN off + n1 ELSE Size(disk, i)
    <3>1. off \in Nat /\ i \in Inum
      BY <1>3, <1>4 DEF off
    <3>2. LET e == Writei(disk, i, off, v) IN
          /\ \A j \in Inum \ {i} : SameInode(disk, e, j)
          /\ e.ino[i].type = disk.ino[i].type /\ e.ino[i].nlink = disk.ino[i].nlink
          /\ Size(e, i) = IF off + Len(v) > Size(disk, i) THEN off + Len(v) ELSE Size(disk, i)
      BY ONLY SMTT(60), <1>2, <2>5, <3>1, WriteiIs
    <3> QED
      BY <2>5, <3>2
  <2> HIDE DEF d
  <2>9. CASE d.panic # "no"
    <3>1. d.panic \in Panics \ {"no"} /\ Halts(d.panic)
      BY <2>2, <2>7, <2>9 DEF Safe
    <3> QED
      BY <1>1, <3>1, HaltsKeeps
  <2>10. CASE d.panic = "no"
    <3>1. Typed(d)
      BY <2>7, <2>10, SoundTyped DEF Safe
    <3>2. Tree(d, lost) /\ \A j \in Inum : Names(d, j) = Names(disk, j)
      <4>1. \A j \in Inum : d.ino[j].type = disk.ino[j].type /\ d.ino[j].nlink = disk.ino[j].nlink
        BY <2>8 DEF SameInode
      <4>2. \A j \in Inum : disk.ino[j].type = "dir" => d.ino[j].data = disk.ino[j].data
        BY <1>4, <2>8 DEF SameInode
      <4> QED
        BY <1>2, <3>1, <4>1, <4>2, SameTree
    <3>3. Extends(disk, d)
      <4>1. Allocated(d) = Allocated(disk)
        BY <2>8 DEF Allocated, FreeInodes, SameInode
      <4>2. ASSUME NEW j \in Allocated(disk)
            PROVE  d.ino[j].type = disk.ino[j].type /\ Size(d, j) \in Nat /\ Size(d, j) >= Size(disk, j)
        <5>1. j \in Inum
          BY DEF Allocated
        <5>2. Size(d, j) \in Nat /\ Size(disk, j) \in Nat
          BY <1>2, <3>1, <5>1, SizeIs
        <5>3. CASE j = i
          BY <1>3, <2>4, <2>8, <5>2, <5>3 DEF off
        <5>4. CASE j # i
          <6>1. SameInode(disk, d, j)
            BY <2>8, <5>1, <5>4
          <6>2. Size(d, j) = Size(disk, j) /\ d.ino[j].type = disk.ino[j].type
            BY <6>1 DEF SameInode, Size
          <6> QED
            BY <5>2, <6>2
        <5> QED
          BY <5>3, <5>4
      <4> QED
        BY <3>2, <4>1, <4>2 DEF Extends, Allocated
    <3>4. HeldInv(d, file, cwd, busy)
      BY ZenonT(90), <1>2, <3>3, ExtendsKeeps
    <3>5. file' = SetFile(file, b.f, WithOff(f, off + n1)) /\ cwd' = cwd
      <4>1. file' = [file EXCEPT ![b.f].off = @ + n1] /\ cwd' = cwd
        BY <2>2, <2>10
      <4> HIDE DEF b
      <4> QED
        BY <4>1 DEF SetFile, WithOff, off
    <3>6. off + n1 \in Nat /\ off + n1 <= Size(d, i)
      <4>1. off \in Nat
        BY <1>3 DEF off
      <4> QED
        BY <1>4, <2>4, <2>8, <4>1
    <3>7. HeldInv(d, file', cwd, busy)
      <4> HIDE DEF f, b
      <4>1. PICK k, n, g : k = b.f /\ n = off + n1 /\ g = file'
        OBVIOUS
      <4>2. n \in Nat /\ n <= Size(d, file[k].ip) /\ k \in File /\ g = SetFile(file, k, WithOff(file[k], n))
        BY <1>3, <3>5, <3>6, <4>1 DEF f, i
      <4>3. HeldInv(d, g, cwd, busy)
        BY <3>4, <4>2, OpenNow, MovedKeeps
      <4> QED
        BY <4>1, <4>3
    <3>8. HeldInv(d, file', cwd, busy')
      <4> DEFINE x == [b EXCEPT !.u = w]
      <4>1. busy' = [busy EXCEPT ![p] = x]
        BY <2>2, <2>10 DEF w
      <4>2. x.f = b.f /\ x.u = w
        BY <1>3
      <4> HIDE DEF x
      <4>3. Writing(file', b)
        BY <1>1, <3>7 DEF HeldInv
      <4>4. Writing(file', x)
        BY <2>5, <4>2, <4>3 DEF Writing
      <4>5. PICK g : g = file'
        OBVIOUS
      <4>6. HeldInv(d, g, cwd, [busy EXCEPT ![p] = x])
        BY <1>2, <3>7, <4>4, <4>5, BusyKeeps
      <4> QED
        BY <4>1, <4>5, <4>6
    <3>9. Leaves(d, {}) /\ lost \cup {} = lost
      BY <2>2, <2>10
    <3> QED
      BY <1>1, <2>7, <2>10, <3>2, <3>5, <3>7, <3>8, <3>9, LeavesKeeps
  <2> QED
    BY SMTT(60), <2>9, <2>10
<1> QED
  BY SMTT(60), <1>5, <1>6

(* At boot nothing is open, and the first process is in the root directory.   *)
LEMMA BootHolds ==
  ASSUME NEW d, Directories(d)
  PROVE  HeldInv(d, [f \in File |-> NoFile], [p \in Proc |-> IF p = InitProc THEN ROOTINO ELSE 0],
                 [p \in Proc |-> Idle])
<1>1. OpenOn(d, NoFile) /\ Idle.do # "write" /\ ROOTINO \in Dirs(d)
  BY DEF OpenOn, HasFields, NoFile, Idle, Directories
<1> QED
  BY <1>1 DEF HeldInv

LEMMA CrashKeeps ==
  ASSUME TreeInv, Crash
  PROVE  TreeInv'
<1>1. Sound(disk) /\ disk.panic \in Panics /\ Tree(disk, lost) /\ Directories(disk)
  BY DEF TreeInv, SysInv, Tree
<1>2. HeldInv(disk, file', cwd', busy')
  BY <1>1, BootHolds DEF Crash
<1>3. Tree(disk, lost')
  <2>1. \A dp \in Unlinked(disk) \cap Dirs(disk) : dp \in lost \/ disk.ino[dp].nlink = 0
    BY DEF Unlinked
  <2>2. Tree(disk, lost \cup Unlinked(disk))
    BY <1>1, <2>1, MoreLost
  <2> QED
    BY <2>2 DEF Crash
<1>5. UNCHANGED disk
  BY DEF Crash
<1> QED
  BY <1>1, <1>2, <1>3, <1>5 DEF TreeInv, SysInv

LEMMA InitTree == Init => TreeInv
<1> SUFFICES ASSUME Init PROVE TreeInv
  OBVIOUS
<1> DEFINE d == disk
<1>1. /\ d.panic = "no" /\ DiskTypes(d) /\ BlocksAccounted(d)
      /\ LinkCounts(d, {}) /\ Directories(d) /\ TreeShape(d, {})
      /\ \A i \in Allocated(d) \ {ROOTINO} : Names(d, i) # {}
  BY DisksAssumption DEF Init
<1> HIDE DEF d
<1>2. Sound(d) /\ Typed(d) /\ d.panic \in Panics
  BY <1>1, SoundIs, SoundTyped DEF Panics
<1>3. \A i \in Allocated(d) : i # ROOTINO => Names(d, i) # {}
  BY <1>1
<1>4. \A i \in Allocated(d) : d.ino[i].nlink # 0
  <2> TAKE i \in Allocated(d)
  <2>1. d.ino[i].nlink = Cardinality(Names(d, i)) + Cardinality(Sub(d, i)) + Own(i)
    BY <1>1, LinksAre DEF LinkCounts
  <2>2. /\ IsFiniteSet(Names(d, i)) /\ Cardinality(Names(d, i)) \in Nat
        /\ IsFiniteSet(Sub(d, i)) /\ Cardinality(Sub(d, i)) \in Nat
    BY <1>2, NamesFinite DEF Allocated
  <2>3. Names(d, i) # {} => Cardinality(Names(d, i)) # 0
    BY <2>2, FS_EmptySet
  <2> QED
    BY <1>3, <2>1, <2>2, <2>3 DEF Own
<1>5. Dirs(d) \subseteq Allocated(d)
  BY DEF Dirs, Allocated, FreeInodes
<1>6. Orphans(d, {}) /\ Nameless(d, {})
  BY <1>3, <1>4, <1>5 DEF Orphans, Nameless
<1>7. Tree(d, {})
  BY <1>1, <1>2, <1>6 DEF Tree
<1>8. HeldInv(d, file, cwd, busy)
  BY <1>1, BootHolds DEF Init
<1>10. lost = {}
  BY DEF Init
<1> QED
  BY <1>2, <1>7, <1>8, <1>10 DEF TreeInv, SysInv, d

-----------------------------------------------------------------------------
(* link() and unlink()                                                        *)

(* Types and directories are as before.                                       *)
LEMMA SameDirectories ==
  ASSUME NEW d, Directories(d), NEW e,
         \A j \in Inum : e.ino[j].type = d.ino[j].type /\ e.ino[j].data = d.ino[j].data
  PROVE  /\ Directories(e) /\ Dirs(e) = Dirs(d) /\ Allocated(e) = Allocated(d)
         /\ \A j \in Inum : Size(e, j) = Size(d, j)
<1>1. Dirs(e) = Dirs(d)
  BY DEF Dirs
<1>2. Allocated(e) = Allocated(d)
  BY DEF Allocated, FreeInodes
<1>3. \A j \in Inum : Size(e, j) = Size(d, j)
  BY DEF Size
<1>4. \A j \in Inum : Entries(e, j) = Entries(d, j)
  BY <1>3 DEF Entries
<1>5. Dirs(d) \subseteq Inum
  BY DEF Dirs
<1>6. ROOTINO \in Dirs(e)
  BY SMTT(60), <1>1 DEF Directories
<1>7. ASSUME NEW dp \in Dirs(e)
      PROVE  /\ Size(e, dp) >= 2 /\ e.ino[dp].data[1] = Dirent(".", dp)
             /\ e.ino[dp].data[2].name = ".." /\ e.ino[dp].data[2].inum \in Inum
             /\ \A k \in Entries(e, dp) : e.ino[dp].data[k].inum \in Allocated(e) \ {dp, ROOTINO}
  <2>1. dp \in Dirs(d) /\ dp \in Inum /\ e.ino[dp].data = d.ino[dp].data
    BY <1>1, <1>5
  <2>2. Size(e, dp) = Size(d, dp) /\ Entries(e, dp) = Entries(d, dp)
    BY SMTT(60), <1>3, <1>4, <2>1
  <2> QED
    BY <1>2, <2>1, <2>2 DEF Directories
<1>8. Directories(e)
  BY <1>6, <1>7 DEF Directories
<1> QED
  BY <1>1, <1>2, <1>3, <1>8

(* One field at a time.                                                       *)
LEMMA AddedIs ==
  ASSUME NEW d, IsDisk(d), NEW i \in Inum, NEW n \in Int
  PROVE  /\ IsDisk(AddLinks(d, i, n)) /\ AddLinks(d, i, n).panic = d.panic
         /\ \A j \in Inum : /\ AddLinks(d, i, n).ino[j].type = d.ino[j].type
                            /\ AddLinks(d, i, n).ino[j].data = d.ino[j].data
         /\ \A j \in Inum : AddLinks(d, i, n).ino[j].nlink =
                            IF j = i THEN d.ino[j].nlink + n ELSE d.ino[j].nlink
<1>1. PICK e : e = AddLinks(d, i, n)
  OBVIOUS
<1>2. /\ IsDisk(e) /\ e.panic = d.panic
      /\ \A j \in Inum : e.ino[j].type = d.ino[j].type /\ e.ino[j].data = d.ino[j].data
      /\ \A j \in Inum : e.ino[j].nlink = IF j = i THEN d.ino[j].nlink + n ELSE d.ino[j].nlink
  BY <1>1, AddLinksIs
<1> QED
  BY ONLY <1>1, <1>2

(* Disk e is disk d but for n more links of i.                                *)
Relinked(d, e, i, n) ==
  /\ IsDisk(e) /\ e.panic = d.panic
  /\ \A j \in Inum : e.ino[j].type = d.ino[j].type /\ e.ino[j].data = d.ino[j].data
  /\ \A j \in Inum : e.ino[j].nlink = IF j = i THEN d.ino[j].nlink + n ELSE d.ino[j].nlink

LEMMA AddedTo ==
  ASSUME NEW d, IsDisk(d), NEW i \in Inum, NEW n \in Int, NEW e, e = AddLinks(d, i, n)
  PROVE  Relinked(d, e, i, n)
<1>1. /\ IsDisk(AddLinks(d, i, n)) /\ AddLinks(d, i, n).panic = d.panic
      /\ \A j \in Inum : /\ AddLinks(d, i, n).ino[j].type = d.ino[j].type
                         /\ AddLinks(d, i, n).ino[j].data = d.ino[j].data
      /\ \A j \in Inum : AddLinks(d, i, n).ino[j].nlink =
                         IF j = i THEN d.ino[j].nlink + n ELSE d.ino[j].nlink
  BY AddedIs
<1> QED
  BY <1>1 DEF Relinked

(* What link() makes of disk d: i, not a directory, has one link more and a   *)
(* name in dp; or all is as before.                                           *)
LinkMade(d, L, i, dp, e) ==
  /\ Safe(e)
  /\ e.panic = "no" => /\ Extends(d, e)
                       /\ \/ /\ Tree(e, L)
                             /\ \A j \in Inum : e.ino[j].type = d.ino[j].type /\ e.ino[j].nlink = d.ino[j].nlink
                          \/ /\ dp \in Dirs(d) /\ e # d
                             /\ Tree(e, L \cup (IF NamedIn(d, L, dp) THEN {dp, i} ELSE {}))

LEMMA LinkUndoneIs ==
  ASSUME NEW d, NEW L, Sound(d), d.panic = "no", Tree(d, L), NEW i \in Allocated(d), NEW dp
  PROVE  LinkMade(d, L, i, dp, AddLinks(AddLinks(d, i, 1), i, -1))
<1> DEFINE c == AddLinks(d, i, 1)
           e == AddLinks(c, i, -1)
<1>1. IsDisk(d) /\ Typed(d) /\ Safe(d) /\ i \in Inum /\ d.ino[i].type # "none" /\ d.ino[i].nlink \in Nat
  BY SoundTyped DEF Safe, Panics, Allocated, FreeInodes, Typed
<1>2. PICK one, less : one = 1 /\ one \in Int /\ less = -1 /\ less \in Int
  OBVIOUS
<1>3. /\ IsDisk(AddLinks(d, i, one)) /\ AddLinks(d, i, one).panic = d.panic
      /\ \A j \in Inum : /\ AddLinks(d, i, one).ino[j].type = d.ino[j].type
                         /\ AddLinks(d, i, one).ino[j].data = d.ino[j].data
      /\ \A j \in Inum : AddLinks(d, i, one).ino[j].nlink =
                         IF j = i THEN d.ino[j].nlink + one ELSE d.ino[j].nlink
  <2>1. Relinked(d, AddLinks(d, i, one), i, one)
    BY ONLY <1>1, <1>2, AddedTo
  <2> QED
    BY ONLY <2>1 DEF Relinked
<1>4. Safe(AddLinks(d, i, one))
  BY <1>1, <1>2, AddLinksSafe
<1>5. c = AddLinks(d, i, one)
  BY <1>2
<1> HIDE DEF c
<1>6. /\ IsDisk(AddLinks(c, i, less)) /\ AddLinks(c, i, less).panic = c.panic
      /\ \A j \in Inum : /\ AddLinks(c, i, less).ino[j].type = c.ino[j].type
                         /\ AddLinks(c, i, less).ino[j].data = c.ino[j].data
      /\ \A j \in Inum : AddLinks(c, i, less).ino[j].nlink =
                         IF j = i THEN c.ino[j].nlink + less ELSE c.ino[j].nlink
  <2>1. IsDisk(c) /\ i \in Inum /\ less \in Int
    BY <1>1, <1>2, <1>3, <1>5
  <2> QED
    BY ONLY SMTT(60), <2>1, AddedIs
<1>7. Safe(AddLinks(c, i, less))
  <2>1. Safe(c) /\ c.ino[i].type # "none" /\ c.ino[i].nlink + less >= 0
    BY <1>1, <1>2, <1>3, <1>4, <1>5
  <2> QED
    BY <1>1, <1>2, <2>1, AddLinksSafe
<1>8. e = AddLinks(c, i, less)
  BY <1>2
<1> HIDE DEF e
<1>9. Safe(e) /\ e.panic = "no" /\ Typed(e)
  BY <1>3, <1>5, <1>6, <1>7, <1>8, SoundTyped DEF Safe
<1>10. \A j \in Inum : e.ino[j].type = d.ino[j].type /\ e.ino[j].nlink = d.ino[j].nlink /\ e.ino[j].data = d.ino[j].data
  <2> TAKE j \in Inum
  <2>1. e.ino[j].type = d.ino[j].type /\ e.ino[j].data = d.ino[j].data
    BY <1>3, <1>5, <1>6, <1>8
  <2>2. e.ino[j].nlink = d.ino[j].nlink
    BY <1>1, <1>2, <1>3, <1>5, <1>6, <1>8
  <2> QED
    BY <2>1, <2>2
<1>11. Tree(e, L) /\ \A j \in Inum : Names(e, j) = Names(d, j)
  BY <1>9, <1>10, SameTree
<1>12. Extends(d, e)
  <2>1. Allocated(e) = Allocated(d) /\ \A j \in Inum : Size(e, j) = Size(d, j)
    BY <1>10 DEF Allocated, FreeInodes, Size
  <2>2. \A j \in Inum : Size(d, j) \in Nat
    BY <1>1, SizeIs
  <2> QED
    BY <1>10, <1>11, <2>1, <2>2 DEF Extends, Allocated
<1> QED
  BY <1>9, <1>10, <1>11, <1>12 DEF LinkMade, e, c

LEMMA LinkWritten ==
  ASSUME NEW d, NEW L, Sound(d), d.panic = "no", Tree(d, L), NEW i \in Allocated(d), i \notin Dirs(d),
         NEW dp \in Dirs(d), NEW name
  PROVE  LinkMade(d, L, i, dp, Dirlink(AddLinks(d, i, 1), dp, name, i))
<1> DEFINE c == AddLinks(d, i, 1)
           e == Dirlink(c, dp, name, i)
<1>1. IsDisk(d) /\ Typed(d) /\ Safe(d) /\ i \in Inum /\ d.ino[i].type # "none" /\ d.ino[i].nlink \in Nat
  BY SoundTyped DEF Safe, Panics, Allocated, FreeInodes, Typed
<1>2. PICK one : one = 1 /\ one \in Int
  OBVIOUS
<1>3. /\ IsDisk(AddLinks(d, i, one)) /\ AddLinks(d, i, one).panic = d.panic
      /\ \A j \in Inum : /\ AddLinks(d, i, one).ino[j].type = d.ino[j].type
                         /\ AddLinks(d, i, one).ino[j].data = d.ino[j].data
      /\ \A j \in Inum : AddLinks(d, i, one).ino[j].nlink =
                         IF j = i THEN d.ino[j].nlink + one ELSE d.ino[j].nlink
  <2>1. Relinked(d, AddLinks(d, i, one), i, one)
    BY ONLY <1>1, <1>2, AddedTo
  <2> QED
    BY ONLY <2>1 DEF Relinked
<1>4. Safe(AddLinks(d, i, one))
  BY <1>1, <1>2, AddLinksSafe
<1>5. c = AddLinks(d, i, one)
  BY SMTT(60), <1>2
<1> HIDE DEF c
<1>6. dp \in Inum /\ d.ino[dp].type = "dir" /\ c.ino[dp].type # "none" /\ c.ino[dp].data = d.ino[dp].data
      /\ i # dp /\ i # ROOTINO /\ Directories(d) /\ IsDisk(c) /\ Safe(c)
  BY <1>3, <1>4, <1>5 DEF Dirs, Tree, Directories
<1>7. e = Dirlink(c, dp, name, i)
  OBVIOUS
<1> HIDE DEF e
<1>8. Safe(e)
  BY <1>6, <1>7, DirlinkSafe
<1>9. /\ \A j \in Inum \ {dp} : SameInode(c, e, j)
      /\ e.ino[dp].type = c.ino[dp].type /\ e.ino[dp].nlink = c.ino[dp].nlink
  BY <1>6, <1>7, DirlinkIs
<1>10. ASSUME e.panic = "no"
       PROVE  /\ Extends(d, e) /\ e # d
              /\ Tree(e, L \cup (IF NamedIn(d, L, dp) THEN {dp, i} ELSE {}))
  <2>1. PICK s : EntryAt(d, e, dp, i, s)
    BY <1>1, <1>6, <1>7, <1>10, DirlinkEntry
  <2>2. Typed(e)
    BY <1>8, <1>10, SoundTyped DEF Safe
  <2>3. \A j \in Inum : /\ e.ino[j].type = d.ino[j].type
                        /\ j # dp => e.ino[j].data = d.ino[j].data
                        /\ e.ino[j].nlink = d.ino[j].nlink + (IF j = i THEN 1 ELSE 0)
                                            + (IF j = dp /\ i \in Dirs(d) THEN 1 ELSE 0)
    <3> TAKE j \in Inum
    <3>1. e.ino[j].type = c.ino[j].type /\ e.ino[j].nlink = c.ino[j].nlink
          /\ (j # dp => e.ino[j].data = c.ino[j].data)
      BY <1>9 DEF SameInode
    <3>2. d.ino[j].nlink \in Nat
      BY <1>1 DEF Typed
    <3> QED
      BY <1>2, <1>3, <1>5, <3>1, <3>2
  <2>4. /\ s \in Nat /\ s >= 3
        /\ \A k \in Nat : k \in 1..Size(e, dp) <=> k \in 1..Size(d, dp) \/ k = s
    BY <2>1 DEF EntryAt
  <2>8. LinksUp(d, e, dp, i)
    BY <2>3 DEF LinksUp
  <2>9. MayEnter(d, dp, i)
    BY <1>6 DEF MayEnter
  <2>5. Tree(e, LostBy(d, L, dp, i)) /\ NamesButOf(d, e, i) /\ Names(e, i) # {}
    BY <2>1, <2>2, <2>8, <2>9, NewEntry
  <2>6. Extends(d, e)
    <3>1. Allocated(e) = Allocated(d)
      BY <2>3 DEF Allocated, FreeInodes
    <3>2. ASSUME NEW j \in Allocated(d) PROVE Size(e, j) \in Nat /\ Size(e, j) >= Size(d, j)
      <4>1. j \in Inum
        BY DEF Allocated
      <4>2. Size(e, j) \in Nat /\ Size(d, j) \in Nat
        BY <1>1, <2>2, <4>1, SizeIs
      <4>3. CASE j = dp
        <5> SUFFICES ASSUME Size(e, dp) < Size(d, dp) PROVE FALSE
          BY <4>2, <4>3
        <5>1. Size(d, dp) \in 1..Size(d, dp)
          BY <4>2, <4>3
        <5>2. Size(d, dp) \in 1..Size(e, dp)
          BY <2>4, <4>2, <4>3, <5>1
        <5> QED
          BY <4>2, <4>3, <5>2
      <4>4. CASE j # dp
        <5>1. e.ino[j].data = d.ino[j].data
          BY <2>3, <4>1, <4>4
        <5> QED
          BY <4>2, <5>1 DEF Size
      <4> QED
        BY <4>3, <4>4
    <3> QED
      BY <2>3, <2>5, <3>1, <3>2 DEF Extends, Allocated, NamesButOf
  <2>7. e # d
    <3>1. e.ino[i].nlink = d.ino[i].nlink + 1
      BY <1>6, <1>1, <2>3
    <3> QED
      BY <1>1, <3>1
  <2> QED
    BY <2>5, <2>6, <2>7 DEF NamedIn, LostBy
<1> QED
  BY <1>6, <1>8, <1>10 DEF LinkMade, e, c

(* What sys_unlink() has made of disk d before its first iput(): the entry s  *)
(* of dp is blank, and a directory that goes no longer counts as a link.      *)
Unentered(d, e, dp, s, i) ==
  /\ EntryGone(d, e, dp, s)
  /\ \A j \in Inum : /\ e.ino[j].type = d.ino[j].type
                     /\ j # dp => e.ino[j].data = d.ino[j].data
                     /\ e.ino[j].nlink = d.ino[j].nlink - (IF j = dp /\ i \in Dirs(d) THEN 1 ELSE 0)

LEMMA EntryCleared ==
  ASSUME NEW d, NEW L, Sound(d), d.panic = "no", Tree(d, L), NEW dp \in Dirs(d), NEW s \in Entries(d, dp),
         NEW i, i = d.ino[dp].data[s].inum, NEW n \in Int, n = IF d.ino[i].type = "dir" THEN -1 ELSE 0,
         NEW off, off = s - 1
  PROVE  LET e == AddLinks(Writei(d, dp, off, <<NoDirent>>), dp, n) IN
         Safe(e) /\ Unentered(d, e, dp, s, i)
<1> DEFINE c == Writei(d, dp, off, <<NoDirent>>)
           e == AddLinks(c, dp, n)
<1>1. IsDisk(d) /\ Typed(d) /\ Safe(d) /\ dp \in Inum /\ d.ino[dp].type = "dir" /\ d.ino[dp].nlink \in Nat
  BY SoundTyped DEF Safe, Panics, Dirs, Typed
<1>2. s \in Nat /\ s >= 3 /\ s <= Size(d, dp) /\ Size(d, dp) \in Nat /\ off \in Nat /\ s = off + 1
  <2>1. Size(d, dp) \in Nat
    BY <1>1, SizeIs
  <2> QED
    BY <2>1 DEF Entries
<1>3. Size(d, dp) <= MAXFILE * BSIZE
  <2>1. Len(d.ino[dp].data) <= MAXFILE * BSIZE
    BY ONLY <1>1 DEF Typed
  <2> QED
    BY ONLY <2>1 DEF Size
<1>4. /\ i \in Inum /\ (i \in Dirs(d) => d.ino[dp].nlink >= 1)
      /\ i \in Dirs(d) <=> d.ino[i].type = "dir"
  BY ZenonT(90), EntryLinks DEF Dirs
<1>5. PICK u : u = <<NoDirent>> /\ IsSeq(u) /\ Len(u) = 1 /\ u[1] = NoDirent
  <2>1. PICK w : w = NoDirent
    OBVIOUS
  <2>2. PICK u : u = <<w>>
    BY ZenonT(90)
  <2>3. Len(u) = 1 /\ u[1] = w /\ DOMAIN u = 1..1
    BY <2>2
  <2>4. u \in Seq({w})
    BY <2>2
  <2>5. {u[k] : k \in DOMAIN u} = {w}
    BY SMTT(60), <2>3
  <2>6. IsSeq(u)
    BY SMTT(60), <2>4, <2>5 DEF IsSeq
  <2> QED
    BY <2>1, <2>2, <2>3, <2>6
<1>6. c = Writei(d, dp, off, u)
  BY SMTT(60), <1>5
<1> HIDE DEF c
<1>7. off + Len(u) = s /\ off + Len(u) <= MAXFILE * BSIZE
  <2>1. MAXFILE * BSIZE \in Int
    BY SMTT(60), DiskAssumption DEF MAXFILE
  <2> QED
    BY SMTT(60), <1>2, <1>3, <1>5, <2>1
<1>8. Safe(c)
  BY ZenonT(90), <1>1, <1>2, <1>5, <1>6, <1>7, WriteiSafe
<1>9. /\ IsDisk(c) /\ (c.panic = "no" => d.panic = "no")
      /\ \A j \in Inum \ {dp} : SameInode(d, c, j)
      /\ c.ino[dp].type = d.ino[dp].type /\ c.ino[dp].nlink = d.ino[dp].nlink
      /\ Size(c, dp) = Size(d, dp)
      /\ \A k \in 1..Size(c, dp) : c.ino[dp].data[k] =
              IF k > off /\ k <= off + Len(u) THEN u[k - off] ELSE d.ino[dp].data[k]
  <2>1. LET x == Writei(d, dp, off, u) IN
         /\ IsDisk(x) /\ (x.panic = "no" => d.panic = "no")
         /\ \A j \in Inum \ {dp} : SameInode(d, x, j)
         /\ x.ino[dp].type = d.ino[dp].type /\ x.ino[dp].nlink = d.ino[dp].nlink
         /\ Size(x, dp) = IF off + Len(u) > Size(d, dp) THEN off + Len(u) ELSE Size(d, dp)
         /\ \A k \in 1..Size(x, dp) : x.ino[dp].data[k] =
              IF k > off /\ k <= off + Len(u) THEN u[k - off] ELSE d.ino[dp].data[k]
    <3>1. IsDisk(d)
      BY <1>1
    <3>2. dp \in Inum
      BY <1>1
    <3>3. off \in Nat
      BY SMTT(60), <1>2
    <3>4. IsSeq(u)
      BY SMTT(60), <1>5
    <3> QED
      BY ONLY SMTT(60), <3>1, <3>2, <3>3, <3>4, WriteiIs
  <2> QED
    BY <1>2, <1>6, <1>7, <2>1
<1>10. c.ino[dp].data[s] = NoDirent /\ \A k \in 1..Size(c, dp) : k # s => c.ino[dp].data[k] = d.ino[dp].data[k]
  <2>1. s \in 1..Size(c, dp) /\ s - off = 1
    BY SMTT(60), <1>2, <1>9
  <2>2. c.ino[dp].data[s] = u[1]
    BY SMTT(60), <1>2, <1>7, <1>9, <2>1
  <2>3. ASSUME NEW k \in 1..Size(c, dp), k # s PROVE c.ino[dp].data[k] = d.ino[dp].data[k]
    BY SMTT(60), <1>2, <1>7, <1>9, <2>3
  <2> QED
    BY SMTT(60), <1>5, <2>2, <2>3
<1>11. NoDirent.inum = 0
  BY DEF NoDirent, Dirent
<1>12. /\ AddLinks(c, dp, n).panic = c.panic
       /\ \A j \in Inum : /\ AddLinks(c, dp, n).ino[j].type = c.ino[j].type
                          /\ AddLinks(c, dp, n).ino[j].data = c.ino[j].data
       /\ \A j \in Inum : AddLinks(c, dp, n).ino[j].nlink =
                          IF j = dp THEN c.ino[j].nlink + n ELSE c.ino[j].nlink
  <2>1. IsDisk(c) /\ dp \in Inum /\ n \in Int
    BY SMTT(60), <1>1, <1>9
  <2> QED
    BY ONLY SMTT(60), <2>1, AddedIs
<1>13. Safe(e)
  BY SMTT(60), <1>1, <1>4, <1>8, <1>9, AddLinksSafe
<1> HIDE DEF e
<1>16. /\ e.panic = c.panic
       /\ \A j \in Inum : e.ino[j].type = c.ino[j].type /\ e.ino[j].data = c.ino[j].data
       /\ \A j \in Inum : e.ino[j].nlink = IF j = dp THEN c.ino[j].nlink + n ELSE c.ino[j].nlink
  BY ONLY <1>12 DEF e
<1>14. EntryGone(d, e, dp, s)
  BY ZenonT(90), <1>1, <1>9, <1>10, <1>11, <1>16 DEF EntryGone, Size
<1>15. \A j \in Inum : /\ e.ino[j].type = d.ino[j].type
                       /\ j # dp => e.ino[j].data = d.ino[j].data
                       /\ e.ino[j].nlink = d.ino[j].nlink - (IF j = dp /\ i \in Dirs(d) THEN 1 ELSE 0)
  <2> TAKE j \in Inum
  <2>1. d.ino[j].nlink \in Nat
    BY SMTT(60), <1>1 DEF Typed
  <2>2. CASE j = dp
    BY SMTT(60), <1>4, <1>9, <1>16, <2>1, <2>2
  <2>3. CASE j # dp
    BY <1>9, <1>16, <2>1, <2>3 DEF SameInode
  <2> QED
    BY <2>2, <2>3
<1>17. Safe(e) /\ Unentered(d, e, dp, s, i)
  BY ONLY <1>13, <1>14, <1>15 DEF Unentered
<1> QED
  BY ONLY SMTT(60), <1>17 DEF e, c

(* Entry s of dp is for i, which is empty if it is a directory.               *)
EntryFor(d, dp, s, i) ==
  /\ dp \in Dirs(d) /\ s \in Entries(d, dp) /\ i = d.ino[dp].data[s].inum
  /\ i \in Dirs(d) => Entries(d, i) = {}

(* The rest of sys_unlink(): iput() of dp, one link less for i, and its iput().*)
LEMMA UnlinkIs ==
  ASSUME NEW d, NEW L, Tree(d, L), NEW dp, NEW s, NEW i, EntryFor(d, dp, s, i),
         NEW x, Safe(x), Unentered(d, x, dp, s, i),
         NEW g, NEW c, NEW b, HeldInv(d, g, c, b),
         NEW rd, IsHeld(rd, g, c, dp), NEW ri, IsHeld(ri, g, c, i), NEW less \in Int, less = -1
  PROVE  LET e == Iput(AddLinks(Iput(x, dp, rd), i, less), i, ri) IN
         /\ Safe(e)
         /\ e.panic = "no" => Tree(e, L) /\ HeldInv(e, g, c, b)
<1>a. PICK m : m = AddLinks(x, i, less)
  OBVIOUS
<1>b. PICK y : y = Iput(x, dp, rd)
  OBVIOUS
<1>c. PICK z : z = AddLinks(y, i, less)
  OBVIOUS
<1>d. PICK e : e = Iput(z, i, ri)
  BY SMTT(60)
<1>1. IsDisk(x) /\ Typed(d) /\ dp \in Inum /\ d.ino[dp].type = "dir"
      /\ i \in Inum /\ i # dp /\ d.ino[i].type # "none" /\ d.ino[i].nlink >= 1 /\ d.ino[i].nlink \in Nat
  <2>1. dp \in Dirs(d) /\ s \in Entries(d, dp) /\ i = d.ino[dp].data[s].inum
    BY SMTT(60) DEF EntryFor
  <2>2. i \in Allocated(d) /\ i \in Inum /\ i # dp /\ d.ino[i].nlink >= 1
    BY ONLY ZenonT(90), <2>1, Tree(d, L), EntryLinks
  <2> QED
    BY ONLY SMTT(60), <2>1, <2>2, Safe(x), Tree(d, L) DEF Safe, Tree, Typed, Dirs, Allocated, FreeInodes
<1>2. \A j \in Inum : /\ x.ino[j].type = d.ino[j].type
                      /\ j # dp => x.ino[j].data = d.ino[j].data
                      /\ x.ino[j].nlink = d.ino[j].nlink - (IF j = dp /\ i \in Dirs(d) THEN 1 ELSE 0)
  BY ONLY Unentered(d, x, dp, s, i) DEF Unentered
<1>3. /\ m.panic = x.panic
      /\ \A j \in Inum : m.ino[j].type = x.ino[j].type /\ m.ino[j].data = x.ino[j].data
      /\ \A j \in Inum : m.ino[j].nlink = IF j = i THEN x.ino[j].nlink + less ELSE x.ino[j].nlink
  <2>1. Relinked(x, m, i, less)
    BY ONLY <1>a, <1>1, less \in Int, AddedTo
  <2> QED
    BY ONLY <2>1 DEF Relinked
<1>4. Safe(m)
  BY ONLY <1>a, <1>1, <1>2, Safe(x), less \in Int, less = -1, AddLinksSafe
<1>5. Safe(y) /\ y.panic = x.panic
  BY ONLY <1>b, <1>1, Safe(x), IsHeld(rd, g, c, dp), IputSafe DEF IsHeld
<1>6. /\ IsDisk(y) /\ \A j \in Inum \ {dp} : SameInode(x, y, j)
      /\ y.panic = "no" => Put(x, y, g, c, dp)
  <2>1. rd \in BOOLEAN /\ x.ino[dp].type # "none"
    BY ONLY <1>1, <1>2, IsHeld(rd, g, c, dp) DEF IsHeld
  <2>2. LET w == Iput(x, dp, rd) IN IsDisk(w) /\ \A j \in Inum \ {dp} : SameInode(x, w, j)
    BY ONLY <1>1, <2>1, IputIs
  <2>3. y.panic = "no" => Put(x, y, g, c, dp)
    BY ONLY <1>b, <1>1, <2>1, Safe(x), IsHeld(rd, g, c, dp), IputPuts
  <2> QED
    BY ONLY <1>b, <2>2, <2>3
<1>7. /\ z.panic = y.panic
      /\ \A j \in Inum : z.ino[j].type = y.ino[j].type /\ z.ino[j].data = y.ino[j].data
      /\ \A j \in Inum : z.ino[j].nlink = IF j = i THEN y.ino[j].nlink + less ELSE y.ino[j].nlink
  <2>1. Relinked(y, z, i, less)
    BY ONLY <1>c, <1>1, <1>6, less \in Int, AddedTo
  <2> QED
    BY ONLY <2>1 DEF Relinked
<1>8. Safe(z)
  <2>1. y.ino[i].type # "none" /\ y.ino[i].nlink + less >= 0
    <3>1. y.ino[i].type = x.ino[i].type /\ y.ino[i].nlink = x.ino[i].nlink
      BY ONLY <1>1, <1>6 DEF SameInode
    <3>2. x.ino[i].type = d.ino[i].type /\ x.ino[i].nlink = d.ino[i].nlink
      BY ONLY <1>1, <1>2
    <3> QED
      BY ONLY <1>1, <3>1, <3>2, less = -1
  <2> QED
    BY ONLY <1>c, <1>1, <1>5, <2>1, less \in Int, AddLinksSafe
<1>9. Safe(e) /\ e.panic = z.panic
  BY ONLY <1>d, <1>1, <1>8, IsHeld(ri, g, c, i), IputSafe DEF IsHeld
<1>10. ASSUME z.panic = "no"
       PROVE  Tree(e, L) /\ HeldInv(e, g, c, b)
  <2>1. y.panic = "no"
    BY ONLY <1>7, <1>10
  <2>2. Typed(m) /\ Typed(z)
    BY ONLY <1>3, <1>4, <1>5, <1>7, <1>8, <1>10, SoundTyped DEF Safe
  <2>3. EntryGone(d, m, dp, s) /\ LinksDown(d, m, dp, i)
    <3>1. EntryGone(d, m, dp, s)
      BY ONLY ZenonT(90), <1>1, <1>3, Unentered(d, x, dp, s, i) DEF Unentered, EntryGone, Size
    <3>2. LinksDown(d, m, dp, i)
      <4>1. ASSUME NEW j \in Inum
            PROVE  /\ m.ino[j].type = d.ino[j].type
                   /\ j # dp => m.ino[j].data = d.ino[j].data
                   /\ m.ino[j].nlink = d.ino[j].nlink - (IF j = i THEN 1 ELSE 0)
                                       - (IF j = dp /\ i \in Dirs(d) THEN 1 ELSE 0)
        <5>1. d.ino[j].nlink \in Nat
          BY ONLY SMTT(60), <1>1, j \in Inum DEF Typed
        <5> QED
          BY ONLY <1>1, <1>2, <1>3, <5>1, j \in Inum, less = -1
      <4> QED
        BY ONLY <4>1 DEF LinksDown
    <3> QED
      BY ONLY <3>1, <3>2
  <2>4. Tree(m, L) /\ NamesButOf(d, m, i)
    BY <2>2, <2>3, EntryRemoved DEF EntryFor
  <2>5. Allocated(m) = Allocated(d) /\ \A j \in Inum : m.ino[j].type = d.ino[j].type /\ Size(m, j) = Size(d, j)
    <3>1. \A j \in Inum : m.ino[j].type = d.ino[j].type
      BY ONLY <1>2, <1>3
    <3>2. Size(m, dp) = Size(d, dp)
      BY ONLY <2>3 DEF EntryGone
    <3>3. \A j \in Inum \ {dp} : Size(m, j) = Size(d, j)
      BY ONLY <1>2, <1>3 DEF Size
    <3> QED
      BY ONLY <3>1, <3>2, <3>3 DEF Allocated, FreeInodes
  <2>6. HeldInv(m, g, c, b)
    <3>1. ASSUME NEW j \in Allocated(d)
          PROVE  /\ j \in Allocated(m) /\ m.ino[j].type = d.ino[j].type
                 /\ Size(d, j) \in Nat /\ Size(m, j) \in Nat /\ Size(m, j) >= Size(d, j)
      <4>1. j \in Inum /\ Size(d, j) \in Nat
        BY ONLY <1>1, j \in Allocated(d), SizeIs DEF Allocated
      <4> QED
        BY ONLY <2>5, <4>1, j \in Allocated(d)
    <3> QED
      BY <3>1, SameHeld
  <2>9. dp \in Allocated(m)
    BY ONLY <1>1, <2>5 DEF Allocated, FreeInodes
  <2>10. Put(m, z, g, c, dp)
    BY ONLY <1>1, <1>3, <1>6, <1>7, <2>1 DEF Put, SameInode
  <2>11. Tree(z, L) /\ HeldInv(z, g, c, b)
    BY ONLY SMTT(60), <2>2, <2>4, <2>6, <2>9, <2>10, PutKeeps
  <2>12. i \in Allocated(z)
    BY ONLY <1>1, <1>2, <1>6, <1>7 DEF Allocated, FreeInodes, SameInode
  <2> QED
    BY ONLY SMTT(60), <1>d, <1>8, <1>10, <2>11, <2>12, IsHeld(ri, g, c, i), PutIs
<1> QED
  BY ONLY <1>a, <1>b, <1>c, <1>d, <1>9, <1>10

LEMMA UnlinkKeeps ==
  ASSUME TreeInv, TablesInv, NEW p \in Proc, NEW path, IsSeq(path), SysUnlink(p, path)
  PROVE  TreeInv'
<1> DEFINE dp   == NameiParent(disk, cwd[p], path)
           name == LastName(path)
           ip   == Dirlookup(disk, dp, name)
           s    == Min(Slots(disk, dp, name))
           n    == IF disk.ino[ip].type = "dir" THEN -1 ELSE 0
           x    == AddLinks(Writei(disk, dp, s - 1, <<NoDirent>>), dp, n)
           e(o1, o2) == Iput(AddLinks(Iput(x, dp, Held(dp) \/ o1), ip, -1), ip, Held(ip) \/ o2)
<1>1. Ready(p)
  BY ZenonT(90) DEF SysUnlink
<1>2. disk.panic = "no" /\ Sound(disk) /\ Tree(disk, lost) /\ Typed(disk) /\ Directories(disk) /\ cwd[p] \in Inum
      /\ HeldInv(disk, file, cwd, busy)
  BY <1>1, Running
<1>3. dp \in Dirs(disk) \cup {0, Broken}
  BY <1>2, NameiIs
<1>4. CASE dp = Broken \/ dp = 0
  <2>1. NoType \/ Fails(p)
    BY ZenonT(90), <1>4 DEF SysUnlink, Broken
  <2> QED
    BY <1>2, <2>1, NoTypeKeeps, FailsKeeps
<1>5. CASE dp \in Dirs(disk) /\ (name \in {".", ".."} \/ ip = 0)
  <2>1. dp > 0 /\ dp # Broken /\ dp # 0
    BY <1>5 DEF Dirs, Inum, Broken
  <2>2. Fails(p)
    BY ZenonT(90), <1>5, <2>1 DEF SysUnlink
  <2> QED
    BY <2>2, FailsKeeps
<1>6. CASE dp \in Dirs(disk) /\ name \notin {".", ".."} /\ ip # 0
  <2>1. dp > 0 /\ dp # Broken /\ dp # 0
    BY <1>6 DEF Dirs, Inum, Broken
  <2>2. s \in Entries(disk, dp) /\ disk.ino[dp].data[s].inum = ip /\ ip \in Allocated(disk)
    BY <1>2, <1>6, DirlookupIs
  <2>3. disk.ino[ip].type # "none" /\ disk.ino[ip].nlink >= 1 /\ disk.ino[ip].nlink \in Nat /\ ip \in Inum
    <3>1. LET i == disk.ino[dp].data[s].inum IN disk.ino[i].nlink >= 1
      BY ZenonT(90), <1>2, <1>6, <2>2, EntryLinks
    <3> QED
      <4>1. ip \in Inum /\ disk.ino[ip].type # "none" /\ disk.ino[ip].nlink \in Nat
        <5>1. ip \in Inum /\ disk.ino[ip].type # "none"
          BY ONLY <2>2 DEF Allocated, FreeInodes
        <5> QED
          BY ONLY <1>2, <5>1 DEF Typed
      <4> QED
        BY ONLY <2>2, <3>1, <4>1
  <2>4. IF ~Removable(ip) THEN Fails(p)
        ELSE /\ \E o1, o2 \in OthersMayRefer(p) : Leaves(e(o1, o2), {})
             /\ Returns(p, 0) /\ UNCHANGED <<file, ofile, cwd, busy>>
    <3>1. IF disk.ino[ip].type = "none" THEN NoType
          ELSE IF disk.ino[ip].nlink < 1 THEN Halts("unlink: nlink < 1")
          ELSE IF ~Removable(ip) THEN Fails(p)
          ELSE /\ \E o1, o2 \in OthersMayRefer(p) : Leaves(e(o1, o2), {})
             /\ Returns(p, 0) /\ UNCHANGED <<file, ofile, cwd, busy>>
      <4> HIDE DEF n, s
      <4> QED
        BY ZenonT(90), <1>6, <2>1 DEF SysUnlink, s, n
    <3>2. ~(disk.ino[ip].nlink < 1) /\ disk.ino[ip].type # "none"
      BY <2>3
    <3> HIDE DEF ip, e
    <3> QED
      BY <3>1, <3>2, ZenonT(90)
  <2>5. CASE ~Removable(ip)
    BY <2>4, <2>5, FailsKeeps
  <2>6. CASE Removable(ip)
    <3>1. ip \in Dirs(disk) => Entries(disk, ip) = {}
      BY <2>6 DEF Removable, IsDirEmpty, Entries, Dirs
    <3>14. PICK o1 \in BOOLEAN, o2 \in BOOLEAN : Leaves(e(o1, o2), {})
      <4> HIDE DEF e, ip
      <4> QED
        BY ZenonT(90), <2>4, <2>6 DEF OthersMayRefer
    <3>2. PICK off, less, rd, ri :
            /\ off = s - 1 /\ less = -1 /\ less \in Int
            /\ rd = (Held(dp) \/ o1) /\ ri = (Held(ip) \/ o2)
      OBVIOUS
    <3>3. IsHeld(rd, file, cwd, dp) /\ IsHeld(ri, file, cwd, ip)
      BY ZenonT(90), <3>2 DEF IsHeld, Held, Holds, FileHolds, CwdHolds
    <3>4. n \in Int
      BY ONLY -1 \in Int, 0 \in Int
    <3> DEFINE z == e(o1, o2)
    <3>5. z = Iput(AddLinks(Iput(x, dp, rd), ip, less), ip, ri)
      BY <3>2
    <3>6. x = AddLinks(Writei(disk, dp, off, <<NoDirent>>), dp, n)
      BY <3>2
    <3>7. Leaves(z, {}) /\ UNCHANGED <<file, cwd, busy>>
      <4> HIDE DEF e, ip
      <4> QED
        BY <2>4, <2>6, <3>14 DEF z
    <3>12. n = IF disk.ino[ip].type = "dir" THEN -1 ELSE 0
      OBVIOUS
    <3> HIDE DEF z, e, x, n, s, ip, name, dp
    <3>8. Safe(x) /\ Unentered(disk, x, dp, s, ip)
      BY SMTT(60), <1>2, <1>6, <2>2, <3>2, <3>4, <3>6, <3>12, EntryCleared
    <3>9. /\ Safe(z)
          /\ z.panic = "no" => Tree(z, lost) /\ HeldInv(z, file, cwd, busy)
      <4>1. EntryFor(disk, dp, s, ip)
        BY <1>6, <2>2, <3>1 DEF EntryFor
      <4> QED
        BY <1>2, <3>2, <3>3, <3>5, <3>8, <4>1, UnlinkIs
    <3>13. lost \cup {} = lost
      OBVIOUS
    <3>10. PICK X : X = {} /\ lost \cup X = lost
      BY ONLY ZenonT(90), <3>13
    <3>11. Leaves(z, X)
      BY <3>7, <3>10
    <3> QED
      BY SMTT(60), <1>2, <3>7, <3>9, <3>10, <3>11, LeavesKeeps
  <2> QED
    BY <2>5, <2>6
<1> QED
  BY <1>3, <1>4, <1>5, <1>6

(* link()                                                                     *)
LEMMA LinkedIs ==
  ASSUME Sound(disk), disk.panic = "no", Tree(disk, lost), NEW p \in Proc, cwd[p] \in Inum,
         NEW path, IsSeq(path), NEW ip \in Allocated(disk), ip \notin Dirs(disk)
  PROVE  LET dp == NameiParent(AddLinks(disk, ip, 1), cwd[p], path) IN
         LinkMade(disk, lost, ip, dp, Linked(p, ip, path))
<1> DEFINE d1   == AddLinks(disk, ip, 1)
           dp   == NameiParent(d1, cwd[p], path)
           name == LastName(path)
           old  == Dirlookup(d1, dp, name)
           e    == Linked(p, ip, path)
           bad  == Panic(disk, "ilock: no type")
           own  == Panic(disk, "iput: sleeps on its own lock")
           back == LinkUndone(d1, ip)
           put  == Dirlink(d1, dp, name, ip)
<1>1. /\ IsDisk(disk) /\ Typed(disk) /\ Safe(disk) /\ Directories(disk)
      /\ ip \in Inum /\ disk.ino[ip].type # "none" /\ disk.ino[ip].nlink \in Nat
  BY SoundTyped DEF Safe, Panics, Tree, Allocated, FreeInodes, Typed
<1>2. PICK one : one = 1 /\ one \in Int
  OBVIOUS
<1>3. /\ AddLinks(disk, ip, one).panic = disk.panic
      /\ \A j \in Inum : /\ AddLinks(disk, ip, one).ino[j].type = disk.ino[j].type
                         /\ AddLinks(disk, ip, one).ino[j].data = disk.ino[j].data
  <2>1. Relinked(disk, AddLinks(disk, ip, one), ip, one)
    BY ONLY <1>1, <1>2, AddedTo
  <2> QED
    BY ONLY <2>1 DEF Relinked
<1>4. Safe(AddLinks(disk, ip, one))
  BY <1>1, <1>2, AddLinksSafe
<1>5. d1 = AddLinks(disk, ip, one)
  BY <1>2
<1>6. e = CASE dp = Broken -> bad
            [] dp = 0      -> back
            [] dp > 0 /\ old = dp -> own
            [] dp > 0 /\ old \notin {0, dp} -> back
            [] OTHER       -> put
  BY DEF Linked
<1> HIDE DEF e
<1>7. LinkMade(disk, lost, ip, dp, back)
  <2> HIDE DEF dp
  <2> QED
    BY LinkUndoneIs DEF LinkUndone
<1>8. ASSUME dp \in Dirs(disk) PROVE LinkMade(disk, lost, ip, dp, put)
  <2> HIDE DEF dp, name
  <2> QED
    BY <1>8, LinkWritten
<1>9. ASSUME NEW why \in Panics \ {"no"} PROVE LinkMade(disk, lost, ip, dp, Panic(disk, why))
  <2>1. Safe(Panic(disk, why)) /\ Panic(disk, why).panic # "no"
    BY <1>1, SafePanic, PanicIs
  <2> QED
    BY <2>1 DEF LinkMade
<1>10. LinkMade(disk, lost, ip, dp, bad)
  <2>1. PICK why : why = "ilock: no type" /\ why \in Panics \ {"no"}
    <3>1. "ilock: no type" # "no"
      OBVIOUS
    <3> QED
      BY <3>1, ZenonT(90) DEF Panics
  <2> QED
    BY ZenonT(90), <1>9, <2>1
<1>11. LinkMade(disk, lost, ip, dp, own)
  <2>1. PICK why : why = "iput: sleeps on its own lock" /\ why \in Panics \ {"no"}
    <3>1. "iput: sleeps on its own lock" # "no"
      OBVIOUS
    <3> QED
      BY <3>1, ZenonT(90) DEF Panics
  <2> QED
    BY ZenonT(90), <1>9, <2>1
<1> HIDE DEF d1, bad, own, back, put
<1>12. Typed(d1) /\ Directories(d1) /\ Dirs(d1) = Dirs(disk)
  <2>1. Typed(d1)
    BY <1>3, <1>4, <1>5, SoundTyped DEF Safe
  <2>2. \A j \in Inum : d1.ino[j].type = disk.ino[j].type /\ d1.ino[j].data = disk.ino[j].data
    BY <1>3, <1>5
  <2> QED
    BY <1>1, <2>1, <2>2, SameDirectories
<1>13. dp \in Dirs(disk) \cup {0, Broken}
  BY <1>12, NameiIs
<1> HIDE DEF dp, old, name
<1>14. ASSUME dp = Broken \/ dp = 0 PROVE LinkMade(disk, lost, ip, dp, e)
  <2>1. CASE dp = Broken
    <3>1. e = bad
      BY <1>6, <2>1 DEF Broken
    <3> QED
      BY <1>10, <3>1
  <2>2. CASE dp = 0
    <3>1. e = back
      BY <1>6, <2>2 DEF Broken
    <3> QED
      BY <1>7, <3>1
  <2> QED
    BY <1>14, <2>1, <2>2
<1>15. ASSUME dp \in Dirs(disk) PROVE LinkMade(disk, lost, ip, dp, e)
  <2>1. dp > 0 /\ dp # Broken /\ dp # 0
    BY <1>15 DEF Dirs, Inum, Broken
  <2>2. CASE old = dp
    <3>1. e = own
      BY <1>6, <2>1, <2>2
    <3> QED
      BY <1>11, <3>1
  <2>3. CASE old \notin {0, dp}
    <3>1. e = back
      BY <1>6, <2>1, <2>3
    <3> QED
      BY <1>7, <3>1
  <2>4. CASE old = 0
    <3>1. e = put
      BY <1>6, <2>1, <2>4
    <3> QED
      BY <1>8, <1>15, <3>1
  <2> QED
    BY <2>2, <2>3, <2>4
<1> QED
  BY <1>13, <1>14, <1>15 DEF dp, d1, e

LEMMA LinkKeeps ==
  ASSUME TreeInv, TablesInv, NEW p \in Proc, NEW path, IsSeq(path), NEW new, IsSeq(new), SysLink(p, path, new)
  PROVE  TreeInv'
<1> DEFINE ip == Namei(disk, cwd[p], path)
           dp == NameiParent(AddLinks(disk, ip, 1), cwd[p], new)
           e  == Linked(p, ip, new)
           X  == IF e # disk /\ Removed(dp) THEN {dp, ip} ELSE {}
<1>1. Ready(p)
  BY DEF SysLink
<1>2. disk.panic = "no" /\ Sound(disk) /\ Tree(disk, lost) /\ Typed(disk) /\ Directories(disk) /\ cwd[p] \in Inum
      /\ HeldInv(disk, file, cwd, busy)
  BY <1>1, Running
<1>3. ip \in Allocated(disk) \cup {0, Broken}
  BY <1>2, NameiIs
<1>4. CASE ip = Broken \/ ip = 0
  <2>1. NoType \/ Fails(p)
    BY <1>4 DEF SysLink, Broken
  <2> QED
    BY <1>2, <2>1, NoTypeKeeps, FailsKeeps
<1>5. CASE ip \in Allocated(disk)
  <2>1. ip > 0 /\ ip # Broken /\ ip # 0 /\ ip \in Inum
    BY <1>5 DEF Allocated, Inum, Broken
  <2>2. CASE ~Linkable(ip)
    <3>1. Fails(p)
      BY <2>1, <2>2 DEF SysLink
    <3> QED
      BY <3>1, FailsKeeps
  <2>3. CASE Linkable(ip)
    <3>1. Leaves(e, X) /\ UNCHANGED <<file, cwd, busy>>
      BY <2>1, <2>3 DEF SysLink
    <3>2. ip \notin Dirs(disk)
      BY <2>3 DEF Linkable, Dirs
    <3>3. LinkMade(disk, lost, ip, dp, e)
      <4> HIDE DEF ip
      <4> QED
        BY <1>2, <1>5, <3>2, LinkedIs
    <3>4. X = {} \/ (X = {dp, ip} /\ NamedIn(disk, lost, dp) /\ e # disk)
      BY DEF Removed, NamedIn
    <3>5. e # disk /\ NamedIn(disk, lost, dp) => X = {dp, ip}
      BY DEF Removed, NamedIn
    <3> HIDE DEF X, e, dp, ip
    <3>6. \A dq \in X \cap Dirs(disk) : dq \in lost \/ disk.ino[dq].nlink = 0
      BY <3>2, <3>4 DEF NamedIn
    <3>7. Safe(e)
      BY <3>3 DEF LinkMade
    <3>8. ASSUME e.panic = "no"
          PROVE  Tree(e, lost \cup X) /\ HeldInv(e, file, cwd, busy)
      <4>1. Extends(disk, e)
        BY <3>3, <3>8 DEF LinkMade
      <4>2. HeldInv(e, file, cwd, busy)
        BY ZenonT(90), <1>2, <4>1, ExtendsKeeps
      <4>3. ASSUME Tree(e, lost), \A j \in Inum : e.ino[j].type = disk.ino[j].type /\ e.ino[j].nlink = disk.ino[j].nlink
            PROVE  Tree(e, lost \cup X)
        <5>1. \A dq \in X \cap Dirs(e) : dq \in lost \/ e.ino[dq].nlink = 0
          BY <3>6, <4>3 DEF Dirs
        <5> QED
          BY ZenonT(90), <4>3, <5>1, MoreLost
      <4>4. ASSUME e # disk, Tree(e, lost \cup (IF NamedIn(disk, lost, dp) THEN {dp, ip} ELSE {}))
            PROVE  Tree(e, lost \cup X)
        <5>1. X = IF NamedIn(disk, lost, dp) THEN {dp, ip} ELSE {}
          BY <3>4, <3>5, <4>4
        <5> QED
          BY <4>4, <5>1
      <4> QED
        BY <3>3, <3>8, <4>2, <4>3, <4>4 DEF LinkMade
    <3> QED
      BY <1>2, <3>1, <3>6, <3>7, <3>8, LeavesKeeps
  <2> QED
    BY <2>2, <2>3
<1> QED
  BY <1>3, <1>4, <1>5

(* The iput() of a call that this one left an inode to.                       *)
LEMMA OthersPut ==
  ASSUME TreeInv, NEW i \in Inum, OthersIput(i)
  PROVE  TreeInv'
<1>1. /\ disk.panic = "no" /\ i \in Unlinked(disk) /\ ~Held(i)
      /\ Leaves(Iput(disk, i, FALSE), {}) /\ UNCHANGED <<file, cwd, busy>>
  BY DEF OthersIput, Halted
<1>2. Sound(disk) /\ Tree(disk, lost) /\ HeldInv(disk, file, cwd, busy) /\ Safe(disk)
  BY <1>1, SoundTyped DEF TreeInv, SysInv, Safe, Panics
<1>3. i \in Allocated(disk)
  BY <1>1 DEF Unlinked, Allocated, FreeInodes
<1>4. PICK r : r = FALSE /\ IsHeld(r, file, cwd, i)
  BY <1>1 DEF IsHeld, Holds, Held, FileHolds, CwdHolds
<1>5. PICK e : e = Iput(disk, i, r)
  OBVIOUS
<1>6. Safe(e) /\ e.panic = "no" /\ Tree(e, lost) /\ HeldInv(e, file, cwd, busy)
  BY ZenonT(90), <1>1, <1>2, <1>3, <1>4, <1>5, PutIs
<1>8. lost \cup {} = lost
  OBVIOUS
<1>7. PICK X : X = {} /\ lost \cup X = lost
  BY ONLY ZenonT(90), <1>8
<1> QED
  BY <1>1, <1>4, <1>5, <1>6, <1>7, LeavesKeeps

LEMMA CallKeeps ==
  ASSUME TreeInv, TablesInv, TablesInv', NEW p \in Proc, NEW c \in Calls, Do(p, c)
  PROVE  TreeInv'
<1>1. /\ c.op \in {"open", "mkdir", "mknod", "link", "unlink", "chdir"} => IsSeq(c.path)
      /\ c.op = "link" => IsSeq(c.new)
      /\ c.op = "write" => IsSeq(c.data)
      /\ c.op = "read" => c.n \in Nat
  BY CallsAssumption
<1>2. CASE c.op = "open" /\ SysOpen(p, c.path, c.mode)
  <2>1. IsSeq(c.path)
    BY <1>1, <1>2
  <2> QED
    BY <1>2, <2>1, OpenKeeps
<1>3. CASE \/ c.op = "mkdir" /\ SysMkdir(p, c.path)
           \/ c.op = "mknod" /\ SysMknod(p, c.path)
  <2>1. IsSeq(c.path)
    BY <1>1, <1>3
  <2>2. PICK type : type \in {"dir", "dev"} /\ Make(p, c.path, type)
    BY <1>3, ZenonT(90) DEF SysMkdir, SysMknod
  <2> QED
    BY <2>1, <2>2, MakeKeeps
<1>4. CASE c.op = "link" /\ SysLink(p, c.path, c.new)
  <2>1. IsSeq(c.path) /\ IsSeq(c.new)
    BY <1>1, <1>4
  <2> QED
    BY <1>4, <2>1, LinkKeeps
<1>5. CASE c.op = "unlink" /\ SysUnlink(p, c.path)
  <2>1. IsSeq(c.path)
    BY <1>1, <1>5
  <2> QED
    BY <1>5, <2>1, UnlinkKeeps
<1>6. CASE c.op = "chdir" /\ SysChdir(p, c.path)
  <2>1. IsSeq(c.path)
    BY <1>1, <1>6
  <2> QED
    BY <1>6, <2>1, ChdirKeeps
<1>7. CASE SysClose(p, c.fd) \/ SysDup(p, c.fd) \/ SysPipe(p)
  BY <1>7, CloseKeeps, DupKeeps, PipeKeeps
<1>8. CASE SysFstat(p, c.fd)
  BY <1>8 DEF SysFstat, TreeInv
<1>9. CASE c.op = "read" /\ SysRead(p, c.fd, c.n)
  <2>1. c.n \in Nat
    BY <1>1, <1>9
  <2> QED
    BY <1>9, <2>1, ReadKeeps
<1>10. CASE c.op = "write" /\ SysWrite(p, c.fd, c.data)
  <2>1. IsSeq(c.data)
    BY <1>1, <1>10
  <2> QED
    BY <1>10, <2>1, WriteKeeps
<1>11. CASE Fork(p) \/ Exit(p)
  BY <1>11, ForkKeeps, LeaveKeeps
<1> QED
  BY SMTT(60), <1>2, <1>3, <1>4, <1>5, <1>6, <1>7, <1>8, <1>9, <1>10, <1>11 DEF Do

LEMMA InitHolds == Init => TablesInv /\ TreeInv
BY InitTables, InitTree

LEMMA NextHolds == TablesInv /\ TreeInv /\ [Next]_vars => (TablesInv /\ TreeInv)'
<1> SUFFICES ASSUME TablesInv, TreeInv, [Next]_vars PROVE TablesInv' /\ TreeInv'
  OBVIOUS
<1>1. CASE UNCHANGED vars
  BY <1>1 DEF TablesInv, TreeInv, vars
<1>2. ASSUME NEW p \in Proc, WriteTxn(p) PROVE TablesInv' /\ TreeInv'
  BY <1>2, WriteTables, TxnKeeps
<1>3. ASSUME NEW p \in Proc, ExitStep(p) PROVE TablesInv' /\ TreeInv'
  BY <1>3, ExitTables, ExitKeeps
<1>4. ASSUME NEW p \in Proc, NEW c \in Calls, Do(p, c) PROVE TablesInv' /\ TreeInv'
  BY <1>4, CallTables, CallKeeps
<1>5. ASSUME NEW i \in Inum, OthersIput(i) PROVE TablesInv' /\ TreeInv'
  <2>1. TablesInv'
    BY <1>5 DEF OthersIput, TablesInv
  <2> QED
    BY <1>5, <2>1, OthersPut
<1>6. CASE Crash
  BY <1>6, CrashTables, CrashKeeps
<1> QED
  BY <1>1, <1>2, <1>3, <1>4, <1>5, <1>6 DEF Next

(* The tables of descriptors and open files are sound in every state, for any *)
(* number of processes, files and descriptors, any disk and any calls: the    *)
(* count of an open file is the number of its descriptors through open(),     *)
(* dup(), pipe(), fork(), close(), exit() and a crash, whichever step of them *)
(* fails, a freed file is blank, a process that is gone has left nothing      *)
(* open, and the file a filewrite() is in the middle of stays open.           *)
THEOREM TablesAreSound == Spec => []RefsSound
<1>1. TablesInv => RefsSound
  <2> SUFFICES ASSUME TablesInv PROVE RefsSound
    OBVIOUS
  <2>1. FilesInv(file, ofile) /\ RowsInv(ofile, cwd, busy)
    BY DEF TablesInv
  <2>2. TablesOK
    BY <2>1 DEF TablesOK, FilesInv, RowsInv, FdTable
  <2>3. FileRefs
    BY <2>1 DEF FileRefs, FilesInv, Refs
  <2> QED
    BY <2>2, <2>3 DEF RefsSound
<1> QED
  BY <1>1, InitHolds, NextHolds, PTL DEF Spec

(* The disk is sound in every state, for any size of disk, of block and of    *)
(* the inode table: inodes keep their fields and a freed one is blank, every  *)
(* block belongs to one file or is free in the bitmap, a file has the blocks  *)
(* its size calls for, after every call and every turn of filewrite(),        *)
(* whichever step failed and wherever the machine stopped; and no panic that  *)
(* stands for a corrupted file system is met: itrunc() frees no free block,   *)
(* unlink() finds no file without links.                                      *)
THEOREM DiskIsSound == Spec => []DiskSound
<1>1. TreeInv => DiskSound
  <2> SUFFICES ASSUME TreeInv PROVE DiskSound
    OBVIOUS
  <2>1. Sound(disk) /\ disk.panic \in Panics
    BY DEF TreeInv, SysInv
  <2>2. DiskTypes(disk) /\ BlocksAccounted(disk)
    BY <2>1, SoundIs
  <2>3. NeverCorrupt
    BY ZenonT(90), <2>1 DEF NeverCorrupt, Panics
  <2> QED
    BY <2>2, <2>3 DEF DiskSound
<1> QED
  BY <1>1, InitHolds, NextHolds, PTL DEF Spec

(* The tree of directories is sound in every state, for any processes, disks  *)
(* and calls: the link counts are what the directories say, "." and ".." are  *)
(* right, every entry names an allocated inode, no chain of mkdir(), link()   *)
(* and unlink() makes a cycle, and what a descriptor or a working directory   *)
(* refers to is kept, whichever of the last references iput() sees; but for   *)
(* the directories that got an entry after they were removed, and what was    *)
(* unlinked and in use at a crash.  That nothing else stays allocated is not  *)
(* so: iput() loses an inode when two processes give it up at once.           *)
THEOREM TreeIsSound == Spec => []TreeSound
<1>1. TreeInv => TreeSound
  <2> SUFFICES ASSUME TreeInv PROVE TreeSound
    OBVIOUS
  <2>1. Tree(disk, lost) /\ HeldInv(disk, file, cwd, busy)
    BY DEF TreeInv, SysInv
  <2>2. HeldIsAllocated
    BY <2>1 DEF HeldIsAllocated, HeldInv, OpenOn
  <2> QED
    BY <2>1, <2>2 DEF TreeSound, Tree
<1> QED
  BY <1>1, InitHolds, NextHolds, PTL DEF Spec

=============================================================================
