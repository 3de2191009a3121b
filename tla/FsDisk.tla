------------------------------- MODULE FsDisk -------------------------------
(* The file system on disk and what fs.c does to it inside one transaction:   *)
(* blocks, inodes, directories, path names.  A disk is a record; an operator  *)
(* returns the disk it leaves.  A file is a sequence of units: data units, or *)
(* directory entries; a block holds BSIZE units, or BSIZE block numbers when  *)
(* it is an indirect block.  Writes leave no holes (writei() refuses them),   *)
(* so the blocks of a file are a sequence too.                                *)
EXTENDS Integers, Sequences, FiniteSets, SequencesExt, FiniteSetsExt

CONSTANTS NINODES,   \* sb.ninodes: inodes are numbered from 1 and below it
          NBLOCKS,   \* data blocks of the disk
          BSIZE,     \* units in a block, and NINDIRECT
          NDIRECT,
          DIRSIZ     \* characters of a name that count

ASSUME DiskAssumption ==
  /\ NINODES \in Nat \ {0} /\ NBLOCKS \in Nat
  /\ BSIZE \in Nat \ {0} /\ NDIRECT \in Nat \ {0} /\ DIRSIZ \in Nat \ {0}

(* A sequence, whatever its elements.                                         *)
IsSeq(s) == s \in Seq({s[k] : k \in DOMAIN s})

Inum    == 1..(NINODES - 1)
Block   == 1..NBLOCKS
ROOTINO == 1
MAXFILE == NDIRECT + BSIZE

FreeInode == [type |-> "none", nlink |-> 0, data |-> <<>>, blocks |-> <<>>, ind |-> 0]

(* ino: the inodes, used: the bitmap, panic: the first panic() of the kernel. *)
EmptyDisk == [ino |-> [i \in Inum |-> FreeInode], used |-> {}, panic |-> "no"]

Panic(d, why) == IF d.panic = "no" THEN [d EXCEPT !.panic = why] ELSE d

Size(d, i) == Len(d.ino[i].data)

(* iupdate(): inode i becomes ip.                                             *)
Iupdate(d, i, ip) == [d EXCEPT !.ino = [d.ino EXCEPT ![i] = ip]]

-----------------------------------------------------------------------------
(* Blocks *)

(* balloc(), n times: each takes the first free block.                        *)
FreeBlocks(d) == Block \ d.used

Balloc(d, n) ==
  LET taken[k \in 0..n] == IF k = 0 THEN <<>>
                           ELSE Append(taken[k - 1], Min(FreeBlocks(d) \ ToSet(taken[k - 1])))
  IN  taken[n]

CeilDiv(n, m) == (n + m - 1) \div m

(* bmap() for every block of the first size units of inode i; the indirect    *)
(* block is allocated just before the first block it lists.                   *)
Grow(d, i, size) ==
  LET ip     == d.ino[i]
      have   == Len(ip.blocks)
      need   == Max({have, CeilDiv(size, BSIZE)}) - have
      indir  == ip.ind = 0 /\ have + need > NDIRECT
      before == Max({0, NDIRECT - have})
      n      == need + (IF indir THEN 1 ELSE 0)
      taken  == Balloc(d, n)
  IN  IF Cardinality(FreeBlocks(d)) < n THEN Panic(d, "balloc: out of blocks")
      ELSE Iupdate([d EXCEPT !.used = @ \cup ToSet(taken)], i,
                   [ip EXCEPT !.blocks = @ \o IF indir THEN RemoveAt(taken, before + 1) ELSE taken,
                              !.ind = IF indir THEN taken[before + 1] ELSE @])

BlocksOf(ip) == ToSet(ip.blocks) \cup (IF ip.ind = 0 THEN {} ELSE {ip.ind})

(* mutant: the block of indirect addresses itself is not freed *)
ItruncLeak(d, i) == Iupdate([d EXCEPT !.used = @ \ ToSet(d.ino[i].blocks)], i,
                            [d.ino[i] EXCEPT !.data = <<>>, !.blocks = <<>>, !.ind = 0])

(* itrunc(): bfree() of every block, which panics at one that is free.        *)
Itrunc(d, i) ==
  IF BlocksOf(d.ino[i]) \subseteq d.used
  THEN Iupdate([d EXCEPT !.used = @ \ BlocksOf(d.ino[i])], i,
               [d.ino[i] EXCEPT !.data = <<>>, !.blocks = <<>>, !.ind = 0])
  ELSE Panic(d, "freeing free block")

-----------------------------------------------------------------------------
(* Inodes *)

(* ialloc(): the first free inode; 0 and a panic if there is none.            *)
FreeInodes(d) == {i \in Inum : d.ino[i].type = "none"}

Ialloc(d, type) ==
  IF FreeInodes(d) = {} THEN [d |-> Panic(d, "ialloc: no inodes"), ip |-> 0]
  ELSE LET i == Min(FreeInodes(d))
       IN  [d |-> Iupdate(d, i, [FreeInode EXCEPT !.type = type]), ip |-> i]

(* iput() of a valid inode: it is freed if it has no links and the count of   *)
(* references, read before this one is taken off, shows no other.             *)
Iput(d, i, referenced) ==
  IF d.ino[i].nlink = 0 /\ d.ino[i].type # "none" /\ ~referenced
  THEN LET t == Itrunc(d, i) IN Iupdate(t, i, [t.ino[i] EXCEPT !.type = "none"])
  ELSE d

AddLinks(d, i, n) == Iupdate(d, i, [d.ino[i] EXCEPT !.nlink = @ + n])

(* readi() of n units from off; <<>> at the end.                              *)
Readi(d, i, off, n) == SubSeq(d.ino[i].data, off + 1, Min({off + n, Size(d, i)}))

(* writei() returns -1 and changes nothing where CanWrite is false.           *)
CanWrite(d, i, off, n) == off <= Size(d, i) /\ off + n <= MAXFILE * BSIZE

Writei(d, i, off, u) ==
  LET end  == off + Len(u)
      g    == Grow(d, i, end)
      data == [k \in 1..Max({end, Size(d, i)}) |->
                 IF k \in (off + 1)..end THEN u[k - off] ELSE d.ino[i].data[k]]
  IN  Iupdate(g, i, [g.ino[i] EXCEPT !.data = data])

-----------------------------------------------------------------------------
(* Directories *)

Dirent(name, i) == [name |-> name, inum |-> i]
NoDirent        == Dirent("", 0)

(* skipelem() keeps DIRSIZ characters of a path element.                      *)
TruncNone(name) == name   \* mutant
Trunc(name) == IF Len(name) > DIRSIZ THEN SubSeq(name, 1, DIRSIZ) ELSE name

Slots(d, dp, name) ==
  {k \in 1..Size(d, dp) : d.ino[dp].data[k].inum # 0 /\ d.ino[dp].data[k].name = name}

(* dirlookup(): the inode number, 0 if there is no such entry.                *)
Dirlookup(d, dp, name) ==
  IF Slots(d, dp, name) = {} THEN 0 ELSE d.ino[dp].data[Min(Slots(d, dp, name))].inum

(* dirlink() of a name that is not there: the first empty entry, or the end.  *)
EmptySlot(d, dp) ==
  Min({k \in 1..Size(d, dp) : d.ino[dp].data[k].inum = 0} \cup {Size(d, dp) + 1})

Dirlink(d, dp, name, i) ==
  LET off == EmptySlot(d, dp) - 1 IN
  IF CanWrite(d, dp, off, 1) THEN Writei(d, dp, off, <<Dirent(name, i)>>)
  ELSE Panic(d, "dirlink")

(* isdirempty(): "." and ".." are the first two entries.                      *)
IsDirEmpty(d, dp) == \A k \in 3..Size(d, dp) : d.ino[dp].data[k].inum = 0

(* The allocated inodes, the directories, the entries after "." and ".." of   *)
(* directory dp, and the names and the subdirectories of inode i.             *)
Allocated(d)   == Inum \ FreeInodes(d)
Dirs(d)        == {i \in Inum : d.ino[i].type = "dir"}
Entries(d, dp) == {k \in 3..Size(d, dp) : d.ino[dp].data[k].inum # 0}
Names(d, i)    == UNION {{dp} \X {k \in Entries(d, dp) : d.ino[dp].data[k].inum = i} : dp \in Dirs(d)}
Subdirs(d, i)  == {k \in Entries(d, i) : d.ino[i].data[k].inum \in Dirs(d)}

-----------------------------------------------------------------------------
(* Path names.  A path is a sequence of names; the first is "/" if it is      *)
(* absolute.  0: not found; Broken: ilock() met an inode without a type.      *)

Broken == -1

LookupStep(d, ip, name) ==
  CASE ip \in {0, Broken}         -> ip
    [] d.ino[ip].type = "none"    -> Broken
    [] d.ino[ip].type \notin {"none", "dir"} -> 0
    [] OTHER                      -> Dirlookup(d, ip, Trunc(name))

IsAbsolute(path) == path # <<>> /\ path[1] = "/"
Elems(path)      == IF IsAbsolute(path) THEN Tail(path) ELSE path
StartOf(cwd, path) == IF IsAbsolute(path) THEN ROOTINO ELSE cwd

Follow(d, ip, names) ==
  LET walk[n \in 0..Len(names)] == IF n = 0 THEN ip ELSE LookupStep(d, walk[n - 1], names[n])
  IN  walk[Len(names)]

(* namei(), up to and with the ilock() that every caller starts with.         *)
Namei(d, cwd, path) ==
  LET ip == Follow(d, StartOf(cwd, path), Elems(path))
  IN  IF ip > 0 /\ d.ino[ip].type = "none" THEN Broken ELSE ip

(* nameiparent(): the last element must be looked up in a directory.          *)
NameiParent(d, cwd, path) ==
  IF Elems(path) = <<>> THEN 0
  ELSE LET dp == Follow(d, StartOf(cwd, path), Front(Elems(path)))
       IN  CASE dp \in {0, Broken}           -> dp
             [] d.ino[dp].type = "none"      -> Broken
             [] OTHER -> IF d.ino[dp].type = "dir" THEN dp ELSE 0

LastName(path) == Trunc(Last(path))

-----------------------------------------------------------------------------
(* What makes a disk sound.  L: the inodes that Fs counts as lost.            *)

(* Inodes and blocks have the fields and ranges the code gives them (struct   *)
(* dinode); a freed inode is blank.                                           *)
DiskTypes(d) ==
  /\ d = [ino |-> d.ino, used |-> d.used, panic |-> d.panic] /\ d.used \subseteq Block
  /\ d.ino = [i \in Inum |-> d.ino[i]]
  /\ \A i \in Inum : LET ip == d.ino[i] IN
       /\ ip \in [type : {"none", "dir", "file", "dev"}, nlink : Nat, data : {ip.data},
                  blocks : Seq(Block), ind : Block \cup {0}]
       /\ IsSeq(ip.data) /\ Len(ip.data) <= MAXFILE * BSIZE
       /\ ip.type = "none" => ip = FreeInode

(* Every block belongs to at most one file, the bitmap marks exactly the      *)
(* blocks of files, and a file has the blocks its size calls for: balloc(),   *)
(* bmap() and itrunc() agree, across create, write, unlink, the last close    *)
(* and a crash.                                                               *)
BlocksAccounted(d) ==
  /\ d.used = UNION {BlocksOf(d.ino[i]) : i \in Inum}
  /\ \A i, j \in Inum : i # j => BlocksOf(d.ino[i]) \cap BlocksOf(d.ino[j]) = {}
  /\ \A i \in Inum : LET ip == d.ino[i] IN
       /\ Len(ip.blocks) = CeilDiv(Len(ip.data), BSIZE)
       /\ IsInjective(ip.blocks) /\ ip.ind \notin ToSet(ip.blocks)
       /\ ip.ind # 0 <=> Len(ip.blocks) > NDIRECT

(* nlink is what the directories say: the names of an inode, plus the ".." of *)
(* each subdirectory, plus the root's own; a count too low frees a file that  *)
(* still has a name, one too high never frees it (create, sys_link and its    *)
(* error path, sys_unlink).                                                   *)
Links(d, i) == Cardinality(Names(d, i)) + Cardinality(IF i \in Dirs(d) THEN Subdirs(d, i) ELSE {})
               + (IF i = ROOTINO THEN 1 ELSE 0)

LinkCounts(d, L) ==
  \A i \in Allocated(d) : d.ino[i].nlink >= Links(d, i) /\ (i \notin L => d.ino[i].nlink = Links(d, i))

(* "." is the directory itself and ".." some directory that was; every other  *)
(* entry names an allocated inode: no name of a freed inode is left.          *)
Directories(d) ==
  /\ ROOTINO \in Dirs(d)
  /\ \A dp \in Dirs(d) :
       /\ Size(d, dp) >= 2 /\ d.ino[dp].data[1] = Dirent(".", dp)
       /\ d.ino[dp].data[2].name = ".." /\ d.ino[dp].data[2].inum \in Inum
       /\ \A k \in Entries(d, dp) : d.ino[dp].data[k].inum \in Allocated(d) \ {dp, ROOTINO}

(* The directories form a tree: a directory has at most one name, and its     *)
(* ".." is the directory that names it, so that no chain of calls makes a     *)
(* cycle.                                                                     *)
TreeShape(d, L) ==
  \A i \in Dirs(d) \ L :
    IF i = ROOTINO THEN Names(d, i) = {} /\ d.ino[i].data[2].inum = ROOTINO
    ELSE \A dk \in Names(d, i) : Names(d, i) = {dk} /\ d.ino[i].data[2].inum = dk[1]

=============================================================================
