--------------------------------- MODULE Fs ---------------------------------
(* The file system calls: sysfile.c and file.c over the disk of FsDisk, with  *)
(* what fork(), exit() and a crash do to open files and working directories.  *)
(* A call is one step, a long write or an exit one step per transaction: the  *)
(* log makes a transaction atomic (Log) and locks keep it apart from others   *)
(* (InodeLocks has the steps inside).  A crash between two steps stands for     *)
(* every crash: it leaves the disk of some earlier commit, and no memory.     *)
EXTENDS FsDisk

CONSTANTS Proc, InitProc,  \* processes; the one that runs after boot
          NFILE, NOFILE,   \* open files of the system, descriptors of a process
          MAXWRITE,        \* units filewrite() writes in one transaction
          Disks,           \* disks that mkfs made
          Calls            \* bound: the calls that user programs make

ASSUME FsAssumption ==
  /\ Proc \subseteq Nat \ {0} /\ IsFiniteSet(Proc) /\ InitProc \in Proc
  /\ NFILE \in Nat \ {0} /\ NOFILE \in Nat \ {0} /\ MAXWRITE \in Nat \ {0}

ASSUME DisksAssumption ==
  \A d \in Disks :
    /\ d.panic = "no" /\ DiskTypes(d) /\ BlocksAccounted(d)
    /\ LinkCounts(d, {}) /\ Directories(d) /\ TreeShape(d, {})
    /\ \A i \in Allocated(d) \ {ROOTINO} : Names(d, i) # {}

ASSUME CallsAssumption ==
  \A c \in Calls :
    /\ c.op \in {"open", "mkdir", "mknod", "link", "unlink", "chdir"} => IsSeq(c.path)
    /\ c.op = "link" => IsSeq(c.new)
    /\ c.op = "write" => IsSeq(c.data)
    /\ c.op = "read" => c.n \in Nat

VARIABLES
  disk,
  file,   \* ftable.file
  ofile,  \* per process: descriptor -> file, 0 if closed
  cwd,    \* per process: an inode, 0 if there is no such process
  busy,   \* per process: what is left of a write, or of its exit
  ret,    \* the last result of a call: whose, the value, the data read;
          \* results are not recorded where p is 0
  lost    \* history: directories that got an entry after they were removed, what
          \* was named in or below them, and what was unlinked but in use when
          \* the machine stopped

vars == <<disk, file, ofile, cwd, busy, ret, lost>>

File == 1..NFILE
Fd   == 0..(NOFILE - 1)
Mode == {"create", "wronly", "rdwr"}   \* the flags of open(); none is O_RDONLY

NoFile == [ref |-> 0, type |-> "none", ip |-> 0, off |-> 0, r |-> FALSE, w |-> FALSE]
Idle   == [do |-> "nothing"]

Init ==
  /\ disk \in Disks
  /\ file = [f \in File |-> NoFile]
  /\ ofile = [p \in Proc |-> [fd \in Fd |-> 0]]
  /\ cwd = [p \in Proc |-> IF p = InitProc THEN ROOTINO ELSE 0]
  /\ busy = [p \in Proc |-> Idle]
  /\ ret \in [p : {0, InitProc}, n : {0}, data : {<<>>}]
  /\ lost = {}

Halted == disk.panic # "no"

(* Process p can make a call.                                                 *)
Ready(p) == ~Halted /\ cwd[p] # 0 /\ busy[p] = Idle

Result(p, n, u) == ret' = IF ret.p = 0 THEN ret ELSE [p |-> p, n |-> n, data |-> u]
Returns(p, n)  == Result(p, n, <<>>)
Fails(p)       == Returns(p, -1) /\ UNCHANGED <<disk, file, ofile, cwd, busy, lost>>
Halts(why)     == disk' = Panic(disk, why) /\ UNCHANGED <<file, ofile, cwd, busy, ret, lost>>
NoType         == Halts("ilock: no type")

(* The transaction leaves disk d, and named are new to lost; a panic in it    *)
(* leaves the disk as it was.                                                 *)
Leaves(d, named) ==
  /\ disk' = IF d.panic = "no" THEN d ELSE Panic(disk, d.panic)
  /\ lost' = (lost \cup named) \ FreeInodes(disk')

(* An open file or a working directory refers to inode i.                     *)
FileHolds(f, i) == \E k \in File : f[k].ref > 0 /\ f[k].type = "inode" /\ f[k].ip = i
CwdHolds(c, i)  == \E p \in Proc : c[p] = i
Held(i)         == FileHolds(file, i) \/ CwdHolds(cwd, i)

(* So may a call that another process is in the middle of: it has the inode   *)
(* on its path, or iput() has read the count for it and is still to take its  *)
(* own reference off.  Two processes that give up the last references at once *)
(* see each other's, and neither frees the inode.                             *)
OthersMayRefer(p) == IF \E q \in Proc \ {p} : cwd[q] # 0 THEN BOOLEAN ELSE {FALSE}

-----------------------------------------------------------------------------
(* create().  An entry in a directory that has been removed but is still some *)
(* working directory goes when the directory goes.                            *)

Removed(dp) == disk.ino[dp].nlink = 0 \/ dp \in lost

Created(p, path, type) ==
  LET dp   == NameiParent(disk, cwd[p], path)
      name == LastName(path)
      old  == Dirlookup(disk, dp, name)
      new  == Ialloc(disk, type)
      d1   == AddLinks(new.d, new.ip, 1)
      d2   == IF type # "dir" THEN d1
              ELSE Dirlink(Dirlink(AddLinks(d1, dp, 1), new.ip, ".", new.ip), new.ip, "..", dp)
      nil  == [d |-> disk, ip |-> 0, orphan |-> {}]
  IN  CASE dp = 0      -> nil
        [] dp = Broken -> [nil EXCEPT !.d = Panic(disk, "ilock: no type")]
        [] dp > 0 /\ old # 0 ->
             IF disk.ino[old].type = "none" THEN [nil EXCEPT !.d = Panic(disk, "ilock: no type")]
             ELSE IF type = "file" /\ disk.ino[old].type = "file" THEN [nil EXCEPT !.ip = old]
             ELSE nil
        [] OTHER ->
             IF new.ip = 0 THEN [nil EXCEPT !.d = new.d]
             ELSE [d |-> Dirlink(d2, dp, name, new.ip), ip |-> new.ip,
                   orphan |-> IF Removed(dp) THEN {dp, new.ip} ELSE {}]

FreeFile(f)  == {k \in File : f[k].ref = 0}
FreeFd(p)    == {fd \in Fd : ofile[p][fd] = 0}

OpenTarget(p, path, mode) ==
  IF "create" \in mode THEN Created(p, path, "file")
  ELSE LET ip == Namei(disk, cwd[p], path)
       IN  [d |-> IF ip = Broken THEN Panic(disk, "ilock: no type") ELSE disk,
            ip |-> IF ip <= 0 THEN 0
                   ELSE IF disk.ino[ip].type = "dir" /\ mode # {} THEN 0 ELSE ip,
            orphan |-> {}]

(* sys_open(); a file it created stays when there is no descriptor for it.    *)
SysOpen(p, path, mode) ==
  LET t == OpenTarget(p, path, mode)
      f == Min(FreeFile(file))
      fd == Min(FreeFd(p)) IN
  /\ Ready(p)
  /\ Leaves(t.d, t.orphan)
  /\ IF t.d.panic = "no" /\ t.ip # 0 /\ FreeFile(file) # {} /\ FreeFd(p) # {}
     THEN /\ file' = [file EXCEPT ![f] = [ref |-> 1, type |-> "inode", ip |-> t.ip, off |-> 0,
                                          r |-> "wronly" \notin mode,
                                          w |-> mode \cap {"wronly", "rdwr"} # {}]]
          /\ ofile' = [ofile EXCEPT ![p][fd] = f]
          /\ Returns(p, fd)
     ELSE Returns(p, -1) /\ UNCHANGED <<file, ofile>>
  /\ UNCHANGED <<cwd, busy>>

(* sys_mkdir() and sys_mknod().                                               *)
Make(p, path, type) ==
  LET t == Created(p, path, type) IN
  /\ Ready(p)
  /\ Leaves(t.d, t.orphan)
  /\ Returns(p, IF t.ip = 0 THEN -1 ELSE 0)
  /\ UNCHANGED <<file, ofile, cwd, busy>>

SysMkdir(p, path) == Make(p, path, "dir")
SysMknod(p, path) == Make(p, path, "dev")

-----------------------------------------------------------------------------
(* sys_link(): the count goes up first, and down again if the entry cannot be *)
(* written.  dirlink() calls iput() on what it finds under the name; if that  *)
(* is the directory it has locked ("."), the process waits for itself.        *)

(* Mutant: the count of a failed link() stays.                               *)
LinkKept(d, ip) == d

Linkable(ip)    == disk.ino[ip].type # "dir"
LinkUndone(d, ip) == AddLinks(d, ip, -1)

Linked(p, ip, path) ==
  LET d1   == AddLinks(disk, ip, 1)
      dp   == NameiParent(d1, cwd[p], path)
      name == LastName(path)
  IN  CASE dp = Broken -> Panic(disk, "ilock: no type")
        [] dp = 0      -> LinkUndone(d1, ip)
        [] dp > 0 /\ Dirlookup(d1, dp, name) = dp -> Panic(disk, "iput: sleeps on its own lock")
        [] dp > 0 /\ Dirlookup(d1, dp, name) \notin {0, dp} -> LinkUndone(d1, ip)
        [] OTHER       -> Dirlink(d1, dp, name, ip)

SysLink(p, old, new) ==
  LET ip == Namei(disk, cwd[p], old)
      d  == Linked(p, ip, new)
      dp == NameiParent(AddLinks(disk, ip, 1), cwd[p], new) IN
  /\ Ready(p)
  /\ CASE ip = Broken -> NoType
       [] ip = 0      -> Fails(p)
       [] ip > 0 /\ ~Linkable(ip) -> Fails(p)
       [] OTHER ->
            /\ Leaves(d, IF d # disk /\ Removed(dp) THEN {dp, ip} ELSE {})
            /\ Returns(p, IF d = disk THEN -1 ELSE 0)
            /\ UNCHANGED <<file, ofile, cwd, busy>>

(* sys_unlink()                                                               *)
Removable(ip) == disk.ino[ip].type = "dir" => IsDirEmpty(disk, ip)

SysUnlink(p, path) ==
  LET dp   == NameiParent(disk, cwd[p], path)
      name == LastName(path)
      ip   == Dirlookup(disk, dp, name)
      off  == Min(Slots(disk, dp, name)) - 1
      d1   == Writei(disk, dp, off, <<NoDirent>>)
      d2   == AddLinks(d1, dp, IF disk.ino[ip].type = "dir" THEN -1 ELSE 0)
      d3(o) == AddLinks(Iput(d2, dp, Held(dp) \/ o), ip, -1) IN
  /\ Ready(p)
  /\ CASE dp = Broken -> NoType
       [] dp = 0      -> Fails(p)
       [] dp > 0 /\ name \in {".", ".."} -> Fails(p)
       [] dp > 0 /\ name \notin {".", ".."} /\ ip = 0 -> Fails(p)
       [] OTHER ->
            IF disk.ino[ip].type = "none" THEN NoType
            ELSE IF disk.ino[ip].nlink < 1 THEN Halts("unlink: nlink < 1")
            ELSE IF ~Removable(ip) THEN Fails(p)
            ELSE /\ \E o1, o2 \in OthersMayRefer(p) : Leaves(Iput(d3(o1), ip, Held(ip) \/ o2), {})
                 /\ Returns(p, 0)
                 /\ UNCHANGED <<file, ofile, cwd, busy>>

(* sys_chdir(): the old working directory may go with its last reference.     *)
CwdLeft(p, other) == Iput(disk, cwd[p], FileHolds(file, cwd[p]) \/ CwdHolds(cwd', cwd[p]) \/ other)

SysChdir(p, path) ==
  LET ip == Namei(disk, cwd[p], path) IN
  /\ Ready(p)
  /\ CASE ip = Broken -> NoType
       [] ip = 0      -> Fails(p)
       [] ip > 0 /\ disk.ino[ip].type # "dir" -> Fails(p)
       [] OTHER ->
            /\ cwd' = [cwd EXCEPT ![p] = ip]
            /\ \E o \in OthersMayRefer(p) : Leaves(CwdLeft(p, o), {})
            /\ Returns(p, 0)
            /\ UNCHANGED <<file, ofile, busy>>

-----------------------------------------------------------------------------
(* Descriptors *)

IsOpen(p, fd) == fd \in Fd /\ ofile[p][fd] # 0

(* fileclose() of file k: the files and the disk it leaves.                   *)
Dropped(k)    == [file EXCEPT ![k] = IF file[k].ref > 1 THEN [file[k] EXCEPT !.ref = @ - 1] ELSE NoFile]
DiskAfter(k, other) ==
  IF file[k].ref = 1 /\ file[k].type = "inode"
  THEN Iput(disk, file[k].ip, FileHolds(Dropped(k), file[k].ip) \/ CwdHolds(cwd, file[k].ip) \/ other)
  ELSE disk

SysClose(p, fd) ==
  /\ Ready(p)
  /\ IF ~IsOpen(p, fd) THEN Fails(p)
     ELSE /\ ofile' = [ofile EXCEPT ![p][fd] = 0]
          /\ file' = Dropped(ofile[p][fd])
          /\ \E o \in OthersMayRefer(p) : Leaves(DiskAfter(ofile[p][fd], o), {})
          /\ Returns(p, 0)
          /\ UNCHANGED <<cwd, busy>>

SysDup(p, fd) ==
  /\ Ready(p)
  /\ IF ~IsOpen(p, fd) \/ FreeFd(p) = {} THEN Fails(p)
     ELSE /\ ofile' = [ofile EXCEPT ![p][Min(FreeFd(p))] = ofile[p][fd]]
          /\ file' = [file EXCEPT ![ofile[p][fd]].ref = @ + 1]
          /\ Returns(p, Min(FreeFd(p)))
          /\ UNCHANGED <<disk, cwd, busy, lost>>

(* sys_pipe(): two files and two descriptors, or nothing.                     *)
SysPipe(p) ==
  /\ Ready(p)
  /\ IF Cardinality(FreeFile(file)) < 2 \/ Cardinality(FreeFd(p)) < 2 THEN Fails(p)
     ELSE LET rf == Min(FreeFile(file))
              wf == Min(FreeFile(file) \ {rf})
              fd0 == Min(FreeFd(p))
              fd1 == Min(FreeFd(p) \ {fd0})
              end(r) == [NoFile EXCEPT !.ref = 1, !.type = "pipe", !.r = r, !.w = ~r] IN
          /\ file' = [file EXCEPT ![rf] = end(TRUE), ![wf] = end(FALSE)]
          /\ ofile' = [ofile EXCEPT ![p][fd0] = rf, ![p][fd1] = wf]
          /\ Returns(p, 0)
          /\ UNCHANGED <<disk, cwd, busy, lost>>

(* sys_fstat(): the inode it shows is in disk.                                *)
SysFstat(p, fd) ==
  /\ Ready(p)
  /\ Returns(p, IF IsOpen(p, fd) /\ file[ofile[p][fd]].type = "inode" THEN 0 ELSE -1)
  /\ UNCHANGED <<disk, file, ofile, cwd, busy, lost>>

(* fileread() and filewrite() of an inode.  Pipes are in Pipe; a device in    *)
(* these disks has no driver.                                                 *)
Inode(p, fd) == disk.ino[file[ofile[p][fd]].ip]

SysRead(p, fd, n) ==
  LET k == ofile[p][fd]
      u == Readi(disk, file[k].ip, file[k].off, n) IN
  /\ Ready(p)
  /\ IsOpen(p, fd) => file[k].type = "inode"
  /\ IF ~IsOpen(p, fd) THEN Fails(p)
     ELSE IF ~file[k].r \/ Inode(p, fd).type = "dev" \/ file[k].off > Len(Inode(p, fd).data) THEN Fails(p)
     ELSE /\ file' = [file EXCEPT ![k].off = @ + Len(u)]
          /\ Result(p, Len(u), u)
          /\ UNCHANGED <<disk, ofile, cwd, busy, lost>>

SysWrite(p, fd, u) ==
  /\ Ready(p)
  /\ IsOpen(p, fd) => file[ofile[p][fd]].type = "inode"
  /\ IF ~IsOpen(p, fd) THEN Fails(p)
     ELSE IF ~file[ofile[p][fd]].w THEN Fails(p)
     ELSE /\ busy' = [busy EXCEPT ![p] = [do |-> "write", f |-> ofile[p][fd], u |-> u, n |-> Len(u)]]
          /\ UNCHANGED <<disk, file, ofile, cwd, ret, lost>>

(* One turn of the loop in filewrite(), or its end.                           *)
WriteTxn(p) ==
  LET b  == busy[p]
      n1 == Min({MAXWRITE, Len(b.u)})
      f  == file[b.f]
      d  == Writei(disk, f.ip, f.off, SubSeq(b.u, 1, n1)) IN
  /\ ~Halted /\ b.do = "write"
  /\ IF b.u = <<>> THEN
          /\ Returns(p, b.n) /\ busy' = [busy EXCEPT ![p] = Idle]
          /\ UNCHANGED <<disk, file, ofile, cwd, lost>>
     ELSE IF disk.ino[f.ip].type = "dev" \/ ~CanWrite(disk, f.ip, f.off, n1) THEN
          /\ Returns(p, -1) /\ busy' = [busy EXCEPT ![p] = Idle]
          /\ UNCHANGED <<disk, file, ofile, cwd, lost>>
     ELSE IF d.panic # "no" THEN Halts(d.panic)
     ELSE /\ Leaves(d, {})
          /\ file' = [file EXCEPT ![b.f].off = @ + n1]
          /\ busy' = [busy EXCEPT ![p].u = SubSeq(@, n1 + 1, Len(@))]
          /\ UNCHANGED <<ofile, cwd, ret>>

-----------------------------------------------------------------------------
(* Processes, and the machine *)

(* fork(): filedup() of every descriptor, idup() of the working directory.    *)
SharedOnce(p, f) == IF \E fd \in Fd : ofile[p][fd] = f THEN 1 ELSE 0   \* mutant
Shared(p, f) == Cardinality({fd \in Fd : ofile[p][fd] = f})

Absent == {q \in Proc : cwd[q] = 0}

Fork(p) ==
  LET q == Min(Absent) IN
  /\ Ready(p) /\ Absent # {}
  /\ file' = [f \in File |-> [file[f] EXCEPT !.ref = @ + Shared(p, f)]]
  /\ ofile' = [ofile EXCEPT ![q] = ofile[p]]
  /\ cwd' = [cwd EXCEPT ![q] = cwd[p]]
  /\ Returns(p, 0)
  /\ UNCHANGED <<disk, busy, lost>>

Exit(p) ==
  /\ Ready(p) /\ p # InitProc
  /\ busy' = [busy EXCEPT ![p] = [do |-> "exit"]]
  /\ UNCHANGED <<disk, file, ofile, cwd, ret, lost>>

ExitStep(p) ==
  LET fds == Fd \ FreeFd(p) IN
  /\ ~Halted /\ busy[p].do = "exit"
  /\ IF fds # {} THEN
          /\ ofile' = [ofile EXCEPT ![p][Min(fds)] = 0]
          /\ file' = Dropped(ofile[p][Min(fds)])
          /\ \E o \in OthersMayRefer(p) : Leaves(DiskAfter(ofile[p][Min(fds)], o), {})
          /\ UNCHANGED <<cwd, busy>>
     ELSE /\ cwd' = [cwd EXCEPT ![p] = 0]
          /\ busy' = [busy EXCEPT ![p] = Idle]
          /\ \E o \in OthersMayRefer(p) : Leaves(CwdLeft(p, o), {})
          /\ UNCHANGED <<file, ofile>>
  /\ UNCHANGED ret

(* The call that iput() left the inode to comes to its own iput().  It may    *)
(* not: then it saw a reference too, and the inode stays until the disk is    *)
(* made again.                                                                *)
Unlinked(d) == {i \in Inum : d.ino[i].type # "none" /\ d.ino[i].nlink = 0}

OthersIput(i) ==
  /\ ~Halted /\ i \in Unlinked(disk) \ lost /\ ~Held(i)
  /\ Leaves(Iput(disk, i, FALSE), {})
  /\ UNCHANGED <<file, ofile, cwd, busy, ret>>

(* The machine stops and boots again.  Nothing looks for inodes without links *)
(* at boot.                                                                   *)
Crash ==
  /\ ~Halted
  /\ file' = [f \in File |-> NoFile]
  /\ ofile' = [p \in Proc |-> [fd \in Fd |-> 0]]
  /\ cwd' = [p \in Proc |-> IF p = InitProc THEN ROOTINO ELSE 0]
  /\ busy' = [p \in Proc |-> Idle]
  /\ lost' = lost \cup Unlinked(disk)
  /\ UNCHANGED <<disk, ret>>

-----------------------------------------------------------------------------

(* A system call of p.  c: its number and arguments.                          *)
Do(p, c) ==
  \/ c.op = "open"   /\ SysOpen(p, c.path, c.mode)
  \/ c.op = "mkdir"  /\ SysMkdir(p, c.path)
  \/ c.op = "mknod"  /\ SysMknod(p, c.path)
  \/ c.op = "link"   /\ SysLink(p, c.path, c.new)
  \/ c.op = "unlink" /\ SysUnlink(p, c.path)
  \/ c.op = "chdir"  /\ SysChdir(p, c.path)
  \/ c.op = "close"  /\ SysClose(p, c.fd)
  \/ c.op = "dup"    /\ SysDup(p, c.fd)
  \/ c.op = "pipe"   /\ SysPipe(p)
  \/ c.op = "fstat"  /\ SysFstat(p, c.fd)
  \/ c.op = "read"   /\ SysRead(p, c.fd, c.n)
  \/ c.op = "write"  /\ SysWrite(p, c.fd, c.data)
  \/ c.op = "fork"   /\ Fork(p)
  \/ c.op = "exit"   /\ Exit(p)

Next ==
  \/ \E p \in Proc : WriteTxn(p) \/ ExitStep(p) \/ \E c \in Calls : Do(p, c)
  \/ \E i \in Inum : OthersIput(i)
  \/ [op |-> "crash"] \in Calls /\ Crash
  \/ Halted /\ UNCHANGED vars

Spec == Init /\ [][Next]_vars

-----------------------------------------------------------------------------

(* A descriptor is closed or names an open file (struct file), and a freed    *)
(* file is blank; a process that is not there has no descriptors, and a write *)
(* under way has one for its file, which cannot be closed or reused under it. *)
TablesOK ==
  /\ ofile \in [Proc -> [Fd -> File \cup {0}]]
  /\ \A f \in File : file[f].ref = 0 => file[f] = NoFile
  /\ \A p \in Proc : cwd[p] = 0 => busy[p] = Idle /\ \A fd \in Fd : ofile[p][fd] = 0
  /\ \A p \in Proc : busy[p].do = "write" =>
       busy[p].f \in File /\ \E fd \in Fd : ofile[p][fd] = busy[p].f

(* What a descriptor or a working directory refers to is allocated, and an    *)
(* offset is never beyond the end of its file: no close or unlink of another  *)
(* process takes it away, and readi() cannot fail.                            *)
HeldIsAllocated ==
  /\ \A p \in Proc : cwd[p] # 0 => cwd[p] \in Dirs(disk)
  /\ \A f \in File : file[f].type = "inode" =>
       file[f].ip \in Allocated(disk) /\ file[f].off <= Size(disk, file[f].ip)

(* The reference count of an open file is the number of its descriptors:      *)
(* dup(), fork(), close(), exit() and the error paths of open() and pipe().   *)
FileRefs ==
  \A f \in File : file[f].ref =
     Cardinality({pf \in Proc \X Fd : ofile[pf[1]][pf[2]] = f})

(* The panics that stand for a corrupted file system never happen; the ones   *)
(* left are a full disk and the two of findings.                              *)
NeverCorrupt ==
  disk.panic \in {"no", "ialloc: no inodes", "balloc: out of blocks", "dirlink",
                 "ilock: no type", "iput: sleeps on its own lock"}

(* ilock() panics when the inode it locks is not allocated (fs.c:309): every  *)
(* path the kernel walks should lead to allocated inodes.                     *)
LockedHasType == disk.panic # "ilock: no type"

(* The disk is sound between any two calls, whichever failed and wherever the *)
(* machine stopped: fields, bitmap and sizes agree with each other, and no    *)
(* panic for a corrupted disk is met.                                         *)
DiskSound == DiskTypes(disk) /\ BlocksAccounted(disk) /\ NeverCorrupt

(* So is the tree of directories: link counts and names agree, no name leads  *)
(* to a freed inode, and the last of unlink(), close(), chdir() and exit()    *)
(* frees an inode only when nothing refers to it, in any order (iput).        *)
TreeSound ==
  LinkCounts(disk, lost) /\ Directories(disk) /\ TreeShape(disk, lost) /\ HeldIsAllocated

(* So are the tables of descriptors and open files.                           *)
RefsSound == TablesOK /\ FileRefs

=============================================================================
