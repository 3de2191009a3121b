----------------------------- MODULE InodeLocks -----------------------------
(* The inode cache and the sleep locks of inodes: the calls of sysfile.c with *)
(* the steps between which another process can run.  A call is a sequence of  *)
(* such steps, todo; a step may put others in front of what is left.  ip, dp  *)
(* and old are the references a call holds, slots of the cache.  Contents of  *)
(* files and blocks are in Fs.                                                *)
EXTENDS Integers, Sequences, FiniteSets, FiniteSetsExt

CONSTANTS Caller,    \* processes
          NINODE,    \* slots of the inode cache
          INODES,    \* inodes of the disk, numbered from 1
          Name,      \* names a directory may have besides "." and ".."
          NameCalls, \* bounds: the calls processes make,
          MaxCalls   \* and how many each of them makes

ASSUME InodeAssumption ==
  NINODE \in Nat \ {0} /\ INODES \in Nat \ {0} /\ MaxCalls \in Nat

VARIABLES
  dinode,  \* the inodes, as on the disk: changes are written through
  slot,    \* icache.inode
  todo,    \* per process: the steps left of its call
  reg,     \* per process: the slots its call refers to, and fd and cwd
  calls,   \* per process: calls left
  panic,   \* the first panic
  buried,  \* history: inodes named in a directory that was already removed
  strayed  \* history: the ".." of a directory that was already removed was used

nameVars == <<dinode, slot, todo, reg, calls, panic, buried, strayed>>

Ino == 1..INODES
CacheSlot == 1..NINODE
ROOT == 1
Free == [type |-> "none", nlink |-> 0, ents |-> [n \in Name |-> 0], dotdot |-> 0]
Register == {"ip", "dp", "old", "fd", "cwd"}

(* A disk with a directory "d" and "d/a", a file or a directory; everyone     *)
(* works in the root.                                                         *)
NamesInit ==
  /\ \E dir \in {0, 1} : dinode = [i \in Ino |->
       CASE i = 1 -> [Free EXCEPT !.type = "dir", !.nlink = 2, !.ents["d"] = 2, !.dotdot = 1]
         [] i = 2 -> [Free EXCEPT !.type = "dir", !.nlink = 1 + dir, !.ents["a"] = 3, !.dotdot = 1]
         [] i = 3 -> [Free EXCEPT !.type = IF dir = 1 THEN "dir" ELSE "file", !.nlink = 1, !.dotdot = 2 * dir]
         [] OTHER -> Free]
  /\ slot = [s \in CacheSlot |-> [inum |-> IF s = 1 THEN ROOT ELSE 0, valid |-> s = 1,
                                  ref |-> IF s = 1 THEN Cardinality(Caller) ELSE 0, lock |-> {}]]
  /\ todo = [p \in Caller |-> <<>>]
  /\ reg = [p \in Caller |-> [r \in Register |-> IF r = "cwd" THEN 1 ELSE 0]]
  /\ calls = [p \in Caller |-> MaxCalls]
  /\ panic = "no"
  /\ buried = {} /\ strayed = FALSE

-----------------------------------------------------------------------------
(* Steps of a call *)

Lock(r)   == [do |-> "lock", r |-> r]
Unlock(r) == [do |-> "unlock", r |-> r]
OnIp(do)  == [do |-> do, r |-> "ip"]

(* iput(), then iunlockput().                                                 *)
Put(r)       == <<[do |-> "put", r |-> r], [do |-> "free", r |-> r], [do |-> "drop", r |-> r]>>
UnlockPut(r) == <<Unlock(r)>> \o Put(r)

(* namex() into register r; fail is what the call does when it returns 0.     *)
Walk(r, names, parent, fail) ==
  [do |-> "walk", r |-> r, names |-> names, parent |-> parent, fail |-> fail]

At(p, do) == panic = "no" /\ todo[p] # <<>> /\ Head(todo[p]).do = do
Now(p)    == Head(todo[p])
Rest(p)   == Tail(todo[p])
Then(p, steps)  == todo' = [todo EXCEPT ![p] = steps \o Rest(p)]
Becomes(p, steps) == todo' = [todo EXCEPT ![p] = steps]

Of(p, r)   == slot[reg[p][r]]           \* the slot in a register
InodeIn(p, r) == dinode[Of(p, r).inum]
SetReg(p, r, s) == reg' = [reg EXCEPT ![p][r] = s]

(* iget(): the slot of inode i, or an empty one; 0 and a panic without one.   *)
Cached(i) == {s \in CacheSlot : slot[s].ref > 0 /\ slot[s].inum = i}
Empty     == {s \in CacheSlot : slot[s].ref = 0}
IgetSlot(i) == IF Cached(i) # {} THEN Min(Cached(i)) ELSE IF Empty # {} THEN Min(Empty) ELSE 0

Iget(i) ==
  LET s == IgetSlot(i) IN
  /\ slot' = IF Cached(i) # {} THEN [slot EXCEPT ![s].ref = @ + 1]
             ELSE IF Empty # {}
             THEN [slot EXCEPT ![s] = [inum |-> i, ref |-> 1, valid |-> FALSE, lock |-> {}]]
             ELSE slot
  /\ panic' = IF s = 0 THEN "iget: no inodes" ELSE panic

LockFree(s)    == slot[s].lock = {}   \* acquiresleep() goes on

(* ilock(): reads the inode the first time.                                   *)
Ilock(p) ==
  LET s == reg[p][Now(p).r] IN
  /\ At(p, "lock")
  /\ LockFree(s)
  /\ slot' = [slot EXCEPT ![s].lock = @ \cup {p}, ![s].valid = TRUE]
  /\ panic' = IF dinode[slot[s].inum].type = "none" THEN "ilock: no type" ELSE panic
  /\ Then(p, <<>>)
  /\ UNCHANGED <<dinode, reg, calls, buried, strayed>>

Iunlock(p) ==
  /\ At(p, "unlock")
  /\ slot' = [slot EXCEPT ![reg[p][Now(p).r]].lock = {}]
  /\ Then(p, <<>>)
  /\ UNCHANGED <<dinode, reg, calls, panic, buried, strayed>>

(* iput(): it takes the lock and looks at ref; it frees the inode and         *)
(* releases the lock; it drops the reference.                                 *)
LastRefShared(s)   == slot[s].valid /\ dinode[slot[s].inum].nlink = 0   \* mutant
LastRef(s) == slot[s].valid /\ dinode[slot[s].inum].nlink = 0 /\ slot[s].ref = 1

IputLook(p) ==
  LET s == reg[p][Now(p).r] IN
  /\ At(p, "put")
  /\ LockFree(s)
  /\ slot' = [slot EXCEPT ![s].lock = @ \cup {p}]
  /\ todo' = [todo EXCEPT ![p] = IF LastRef(s) THEN Rest(p)
                                 ELSE <<Unlock(Now(p).r)>> \o Tail(Rest(p))]
  /\ UNCHANGED <<dinode, reg, calls, panic, buried, strayed>>

IputFree(p) ==
  LET s == reg[p][Now(p).r] IN
  /\ At(p, "free")
  /\ dinode' = [dinode EXCEPT ![slot[s].inum] = Free]
  /\ slot' = [slot EXCEPT ![s].valid = FALSE, ![s].lock = {}]
  /\ Then(p, <<>>)
  /\ UNCHANGED <<reg, calls, panic, buried, strayed>>

IputDrop(p) ==
  /\ At(p, "drop")
  /\ slot' = [slot EXCEPT ![reg[p][Now(p).r]].ref = @ - 1]
  /\ SetReg(p, Now(p).r, 0)
  /\ Then(p, <<>>)
  /\ UNCHANGED <<dinode, calls, panic, buried, strayed>>

-----------------------------------------------------------------------------
(* namex(): it starts at the working directory, idup(), and goes on from a    *)
(* directory it has locked.                                                   *)
WalkStart(p) ==
  LET w == Now(p) IN
  /\ At(p, "walk")
  /\ slot' = [slot EXCEPT ![reg[p]["cwd"]].ref = @ + 1]
  /\ SetReg(p, w.r, reg[p]["cwd"])
  /\ Then(p, IF w.names = <<>> THEN <<>> ELSE <<Lock(w.r), [w EXCEPT !.do = "elem"]>>)
  /\ UNCHANGED <<dinode, calls, panic, buried, strayed>>

(* The inode an element of a path names in directory d: dirlookup().          *)
Lookup(d, i, name) ==
  CASE name = "."  -> i
    [] name = ".." -> d.dotdot
    [] OTHER       -> d.ents[name]

(* ".." of a removed directory: what it names may be gone, too.               *)
Strays(d, name) == strayed' = (strayed \/ (name = ".." /\ d.nlink = 0))

WalkElem(p) ==
  LET w    == Now(p)
      d    == InodeIn(p, w.r)
      next == Lookup(d, Of(p, w.r).inum, Head(w.names))
      rest == [w EXCEPT !.names = Tail(@)]
      stop == w.parent /\ Len(w.names) = 1 IN
  /\ At(p, "elem")
  /\ \/ /\ d.type = "dir" /\ stop
        /\ Then(p, <<Unlock(w.r)>>)
        /\ UNCHANGED <<slot, reg, panic, strayed>>
     \/ /\ d.type # "dir" \/ (next = 0 /\ ~stop)
        /\ Becomes(p, UnlockPut(w.r) \o w.fail)
        /\ UNCHANGED <<slot, reg, panic, strayed>>
     \/ /\ d.type = "dir" /\ next # 0 /\ ~stop
        /\ Iget(next)
        /\ Strays(d, Head(w.names))
        /\ reg' = [reg EXCEPT ![p]["old"] = reg[p][w.r], ![p][w.r] = IgetSlot(next)]
        /\ Then(p, UnlockPut("old") \o IF rest.names = <<>> THEN <<>> ELSE <<Lock(w.r), rest>>)
  /\ UNCHANGED <<dinode, calls, buried>>

-----------------------------------------------------------------------------
(* The calls.  c.name is the last element of its path.                        *)

Parent(c, fail) == Walk("dp", c.path, TRUE, fail)
Target(c)       == Walk("ip", c.path, FALSE, <<>>)
BadNoPut        == <<Lock("ip"), OnIp("unlink1"), Unlock("ip")>>             \* mutant
Bad             == <<Lock("ip"), OnIp("unlink1"), Unlock("ip")>> \o Put("ip")

Steps(c) ==
  CASE c.op = "create" -> <<Parent(c, <<>>), Lock("dp"), [do |-> "create", r |-> "dp", c |-> c]>>
    [] c.op = "mkdir"  -> <<Parent(c, <<>>), Lock("dp"), [do |-> "create", r |-> "dp", c |-> c]>>
    [] c.op = "unlink" -> <<Parent(c, <<>>), Lock("dp"), [do |-> "unlink", r |-> "dp", c |-> c]>>
    [] c.op = "link"   -> <<Target(c), Lock("ip"), [do |-> "link", r |-> "ip", c |-> c.new]>>
    [] c.op = "open"   -> <<Target(c), Lock("ip"), OnIp("opened")>>
    [] c.op = "chdir"  -> <<Target(c), Lock("ip"), OnIp("chdir")>>
    [] c.op = "close"  -> <<>>

LastOf(c) == c.path[Len(c.path)]

(* A process starts a call.  A call that opens needs a free descriptor here.  *)
Call(p) ==
  \E c \in NameCalls :
    /\ panic = "no" /\ todo[p] = <<>> /\ calls[p] > 0
    /\ c.op \in {"create", "open"} => reg[p]["fd"] = 0
    /\ c.op = "close" => reg[p]["fd"] # 0
    /\ calls' = [calls EXCEPT ![p] = @ - 1]
    /\ IF c.op = "close"
       THEN /\ reg' = [reg EXCEPT ![p]["ip"] = reg[p]["fd"], ![p]["fd"] = 0]
            /\ Becomes(p, Put("ip"))
       ELSE Becomes(p, Steps(c)) /\ UNCHANGED reg
    /\ UNCHANGED <<dinode, slot, panic, buried, strayed>>

(* create(), after ilock(dp): an inode under that name, or a new one.         *)
Create(p) ==
  LET c     == Now(p).c
      found == Lookup(InodeIn(p, "dp"), Of(p, "dp").inum, LastOf(c))
      new   == {i \in Ino : dinode[i].type = "none"} IN
  /\ At(p, "create")
  /\ \/ /\ found # 0
        /\ Iget(found)
        /\ Strays(InodeIn(p, "dp"), LastOf(c))
        /\ SetReg(p, "ip", IgetSlot(found))
        /\ Then(p, UnlockPut("dp") \o <<Lock("ip"), [Now(p) EXCEPT !.do = "found"]>>)
        /\ UNCHANGED dinode
     \/ /\ found = 0 /\ new # {}
        /\ dinode' = [dinode EXCEPT ![Min(new)].type = IF c.op = "mkdir" THEN "dir" ELSE "file"]
        /\ Iget(Min(new))
        /\ SetReg(p, "ip", IgetSlot(Min(new)))
        /\ Then(p, <<Lock("ip"), [Now(p) EXCEPT !.do = "fill"]>>)
        /\ UNCHANGED strayed
     \/ /\ found = 0 /\ new = {}
        /\ panic' = "ialloc: no inodes"
        /\ UNCHANGED <<dinode, slot, reg, todo, strayed>>
  /\ UNCHANGED <<calls, buried>>

(* create() of a name that is there: a file is opened, all else fails.        *)
CreateFound(p) ==
  /\ At(p, "found")
  /\ Then(p, IF Now(p).c.op = "create" /\ InodeIn(p, "ip").type = "file" THEN <<OnIp("opened")>>
             ELSE UnlockPut("ip"))
  /\ UNCHANGED <<dinode, slot, reg, calls, panic, buried, strayed>>

(* The new inode gets its link, its "." and "..", and its name.               *)
CreateFill(p) ==
  LET c == Now(p).c
      i == Of(p, "ip").inum
      d == Of(p, "dp").inum
      n == IF c.op = "mkdir" THEN 1 ELSE 0 IN
  /\ At(p, "fill")
  /\ dinode' = [dinode EXCEPT ![i].nlink = 1, ![i].dotdot = d * n,
                              ![d].nlink = @ + n, ![d].ents[LastOf(c)] = i]
  /\ buried' = IF dinode[d].nlink = 0 THEN buried \cup {i, d} ELSE buried
  /\ Then(p, UnlockPut("dp") \o IF c.op = "mkdir" THEN UnlockPut("ip") ELSE <<OnIp("opened")>>)
  /\ UNCHANGED <<slot, reg, calls, panic, strayed>>

Opened(p) ==
  /\ At(p, "opened")
  /\ slot' = [slot EXCEPT ![reg[p]["ip"]].lock = {}]
  /\ reg' = [reg EXCEPT ![p]["fd"] = reg[p]["ip"], ![p]["ip"] = 0]
  /\ Then(p, <<>>)
  /\ UNCHANGED <<dinode, calls, panic, buried, strayed>>

(* sys_chdir(), with the new directory locked.                                *)
ChdirTo(p) ==
  /\ At(p, "chdir")
  /\ IF InodeIn(p, "ip").type # "dir" THEN Then(p, UnlockPut("ip")) /\ UNCHANGED <<slot, reg>>
     ELSE /\ slot' = [slot EXCEPT ![reg[p]["ip"]].lock = {}]
          /\ reg' = [reg EXCEPT ![p]["old"] = reg[p]["cwd"], ![p]["cwd"] = reg[p]["ip"],
                                ![p]["ip"] = 0]
          /\ Then(p, Put("old"))
  /\ UNCHANGED <<dinode, calls, panic, buried, strayed>>

(* sys_link(), with the file locked, then with the directory locked.          *)
LinkFile(p) ==
  LET c == [op |-> "link", path |-> Now(p).c] IN
  /\ At(p, "link")
  /\ IF InodeIn(p, "ip").type = "dir" THEN Then(p, UnlockPut("ip")) /\ UNCHANGED dinode
     ELSE /\ dinode' = [dinode EXCEPT ![Of(p, "ip").inum].nlink = @ + 1]
          /\ Then(p, <<Unlock("ip"), Parent(c, Bad), Lock("dp"), [do |-> "name", r |-> "dp", c |-> c]>>)
  /\ UNCHANGED <<slot, reg, calls, panic, buried, strayed>>

(* dirlink() in sys_link(): a name that is taken is looked up and put back    *)
(* with the directory locked.                                                 *)
LinkName(p) ==
  LET name  == LastOf(Now(p).c)
      d     == Of(p, "dp").inum
      found == Lookup(InodeIn(p, "dp"), d, name) IN
  /\ At(p, "name")
  /\ IF found # 0
     THEN /\ Iget(found)
          /\ SetReg(p, "old", IgetSlot(found))
          /\ Becomes(p, Put("old") \o UnlockPut("dp") \o Bad)
          /\ Strays(InodeIn(p, "dp"), name)
          /\ UNCHANGED <<dinode, buried>>
     ELSE /\ dinode' = [dinode EXCEPT ![d].ents[name] = Of(p, "ip").inum]
          /\ buried' = IF dinode[d].nlink = 0 THEN buried \cup {d, Of(p, "ip").inum} ELSE buried
          /\ Becomes(p, UnlockPut("dp") \o Put("ip"))
          /\ UNCHANGED <<slot, reg, panic, strayed>>
  /\ UNCHANGED calls

(* sys_unlink(), with the directory locked, then with the inode locked too.   *)
UnlinkName(p) ==
  LET name  == LastOf(Now(p).c)
      found == Lookup(InodeIn(p, "dp"), Of(p, "dp").inum, name) IN
  /\ At(p, "unlink")
  /\ IF name \in {".", ".."} \/ found = 0
     THEN Then(p, UnlockPut("dp")) /\ UNCHANGED <<slot, reg, panic>>
     ELSE /\ Iget(found)
          /\ SetReg(p, "ip", IgetSlot(found))
          /\ Then(p, <<Lock("ip"), [Now(p) EXCEPT !.do = "erase"]>>)
  /\ UNCHANGED <<dinode, calls, buried, strayed>>

DirEmpty(ip) == \A n \in Name : ip.ents[n] = 0

UnlinkErase(p) ==
  LET ip == InodeIn(p, "ip")
      d  == Of(p, "dp").inum IN
  /\ At(p, "erase")
  /\ IF ip.nlink < 1 THEN panic' = "unlink: nlink < 1" /\ UNCHANGED <<dinode, todo>>
     ELSE IF ip.type = "dir" /\ ~DirEmpty(ip)
     THEN Then(p, UnlockPut("ip") \o UnlockPut("dp")) /\ UNCHANGED <<dinode, panic>>
     ELSE /\ dinode' = [dinode EXCEPT ![d].ents[LastOf(Now(p).c)] = 0,
                                      ![d].nlink = @ - IF ip.type = "dir" THEN 1 ELSE 0]
          /\ Then(p, UnlockPut("dp") \o <<OnIp("unlink1")>> \o UnlockPut("ip"))
          /\ UNCHANGED panic
  /\ UNCHANGED <<slot, reg, calls, buried, strayed>>

(* ip->nlink--, of sys_unlink() and of the error path of sys_link().          *)
CountDown(p) ==
  /\ At(p, "unlink1")
  /\ dinode' = [dinode EXCEPT ![Of(p, "ip").inum].nlink = @ - 1]
  /\ Then(p, <<>>)
  /\ UNCHANGED <<slot, reg, calls, panic, buried, strayed>>

-----------------------------------------------------------------------------

CallStep(p) ==
  \/ Ilock(p) \/ Iunlock(p) \/ IputLook(p) \/ IputFree(p) \/ IputDrop(p)
  \/ WalkStart(p) \/ WalkElem(p)
  \/ Create(p) \/ CreateFound(p) \/ CreateFill(p) \/ Opened(p) \/ ChdirTo(p)
  \/ LinkFile(p) \/ LinkName(p) \/ UnlinkName(p) \/ UnlinkErase(p) \/ CountDown(p)

Done == (panic # "no" \/ \A p \in Caller : todo[p] = <<>> /\ calls[p] = 0) /\ UNCHANGED nameVars

NamesNext == (\E p \in Caller : Call(p) \/ CallStep(p)) \/ Done

NamesSpec == NamesInit /\ [][NamesNext]_nameVars

-----------------------------------------------------------------------------

AtRest    == panic = "no" /\ \A p \in Caller : todo[p] = <<>>
Holders(s) == {pr \in Caller \X Register : reg[pr[1]][pr[2]] = s}
NamesOf(i)  == {dn \in Ino \X Name : dinode[dn[1]].type = "dir" /\ dinode[dn[1]].ents[dn[2]] = i}
SubdirsOf(i) == {n \in Name : dinode[i].ents[n] # 0 /\ dinode[dinode[i].ents[n]].type = "dir"}

(* Slots and inodes have the fields of struct inode; a lock has one holder,   *)
(* which holds a reference.                                                   *)
NamesTypeOK ==
  /\ \A s \in CacheSlot : slot[s].inum \in Ino \cup {0} /\ slot[s].ref \in Nat
                     /\ Cardinality(slot[s].lock) <= 1
  /\ \A s \in CacheSlot : \A p \in slot[s].lock : \E r \in Register : reg[p][r] = s
  /\ \A i \in Ino : dinode[i].nlink \in Nat

(* ip->ref is the number of references processes hold, in the middle of calls *)
(* and on every error path: a reference too few recycles a slot in use, one   *)
(* too many never gives it back (iget, iput, namex, and all of sysfile.c).    *)
RefCounts == \A s \in CacheSlot : slot[s].ref = Cardinality(Holders(s))

(* An inode in use has one slot, so that its lock is one lock (iget).         *)
OneSlot ==
  \A s, t \in CacheSlot :
    s # t /\ slot[s].ref > 0 /\ slot[t].ref > 0 => slot[s].inum # slot[t].inum

(* An open file, a working directory and every inode that was read since it   *)
(* was last free are allocated: iput() frees nothing that anyone can reach.   *)
InUseAllocated ==
  \A s \in CacheSlot :
    /\ slot[s].ref > 0 /\ panic = "no"
    /\ slot[s].valid \/ \E p \in Caller : s \in {reg[p]["fd"], reg[p]["cwd"]}
    => dinode[slot[s].inum].type # "none"

(* Between calls the link count of an inode is its names, and the ".." of its *)
(* subdirectories: the calls that count up and down at different moments, one *)
(* of which may fail, meet in the middle (sys_link, sys_unlink, create).      *)
LinksAtRest ==
  AtRest => \A i \in Ino \ buried : dinode[i].type # "none" =>
    dinode[i].nlink = Cardinality(NamesOf(i)) + Cardinality(SubdirsOf(i))
                      + (IF i = ROOT THEN 1 ELSE 0)

(* No set of processes wait for sleep locks held within the set: directories  *)
(* are locked from the root down, and namex() holds one lock at a time.       *)
WaitsFor(p, q) ==
  /\ todo[p] # <<>> /\ Head(todo[p]).do \in {"lock", "put"}
  /\ q \in slot[reg[p][Head(todo[p]).r]].lock

NoDeadlock ==
  panic = "no" => \A S \in SUBSET Caller \ {{}} : \E p \in S : \A q \in S : ~WaitsFor(p, q)

(* No panic: no call locks an unallocated inode or removes a name of an inode *)
(* without links, and the cache is large enough for what the calls hold.      *)
NoPanic == panic = "no"

(* If an iput() drops the last reference and the inode has no links to it, it *)
(* frees the inode (comment of iput, fs.c:327-328).                           *)
LastPutFrees ==
  AtRest => \A i \in Ino \ buried :
    dinode[i].type # "none" /\ dinode[i].nlink = 0 =>
      \E s \in CacheSlot : slot[s].inum = i /\ slot[s].ref > 0

(* When iput() frees an inode, nobody has got a reference to it since it saw  *)
(* that there was no other, unless through the ".." of a removed directory.   *)
FreedAlone ==
  [][\A i \in Ino : ~strayed /\ dinode[i].type # "none" /\ dinode'[i].type = "none" =>
       \A s \in Cached(i) : slot[s].ref = 1]_nameVars

(* References, slots, link counts and inodes agree at every step of every     *)
(* call, and none of the assertions on them fails, as long as no path went    *)
(* through the ".." of a directory that was removed: then ilock() may panic   *)
(* (fs.c:309).  References and slots agree even so.                           *)
NamesSound ==
  /\ NamesTypeOK /\ RefCounts /\ OneSlot
  /\ ~strayed => InUseAllocated /\ LinksAtRest /\ NoPanic

=============================================================================
