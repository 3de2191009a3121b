------------------------------- MODULE FsTests -------------------------------
(* Programs that exercise the file system calls, on Fs: the file tests of     *)
(* usertests.c, other user programs, and what the shell does for redirections *)
(* and pipes.  A program is a sequence of steps; a step is a call and what    *)
(* the program requires of its result.  Sizes are scaled with the disk; loops *)
(* are shorter.  The other way to run is any call of any process at any time. *)
EXTENDS Fs, Mkfs

CONSTANTS Tests,    \* the programs to run, "any" for any calls
          TestDisk, \* the disk the programs start on, one of Disks
          AnyProc,  \* bounds: the processes that make any calls,
          AnyFd     \* and the descriptors all of them together have open

VARIABLES script, \* per process: the steps it has left
          due,    \* per process: what its last step requires
          any     \* whether the processes make any calls in place of a script

testVars == <<vars, script, due, any>>

-----------------------------------------------------------------------------
(* Steps *)

MANY      == 99
Step(c, least, most, data) ==
  [call |-> c, least |-> least, most |-> most, data |-> data, child |-> <<>>]
Ok(c)     == Step(c, 0, MANY, {})
No(c)     == Step(c, -1, -1, {})
Try(c)    == Step(c, -1, MANY, {})
Is(c, n)  == Step(c, n, n, {})

Open(path, mode) == [op |-> "open", path |-> path, mode |-> mode]
RDONLY == {}
WRONLY == {"wronly"}
RDWR   == {"rdwr"}
CREATE == {"create"}
Mkdir(path)     == [op |-> "mkdir", path |-> path]
Mknod(path)     == [op |-> "mknod", path |-> path]
Chdir(path)     == [op |-> "chdir", path |-> path]
Link(path, new) == [op |-> "link", path |-> path, new |-> new]
Unlink(path)    == [op |-> "unlink", path |-> path]
Close(fd)       == [op |-> "close", fd |-> fd]
Dup(fd)         == [op |-> "dup", fd |-> fd]
Pipe            == [op |-> "pipe"]
Fstat(fd)       == [op |-> "fstat", fd |-> fd]
Forks(child)    == [Ok([op |-> "fork"]) EXCEPT !.child = child \o <<Try([op |-> "exit"])>>]
Wait            == Try([op |-> "wait"])
Writes(fd, u)   == Is([op |-> "write", fd |-> fd, data |-> u], Len(u))
Reads(fd, n, u) == Step([op |-> "read", fd |-> fd, n |-> n], Len(u), Len(u), {u})
ReadsN(fd, n, k) == Is([op |-> "read", fd |-> fd, n |-> n], k)

Units(x, n) == [k \in 1..n |-> x]
Root        == <<"/">>
Loop(n, Body(_)) == FlattenSeq([i \in 1..n |-> Body(i)])

-----------------------------------------------------------------------------
(* usertests.c *)

iputtest == <<Ok(Mkdir(<<"iputdir">>)), Ok(Chdir(<<"iputdir">>)),
              Ok(Unlink(<<"..", "iputdir">>)), Ok(Chdir(Root))>>

exitiputtest ==
  <<Forks(<<Ok(Mkdir(<<"iputdir">>)), Ok(Chdir(<<"iputdir">>)), Ok(Unlink(<<"..", "iputdir">>))>>),
    Wait>>

openiputtest ==
  <<Ok(Mkdir(<<"oidir">>)), Forks(<<No(Open(<<"oidir">>, RDWR))>>), Ok(Unlink(<<"oidir">>)), Wait>>

opentest == <<Ok(Open(<<"echo">>, RDONLY)), Ok(Close(0)), No(Open(<<"doesnotexist">>, RDONLY))>>

writetest ==
  <<Ok(Open(<<"small">>, CREATE \cup RDWR))>>
  \o Loop(3, LAMBDA i : <<Writes(0, Units("a", 2)), Writes(0, Units("b", 2))>>)
  \o <<Ok(Close(0)), Ok(Open(<<"small">>, RDONLY)), ReadsN(0, 12, 12), Ok(Close(0)),
       Ok(Unlink(<<"small">>))>>

(* A file of MAXFILE blocks, written and read a block at a time.              *)
writetest1 ==
  <<Ok(Open(<<"big">>, CREATE \cup RDWR))>>
  \o Loop(MAXFILE, LAMBDA i : <<Writes(0, Units(i, BSIZE))>>)
  \o <<Ok(Close(0)), Ok(Open(<<"big">>, RDONLY))>>
  \o Loop(MAXFILE, LAMBDA i : <<Reads(0, BSIZE, Units(i, BSIZE))>>)
  \o <<Reads(0, BSIZE, <<>>), Ok(Close(0)), Ok(Unlink(<<"big">>))>>

Numbered == <<"0", "1", "2", "3">>

createtest ==
  Loop(4, LAMBDA i : <<Try(Open(<<"a" \o Numbered[i]>>, CREATE \cup RDWR)), Try(Close(0))>>)
  \o Loop(4, LAMBDA i : <<Try(Unlink(<<"a" \o Numbered[i]>>))>>)

dirtest == <<Ok(Mkdir(<<"dir0">>)), Ok(Chdir(<<"dir0">>)), Ok(Chdir(<<"..">>)), Ok(Unlink(<<"dir0">>))>>

(* Parent and child write through one descriptor; both find all they wrote.   *)
sharedfd ==
  LET write(x) == Loop(2, LAMBDA i : <<Writes(0, Units(x, 2))>>)
      mix == {u \in [1..8 -> {"c", "p"}] : Cardinality({k \in 1..8 : u[k] = "c"}) = 4} IN
  <<Try(Unlink(<<"sharedfd">>)), Ok(Open(<<"sharedfd">>, CREATE \cup RDWR)), Forks(write("c"))>>
  \o write("p")
  \o <<Wait, Ok(Close(0)), Ok(Open(<<"sharedfd">>, RDONLY)),
       Step([op |-> "read", fd |-> 0, n |-> 10], 8, 8, mix), Ok(Close(0)), Try(Unlink(<<"sharedfd">>))>>

(* Processes write different files at the same time.                          *)
fourfiles ==
  LET Name(i) == <<"f" \o Numbered[i]>> IN
  Loop(2, LAMBDA i :
    <<Try(Unlink(Name(i))),
      Forks(<<Ok(Open(Name(i), CREATE \cup RDWR)), Writes(0, Units(i, 3)), Writes(0, Units(i, 3))>>)>>)
  \o <<Wait>>
  \o Loop(2, LAMBDA i :
    <<Ok(Open(Name(i), RDONLY)), Reads(0, 9, Units(i, 6)), Ok(Close(0)), Try(Unlink(Name(i)))>>)

(* Processes create and delete different files in the same directory.         *)
createdelete ==
  LET Name(pi, i) == <<pi \o Numbered[i]>>
      create(pi, i) == <<Ok(Open(Name(pi, i), CREATE \cup RDWR)), Ok(Close(0))>>
      child(pi) == create(pi, 1) \o create(pi, 2) \o <<Ok(Unlink(Name(pi, 2)))>> IN
  <<Forks(child("p")), Forks(child("q")), Wait>>
  \o Loop(2, LAMBDA k : LET pi == <<"p", "q">>[k] IN
       <<Ok(Open(Name(pi, 1), RDONLY)), Ok(Close(0)), No(Open(Name(pi, 2), RDONLY)), Try(Unlink(Name(pi, 1)))>>)

unlinkread ==
  LET f == <<"unlinkread">>
      hello == <<"h", "e", "l", "l", "o">> IN
  <<Ok(Open(f, CREATE \cup RDWR)), Writes(0, hello), Ok(Close(0)),
    Ok(Open(f, RDWR)), Ok(Unlink(f)),
    Ok(Open(f, CREATE \cup RDWR)), Writes(1, Units("y", 3)), Ok(Close(1)),
    Reads(0, 20, hello), Writes(0, Units("h", 10)), Ok(Close(0)), Try(Unlink(f))>>

linktest ==
  LET lf1 == <<"lf1">>
      lf2 == <<"lf2">> IN
  <<Try(Unlink(lf1)), Try(Unlink(lf2)),
    Ok(Open(lf1, CREATE \cup RDWR)), Writes(0, Units("h", 5)), Ok(Close(0)),
    Ok(Link(lf1, lf2)), Try(Unlink(lf1)), No(Open(lf1, RDONLY)),
    Ok(Open(lf2, RDONLY)), ReadsN(0, 20, 5), Ok(Close(0)),
    No(Link(lf2, lf2)), Try(Unlink(lf2)), No(Link(lf2, lf1)), No(Link(<<".">>, lf1))>>

(* Parent and child create, link and unlink the same names; then the parent   *)
(* finds each name once in the directory.                                     *)
concreate ==
  LET C(i) == <<"C" \o Numbered[i]>>
      make(i) == <<Ok(Open(C(i), CREATE \cup RDWR)), Ok(Close(0))>>
      link(i) == <<Try(Link(C(1), C(i)))>>
      opens(i) == <<Try(Open(C(i), RDONLY)), Try(Close(0))>>
      unlinks(i) == <<Try(Unlink(C(i))), Try(Unlink(C(i)))>>
      listed == {<<Dirent("C0", i), Dirent("C1", j)>> : i, j \in Inum} IN
  <<Try(Unlink(C(1))), Forks(make(1))>> \o make(1) \o <<Wait, Try(Unlink(C(2))), Forks(link(2))>>
  \o link(2) \o <<Wait, Ok(Open(<<".">>, RDONLY)), ReadsN(0, 5, 5),
                Step([op |-> "read", fd |-> 0, n |-> 2], 2, 2, listed), Ok(Close(0))>>
  \o <<Forks(opens(1))>> \o unlinks(1) \o <<Wait, Forks(unlinks(2))>> \o opens(2) \o <<Wait>>

(* Create, link and unlink of one name by two processes at once.              *)
linkunlink ==
  LET x == <<"x">>
      create == <<Try(Open(x, RDWR \cup CREATE)), Try(Close(0))>>
      link   == <<Try(Link(<<"cat">>, x))>>
      unlink == <<Try(Unlink(x))>> IN
  <<Try(Unlink(x)), Forks(link \o unlink \o create \o unlink \o link)>>
  \o create \o link \o unlink \o create \o unlink \o <<Wait>>

(* A directory that uses its indirect block.                                  *)
bigdir ==
  LET x(i) == <<"x" \o ToString(i)>>
      n    == (NDIRECT + 1) * BSIZE IN
  <<Try(Unlink(<<"bd">>)), Ok(Open(<<"bd">>, CREATE)), Ok(Close(0))>>
  \o Loop(n, LAMBDA i : <<Ok(Link(<<"bd">>, x(i)))>>)
  \o <<Try(Unlink(<<"bd">>))>>
  \o Loop(n, LAMBDA i : <<Ok(Unlink(x(i)))>>)

(* subdir(), to the last unlink() that must succeed.                          *)
subdirBuild ==
  <<Try(Unlink(<<"ff">>)), Ok(Mkdir(<<"dd">>)),
    Ok(Open(<<"dd", "ff">>, CREATE \cup RDWR)), Writes(0, <<"f", "f">>), Ok(Close(0)),
    No(Unlink(<<"dd">>)), Ok(Mkdir(<<"/", "dd", "dd">>)),
    Ok(Open(<<"dd", "dd", "ff">>, CREATE \cup RDWR)), Writes(0, <<"F", "F">>), Ok(Close(0)),
    Ok(Open(<<"dd", "dd", "..", "ff">>, RDONLY)), Reads(0, 20, <<"f", "f">>), Ok(Close(0)),
    Ok(Link(<<"dd", "dd", "ff">>, <<"dd", "dd", "ffff">>)), Ok(Unlink(<<"dd", "dd", "ff">>)),
    No(Open(<<"dd", "dd", "ff">>, RDONLY))>>

subdirWalk ==
  <<Ok(Chdir(<<"dd">>)), Ok(Chdir(<<"dd", "..", "..", "dd">>)),
    Ok(Chdir(<<"dd", "..", "..", "..", "dd">>)), Ok(Chdir(<<".", "..">>)),
    Ok(Open(<<"dd", "dd", "ffff">>, RDONLY)), ReadsN(0, 20, 2), Ok(Close(0))>>

subdirErrors ==
  LET no(d) == <<"dd", d, "ff">>
      create == CREATE \cup RDWR IN
  <<No(Open(<<"dd", "dd", "ff">>, RDONLY)), No(Open(no("ff"), create)), No(Open(no("xx"), create)),
    No(Open(<<"dd">>, CREATE)), No(Open(<<"dd">>, RDWR)), No(Open(<<"dd">>, WRONLY)),
    No(Link(no("ff"), <<"dd", "dd", "xx">>)), No(Link(no("xx"), <<"dd", "dd", "xx">>)),
    No(Link(<<"dd", "ff">>, <<"dd", "dd", "ffff">>)),
    No(Mkdir(no("ff"))), No(Mkdir(no("xx"))), No(Mkdir(<<"dd", "dd", "ffff">>)),
    No(Unlink(no("xx"))), No(Unlink(no("ff"))), No(Chdir(<<"dd", "ff">>)), No(Chdir(<<"dd", "xx">>)),
    Ok(Unlink(<<"dd", "dd", "ffff">>)), Ok(Unlink(<<"dd", "ff">>)), No(Unlink(<<"dd">>)),
    Ok(Unlink(<<"dd", "dd">>)), Ok(Unlink(<<"dd">>))>>

subdir == subdirBuild \o subdirWalk \o subdirErrors

(* Writes longer than a transaction.                                          *)
bigwrite ==
  LET f == <<"bigwrite">>
      size(i) == <<3, 7, 11>>[i] IN
  <<Try(Unlink(f))>>
  \o Loop(3, LAMBDA i : <<Ok(Open(f, CREATE \cup RDWR)), Writes(0, Units("w", size(i))),
                          Writes(0, Units("w", size(i))), Ok(Close(0)), Try(Unlink(f))>>)

bigfile ==
  LET f == <<"bigfile">> IN
  <<Try(Unlink(f)), Ok(Open(f, CREATE \cup RDWR))>>
  \o Loop(3, LAMBDA i : <<Writes(0, Units(i, 6))>>)
  \o <<Ok(Close(0)), Ok(Open(f, RDONLY))>>
  \o Loop(3, LAMBDA i : <<Reads(0, 3, Units(i, 3)), Reads(0, 3, Units(i, 3))>>)
  \o <<Reads(0, 3, <<>>), Ok(Close(0)), Try(Unlink(f))>>

fourteen ==
  LET a == "12345678901234"
      b == "123456789012345" IN
  <<Ok(Mkdir(<<a>>)), Ok(Mkdir(<<a, b>>)), Ok(Open(<<b, b, b>>, CREATE)), Ok(Close(0)),
    Ok(Open(<<a, a, a>>, RDONLY)), Ok(Close(0)), No(Mkdir(<<a, a>>)), No(Mkdir(<<b, a>>))>>

rmdot ==
  <<Ok(Mkdir(<<"dots">>)), Ok(Chdir(<<"dots">>)), No(Unlink(<<".">>)), No(Unlink(<<"..">>)),
    Ok(Chdir(Root)), No(Unlink(<<"dots", ".">>)), No(Unlink(<<"dots", "..">>)), Ok(Unlink(<<"dots">>))>>

dirfile ==
  LET xx == <<"dirfile", "xx">> IN
  <<Ok(Open(<<"dirfile">>, CREATE)), Ok(Close(0)), No(Chdir(<<"dirfile">>)), No(Open(xx, RDONLY)),
    No(Open(xx, CREATE)), No(Mkdir(xx)), No(Unlink(xx)), No(Link(<<"README">>, xx)),
    Ok(Unlink(<<"dirfile">>)), No(Open(<<".">>, RDWR)), Ok(Open(<<".">>, RDONLY)),
    No([op |-> "write", fd |-> 0, data |-> <<"x">>]), Ok(Close(0))>>

iref ==
  Loop(2, LAMBDA i :
    <<Ok(Mkdir(<<"irefd">>)), Ok(Chdir(<<"irefd">>)), Try(Mkdir(<<>>)), Try(Link(<<"README">>, <<>>)),
      No(Open(<<>>, CREATE)), Ok(Open(<<"xx">>, CREATE)), Try(Close(0)), Try(Unlink(<<"xx">>))>>)
  \o <<Try(Chdir(Root))>>

-----------------------------------------------------------------------------
(* Other programs *)

(* init.c: the console, which becomes descriptors 0, 1 and 2.                 *)
init == <<No(Open(<<"console">>, RDWR)), Ok(Mknod(<<"console">>)), Is(Open(<<"console">>, RDWR), 0),
          Is(Dup(0), 1), Is(Dup(0), 2)>>

(* stressfs.c: every process writes a file of its own, then reads it.         *)
stressfs ==
  LET f(i) == <<"stressfs" \o Numbered[i]>>
      body(i) == <<Ok(Open(f(i), CREATE \cup RDWR)), Writes(0, Units(i, 2)), Ok(Close(0)),
                   Ok(Open(f(i), RDONLY)), Reads(0, 2, Units(i, 2)), Ok(Close(0))>> IN
  <<Forks(body(1))>> \o body(2) \o <<Wait>>

(* sh.c, case REDIR: the file takes the place of the descriptor.              *)
redirect ==
  <<Ok(Open(<<"echo">>, RDONLY)), Is(Dup(0), 1)>>
  \o <<Forks(<<Ok(Close(1)), Is(Open(<<"out">>, WRONLY \cup CREATE), 1), Writes(1, <<"h", "i">>)>>),
       Wait, Is(Open(<<"out">>, RDONLY), 2), Reads(2, 9, <<"h", "i">>)>>

(* sh.c, case PIPE: close, dup and close in each child, both ends closed in   *)
(* the shell.                                                                 *)
pipeline ==
  <<Ok(Open(<<"echo">>, RDONLY)), Is(Dup(0), 1), Ok(Pipe),
    Forks(<<Ok(Close(1)), Is(Dup(3), 1), Ok(Close(2)), Ok(Close(3))>>),
    Forks(<<Ok(Close(0)), Is(Dup(2), 0), Ok(Close(2)), Ok(Close(3))>>),
    Ok(Close(2)), Ok(Close(3)), Wait>>

Programs ==
  [iputtest |-> iputtest, exitiputtest |-> exitiputtest, openiputtest |-> openiputtest,
   opentest |-> opentest, writetest |-> writetest, writetest1 |-> writetest1,
   createtest |-> createtest, dirtest |-> dirtest, sharedfd |-> sharedfd, fourfiles |-> fourfiles,
   createdelete |-> createdelete, unlinkread |-> unlinkread, linktest |-> linktest,
   concreate |-> concreate, linkunlink |-> linkunlink, bigdir |-> bigdir, subdir |-> subdir,
   bigwrite |-> bigwrite, bigfile |-> bigfile, fourteen |-> fourteen, rmdot |-> rmdot,
   dirfile |-> dirfile, iref |-> iref, init |-> init, stressfs |-> stressfs,
   redirect |-> redirect, pipeline |-> pipeline]

-----------------------------------------------------------------------------

TestInit ==
  /\ Init
  /\ \E t \in Tests :
       /\ any = (t = "any")
       /\ disk = TestDisk <=> ~any
       /\ ret.p = 0 <=> any
       /\ script = [p \in Proc |-> IF t # "any" /\ p = InitProc THEN Programs[t] ELSE <<>>]
  /\ due = [p \in Proc |-> Try([op |-> "nothing"])]

(* Process p makes its next call; a new process starts on its own steps.      *)
Goes(p) ==
  LET s == Head(script[p]) IN
  /\ script[p] # <<>>
  /\ due' = [due EXCEPT ![p] = s]
  /\ \/ s.call.op = "wait" /\ Absent = Proc \ {p} /\ UNCHANGED vars
     \/ Do(p, s.call)
  /\ script' = [q \in Proc |-> IF q = p THEN Tail(script[p])
                               ELSE IF cwd'[q] # 0 /\ cwd[q] = 0 THEN s.child ELSE script[q]]
  /\ UNCHANGED any

InBounds ==
  /\ \A p \in Proc \ AnyProc : cwd[p] = 0
  /\ Cardinality({pf \in Proc \X Fd : ofile[pf[1]][pf[2]] # 0}) <= AnyFd

TestNext ==
  \/ ~any /\ \E p \in Proc : Goes(p)
  \/ ~any /\ (\E p \in Proc : WriteTxn(p) \/ ExitStep(p)) /\ UNCHANGED <<script, due, any>>
  \/ ~any /\ (\E i \in Inum : OthersIput(i)) /\ UNCHANGED <<script, due, any>>
  \/ any /\ Next /\ InBounds' /\ UNCHANGED <<script, due, any>>
  \/ ~any /\ (\A p \in Proc : script[p] = <<>> /\ busy[p] = Idle) /\ UNCHANGED testVars

TestSpec == TestInit /\ [][TestNext]_testVars

(* Every call of a test returns what the test requires, with the data it      *)
(* requires: the checks of usertests.c, whatever the order of its processes.  *)
TestsPass ==
  ~any /\ busy[ret.p] = Idle =>
    /\ ret.n \in due[ret.p].least..due[ret.p].most
    /\ due[ret.p].data # {} => ret.data \in due[ret.p].data

=============================================================================
