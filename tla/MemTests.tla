------------------------------ MODULE MemTests ------------------------------
(* The memory tests of usertests.c as programs over Memory.  The first        *)
(* process starts a test in place of init, and it forks the others.  A        *)
(* program is a sequence of steps: a call with the results its C code         *)
(* accepts, or a comparison of sbrk(0).  Sizes are scaled with the memory.    *)
EXTENDS Memory, SequencesExt

CONSTANTS MemTestNames,  \* the tests to run
          Big            \* the size that sbrktest and mem grow to

VARIABLES
  script,  \* processes: the steps left
  due,     \* processes: the least and the greatest result the last step accepts
  mark,    \* processes: the variables a and oldbrk of the test
  victims   \* the processes that kill() was called for

memTestVars == <<script, due, mark, victims>>

-----------------------------------------------------------------------------
(* Steps                                                                      *)
TestStep(op, n, least, most) == [op |-> op, n |-> n, least |-> least, most |-> most, child |-> <<>>]
Anything      == [least |-> -1, most |-> Cardinality(MProc)]
Do(op, n)     == TestStep(op, n, Anything.least, Anything.most)
Ok(op, n)     == TestStep(op, n, 0, Anything.most)
No(op, n)     == TestStep(op, n, -1, -1)
ForksWith(s, child) == [s EXCEPT !.child = child \o <<Do("exit", 0)>>]
Forks(child)  == ForksWith(Ok("fork", 0), child)
WaitAny          == Do("wait", 0)
Repeat(n, body) == FlattenSeq([i \in 1..n |-> body])

(* "mark": a = sbrk(0); "is": sbrk(0) - a is n; "to": sbrk() that makes the   *)
(* size n; "back": sbrk(-(sbrk(0) - oldbrk)).                                 *)
Bytes     == <<Do("mark", 0), Ok("sbrk", 1), Do("is", 1)>>
TwoBytes  == <<Do("mark", 0), Ok("sbrk", 1), Ok("sbrk", 1), Do("is", 2)>>
GrowBig   == <<Ok("to", Big)>>
PageOut   == <<Do("mark", 0), Ok("sbrk", -PGSIZE), Do("is", -PGSIZE)>>
PageIn    == <<Do("mark", 0), Ok("sbrk", PGSIZE), Do("is", PGSIZE)>>
ReadsKernel == <<Do("fault", 0)>>
Hoards    == <<Do("to", Big), Do("sit", 0)>>

sbrktest ==
  <<Do("oldbrk", 0)>> \o Repeat(3, Bytes) \o <<Forks(TwoBytes)>> \o TwoBytes \o <<WaitAny>>
  \o GrowBig \o PageOut \o PageIn \o <<Ok("back", 0)>>
  \o Repeat(2, <<Forks(ReadsKernel), WaitAny>>)
  \o Repeat(2, <<ForksWith(Do("fork", 0), Hoards), Do("read", 0)>>)
  \o <<Ok("sbrk", PGSIZE), Do("kill", 0), WaitAny, WaitAny, Ok("back", 0)>>

mem == <<Forks(Repeat(6, <<Do("sbrk", 2 * PGSIZE)>>)), WaitAny>>

forktest ==
  Repeat(2, <<Forks(<<>>)>>) \o <<ForksWith(No("fork", 0), <<>>)>> \o <<WaitAny, WaitAny, Do("nochild", 0)>>

bigargtest == <<Forks(<<No("exec", PGSIZE + 1)>>), WaitAny>>

exectest == <<Ok("exec", 1)>>

validatetest == <<Forks(<<Do("fetch", 0)>>), Do("kill", 0), WaitAny, Do("fetch", 0)>>

ProgramOf ==
  [sbrktest |-> sbrktest, mem |-> mem, forktest |-> forktest, bigargtest |-> bigargtest,
   exectest |-> exectest, validatetest |-> validatetest]

-----------------------------------------------------------------------------

ScriptOf(t) == [p \in MProc |-> IF p = FirstProc THEN <<Ok("exec", 1)>> \o ProgramOf[t] ELSE <<>>]

MemTestInit ==
  /\ MemInit
  /\ script \in {ScriptOf(t) : t \in MemTestNames}
  /\ due = [p \in MProc |-> Anything]
  /\ mark = [p \in MProc |-> [a |-> 0, oldbrk |-> 0]]
  /\ victims = {}

Others     == MProc \ {FirstProc}
Ready(p)   == panic = "" /\ proc[p].state = "user" /\ script[p] # <<>> /\ p \notin victims
AtStep(p, op) == Ready(p) /\ Head(script[p]).op = op
Arg(p)       == Head(script[p]).n
Moves(p)   ==
  /\ script' = [script EXCEPT ![p] = Tail(@)]
  /\ due' = [due EXCEPT ![p] = [least |-> Head(script[p]).least, most |-> Head(script[p]).most]]
Still      == UNCHANGED memVars

(* The amount of a call of sbrk().                                            *)
Amount(p) ==
  CASE Head(script[p]).op = "sbrk" -> Arg(p)
    [] Head(script[p]).op = "to"   -> Arg(p) - proc[p].sz
    [] OTHER                       -> mark[p].oldbrk - proc[p].sz

CallsSbrk(p) ==
  /\ AtStep(p, "sbrk") \/ AtStep(p, "to") \/ AtStep(p, "back")
  /\ SbrkGrow(p, Amount(p)) \/ SbrkShrink(p, -Amount(p))
  /\ Moves(p)
  /\ UNCHANGED <<mark, victims>>

CallsExec(p) ==
  /\ AtStep(p, "exec")
  /\ Exec(p, InitFile, Arg(p))
  /\ Moves(p)
  /\ UNCHANGED <<mark, victims>>

(* The child gets its script when fork() has a place for it.                  *)
CallsFork(p) ==
  /\ AtStep(p, "fork")
  /\ Fork(p)
  /\ IF proc'[p].state = "call"
     THEN LET q == proc'[p].do.q IN
          /\ script' = [script EXCEPT ![p] = Tail(@), ![q] = Head(script[p]).child]
          /\ mark' = [mark EXCEPT ![q] = mark[p]]
          /\ due' = [due EXCEPT ![p] = [least |-> Head(script[p]).least, most |-> Head(script[p]).most],
                                ![q] = Anything]
     ELSE Moves(p) /\ UNCHANGED mark
  /\ UNCHANGED victims

CallsFetch(p) == AtStep(p, "fetch") /\ Fetch(p, Arg(p)) /\ Moves(p) /\ UNCHANGED <<mark, victims>>

CallsWait(p) ==
  /\ AtStep(p, "wait")
  /\ \/ \E q \in Others : Reap(p, q) /\ victims' = victims \ {q}
     \/ (\A q \in Others : proc[q].state = "unused") /\ Still /\ UNCHANGED victims
  /\ Moves(p)
  /\ UNCHANGED mark

(* exit(), a fault, and the end of a process that was killed.                 *)
Ends(p) ==
  /\ AtStep(p, "exit") \/ AtStep(p, "fault") \/ p \in victims
  /\ Exits(p)
  /\ UNCHANGED memTestVars

Remembers(p) ==
  /\ AtStep(p, "mark") \/ AtStep(p, "oldbrk")
  /\ mark' = [mark EXCEPT ![p] = IF Head(script[p]).op = "mark" THEN [@ EXCEPT !.a = proc[p].sz]
                                 ELSE [@ EXCEPT !.oldbrk = proc[p].sz]]
  /\ Moves(p)
  /\ Still /\ UNCHANGED victims

(* The byte of a child that sits around; a failed fork() sends none.          *)
SitsBy(q) == proc[q].state \notin {"unused", "zombie"} => proc[q].state = "user" /\ Head(script[q]).op = "sit"
Looks(p) ==
  /\ \/ AtStep(p, "is")
     \/ AtStep(p, "nochild")
     \/ AtStep(p, "read") /\ \A q \in Others : SitsBy(q)
  /\ Moves(p)
  /\ Still /\ UNCHANGED <<mark, victims>>

Kills(p) ==
  /\ AtStep(p, "kill")
  /\ victims' = {q \in Others : proc[q].state # "unused"}
  /\ Moves(p)
  /\ Still /\ UNCHANGED mark

MemTestNext ==
  \/ \E p \in MProc :
       \/ MemStep(p) /\ UNCHANGED memTestVars
       \/ CallsSbrk(p) \/ CallsExec(p) \/ CallsFork(p) \/ CallsFetch(p) \/ CallsWait(p)
       \/ Ends(p) \/ Remembers(p) \/ Looks(p) \/ Kills(p)
  \/ script[FirstProc] = <<>> /\ UNCHANGED <<memVars, memTestVars>>

-----------------------------------------------------------------------------

(* The tests pass: a call returns what the test accepts, and the size is what *)
(* it compares sbrk(0) with.                                                  *)
MemTestsPass ==
  \A p \in MProc :
    /\ proc[p].state = "user" => proc[p].ret \in due[p].least..due[p].most
    /\ AtStep(p, "is") => proc[p].sz = mark[p].a + Arg(p)
    /\ AtStep(p, "nochild") => \A q \in Others : proc[q].state = "unused"

=============================================================================
